----------------------------- MODULE LspRuntime -----------------------------
(***************************************************************************)
(* The concurrency skeleton every handler of the KCL language server runs  *)
(* on: one main thread that takes client messages and tasks one at a time  *)
(* (LanguageServerState::run, next_event, handle_event), an unbounded FIFO *)
(* channel through which worker threads hand work back to it               *)
(* (task_sender / task_receiver), and a thread pool with a FIFO job queue  *)
(* (thread_pool).                                                          *)
(*                                                                         *)
(* The client's message channel needs no variable: the order in which      *)
(* client actions are taken is the order in which messages arrive, and     *)
(* `select!` may serve a message before or after any queued task.          *)
(***************************************************************************)
EXTENDS Naturals, Sequences, FiniteSets

CONSTANT Workers        \* the threads of ThreadPool::default()

ASSUME WorkersAssumption == Workers # {} /\ IsFiniteSet(Workers)

VARIABLES
    tasks,              \* task_receiver: tasks sent and not yet handled
    pool,               \* the thread pool's queue of jobs nobody has started
    running,            \* running[w]: the job worker w executes, or Idle
    main                \* what the main thread does, a member of MainStates

runtimeVars == <<tasks, pool, running, main>>

\* "listening" is next_event; "closing" is the window inside didClose between
\* its two critical sections; "exited" and "panicked" are the end of run().
MainStates == {"listening", "closing", "exited", "panicked"}

\* The main thread is in next_event and may take a message or a task.
Listening == main = "listening"

\* The process still exists: only then do its worker threads make progress.
Alive == main \in {"listening", "closing"}

Idle == [kind |-> "idle"]

RuntimeInit ==
    /\ tasks = <<>>
    /\ running = [w \in Workers |-> Idle]
    /\ main = "listening"

\* The main thread receives task t: next_event's second select! arm.
Receive(t) ==
    /\ Listening
    /\ tasks # <<>>
    /\ Head(tasks) = t

\* An idle worker takes the oldest job of the pool.
StartJob(w) ==
    /\ Alive
    /\ running[w] = Idle
    /\ pool # <<>>
    /\ running' = [running EXCEPT ![w] = Head(pool)]
    /\ pool' = Tail(pool)
    /\ UNCHANGED <<tasks, main>>

\* The job of worker w is over, normally or by a panic: the pool replaces a
\* panicked thread, and the job is gone either way.
EndJob(w) == running' = [running EXCEPT ![w] = Idle]

\* The `exit` notification: run() returns and the process ends.
Exit ==
    /\ Listening
    /\ main' = "exited"
    /\ UNCHANGED <<tasks, pool, running>>

\* No task, job or handler is under way: nothing happens until the client
\* sends something.
Quiescent ==
    /\ Listening
    /\ tasks = <<>>
    /\ pool = <<>>
    /\ \A w \in Workers : running[w] = Idle
=============================================================================
