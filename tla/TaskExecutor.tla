--------------------------- MODULE TaskExecutor ---------------------------
(***************************************************************************)
(* compiler_base/parallel: TimeoutExecutor::run_all_tasks, the threads it  *)
(* starts, the channel they answer on, the one absolute deadline they      *)
(* share and the notifier that hears of their events.                      *)
(*                                                                         *)
(* Task ids are unique (the documentation of TaskId asks for it), and a    *)
(* task sends at most one result and unwraps the send, as the tasks of the *)
(* documentation do.  Both constructors set the timeout to an Instant, so  *)
(* the deadlines of all tasks are one moment and the clock is the question *)
(* whether it has passed.                                                  *)
(***************************************************************************)
EXTENDS Naturals, Sequences, FiniteSets

CONSTANTS
    TaskList,       \* the tasks given to run_all_tasks, in order
    Capacity,       \* thread_count of the constructor
    MayDie,         \* tasks that may panic before they send their result
    NotifierFails   \* may notify_what_happened return an error?

Tasks == {TaskList[i] : i \in 1..Len(TaskList)}

ASSUME TaskListAssumption ==
    /\ TaskList \in Seq(Tasks)
    /\ \A i, j \in 1..Len(TaskList) : TaskList[i] = TaskList[j] => i = j
ASSUME CapacityAssumption == Capacity \in Nat \ {0}
ASSUME MayDieAssumption == MayDie \subseteq Tasks
ASSUME NotifierAssumption == NotifierFails \in BOOLEAN

VARIABLES
    waiting_tasks,   \* tasks not started yet
    running_tasks,   \* ids of the started tasks whose result was not taken
    timeout_queue,   \* started tasks whose deadline was not seen to pass
    channel,         \* results sent and not received
    res,             \* the result just received, or NoResult
    step,            \* where run_all_tasks stands
    outcome,         \* what it returned, or "running"
    thread,          \* thread[t]: the thread of task t
    expired,         \* has the deadline passed?
    report           \* report[t]: the last event notified of t

waitVars == <<waiting_tasks, running_tasks, timeout_queue>>
execVars == <<waiting_tasks, running_tasks, timeout_queue, channel, res, step,
              outcome, thread, expired, report>>

NoResult == [task |-> "none", status |-> "Waiting"]
TaskStatus == {"Finished", "Failed", "Bug"}
Results == [task : Tasks, status : TaskStatus] \cup {NoResult}
Outcomes == {"running", "ok", "error", "bug"}

ExecutorStart ==
    /\ waiting_tasks = TaskList
    /\ running_tasks = {}
    /\ timeout_queue = <<>>
    /\ channel = <<>>
    /\ res = NoResult
    /\ step = "load"
    /\ outcome = "running"
    /\ thread = [t \in Tasks |-> "none"]
    /\ expired \in BOOLEAN      \* the Instant given may lie in the past
    /\ report = [t \in Tasks |-> "none"]

-----------------------------------------------------------------------------
(* The executor's own thread. *)

\* notify_what_happened(event)? : an error ends the run at once.
NotifyOutcomes == IF NotifierFails THEN {"running", "error"} ELSE {"running"}

\* The while loop's condition, then the inner one's: load a task if there is
\* room, wait for a result otherwise.
CanLoad == Cardinality(running_tasks) < Capacity /\ waiting_tasks # <<>>

\* One turn of the loading loop: announce the task, start its thread, put it
\* in the map and in the timeout queue.  When the notifier fails on the
\* announcement the thread is not started.
LoadTask ==
    /\ step = "load" /\ outcome = "running" /\ CanLoad
    /\ LET task == Head(waiting_tasks) IN
       \E o \in NotifyOutcomes :
          /\ waiting_tasks' = Tail(waiting_tasks)
          /\ report' = [report EXCEPT ![task] = "Wait"]
          /\ outcome' = o
          /\ IF o = "error"
             THEN UNCHANGED <<running_tasks, timeout_queue, thread>>
             ELSE /\ thread' = [thread EXCEPT ![task] = "running"]
                  /\ running_tasks' = running_tasks \cup {task}
                  /\ timeout_queue' = Append(timeout_queue, task)
    /\ UNCHANGED <<channel, res, step, expired>>

\* No more can be loaded: wait for a result, or return Ok when nothing runs.
StopLoading ==
    /\ step = "load" /\ outcome = "running" /\ ~CanLoad
    /\ IF running_tasks = {}
       THEN outcome' = "ok" /\ UNCHANGED step
       ELSE step' = "wait" /\ UNCHANGED outcome
    /\ UNCHANGED <<waitVars, channel, res, thread, expired, report>>

\* rx.recv_timeout(timeout) and rx.recv(), with a result in the channel.
Receive ==
    /\ step = "wait" /\ outcome = "running" /\ channel # <<>>
    /\ res' = Head(channel)
    /\ channel' = Tail(channel)
    /\ step' = IF timeout_queue = <<>> THEN "take" ELSE "timeouts"
    /\ UNCHANGED <<waitVars, outcome, thread, expired, report>>

\* rx.recv_timeout(timeout) with no result in time.  With an empty timeout
\* queue the code calls recv, which has no timeout.
RecvTimeout ==
    /\ step = "wait" /\ outcome = "running"
    /\ timeout_queue # <<>> /\ channel = <<>> /\ expired
    /\ step' = "timeouts"
    /\ UNCHANGED <<waitVars, channel, res, outcome, thread, expired, report>>

\* The first n tasks of the timeout queue.
Queued(n) == {timeout_queue[i] : i \in 1..n}

\* Faulty: finished tasks are not left out; the queue is emptied but only its
\* first task is named.
EveryQueued == IF expired THEN Queued(Len(timeout_queue)) ELSE {}
FirstQueued == IF expired /\ timeout_queue # <<>> THEN Queued(1) \cap running_tasks ELSE {}

\* all_timed_out_tasks_info reads the clock again, after the receive: it
\* empties the queue once the common deadline has passed, and keeps the tasks
\* still in the map, the one whose result was just received among them.
all_timed_out_tasks_info ==
    IF expired THEN Queued(Len(timeout_queue)) \cap running_tasks ELSE {}

\* The event of every task in ts is told to the notifier.
Told(ts, event) == [t \in Tasks |-> IF t \in ts THEN event ELSE report[t]]

\* Faulty: a task that timed out is forgotten, or a round with timeouts goes on
\* as if nothing had been received.
TimeoutForgetsTask ==
    /\ step = "timeouts" /\ outcome = "running"
    /\ report' = Told(all_timed_out_tasks_info, "Timeout")
    /\ running_tasks' = running_tasks \ all_timed_out_tasks_info
    /\ timeout_queue' = IF expired THEN <<>> ELSE timeout_queue
    /\ step' = "wait"
    /\ UNCHANGED <<waiting_tasks, channel, res, outcome, thread, expired>>
TimeoutDropsResult ==
    /\ step = "timeouts" /\ outcome = "running"
    /\ report' = Told(all_timed_out_tasks_info, "Timeout")
    /\ IF all_timed_out_tasks_info = {} /\ res # NoResult
       THEN step' = "take" /\ UNCHANGED res
       ELSE step' = "wait" /\ res' = NoResult
    /\ timeout_queue' = IF expired THEN <<>> ELSE timeout_queue
    /\ UNCHANGED <<waiting_tasks, running_tasks, channel, outcome, thread, expired>>

\* The notifications of a round, in the order of the queue: all of them, or up
\* to one the notifier fails on, after which the result received with the round
\* is dropped.
NotifyTimeouts ==
    /\ step = "timeouts" /\ outcome = "running"
    /\ LET timed_out == all_timed_out_tasks_info IN
       \E n \in 0..Len(timeout_queue) :
          LET told == timed_out \cap Queued(n) IN
          /\ report' = Told(told, "Timeout")
          /\ \/ told = timed_out /\ outcome' = "running"
             \/ NotifierFails /\ told # {} /\ outcome' = "error"
    /\ timeout_queue' = IF expired THEN <<>> ELSE timeout_queue
    /\ step' = IF res = NoResult THEN "wait" ELSE "take"
    /\ UNCHANGED <<waiting_tasks, running_tasks, channel, res, thread, expired>>

\* RunningTask::join: a thread that panicked after reporting success is a bug,
\* as is what the task itself reports as one.
FoundBug(r) == \/ r.status = "Bug"
               \/ r.status = "Finished" /\ thread[r.task] = "panicked"

\* Take the finished task out of the map, wait for its thread to end, and
\* report it; a bug ends the run instead.
TakeFinished ==
    /\ step = "take" /\ outcome = "running"
    /\ thread[res.task] \in {"ended", "panicked"}
    /\ running_tasks' = running_tasks \ {res.task}
    /\ IF FoundBug(res)
       THEN outcome' = "bug" /\ UNCHANGED report
       ELSE /\ outcome' \in NotifyOutcomes
            /\ report' = [report EXCEPT ![res.task] = "Finished"]
    /\ res' = NoResult
    /\ step' = "load"
    /\ UNCHANGED <<waiting_tasks, timeout_queue, channel, thread, expired>>

-----------------------------------------------------------------------------
(* The tasks' threads and the clock. *)

\* Faulty: the receiver is not forgotten on the way out with a bug.
ReceiverDropped == outcome = "running"

\* The receiver lives as long as run_all_tasks, and for ever when it is
\* forgotten on the way out with a bug.
ReceiverAlive == outcome \in {"running", "bug"}

\* ch.send(result).unwrap(): without a receiver the thread panics.
Send(t, status) ==
    /\ thread[t] = "running"
    /\ IF ReceiverAlive
       THEN /\ thread' = [thread EXCEPT ![t] = "sent"]
            /\ channel' = Append(channel, [task |-> t, status |-> status])
       ELSE /\ thread' = [thread EXCEPT ![t] = "orphaned"]
            /\ UNCHANGED channel
    /\ UNCHANGED <<waitVars, res, step, outcome, expired, report>>

\* run returns, or panics after the send.
EndThread(t) ==
    /\ thread[t] = "sent"
    /\ \E end \in {"ended", "panicked"} : thread' = [thread EXCEPT ![t] = end]
    /\ UNCHANGED <<waitVars, channel, res, step, outcome, expired, report>>

\* run panics before the send: nobody hears of it.
Die(t) ==
    /\ t \in MayDie /\ thread[t] = "running"
    /\ thread' = [thread EXCEPT ![t] = "died"]
    /\ UNCHANGED <<waitVars, channel, res, step, outcome, expired, report>>

PassDeadline ==
    /\ ~expired
    /\ expired' = TRUE
    /\ UNCHANGED <<waitVars, channel, res, step, outcome, thread, report>>

Execute == \/ LoadTask \/ StopLoading \/ Receive \/ RecvTimeout
           \/ NotifyTimeouts \/ TakeFinished

Thread(t) == (\E status \in TaskStatus : Send(t, status)) \/ EndThread(t)

ExecutorNext == \/ Execute
                \/ \E t \in Tasks : Thread(t) \/ Die(t)
                \/ PassDeadline

ExecutorSpec == ExecutorStart /\ [][ExecutorNext]_execVars

\* The executor's thread is scheduled, a task's run eventually sends or dies,
\* and a thread that has sent ends.  Time passes.
ExecutorFairness ==
    /\ WF_execVars(Execute)
    /\ \A t \in Tasks : WF_execVars(Thread(t) \/ Die(t))
    /\ WF_execVars(PassDeadline)

ExecutorFairSpec == ExecutorSpec /\ ExecutorFairness
-----------------------------------------------------------------------------
(* Properties. *)

\* The variables hold what the Rust types hold.
ExecutorTypeOK ==
    /\ waiting_tasks \in Seq(Tasks)
    /\ running_tasks \in SUBSET Tasks
    /\ timeout_queue \in Seq(Tasks)
    /\ channel \in Seq(Results \ {NoResult})
    /\ res \in Results
    /\ step \in {"load", "wait", "timeouts", "take"}
    /\ outcome \in Outcomes
    /\ thread \in [Tasks -> {"none", "running", "sent", "ended", "panicked", "orphaned", "died"}]
    /\ expired \in BOOLEAN
    /\ report \in [Tasks -> {"none", "Wait", "Timeout", "Finished"}]

\* The notifier hears what Executor promises, whatever the order of results,
\* deadline and errors: in particular a deadline that passes between a receive
\* and the look at the clock never reports a timeout after the finish.
Reports == INSTANCE TaskReports
ReportsImplemented == Reports!ReportsSpec

\* running_tasks.remove finds the task of every result, received or still in
\* the channel: the panic of the None arm is out of reach.
ResultsAwaited ==
    outcome = "running" =>
       /\ res # NoResult => res.task \in running_tasks
       /\ \A i \in 1..Len(channel) :
             /\ channel[i].task \in running_tasks
             /\ res # NoResult => channel[i].task # res.task
             /\ \A j \in 1..Len(channel) : channel[i].task = channel[j].task => i = j

\* "Prevent remaining threads from panicking": a thread finds its receiver gone
\* only after the notifier has failed.
OrphanedOnlyByError ==
    \A t \in Tasks : thread[t] = "orphaned" => outcome = "error"

\* Unless a task dies without a word, the run comes to an end.
RunEnds == (<>(\E t \in Tasks : thread[t] = "died")) \/ <>(outcome # "running")

\* Every started task that outlives the deadline is reported, the ones that
\* died silently included, unless the run ends first.
LateTaskReported ==
    \A t \in Tasks : (expired /\ t \in running_tasks)
                        ~> (report[t] \in {"Timeout", "Finished"} \/ outcome # "running")
=============================================================================
