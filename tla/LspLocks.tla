------------------------------ MODULE LspLocks ------------------------------
(***************************************************************************)
(* The order in which the language server's handlers and jobs take the     *)
(* reader-writer locks of its shared state. Every handler is the sequence  *)
(* of lock operations its code performs; between two of them any other     *)
(* thread may run. The locks are parking_lot's: a reader also waits while  *)
(* a writer waits. The options cache is always locked last and released    *)
(* at once, so it cannot take part in a cycle and is left out.             *)
(***************************************************************************)
EXTENDS Naturals, Sequences, FiniteSets

CONSTANTS
    Main,               \* the main thread
    Workers,            \* the threads of the pool
    MainHandlers,       \* what the main thread may be asked to handle
    Jobs                \* what a worker may be given

Threads == {Main} \cup Workers

\* The four locks, by the fields they protect.
Locks == {"vfs", "opened_files", "temporary_workspace", "workspaces"}

Read(l) == [op |-> "read", lock |-> l]
Write(l) == [op |-> "write", lock |-> l]
TryRead(l) == [op |-> "try_read", lock |-> l]
Drop(l) == [op |-> "drop", lock |-> l]

\* A guard that lives for one statement.
Reading(l) == <<Read(l), Drop(l)>>
Writing(l) == <<Write(l), Drop(l)>>

\* process_vfs_changes and the file name every arm of process_changed_file
\* starts with.
TakeChange == Writing("vfs") \o Reading("vfs")

\* async_compile up to thread_pool.execute.
AsyncCompile == Reading("vfs")

\* on_did_open_text_document, then ChangeKind::Create: the file is recorded in
\* a ready workspace and its temporary entry removed.
OpenRecorded ==
    <<Write("vfs"), Write("opened_files"), Drop("opened_files"), Drop("vfs")>>
        \o TakeChange \o <<Read("workspaces")>>
        \o Writing("temporary_workspace") \o Writing("opened_files")
        \o Writing("temporary_workspace") \o <<Drop("workspaces")>>

\* The same for a file that no workspace contains: it is compiled.
OpenTemporary ==
    <<Write("vfs"), Write("opened_files"), Drop("opened_files"), Drop("vfs")>>
        \o TakeChange \o <<Read("workspaces")>>
        \o Writing("temporary_workspace") \o AsyncCompile
        \o <<Drop("workspaces")>>

\* on_did_change_text_document, then ChangeKind::Modify of a file in a
\* temporary workspace.
Change ==
    <<Write("vfs"), Write("opened_files"), Drop("opened_files"), Drop("vfs")>>
        \o TakeChange \o <<Read("opened_files")>>
        \o Reading("temporary_workspace") \o AsyncCompile
        \o <<Drop("opened_files")>>

\* on_did_close_text_document: the Vfs is read while opened_files is written.
CloseNotification ==
    <<Read("vfs"), Write("opened_files"), Drop("opened_files"), Drop("vfs")>>
        \o Writing("vfs")

\* ChangeKind::Delete: the workspaces and the opened files are locked inside
\* the critical section of the temporary workspaces.
Delete ==
    <<Write("temporary_workspace"), Write("workspaces"), Read("opened_files"),
      Drop("opened_files"), Drop("workspaces"), Drop("temporary_workspace")>>

\* The closure of async_compile until its result is known.
CompileUntilResult ==
    Reading("workspaces") \o Writing("workspaces") \o Reading("vfs")

\* Its success arm drops the workspaces before it locks the temporary ones.
InstallReady == Writing("workspaces") \o Writing("temporary_workspace")

\* Its failure arm does not.
InstallFailed ==
    <<Write("workspaces"), Write("temporary_workspace"),
      Drop("temporary_workspace"), Drop("workspaces")>>

\* Faulty: the workspaces are waited for, inside the critical section of the
\* temporary ones.
BlockingGetDbState ==
    <<TryRead("vfs"), Read("opened_files"), Read("temporary_workspace"),
      Read("workspaces"), Drop("workspaces"), Drop("temporary_workspace"),
      Drop("opened_files"), Drop("vfs")>>

\* try_get_db_state.
TryGetDbState ==
    <<TryRead("vfs"), Read("opened_files"), Read("temporary_workspace"),
      TryRead("workspaces"), Drop("workspaces"), Drop("temporary_workspace"),
      Drop("opened_files"), Drop("vfs")>>

Program(handler) ==
    CASE handler = "open_recorded"  -> OpenRecorded
      [] handler = "open_temporary" -> OpenTemporary
      [] handler = "change"         -> Change
      [] handler = "close"          -> CloseNotification \o TakeChange \o Delete
      [] handler = "compile"        -> CompileUntilResult \o InstallReady
      [] handler = "compile_fails"  -> CompileUntilResult \o InstallFailed
      [] handler = "request"        -> Reading("vfs") \o TryGetDbState

Handlers == {"open_recorded", "open_temporary", "change", "close", "compile",
             "compile_fails", "request"}

ASSUME LocksAssumption ==
    /\ Main \notin Workers
    /\ MainHandlers \cup Jobs \subseteq Handlers

VARIABLES
    doing,              \* doing[t]: the handler or job thread t took up last
    todo,               \* todo[t]: the lock operations t still has
    held                \* held[t]: the locks t holds, with their mode

lockVars == <<doing, todo, held>>

LocksInit ==
    /\ doing = [t \in Threads |-> "none"]
    /\ todo = [t \in Threads |-> <<>>]
    /\ held = [t \in Threads |-> {}]

-----------------------------------------------------------------------------
HeldBy(l, modes) == {t \in Threads : \E m \in modes : <<l, m>> \in held[t]}

\* Thread t is at operation op on lock l.
At(t, op, l) == todo[t] # <<>> /\ Head(todo[t]) = [op |-> op, lock |-> l]

WaitingWriters(l) == {t \in Threads : At(t, "write", l)}

Readable(l) == HeldBy(l, {"write"}) = {} /\ WaitingWriters(l) = {}
Writable(l) == HeldBy(l, {"read", "write"}) = {}

Advance(t, acquired) ==
    /\ todo' = [todo EXCEPT ![t] = Tail(@)]
    /\ held' = [held EXCEPT ![t] = acquired]
    /\ UNCHANGED doing

\* A thread takes up a handler or a job.
Begin(t, handler) ==
    /\ todo[t] = <<>>
    /\ handler \in IF t = Main THEN MainHandlers ELSE Jobs
    /\ doing' = [doing EXCEPT ![t] = handler]
    /\ todo' = [todo EXCEPT ![t] = Program(handler)]
    /\ UNCHANGED held

AcquireRead(t, l) ==
    /\ At(t, "read", l)
    /\ Readable(l)
    /\ Advance(t, held[t] \cup {<<l, "read">>})

AcquireWrite(t, l) ==
    /\ At(t, "write", l)
    /\ Writable(l)
    /\ Advance(t, held[t] \cup {<<l, "write">>})

\* try_read takes the lock or, if it cannot, the function returns and drops
\* its guards.
TryAcquire(t, l) ==
    /\ At(t, "try_read", l)
    /\ \/ /\ Readable(l)
          /\ Advance(t, held[t] \cup {<<l, "read">>})
       \/ /\ ~Readable(l)
          /\ todo' = [todo EXCEPT ![t] = <<>>]
          /\ held' = [held EXCEPT ![t] = {}]
          /\ UNCHANGED doing

Release(t, l) ==
    /\ At(t, "drop", l)
    /\ Advance(t, held[t] \ {<<l, "read">>, <<l, "write">>})

ThreadStep(t) ==
    \E l \in Locks : AcquireRead(t, l) \/ AcquireWrite(t, l)
                         \/ TryAcquire(t, l) \/ Release(t, l)

LocksNext ==
    \E t \in Threads : ThreadStep(t) \/ \E h \in Handlers : Begin(t, h)

LocksSpec == LocksInit /\ [][LocksNext]_lockVars

-----------------------------------------------------------------------------
\* Thread t cannot go on before thread u does.
BlockedBy(t, u) ==
    \E l \in Locks :
        \/ At(t, "read", l) /\ u \in HeldBy(l, {"write"}) \cup WaitingWriters(l)
        \/ At(t, "write", l) /\ u \in HeldBy(l, {"read", "write"})

\* Threads of which each waits for another of them: none ever goes on.
Circles ==
    {S \in (SUBSET Threads) \ {{}} : \A t \in S : \E u \in S : BlockedBy(t, u)}

\* ChangeKind::Delete waits for the workspaces with the temporary ones locked.
DeleteWaits == doing[Main] = "close" /\ At(Main, "write", "workspaces")

\* The failure arm of a compile job waits for the temporary workspaces with the
\* workspaces locked.
FailureWaits(w) ==
    doing[w] = "compile_fails" /\ At(w, "write", "temporary_workspace")

\* Whatever handlers and jobs run at the same time, threads wait for each other
\* in a circle for one reason only, the opposite lock orders of the failure arm
\* of async_compile (state.rs:759, 768) and of ChangeKind::Delete (459, 461):
\* both are part of every circle. Neither Create, which holds the workspaces
\* while it writes the temporary ones, nor a reader behind a waiting writer
\* closes one.
OnlyOneInversion ==
    \A S \in Circles :
        Main \in S /\ DeleteWaits /\ \E w \in S : FailureWaits(w)
=============================================================================
