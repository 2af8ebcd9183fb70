----------------------------- MODULE LspServer ------------------------------
(***************************************************************************)
(* The language server as a whole: requests and documents share the main   *)
(* thread, the task channel and the thread pool, and what a request's      *)
(* handler does is decided by the document state it finds when a worker    *)
(* runs it (request.rs).                                                   *)
(***************************************************************************)
EXTENDS LspRequests, LspDocuments

CONSTANTS
    Target,             \* Target[r]: the file request r is about
    Contended           \* a try_read may find its lock taken

ASSUME ServerAssumption ==
    /\ Target \in [Requests -> Files]
    /\ Contended \in BOOLEAN

serverVars == <<runtimeVars, requestVars, documentVars>>

ServerInit ==
    /\ RuntimeInit /\ PoolAtStart
    /\ RequestsInit /\ DocumentsInit

-----------------------------------------------------------------------------
\* What a handler makes of the state of one workspace. A query waits for a
\* compilation in progress (try_get_db), and so does a completion triggered by
\* a newline; any other completion uses the old database meanwhile if there
\* is one (handle_completion). Which recorded workspace is
\* looked at is left open: the code takes the first of a HashSet.
Usable(r, w) ==
    workspaces[w].state
        \in IF Kind[r] = "completion" THEN {"ready", "compiling"} ELSE {"ready"}

\* try_get_db_state unwraps opened_files[f] although only the Vfs is known to
\* have the file: didClose is between its two critical sections.
HandlerPanics(r) == Target[r] \in closing

\* try_get_db_state or try_get_db asks to be tried again.
MustRetry(r) ==
    /\ Target[r] \in opened
    /\ \/ temporary[Target[r]] = InCompiling
       \/ \E w \in AttachedTo(Target[r]) : w \in InProgress /\ ~Usable(r, w)

\* A try_read of the Vfs or of workspaces fails. The main thread writes the
\* Vfs after every event it handles, the one that queued this very job
\* included, so this may happen to any handler at any time.
LockBusy == Contended

\* The handler returns: from a database, or with nothing because the file, the
\* workspace or the database is not there.
DbFound(r) ==
    /\ Target[r] \in opened
    /\ \E w \in AttachedTo(Target[r]) : Usable(r, w)
NothingToAnswer(r) ==
    \/ ~InVfs(Target[r])
    \/ /\ Target[r] \in opened
       /\ temporary[Target[r]] = NoEntry /\ recorded[Target[r]] = {}
    \/ /\ Target[r] \in opened
       /\ \E w \in AttachedTo(Target[r]) :
             workspaces[w].state \in {"absent", "failed"}

\* A worker runs the handler of a request.
HandleOnWorker(w) ==
    /\ running[w].kind = "request"
    /\ LET r == running[w].req IN
       \/ HandlerPanics(r) /\ FinishRequest(w, "panic")
       \/ (MustRetry(r) \/ LockBusy) /\ FinishRequest(w, "retry")
       \/ (DbFound(r) \/ NothingToAnswer(r)) /\ FinishRequest(w, "done")
    /\ UNCHANGED documentVars

\* The client asks about a file it has open.
Ask(r) ==
    /\ Target[r] \in opened
    /\ Request(r)
    /\ UNCHANGED documentVars

-----------------------------------------------------------------------------
MainStep ==
    \/ \E r \in Requests :
          RequestStep(r) /\ UNCHANGED documentVars
    \/ \E f \in Files :
          DocumentStep(f) /\ UNCHANGED requestVars

WorkerStep(w) ==
    \/ HandleOnWorker(w)
    \/ CompileStep(w) /\ UNCHANGED requestVars
    \/ StartJob(w) /\ UNCHANGED <<requestVars, documentVars>>

ServerNext ==
    \/ \E r \in Requests :
          Ask(r) \/ (Cancel(r) /\ UNCHANGED documentVars)
    \/ \E f \in Files : ClientStep(f) /\ UNCHANGED requestVars
    \/ MainStep
    \/ \E w \in Workers : WorkerStep(w)

ServerSpec == ServerInit /\ [][ServerNext]_serverVars

\* The main loop never stops taking tasks, select! serving both its channels,
\* and every pool thread keeps executing jobs. Nothing is assumed of the
\* client.
ServerFairness ==
    /\ WF_serverVars(MainStep)
    /\ \A w \in Workers : WF_serverVars(WorkerStep(w))

FairServerSpec == ServerSpec /\ ServerFairness

-----------------------------------------------------------------------------
\* A handler of r is sent back although nothing it waits for is under way: the
\* lock it tried was taken.
Denied(r) ==
    \E w \in Workers :
        /\ running[w] = RequestJob(r) /\ ~MustRetry(r)
        /\ FinishRequest(w, "retry")

\* Every registered request is answered or cancelled: compilations end and so
\* do the retries that wait for them. The exceptions are a handler and a main
\* thread that panicked, and a request that finds its lock taken again and
\* again: try_read gives no turn to the one who tries.
EventuallyServed ==
    \A r \in Requests :
        \/ (r \in pending) ~> (r \notin pending \/ r \in crashed \/ ~Alive)
        \/ []<><<Denied(r)>>_serverVars

\* The client going silent, the server settles: the changes and requests the
\* main thread sends itself while it waits for compilations come to an end,
\* with the same exception.
Settles ==
    \/ <>[](Quiescent \/ ~Alive)
    \/ \E r \in Requests : []<><<Denied(r)>>_serverVars
=============================================================================
