---------------------------- MODULE LspDocuments ----------------------------
(***************************************************************************)
(* How the KCL language server keeps an analysis database for every        *)
(* workspace while files are opened, edited and closed: the virtual file   *)
(* system, the set of opened files with the workspaces they were found in, *)
(* the temporary workspaces of files found in none, the database state of  *)
(* each workspace, and the compile jobs that update them from the pool     *)
(* (state.rs, notification.rs, compile.rs).                                *)
(*                                                                         *)
(* The text of a file is a version number, new for every edit; 0 is the    *)
(* text on disk at the start. A database is the version of each file that  *)
(* the compiler saw. A handler of the main thread is one action; a compile *)
(* job is one action per critical section.                                 *)
(***************************************************************************)
EXTENDS LspRuntime

CONSTANTS
    Files,
    WorkSpaces,
    InitWorkSpaces,     \* workspaces found in the client's folders at start
    Lookup,             \* Lookup[f]: lookup_compile_workspaces for file f
    Members,            \* Members[w]: the files of the program of w
    BadVersions,        \* versions the compiler reports diagnostics for
    MayFail,            \* workspaces whose compilation may return Err
    MayPanic,           \* workspaces whose compilation may panic
    Client,             \* when the client acts, a member of ClientKinds
    Closable,           \* the files the client ever closes
    Discards,           \* the client may close a file without saving it
    MaxVersion,         \* bound: edits by the client
    MaxOpens,           \* bound: opens by the client
    MaxTasks,           \* bound: tasks the main thread may send itself
    MaxPool             \* bound: length of the pool's queue

\* An "attentive" client waits for the server to settle before it acts, but may
\* edit a file that is attached to a workspace at any time; "any" client may do
\* anything the protocol allows at any time.
ClientKinds == {"attentive", "any"}

ASSUME DocumentsAssumption ==
    /\ IsFiniteSet(Files) /\ IsFiniteSet(WorkSpaces)
    /\ InitWorkSpaces \subseteq WorkSpaces
    /\ Lookup \in [Files -> SUBSET WorkSpaces]
    /\ Members \in [WorkSpaces -> SUBSET Files]
    /\ BadVersions \subseteq Nat \ {0}
    /\ MayFail \subseteq WorkSpaces /\ MayPanic \subseteq WorkSpaces
    /\ Client \in ClientKinds
    /\ Closable \subseteq Files /\ Discards \in BOOLEAN
    /\ MaxVersion \in Nat /\ MaxOpens \in Nat
    /\ MaxTasks \in Nat /\ MaxPool \in Nat

VARIABLES
    vfs,                \* vfs[f]: the version in the Vfs, if it has file f
    disk,               \* disk[f]: the version on disk
    edits, opens,       \* edits and opens the client has made so far
    opened,             \* keys of opened_files
    recorded,           \* recorded[f]: OpenFileInfo::workspaces of file f
    temporary,          \* temporary[f]: the entry of temporary_workspace
    workspaces,         \* workspaces[w]: analysis.workspaces, a DBState
    configured,         \* keys of workspace_config_cache
    closing,            \* the file didClose has removed from opened only
    shown               \* shown[f]: version whose diagnostics f shows, 0: none

\* The texts and the client's actions on them; only the client changes these.
textVars == <<vfs, disk, edits, opens, opened, closing>>
documentVars == <<textVars, recorded, temporary, workspaces, configured, shown>>

Versions == 0..MaxVersion

\* Databases: what AnalysisDatabase depends on.
Databases == [Files -> Versions]
NoDb == [f \in Files |-> 0]

\* DBState, and the absence of a key.
DBStates == [state : {"absent", "init", "compiling", "ready", "failed"},
             db : Databases]
Absent == [state |-> "absent", db |-> NoDb]
Init == [state |-> "init", db |-> NoDb]
Failed == [state |-> "failed", db |-> NoDb]
Compiling(db) == [state |-> "compiling", db |-> db]
Ready(db) == [state |-> "ready", db |-> db]

\* Entries of temporary_workspace: no key, the key with None, or with a
\* workspace.
NoEntry == [entry |-> "absent"]
InCompiling == [entry |-> "compiling"]
Temporary(w) == [entry |-> "workspace", ws |-> w]

Steps == {"diags", "mark", "load", "publish", "install", "insert"}

\* A compile job: the workspace, the changed file if there is one, whether the
\* workspace is temporary, the step it takes next, and the local variables of
\* the closure: the files with old diagnostics, the program and its success.
CompileJob(w, f, temp) ==
    [kind |-> "compile", ws |-> w, files |-> f, temp |-> temp,
     step |-> "diags", old |-> {}, db |-> NoDb, ok |-> TRUE]

ChangedFile(f, change) == [kind |-> "changed", file |-> f, change |-> change]
ReOpenFile(f) == [kind |-> "reopen", file |-> f]
Notify(f, v) == [kind |-> "notify", file |-> f, version |-> v]

\* The sequences that list a set once: HashMap iteration has no fixed order.
Orders(S) ==
    {s \in [1..Cardinality(S) -> S] : \A x \in S : \E i \in DOMAIN s : s[i] = x}

\* Diagnostics a database holds: the files of which the compiler saw a bad
\* version.
DiagnosedFiles(db) == {f \in Files : db[f] \in BadVersions}

DocumentsInit ==
    /\ vfs = [f \in Files |-> 0]
    /\ disk = [f \in Files |-> 0]
    /\ edits = 0
    /\ opens = 0
    /\ opened = {}
    /\ recorded = [f \in Files |-> {}]
    /\ temporary = [f \in Files |-> NoEntry]
    /\ workspaces = [w \in WorkSpaces |-> Absent]
    /\ configured = InitWorkSpaces
    /\ closing = {}
    /\ shown = [f \in Files |-> 0]

\* init_workspaces compiles the workspaces of the client's folders.
PoolAtStart ==
    pool \in {[i \in DOMAIN s |-> CompileJob(s[i], {}, FALSE)] :
                 s \in Orders(InitWorkSpaces)}

-----------------------------------------------------------------------------
\* Faulty: the options of a workspace are not kept.
NotCached(ws) == configured

\* workspace_config_cache once it has the options of the workspaces of ws.
Cached(ws) == configured \cup ws

\* async_compile for each workspace of ws: cache its options, queue the job.
AsyncCompile(ws, f, temp) ==
    /\ configured' = Cached(ws)
    /\ Len(pool) + Cardinality(ws) <= MaxPool
    /\ \E s \in Orders(ws) :
          pool' = pool \o [i \in DOMAIN s |-> CompileJob(s[i], {f}, temp)]

\* The channel after a handler took its event from it, with the tasks the
\* handler sends. The bound only stops a handler from making the channel
\* longer than MaxTasks, so it never blocks one that drains it.
SendAfter(rest, new) ==
    /\ Len(rest \o new) <= MaxTasks \/ Len(rest \o new) <= Len(tasks)
    /\ tasks' = rest \o new

\* The workspaces that already compiled f, and the ones that still compile.
Containing(f) ==
    {w \in WorkSpaces : workspaces[w].state = "ready" /\ f \in Members[w]}
InProgress ==
    {w \in WorkSpaces : workspaces[w].state \in {"init", "compiling"}}

\* process_changed_file, ChangeKind::Create. A file that some ready workspace
\* contains is recorded there; opened_files is indexed with unwrap(). While
\* workspaces compile, the change is sent again, once for each of them. A file
\* that no workspace may contain gets workspaces of its own. rest is the task
\* channel after this event was taken from it, in which open is opened_files
\* and rec the workspaces recorded for each file.
ProcessCreate(f, rest, open, rec) ==
    LET mayContain == Containing(f) \cup InProgress # {}
        panics == Containing(f) # {} /\ f \notin open
    IN
    \/ /\ panics
       /\ main' = "panicked"
       /\ tasks' = rest
       /\ recorded' = rec
       /\ UNCHANGED <<pool, temporary, configured>>
    \/ /\ ~panics /\ mayContain
       /\ recorded' = [rec EXCEPT ![f] = @ \cup Containing(f)]
       /\ SendAfter(rest, [i \in 1..Cardinality(InProgress) |->
                              ChangedFile(f, "create")])
       /\ temporary' = [temporary EXCEPT ![f] = NoEntry]
       /\ UNCHANGED <<main, pool, configured>>
    \/ /\ ~panics /\ ~mayContain
       /\ temporary' = [temporary EXCEPT ![f] =
                           IF Lookup[f] = {} THEN NoEntry ELSE InCompiling]
       /\ AsyncCompile(Lookup[f], f, TRUE)
       /\ recorded' = rec
       /\ tasks' = rest
       /\ UNCHANGED main

\* process_changed_file, ChangeKind::Modify. Both opened_files and
\* workspace_config_cache are indexed with unwrap().
ProcessModify(f, rest) ==
    LET temp == temporary[f]
        targets == IF recorded[f] # {} THEN recorded[f]
                   ELSE IF temp.entry = "workspace" THEN {temp.ws} ELSE {}
        panics == f \notin opened \/ ~(targets \subseteq configured)
    IN
    \/ /\ panics
       /\ main' = "panicked"
       /\ tasks' = rest
       /\ UNCHANGED <<pool, configured>>
    \/ /\ ~panics /\ targets # {}
       /\ AsyncCompile(targets, f, recorded[f] = {})
       /\ tasks' = rest
       /\ UNCHANGED main
    \/ /\ ~panics /\ targets = {}
       /\ SendAfter(rest, IF temp = InCompiling
                          THEN <<ChangedFile(f, "modify"), ReOpenFile(f)>>
                          ELSE <<ReOpenFile(f)>>)
       /\ UNCHANGED <<main, pool, configured>>

\* Faulty: opened files are not asked.
AlwaysUnused(w) == TRUE

\* `contain` is false: no opened file is recorded in w.
Unused(w) == \A g \in opened : w \notin recorded[g]

\* process_changed_file, ChangeKind::Delete: a temporary workspace goes unless
\* an opened file is recorded in it.
ProcessDelete(f) ==
    /\ temporary' = [temporary EXCEPT ![f] = NoEntry]
    /\ workspaces' =
          [w \in WorkSpaces |->
              IF temporary[f] = Temporary(w) /\ Unused(w) THEN Absent
              ELSE workspaces[w]]

-----------------------------------------------------------------------------
\* The Vfs has file f: between its didOpen and the end of its didClose.
InVfs(f) == f \in opened \cup closing

\* Faulty: the text is read from disk although the client has it open.
TextOnDisk(f) == disk[f]

\* What load_files_code_from_vfs reads for f.
Text(f) == IF InVfs(f) THEN vfs[f] ELSE disk[f]

\* The workspace a request about f is answered from: try_get_db_state.
AttachedTo(f) ==
    IF temporary[f].entry = "workspace" THEN {temporary[f].ws}
    ELSE IF temporary[f] = NoEntry THEN recorded[f] ELSE {}

\* When the client may send something, and when it may edit f.
ClientActs == Listening /\ (Client = "any" \/ Quiescent)
ClientEdits(f) ==
    \/ ClientActs
    \/ Listening /\ Client = "attentive" /\ AttachedTo(f) # {}

\* didOpen with the text on disk, then the Create it causes in
\* process_vfs_changes.
DidOpen(f) ==
    /\ ClientActs
    /\ f \notin opened
    /\ opens < MaxOpens
    /\ opens' = opens + 1
    /\ vfs' = [vfs EXCEPT ![f] = disk[f]]
    /\ opened' = opened \cup {f}
    /\ ProcessCreate(f, tasks, opened \cup {f}, [recorded EXCEPT ![f] = {}])
    /\ UNCHANGED <<running, disk, edits, workspaces, closing, shown>>

\* didChange, then the Modify it causes. A client edits opened files only.
DidChange(f) ==
    /\ ClientEdits(f)
    /\ f \in opened
    /\ edits < MaxVersion
    /\ edits' = edits + 1
    /\ vfs' = [vfs EXCEPT ![f] = edits + 1]
    /\ ProcessModify(f, tasks)
    /\ UNCHANGED <<running, disk, opens, opened, recorded, temporary,
                   workspaces, closing, shown>>

\* didClose, first critical section: opened_files.remove. The client has saved
\* the text or discards it; didSave itself changes nothing in the server.
DidClose(f) ==
    /\ ClientActs
    /\ f \in opened \cap Closable
    /\ \/ disk' = [disk EXCEPT ![f] = vfs[f]]
       \/ Discards /\ UNCHANGED disk
    /\ opened' = opened \ {f}
    /\ recorded' = [recorded EXCEPT ![f] = {}]
    /\ closing' = {f}
    /\ main' = "closing"
    /\ UNCHANGED <<tasks, pool, running, vfs, edits, opens, temporary,
                   workspaces, configured, shown>>

\* didClose, second critical section, then the Delete it causes.
FinishClose(f) ==
    /\ main = "closing"
    /\ f \in closing
    /\ vfs' = [vfs EXCEPT ![f] = 0]
    /\ ProcessDelete(f)
    /\ closing' = {}
    /\ main' = "listening"
    /\ UNCHANGED <<tasks, pool, running, disk, edits, opens, opened, recorded,
                   configured, shown>>

\* Task::ChangedFile
HandleChangedFile(f) ==
    \/ /\ Receive(ChangedFile(f, "create"))
       /\ ProcessCreate(f, Tail(tasks), opened, recorded)
       /\ UNCHANGED <<running, textVars, workspaces, shown>>
    \/ /\ Receive(ChangedFile(f, "modify"))
       /\ ProcessModify(f, Tail(tasks))
       /\ UNCHANGED <<running, textVars, recorded, temporary, workspaces,
                      shown>>

\* Task::ReOpenFile
HandleReOpenFile(f) ==
    /\ Receive(ReOpenFile(f))
    /\ ProcessCreate(f, Tail(tasks), opened, recorded)
    /\ UNCHANGED <<running, textVars, workspaces, shown>>

\* Task::Notify with diagnostics.
HandleNotify(f) ==
    /\ \E v \in Versions :
          Receive(Notify(f, v)) /\ shown' = [shown EXCEPT ![f] = v]
    /\ tasks' = Tail(tasks)
    /\ UNCHANGED <<pool, running, main, textVars, recorded, temporary,
                   workspaces, configured>>

-----------------------------------------------------------------------------
\* Worker w is at the given step of a compile job.
AtStep(w, step) ==
    /\ Alive
    /\ running[w].kind = "compile"
    /\ running[w].step = step

\* The closure of async_compile reads the diagnostics of the old database.
ReadOldDiags(w) ==
    /\ AtStep(w, "diags")
    /\ running' = [running EXCEPT ![w].step = "mark",
                                  ![w].old =
                        DiagnosedFiles(workspaces[running[w].ws].db)]
    /\ UNCHANGED <<tasks, pool, main, documentVars>>

\* It marks the workspace as being compiled, keeping an old database.
MarkCompiling(w) ==
    /\ AtStep(w, "mark")
    /\ LET old == workspaces[running[w].ws] IN
       workspaces' = [workspaces EXCEPT ![running[w].ws] =
                         IF old.state \in {"ready", "compiling"}
                         THEN Compiling(old.db) ELSE Init]
    /\ running' = [running EXCEPT ![w].step = "load"]
    /\ UNCHANGED <<tasks, pool, main, textVars, recorded, temporary,
                   configured, shown>>

\* What the compiler reports on of each file: nothing if it gave up before it
\* read the files (seen is FALSE) or if the file is not part of the workspace.
Program(ws, seen) ==
    [f \in Files |-> IF seen /\ f \in Members[ws] THEN Text(f) ELSE 0]

\* compile: the texts come from the Vfs, or from disk if it has none. It fails
\* before it has diagnostics ("Parse failed") or with those it collected
\* ("Resolve failed").
Compile(w) ==
    /\ AtStep(w, "load")
    /\ \E ok, seen \in BOOLEAN :
          /\ ok => seen
          /\ ok \/ running[w].ws \in MayFail
          /\ running' = [running EXCEPT
                 ![w].step = "publish",
                 ![w].ok = ok,
                 ![w].db = Program(running[w].ws, seen)]
    /\ UNCHANGED <<tasks, pool, main, documentVars>>

\* compile panics: the closure is gone and nothing after it happens.
CompilePanics(w) ==
    /\ AtStep(w, "load")
    /\ running[w].ws \in MayPanic
    /\ EndJob(w)
    /\ UNCHANGED <<tasks, pool, main, documentVars>>

\* Faulty: files whose diagnostics are gone are not cleared.
OnlyNewDiagnostics(job) == DiagnosedFiles(job.db)

\* The files with old or with new diagnostics.
ToPublish(job) == job.old \cup DiagnosedFiles(job.db)

\* Publish: clear the files that have no diagnostics any more, then send the
\* new diagnostics.
PublishDiagnostics(w) ==
    /\ AtStep(w, "publish")
    /\ \E s \in Orders(ToPublish(running[w])) :
          tasks' = tasks \o [i \in DOMAIN s |->
                      Notify(s[i], IF s[i] \in DiagnosedFiles(running[w].db)
                                   THEN running[w].db[s[i]] ELSE 0)]
    /\ running' = [running EXCEPT ![w].step = "install"]
    /\ UNCHANGED <<pool, main, documentVars>>

\* Faulty: the result is thrown away, or the entry of a failed workspace stays.
ResultDropped(job) == workspaces[job.ws]
EntryKept(job) == temporary

\* The DBState of the job's result.
Result(job) == IF job.ok THEN Ready(job.db) ELSE Failed

\* temporary_workspace after a failure, and unchanged if it is not temporary.
EntryRemoved(job) ==
    [f \in Files |-> IF f \in job.files /\ job.temp THEN NoEntry
                     ELSE temporary[f]]

\* Install the result. A failure also removes the temporary entry, inside the
\* same critical section; a success inserts it in one of its own.
Install(w) ==
    /\ AtStep(w, "install")
    /\ LET job == running[w] IN
       /\ workspaces' = [workspaces EXCEPT ![job.ws] = Result(job)]
       /\ IF job.ok /\ job.temp
          THEN /\ running' = [running EXCEPT ![w].step = "insert"]
               /\ UNCHANGED temporary
          ELSE /\ EndJob(w)
               /\ temporary' = EntryRemoved(job)
    /\ UNCHANGED <<tasks, pool, main, textVars, recorded, configured, shown>>

\* Faulty: the entry is left as it is.
EntryNotInserted(job) == temporary

\* temporary_workspace once the changed file has its workspace.
EntryInserted(job) ==
    [f \in Files |-> IF f \in job.files THEN Temporary(job.ws)
                     ELSE temporary[f]]

\* The last step of the job of a temporary workspace.
InsertTemporary(w) ==
    /\ AtStep(w, "insert")
    /\ temporary' = EntryInserted(running[w])
    /\ EndJob(w)
    /\ UNCHANGED <<tasks, pool, main, textVars, recorded, workspaces,
                   configured, shown>>

-----------------------------------------------------------------------------
ClientStep(f) == DidOpen(f) \/ DidChange(f) \/ DidClose(f)

\* The main thread works off its tasks and its own unfinished handler.
DocumentStep(f) ==
    FinishClose(f) \/ HandleChangedFile(f) \/ HandleReOpenFile(f)
        \/ HandleNotify(f)

CompileStep(w) ==
    \/ ReadOldDiags(w) \/ MarkCompiling(w) \/ Compile(w) \/ CompilePanics(w)
    \/ PublishDiagnostics(w) \/ Install(w) \/ InsertTemporary(w)

DocumentsNext ==
    \/ \E f \in Files : ClientStep(f) \/ DocumentStep(f)
    \/ \E w \in Workers : StartJob(w) /\ UNCHANGED documentVars
    \/ \E w \in Workers : CompileStep(w)
    \/ Exit /\ UNCHANGED documentVars

documentsAll == <<runtimeVars, documentVars>>

DocumentsStart == RuntimeInit /\ PoolAtStart /\ DocumentsInit

DocumentsSpec == DocumentsStart /\ [][DocumentsNext]_documentsAll

-----------------------------------------------------------------------------
CompileJobs ==
    [kind : {"compile"}, ws : WorkSpaces, files : SUBSET Files, temp : BOOLEAN,
     step : Steps, old : SUBSET Files, db : Databases, ok : BOOLEAN]
DocumentTasks ==
    [kind : {"changed"}, file : Files, change : {"create", "modify"}]
        \cup [kind : {"reopen"}, file : Files]
        \cup [kind : {"notify"}, file : Files, version : Versions]
TemporaryEntries == {NoEntry, InCompiling} \cup {Temporary(w) : w \in WorkSpaces}

\* The variables hold what the Rust types hold.
DocumentsTypeOK ==
    /\ tasks \in Seq(DocumentTasks)
    /\ pool \in Seq(CompileJobs)
    /\ running \in [Workers -> {Idle} \cup CompileJobs]
    /\ main \in MainStates
    /\ vfs \in [Files -> Versions]
    /\ disk \in [Files -> Versions]
    /\ edits \in Versions
    /\ opens \in 0..MaxOpens
    /\ opened \in SUBSET Files
    /\ recorded \in [Files -> SUBSET WorkSpaces]
    /\ temporary \in [Files -> TemporaryEntries]
    /\ workspaces \in [WorkSpaces -> DBStates]
    /\ configured \in SUBSET WorkSpaces
    /\ closing \in SUBSET Files
    /\ shown \in [Files -> Versions]

\* The compile jobs that exist: queued ones and started ones.
Queued ==
    {pool[i] : i \in {j \in 1..Len(pool) : pool[j].kind = "compile"}}
Started == {running[w] : w \in {v \in Workers : running[v].kind = "compile"}}

\* A file waiting for its temporary workspace (None) is waited for by a job:
\* the retries of ProcessModify and of the requests on f have an end, unless
\* the compiler panics.
TemporaryInFlight ==
    \A f \in Files :
        Alive /\ temporary[f] = InCompiling /\ Lookup[f] \cap MayPanic = {} =>
            \E job \in Queued \cup Started : job.temp /\ f \in job.files

\* A workspace marked as being compiled is being compiled by a worker that
\* will install a result, unless the compiler panics: nothing is left
\* Compiling or Init for good.
MarkedInFlight ==
    \A w \in InProgress \ MayPanic : Alive =>
        \E job \in Started :
            job.ws = w /\ job.step \in {"load", "publish", "install"}

\* When everything has settled, the database a request on an opened file is
\* answered from was computed from the text the client sees.
SettledFresh ==
    Quiescent =>
        \A f \in opened : \A w \in AttachedTo(f) :
            workspaces[w].state = "ready" /\ f \in Members[w]
                => workspaces[w].db[f] = vfs[f]

\* When everything has settled, the client shows the diagnostics of the text
\* it sees.
SettledDiagnostics ==
    Quiescent =>
        \A f \in opened :
            AttachedTo(f) # {} => shown[f] = IF vfs[f] \in BadVersions
                                            THEN vfs[f] ELSE 0

\* When everything has settled, an opened file for which the driver finds
\* workspaces is attached to one, however its opening, its edits and the
\* retries of both were interleaved, unless the compiler gives up on one.
SettledAttached ==
    Quiescent =>
        \A f \in opened :
            Lookup[f] # {} /\ Lookup[f] \cap (MayFail \cup MayPanic) = {} =>
                AttachedTo(f) # {}

\* A file attached to a workspace finds it in the analysis.
AttachedExists ==
    \A f \in opened : \A w \in AttachedTo(f) : workspaces[w].state # "absent"

\* Tasks by which the main thread comes back to file f later.
ComesBack(f) ==
    {ChangedFile(f, "create"), ChangedFile(f, "modify"), ReOpenFile(f)}

\* Of the unwrap()s of process_changed_file, only the ones on opened_files are
\* ever hit, and only by a task the main thread sent itself for a file that
\* was closed before the task's turn came: never by what the client sends,
\* and never for options missing from workspace_config_cache.
PanicOnlyIfClosed ==
    [][Alive /\ main' = "panicked" =>
          \E f \in Files \ opened : tasks # <<>> /\ Head(tasks) \in ComesBack(f)
      ]_documentsAll
=============================================================================
