# TLA+ models of the KCL language

KCL is a configuration language. Its repository holds a compiler pipeline
(lexer, parser, resolver, evaluator), a runtime library, command line tools and a
language server. The language server runs the pipeline from a thread pool while the
editor keeps changing the files; that is where the program keeps most of its shared
mutable state, and it is modelled first. The other modules are about the parts of
the pipeline whose correctness depends on an order of events: the caches that
compilations share, the package cache that processes share, the parallel executor,
the evaluator's lazy scopes and shared values, and the lexer's stacks.

## 1. The system

| Part | State it keeps | Operations | What makes it correct |
|---|---|---|---|
| Main loop (`state.rs: run, next_event, handle_event, handle_task`) | task channel, `shutdown_requested` | take a client message or a task, handle it to the end | panics on nothing the client sends, comes to rest |
| Request dispatch (`request.rs: on_request`, `dispatcher.rs`) | `request_queue.incoming`, `request_retry` | register, dispatch to the main thread or the pool, retry, cancel, respond | one answer at most, no request forgotten, each one eventually answered |
| Thread pool | job queue, one job per thread | start a job, end it, lose it to a panic | - |
| Documents (`notification.rs`, `process_changed_file`) | `Vfs`, `opened_files`, `temporary_workspace` | didOpen, didChange, didSave, didClose; Create, Modify, Delete | an open file is attached to a workspace that exists |
| Analysis (`async_compile`, `compile.rs`, `analysis.rs`) | `workspaces: WorkSpaceKind -> DBState`, `workspace_config_cache` | read old diagnostics, mark, compile, publish, install, insert | the database a request uses belongs to the text the user sees |
| Handlers (`request.rs: handle_*`, `try_get_db*`) | none of their own | read a snapshot of the state above | answer, or ask to be tried again, but do not block and do not panic |
| Locks | four `RwLock`s shared by main thread and pool | read, write, try_read | no circular wait |
| Parser (`crates/parser`) | `ModuleCache` shared by compile jobs | clear, parse a file, collect a program | a program holds the newest text of every module |
| Resolver (`crates/sema`) | `CachedScope` and its dependency graph, `GlobalState` | invalidate, resolve, write back | a package whose imports changed is resolved again |
| Evaluator's lazy scopes (`evaluator/src/lazy.rs, schema.rs, node.rs`) | per scope: setters, cached values, backtracking levels; a stack of backtracking records; one context per class | read a name before, between or after its statements, walk a body, backtrack | every name gets the value its statements mean, in whatever order they stand; nothing of a backtracking stays behind |
| Values (`evaluator/src/union.rs`, `runtime/src/value`) | a heap of counted references to mutable cells | copy, unite in place, assign under a path | assignment is by value; a union loses nothing and reports its conflicts |
| Parallel executor (`compiler_base/parallel`) | map of running tasks, timeout queue, channel, one thread per task | load, receive, time out, take, fail | every task is announced, late at most once, finished once; every run ends |
| Package cache (`config/src/cache.rs`) | an info file with the md5 of every package, a data file per package, lock files | save, load, by any number of processes | no stale package is loaded, no save is lost, no save waits for ever |
| Lexer (`parser/src/lexer`) | stack of indentation levels, stack of delimiters | lex a token, measure a line, recover from a wrong delimiter | the token stream's blocks and delimiters are those of the stacks |
| Config, driver, query, loader, api, tools | none across calls | functions of files and arguments | out of scope, see `PROJECT.json` |

How they interact. The main thread owns the documents and the registry. It never
computes an answer: it hands closures to the pool together with `Arc`s of the
shared maps, and the closures hand tasks back through an unbounded channel. A
compile job and a request handler therefore run concurrently with the main thread
and with each other, and see its maps through `RwLock`s, one critical section at a
time.

What is hard here: handlers that run between two critical sections of another
thread; tasks that outlive the file they are about; two jobs of one workspace that
finish out of order; waiting implemented by sending a task to oneself again;
closures that panic; locks taken in different orders; a deadline that passes between
two looks at the clock; two files renamed one after the other; values cached before
the last statement that sets them; references kept where a copy is meant. `PROJECT.json` lists each at
its line under `hazards`.

## 2. The modules

`LspRuntime` - the skeleton: `tasks` (the channel), `pool` (queued jobs),
`running` (a job per worker) and `main`. `StartJob` and `EndJob` are the thread
pool (external); `Receive` and `Exit` are `next_event` and `run`. The client's own
channel has no variable: the order in which client actions are taken is the order
of arrival, and `select!` may serve either channel first.

`RequestService` - the abstract promise about requests: new, open, then answered
once or cancelled, and nothing after that.

`LspRequests` - registration, dispatch, retry, cancellation, shutdown, reply. What
a handler computes is one of `done`, `retry`, `panic`. `Request`, `Cancel`,
`HandleResponse`, `HandleRetry` are handlers of the main thread, `FinishRequest` is
the end of the closures of `on` and `on_maybe_retry`. `ServiceSpec` is
`RequestService` under the mapping `RequestStatus`.

`LspDocuments` - opened files, `Vfs`, temporary workspaces, `DBState`s, options
cache, diagnostics. A text is a version number, new with every edit; a database is
the version of each file the compiler saw. A handler of the main thread is one
action (didClose is two, because it has two critical sections and a request handler
can run between them); a compile job is one action per critical section:
`ReadOldDiags`, `MarkCompiling`, `Compile` (or `CompilePanics`),
`PublishDiagnostics`, `Install`, `InsertTemporary`.
Constants describe the environment: what the driver finds for a file (`Lookup`),
which files a workspace's program has (`Members`), which compilations may fail or
panic, and when the client acts (`Client`):
an *attentive* client lets opening and closing settle but edits an attached file
at any time; *any* client does anything the protocol allows.
`LspDocumentsProofs` proves about it.

`LspServer` - both of the above on one main thread, channel and pool. Here the
outcome of a handler is no longer open: `HandleOnWorker` decides it from the
document state the worker finds (`try_get_db`, `try_get_db_state`,
`handle_completion`), including the panic on a missing `opened_files` entry and the
retry on a contended lock: the main thread writes the `Vfs` after every event, so any
`try_read` may fail. `LspServerProofs` proves about `LspRequests` by itself and
about the server: the lemmas about carriers ask only that the queues are sequences,
not that they hold nothing but requests, so that they serve for both.

`LspLocks` - the four `RwLock`s. Every handler and job is the sequence of lock
operations its code performs. parking_lot's rule is modelled: a reader also waits
behind a waiting writer. `LspLocksProofs` proves about it.

`CompileCaches` - what `compile` does, for several program roots that share one
`ModuleCache`, one `CachedScope` and one `GlobalState`. The text of a file is the
number of its edit and the packages it imports; a scope or a symbol table is the set
of texts it was computed from, so "up to date" can be stated without the type rules.
A job goes through `LoadCode`, `ClearChanged`, `ParseMain`, the work list of
`parse_entry` (`FollowCached`, `ReadFile`, `WriteFile`), `Collect`,
`ScanUnimported`, `MarkChanged`, `Resolve`, `StoreScopes` and `FindSymbols`: one
action per critical section, except that the main package and the unimported files
are each parsed in one. `Updated` and `UpdateGraph` are `CachedScope::update` and
`DependencyGraph::update`; a `try_write` or `try_lock` may fail when another worker
is in a step that locks. Constants: where packages lie (`PkgFiles`), what a file may
import (`Imports`), and whether the client is *orderly* (every file below a root
stays imported, and imports change only when no job is under way) or not. The packages
a job visits and those an edit invalidates are what a work list ends up with, the least
closed set (`Closure`). `CompileCachesProofs` and `CompileSerialProofs` prove about it.

`TaskReports` - what the notifier of `run_all_tasks` may rely on: each task announced
once, then possibly late once, then finished once, never more than `Capacity` at a
time, all of them before `Ok`.

`TaskExecutor` - `TimeoutExecutor::run_all_tasks` and its threads. The executor's
thread is `LoadTask`, `StopLoading`, `Receive`, `RecvTimeout`, `NotifyTimeouts`,
`TakeFinished`; a task's thread sends (`Send`), ends or panics (`EndThread`), or dies
before it sends (`Die`). Both constructors store an `Instant`, so all tasks share one
deadline and the clock is the question whether it has passed, asked once by
`recv_timeout` and once more by `all_timed_out_tasks_info`. The notifier may fail on
any event, which ends the run there. `ReportsImplemented` is `TaskReports` under the
identity mapping. `TaskExecutorProofs` proves about it.

`LazyEval` - the evaluator's lazy scopes. A state is the whole evaluator: for each
scope the setters, caches, levels and calculation counts of `LazyEvalScope`, the
stack of schema contexts, targets and backtracking records. A program is a module
with assignments, augmented assignments, conditions, schema instances with
configurations, and classes with a parent and a mixin; one action (`WalkModuleStmt`)
evaluates the next module statement with everything that its names pull in. The
evaluation itself is recursive, so this module is for TLC. What the statements
*mean* is defined next to it without scopes, caches or levels, and `OrderIrrelevant`
compares the two.

`ValueRefs` - the values those statements work on: addresses of cells, `deep_copy`,
`union` with the operators `:`, `=`, `+=` and an index, `value_subsume`, config
literals, unpacking, `|`, and the statements `t = e`, `t.k.k2 = e`, `t |= e`. A program
is built statement by statement (`Assign`, `AugAssign`); cells nobody refers to are
dropped and the others renumbered, so that equal heaps are equal states. The
constant `Careful` restricts the programs to those that stay clear of shared cells:
no literal merges a later entry into a value that an earlier one took from a name,
and no path of a name set by `|=` is assigned to. Recursive, for TLC.

`PkgCache` - `save_pkg_cache` and `load_pkg_cache`, a step per file operation, run by
any number of processes that may fail between any two steps. A package's source is
a version, an md5 a record of it. `Orderly` are the packages whose users take
turns: nobody edits, saves or loads one while another saves it, and no save of one
fails. `PkgCacheProofs` proves about it.

`Lexer` - the indentation and delimiter stacks. A token is its kind; `Lex` is
`Lexer::token` with the measuring of the line before it. `blocks` and `nest` are not
of the lexer: they follow the token stream as a parser would read it, and the
properties compare them with the lexer's stacks. `LexerProofs` proves about it.

`MCLspRequests`, `MCLspDocuments`, `MCLspServer`, `MCCompileCaches`, `MCTaskExecutor`,
`MCLazyEval` and `MCValueRefs` give the constants their values for TLC; `LspLocks`,
`PkgCache` and `Lexer` are run directly.

Definitions whose comment starts with "Faulty" are variants with a plausible
mistake. No specification uses them; each replaces the definition that follows it
to show that a property notices the mistake (`mutants` in `PROJECT.json`).

## 3. The runs

Passing runs:

| Run | Shows |
|---|---|
| `requests` | four requests of every dispatch kind, two workers, handlers that finish, retry or panic: at most one reply, one carrier per request, nothing forgotten unless its handler panicked, refinement of `RequestService` |
| `documents_any` | any client, two workers, overlapping workspaces, compilations that fail or panic: every entry that makes somebody wait has a job that will end the wait (`MarkedInFlight`, `TemporaryInFlight`; a job that panicked is the exception they name), and the main thread panics only on a task it sent itself about a file that was closed before the task's turn (`PanicOnlyIfClosed`) |
| `documents_attentive` | one pool thread, an attentive client: once the server is at rest, databases and diagnostics match the newest text (`SettledFresh`, `SettledDiagnostics`), and at every moment an attached workspace exists |
| `server` | requests and compile jobs together, two workers, a client that opens, edits and closes at any time, any `try_read` failing: the service's promise is kept; every request whose handler does not panic is answered, unless it finds its locks taken for ever (`EventuallyServed`); the changes, re-opened files and retries the main thread sends itself come to an end (`Settles`); and then the opened file is attached (`SettledAttached`) |
| `locks` | all handlers against all jobs, failing compilations included: the one circle is that of `Delete` and the failure arm of `async_compile` (`OnlyOneInversion`) |
| `caches` | two roots, one pool thread, an orderly client, three edits: types come from the newest text of every file once the jobs are done, so do symbols as long as there is one workspace, and each cached scope is reachable in the dependency graph from every file it was computed from |
| `executor` | four tasks on two threads, results and the deadline in any order, a task that may die, a notifier that may fail: the notifier hears what `TaskReports` promises, every result finds its task in the map, a thread loses its receiver only to the notifier's error, every run ends unless a task dies silently, and late tasks are reported |
| `lazy_eval` | every order of the statements of modules with inheritance, a mixin, nested instances, configurations, conditions, reassigned globals, instances created in a parent's body and names that ask for themselves: evaluation panics only in the last two kinds of program (`NeverStuck` names them), backtracking leaves no level, target, scope or record behind, a cache holds the final value of a name set once and the current one of a name set again, and every name ends with the value its statements mean |
| `values` | all programs of four careful statements over two names: the cells of two names stay apart except after `\|=`, no statement changes the value of another name, and a union has every entry of both sides; below a key a differing scalar is a conflict and reported, while in a list the right item replaces the left one, as the tests of the runtime expect |
| `pkg_cache` | two processes save, load, edit and fail on two packages with one info file: an orderly package is never loaded stale, a save changes no other package's entry, and every save ends |
| `lexer` | every token sequence with up to two tabs and two spaces of indentation and two open delimiters: levels are nested, blocks and delimiters of the stream are those of the stacks after every error |

One run is expected to be violated, a disagreement between the code and its comments
and tests (quoted under `findings`): `values_shared` drops the restriction of `values`.
TLC finds `b = {y: a.x, y += [1]}` appending to `a.x`, or, after `_b |= a`, an
assignment to `_b.x.y` changing `a`: union puts references into its right operand
where the comments speak of deep copies.

What the properties of the passing runs say holds under the conditions named there
and not beyond. Outside them the same modules show, with other constants:

- a job that ends after didClose inserts the temporary entry of a closed file again;
- two files of a directory share a temporary workspace, and closing one removes it
  (`AttachedExists`);
- a file edited while it is being opened is re-opened instead of compiled;
- after closing without saving, the database of the discarded text is still used;
- if the workspace found for a file does not contain it, or fails, an edit made
  while it compiles lets `Modify` and `ReOpenFile` feed each other for ever;
- a handler that runs between the two critical sections of didClose panics and its
  request is never answered;
- when jobs overlap `CompileCaches` violates `ScopesFresh`: one job clears a file
  between another's parsing and collecting it (a panic, and the newest text is never
  compiled), a slow parser puts an old text back after it was cleared, and two jobs
  overwrite each other's `invalidate_pkg_modules`;
- packages of equal import path below two roots share their symbols, and a package
  edited after another root was compiled keeps its old symbols: `CachedScope::clear`
  also forgets which file changed (`SymbolsFresh`);
- a file edited while nothing imports it and imported later is used with the scope of
  its old text (`ScopesFresh` without the orderly client);
- a change that waits for the temporary workspace of a file that is closed meanwhile
  finds no `opened_files` entry and the main thread panics (the exception that
  `PanicOnlyIfClosed` names, and `documents_any` reaches it);
- with two pool threads the older of two jobs may install its database last
  (`SettledFresh`);
- a failing job and `Delete` take two locks in opposite orders and wait for each other
  for ever, and `try_get_db_state` behind them (reached in `locks`, where
  `OnlyOneInversion` names it);
- a load between the two renames of a save, a crash between them, or an edit during
  the save makes `PkgCache` load a stale package: `OrderlyLoadFresh` says nothing of
  packages that are not used in turns;
- the lexer drops the Indent or the Dedents of a line whose first token is one that
  `lex_token` drops (a form feed, a lone carriage return, a line continuation), and
  takes a line between two levels that differ in tabs only for a proper Dedent, so a
  file without an error may end with open blocks (`BlocksClosed`);
- `y = "1"`, `x = y`, `y += "2"` in a schema body extends `y` twice (`LazyEval` with
  the programs `Extending`): reading `y` between its setters stores the final value in
  the instance, and the second setter, walked in its turn, extends that
  (`schema.rs:374`, where `lazy.rs:41` promises a value per name);
- a global set in both branches of a condition and read before it gets the value of
  the last branch that was written, not of the one taken (programs `Branching`);
- an instance created while the body of a parent runs, of a class with the same parent,
  finds the context of that class borrowed (programs `Reentering`, `schema.rs:320`), and
  a name that asks for itself wraps a level below zero or leaves an operand undefined
  (programs `SelfAsking`): both are in the run, and `NeverStuck` allows them there only.

### Bounds

Two files, two workspaces and two workers are enough for every interaction the
code has: its rules mention one file and one workspace at a time, or "some other"
one. `MaxVersion` (1 to 3 edits) and `MaxOpens` (1 to 3) let a file be reopened and
two compilations of one workspace overlap. `MaxPool` and `MaxTasks` bound the two
queues; the bound on tasks stops a handler from lengthening the channel but never
one that drains it, so that it cannot fake a deadlock. In `CompileCaches` three edits let an import be dropped, restored and
its target edited, the shortest way to lose an edge of the dependency graph; three
packages give an import chain of length two. `MaxQueue` lets two jobs wait, one for
each root. Four tasks on a capacity of two let tasks be loaded before and after the
deadline while others are late, done or dead. In `PkgCache` two processes and two
packages let one package be used in turns while the other is raced over; one edit
makes two versions. Two tabs and two spaces give every relation between two levels
(deeper, shallower, inconsistent) and levels between levels; two delimiters give a
wrong one inside another. `LazyEval` runs all orders of five families of programs, for
inheritance with a mixin, nesting with conditions, instances in a parent's body,
reassigned globals, and names that ask for themselves. Four statements over two names
and two keys are one more than the shortest way to share a cell and change it.
Their targets are a name or a path of two keys, so that a change in place happens
below the top of a value.
Deadlock is not checked for the server modules: a server that waits
for its client has no step to take; nor where a run, a program or a file comes to its
end, nor for `LspLocks`, whose one deadlock `OnlyOneInversion` describes. It is checked
for `PkgCache`.

### Fairness

`server` assumes weak fairness of the main
thread's step (`run` loops as long as the process lives, and `select!` picks at
random among ready channels) and of each worker (a pool thread runs its job to the
end and takes the next). Nothing is assumed of the client, nor
of a lock that is only tried: `EventuallyServed` and `Settles` except a request that is
denied its lock again and again (`Denied`), as `try_read` gives nobody a turn. `executor` assumes weak
fairness of the executor's thread, of each task's thread (it sends, ends or dies) and
of the clock. `pkg_cache` assumes strong fairness of each process's next step: a
process that waits in `flock` gets the lock if it is free again and again; a process
may fail instead at any time.

## 4. The proofs

`LspServerProofs` proves about `LspRequests`, for every set of requests, every assignment
of kinds, every set of outcomes and every number of workers:

- `RequestsTypesHold`: `RequestsSpec => []RequestsTypeOK`. The types of the registry
  and of the queues are each inductive.
- `RepliesAtMostOnce`: `RequestsSpec => []AtMostOneReply`. Not inductive by itself:
  the strengthening `Unanswered` says that a registered request was received and has
  no reply, and that nothing is replied to before it is received. The step that needs
  it is `HandleRetry`: only the `is_completed` guard keeps an answered request from
  being registered again.
- `ImplementsService`: `RequestsSpec => ServiceSpec`, from the same invariant; every
  step moves one request along `RequestService` or changes no status.
- `NothingForgotten`: `RequestsSpec => []NeverForgotten`: a registered request whose
  handler has not panicked (the history variable `crashed` records those that have) is
  always carried by a job, a worker or a task. The invariant is inductive given the
  types; the proof follows a request through queue, worker and channel.
- `CarriersAreSingle`: `RequestsSpec => []OneCarrier`. `SingleCarrier` says it without
  cardinalities and adds that a request the client has not sent has no carrier: that
  makes the job `on_request` queues for a new request its first.

It proves for the whole server, for every set of requests, files and
workspaces and any number of workers, with compilations that fail or panic and a
client that does anything:

- `ServerImplementsService`: `ServerSpec => ServiceSpec`. Every step of the server is a
  step of `LspRequests` or leaves registry and replies alone (`ServerStepCases`), so the
  step lemmas about `LspRequests` carry over.
- `ServerForgetsNothing` and `ServerCarriersAreSingle`: `ServerSpec => []NeverForgotten`
  and `ServerSpec => []OneCarrier`. Requests now share the channel and the pool with
  documents. `SharedQueues` is all the proof needs to know of these: every job is a
  request's or a compile job. `DocumentEffect` says what documents may do to them: take
  tasks and end jobs of their own, append to the ends. Each document action is shown to
  do no more, and then every carrier keeps its place or moves up by one (`CarriersKept`).

`LspLocksProofs` proves `LocksHaveOneInversion`: `LocksSpec => []OnlyOneInversion` for any
number of workers and every mix of the code's handlers and jobs (`RolesAsInCode` says only
which of them the main thread and which the pool runs). The invariant
`LocksInv` places every thread at a position of its handler's program and bounds what
it holds by what the operations before that position took. From the programs one then
reads off an order of the operations that wait: whoever blocks an operation waits, if
at all, at a later one, with one exception, `Delete` and the failure arm of
`async_compile`, which take `workspaces` and `temporary_workspace` in opposite orders. So
every circle goes through both.

`LspDocumentsProofs` proves, for every set of files and workspaces, every bound on
edits, opens and queues, any number of workers, any client and a compiler that may fail
or panic where `MayFail` and `MayPanic` say so:

- at every moment: `DocumentsTypesHold` (`DocumentsTypeOK`), `MarksAreInFlight`
  (`MarkedInFlight`), `WaitsAreInFlight` (`TemporaryInFlight`) and
  `PanicsOnlyOnClosedFiles` (`PanicOnlyIfClosed`). `DocumentsInv` adds
  that the options of every workspace a handler may index are cached (`OptionsKept`) and
  that a temporary entry names a workspace the driver found (`TemporaryFound`).
- `AttachedLostByCloseOnly` (`AttachedExists`), for behaviours in which no didClose removes
  a temporary workspace that another opened file has or is about to get (`NoneShared`):
  the check of `Unused` looks at `opened_files` only. `PresentInv` carries it.
- `SettledFilesAttached` (`SettledAttached`), without any condition on the behaviour.
  `Remembered` says who still attaches an opened file: its entry, its recorded
  workspaces, a job that will insert the entry, or a task that searches again.
- `SettledDatabasesFresh` (`SettledFresh`), for behaviours in which no two workers compile
  one workspace at the same time (`OneAtATime`), and an edit that is not sent again
  reaches each workspace that has read the file, and the client saves what it closes
  (`EditsReach`). `FreshInv`: the database of a workspace has the newest texts, or a job
  for it is queued or has yet to read them, or has read them and will install them, or
  the change is sent again. Each condition is needed: of two jobs of one workspace the
  older may install last, of two workspaces of one file only the recorded ones are
  recompiled, and a discarded text stays in the database.

The hypotheses on behaviours (`[]OneAtATime`, `[][NoneShared]`, ...) are about what
happens, not about the size of the pool or the kind of client: the constants are
arbitrary.

`CompileCachesProofs` proves, for every set of files, packages and program roots, every
placement of packages below roots that `CachesAssumption` admits, every choice of
imports and every bound on edits and jobs:

- for any client and any number of pool threads: `CachesTypesHold` (`CachesTypeOK`);
- with one pool thread and an orderly client (`Orderly`), as lemmas: `InvalidatedByOne`
  (`CachedScopesInvalidated`), `ScopesOfOne` (`ScopesFresh`) and `SymbolsOfOne`
  (`SymbolsFreshAlone`).

`CompileSerialProofs` proves the theorems that rest on these, for a pool of any size and
either client: `CachedScopesAreInvalidated`, `ScopesAreFresh` and `SymbolsAreFreshAlone`
hold in every behaviour in which no two jobs overlap (`Serial`), every file below a root
stays imported (`InOrder`) and imports are edited at rest (`ImportsAtRest`); texts may be
edited while a job runs. The proof is a refinement mapping: `One` is `CompileCaches` with a
single thread that has the job that runs, whichever thread runs it; a step of the pool is
a step of `One` because the other threads are idle and hold no lock (`StepMaps`), so that
`SerialBehaviour => One!CachesSpec`, and what holds of `One` holds of the pool. That
overlapping jobs must be left out is no weakness of the proof: section 3 lists what they do.

The question behind these three is whether a job may reuse what an earlier one left.
The invariant `CachesInv` answers it layer by layer, along the path of an edit through
the caches, and each layer is kept by a step that keeps those above it:

1. `JobsAbout`, `TextsKnown`: jobs are about opened roots and files below them; every
   cached text is the client's or an older one, and only files of opened roots are cached.
2. `ImportsCurrent`, `TextsCurrent`: an old text in `ast_cache`, `source_code` or in a job
   is that of a file which the next job clears before anybody reads it, or whoever reads
   it is followed by a job for the same root (`Awaited`).
3. `ProgramFound`: a job past parsing has exactly the packages of its program, a module
   for every file, and its `Collect` finds no module missing.
4. `ChangedTold`, `GraphCurrent`: the graph has an edge for each import of each file it
   knows, unless the job of that file has yet to relink it; the second `update` of a job
   removes no edge that it does not put back (`Relinked`).
5. `ScopesReached`: from each file a scope was computed from the graph leads to the scope.
   This is `CachedScopesInvalidated`. `update` keeps it because what it unlinks it also
   invalidates (`UpdateReaches`).
6. `ScopesFull`, `ScopesCurrent`: a scope made of newest texts is made of all that can be
   seen from its package, and one made of an older text is about to be invalidated by the
   job of that text.
7. `ResultsCurrent`: what a root got last is the newest, or a job for it is under way.

The symbols need `AloneCurrent` on top: they are cleared at the end of a job, by the
`invalidate_pkgs` that the second `update` left, when the graph is already relinked.
`SymbolsInvalid` says that these still cover what the changed file reached before
(`UpdatedInvalid`), `SymbolsReached` that symbols are reached in the graph or about to be
cleared. TLC checked `CachesInv` and `AloneCurrent` on the instance of `caches` before they
were proved. Each condition is needed: section 3 names the races of overlapping jobs, the
unimported file that is imported later, and what two roots do to each other's symbols.
The constants of `caches` meet all of them: with one thread jobs cannot overlap. The theorems hold for cyclic imports, too,
but that the resolver rejects those is not modelled.

`TaskExecutorProofs` proves, for every list of distinct tasks, every positive capacity,
every set of tasks that may die and a notifier that may fail or not:

- `ResultsFindTheirTasks`: `ExecutorSpec => []ResultsAwaited`;
- `ReceiverOutlivesThreads`: `ExecutorSpec => []OrphanedOnlyByError`;
- `ImplementsReports`: `ExecutorSpec => ReportsImplemented`.

One invariant, `Inv`, carries all three. While the run goes on, the waiting tasks are
exactly the ones not announced and without a thread, the map holds exactly the tasks
between announcement and last report, each result in the channel or in hand belongs
to a task of the map whose thread has sent, and a task of the map still in the timeout
queue has not been reported late; after `Ok` no thread is left that could send. The
first part makes a newly loaded task fresh, the queue part keeps a task from being
late twice, the last one is what lets the receiver go.

`PkgCacheProofs` proves, for every set of processes, packages and versions:

- `CacheTypesHold`: `Spec => []CacheTypeOK`;
- `InfoEntriesAreKept`: `Spec => OnlyOwnEntry`. The invariant `IInv` adds who holds the
  info lock and what it has read.

`LexerProofs` proves, for every bound on tabs, spaces and nesting:

- `LexerTypesHold`, `LevelsAreNested`, `BlocksAgree`, `NestingAgrees`: the four
  invariants of the `lexer` run. Popping levels needs the nesting of those below, so
  they are proved together.

The assumptions are the named `ASSUME`s of the modules proved about, and the
conditions a theorem names.

Only model-checked, and why:

- `Settles`, `EventuallyServed`, `RunEnds`, `LateTaskReported`, `SaveEnds`: liveness under
  fairness is out of the prover's reach. What they rest on is proved: `MarkedInFlight`
  and `TemporaryInFlight` say that every wait has somebody who ends it, `NeverForgotten`
  that every request has a carrier.
- `SettledDiagnostics` and `OrderlyLoadFresh`: they hold for what the runs' clients and
  processes do, and what they need beyond that (one job at a time and no other publisher;
  users that take turns and do not fail) is what the code does not enforce.
- all of `LazyEval` and `ValueRefs`: evaluation, deep copy and union are RECURSIVE
  operators over trees, which the prover does not support.

## 5. Not modelled

The language features (hover, completion, rename, ...) are functions of an
immutable database. The file watcher's events only write log lines in this version
(`ChangedConfigFile` is commented out in `next_event`, so
`handle_changed_confg_file` is unreachable). A poisoned `ModuleCache` lock and a
client that sends a duplicate request id are left out. `Members` is fixed: the set
of files of a workspace does not change with the text. Formatting requests read the
document only and are never retried. `CompileCaches` leaves out files that belong to
two packages, packages whose files come and go, the limit of 1000 scanned files, and
import cycles (the instances have none); `schema_mapping` and `node_ty_map` are part
of the scopes they belong to. `LspDocuments` and `CompileCaches` are not composed:
in the first a compilation sees the newest text of every file. `LazyEval` leaves out types,
check blocks, rules, lambdas, comprehensions and packages; its values are strings and
instances. `ValueRefs` leaves out schemas (their union evaluates the schema body
again), strings, `None` and the local variables that config entries make of their
keys. `PkgCache` leaves out where a package and its cache lie; its md5 tells all
versions apart. `Lexer` leaves out which characters make which token, literals, and
the joining of `-` and `>`. The remaining parts are sequential functions without state
that outlives a call (expression parser, type lattice, settings, query, formatter,
the C functions of the runtime, the language features of the server), file system
walks, or vendored code; `PROJECT.json` lists each with its reason. They make up most
of the repository's lines.

## 6. Plan

1. Proofs: the document theorems hold for `DocumentsSpec`; carrying them over to
   `ServerSpec`, where requests share the queues, takes lemmas over mixed queues like
   those of `LspServerProofs`. `SettledDiagnostics` for jobs that do not overlap.
2. `CompileCaches`: a two-worker instance with the properties that survive the races,
   then as the body of `Compile` in `LspDocuments`.
3. `LazyEval` and `ValueRefs` share their statements; composing them would let a name
   be read between two in-place changes of its value.
4. Subsumption and least upper bound of types (`sema/src/ty/unify.rs`) against a
   set-theoretic reference.
