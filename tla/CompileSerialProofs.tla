------------------------ MODULE CompileSerialProofs -------------------------
(***************************************************************************)
(* What the last compile jobs return is fresh for a pool of any number of  *)
(* threads and any client, in the behaviours in which no two jobs overlap, *)
(* every file below a root is imported and imports are edited at rest.     *)
(* Such a behaviour is, whichever threads run the jobs, one of a pool with *)
(* a single thread: the proof is a refinement mapping onto that pool.      *)
(***************************************************************************)
EXTENDS CompileCachesProofs

\* Jobs do not overlap.
Serial == \A u, v \in Workers : Busy(u) /\ Busy(v) => u = v

\* The client edits imports at rest.
ImportsAtRest == (\E f \in Files : text'[f].imports # text[f].imports) => Settled

\* The job that runs, in a pool whose threads are in the state run.
JobOf(run) ==
    IF \E w \in Workers : run[w] # Idle THEN run[CHOOSE w \in Workers : run[w] # Idle]
    ELSE Idle

\* The pool with one thread and an orderly client.
One == INSTANCE CompileCachesProofs WITH
          Workers <- {0}, Client <- "orderly", running <- [w \in {0} |-> JobOf(running)]

-----------------------------------------------------------------------------
(* What does not depend on the pool is the same for both. *)

\* Texts, programs and the work list of the parser.
LEMMA SameTexts ==
    /\ \A r, file : One!Job(r, file) = Job(r, file)
    /\ \A S, file : One!JobsFor(S, file) = JobsFor(S, file)
    /\ One!Idle = Idle
    /\ One!NoScopes = NoScopes /\ One!NoGraph = NoGraph
    /\ \A r : One!RootFiles(r) = RootFiles(r)
    /\ \A r, S : One!PkgFilesOf(r, S) = PkgFilesOf(r, S)
    /\ \A f : One!Source(f) = Source(f)
    /\ \A x : One!CachedImports(x) = CachedImports(x)
    /\ \A job, x, imports : One!Discover(job, x, imports) = Discover(job, x, imports)
    /\ \A file : One!Cleared(file) = Cleared(file)
    /\ \A r, mods, cached, S : One!Visited(r, mods, cached, S) = Visited(r, mods, cached, S)
    /\ \A r, mods, cached, S : One!Computed(r, mods, cached, S) = Computed(r, mods, cached, S)
    /\ \A r, mods, p : One!Own(r, mods, p) = Own(r, mods, p)
    /\ \A r : One!Newest(r) = Newest(r)
    /\ One!InOrder <=> InOrder
<1>1. \A r, file : One!Job(r, file) = Job(r, file)
  BY DEF Job, One!Job, NoScopes, One!NoScopes
<1>0. \A S : One!Cardinality(S) = Cardinality(S) BY DEF Cardinality, One!Cardinality
<1>2. \A S, file : One!JobsFor(S, file) = JobsFor(S, file)
  BY <1>0, <1>1 DEF JobsFor, One!JobsFor, Orders, One!Orders
<1>3. /\ One!Idle = Idle /\ One!NoScopes = NoScopes /\ One!NoGraph = NoGraph
      /\ \A r : One!RootFiles(r) = RootFiles(r)
      /\ \A r, S : One!PkgFilesOf(r, S) = PkgFilesOf(r, S)
      /\ \A f : One!Source(f) = Source(f)
      /\ \A x : One!CachedImports(x) = CachedImports(x)
      /\ \A file : One!Cleared(file) = Cleared(file)
  BY DEF Idle, One!Idle, NoScopes, One!NoScopes, NoGraph, One!NoGraph, RootFiles, One!RootFiles,
     PkgFilesOf, One!PkgFilesOf, Source, One!Source, CachedImports, One!CachedImports,
     Cleared, One!Cleared
<1>4. \A job, x, imports : One!Discover(job, x, imports) = Discover(job, x, imports)
  BY DEF Discover, One!Discover, PkgFilesOf, One!PkgFilesOf
<1>5. \A r, mods, cached, S : One!Visited(r, mods, cached, S) = Visited(r, mods, cached, S)
  BY DEF Visited, One!Visited, Closure, One!Closure, ImportsOf, One!ImportsOf,
     Existing, One!Existing
<1>6. \A r, mods, p : One!Own(r, mods, p) = Own(r, mods, p)
  BY DEF Own, One!Own, Stamp, One!Stamp
<1>7. \A r, mods, cached, S : One!Computed(r, mods, cached, S) = Computed(r, mods, cached, S)
  BY <1>5, <1>6 DEF Computed, One!Computed
<1>8. \A r : One!ProgramFiles(r) = ProgramFiles(r)
  BY <1>3, <1>5 DEF ProgramFiles, One!ProgramFiles, ProgramPkgs, One!ProgramPkgs, Current, One!Current
<1>9. \A r : One!Newest(r) = Newest(r)
  BY <1>8 DEF Newest, One!Newest, Stamp, One!Stamp
<1>10. One!InOrder <=> InOrder BY <1>3, <1>8 DEF InOrder, One!InOrder
<1>11. QED BY <1>1, <1>2, <1>3, <1>4, <1>5, <1>6, <1>7, <1>9, <1>10

\* The texts are in order for both.
LEMMA SameOrder == One!InOrder <=> InOrder BY SameTexts

\* The dependency graph, the scopes and the symbols.
LEMMA SameScopes ==
    /\ \A job : One!PkgsOf(job) = PkgsOf(job)
    /\ \A job : One!Updated(job) = Updated(job)
    /\ \A job, cached : One!Resolved(job, cached) = Resolved(job, cached)
    /\ \A scopes : One!Kept(scopes) = Kept(scopes)
    /\ \A job, cache, invalid : One!SymbolsOf(job, cache, invalid) = SymbolsOf(job, cache, invalid)
    /\ \A job, symbols : One!ProgramSymbols(job, symbols) = ProgramSymbols(job, symbols)
    /\ \A g, S : One!Invalidated(g, S) = Invalidated(g, S)
<1>1. \A job : One!PkgsOf(job) = PkgsOf(job) BY DEF PkgsOf, One!PkgsOf
<1>2. \A g, S : One!Invalidated(g, S) = Invalidated(g, S)
  BY DEF Invalidated, One!Invalidated, Closure, One!Closure
<1>3. \A g, mods, S : One!AddModules(g, mods, S) = AddModules(g, mods, S)
  BY DEF AddModules, One!AddModules
<1>4. \A g, job : One!Registered(g, job) = Registered(g, job)
  BY <1>1, <1>3 DEF Registered, One!Registered
<1>5. \A g, S : One!RemoveDependencies(g, S) = RemoveDependencies(g, S)
  BY DEF RemoveDependencies, One!RemoveDependencies
<1>6. \A g, job, files : One!UpdateGraph(g, job, files) = UpdateGraph(g, job, files)
  BY <1>2, <1>3, <1>4, <1>5 DEF UpdateGraph, One!UpdateGraph
<1>7. \A job : One!Updated(job) = Updated(job)
  BY <1>6, SameTexts DEF Updated, One!Updated
<1>8. \A job, cached : One!Resolved(job, cached) = Resolved(job, cached)
  BY SameTexts DEF Resolved, One!Resolved
<1>9. \A job, cache, invalid : One!SymbolsOf(job, cache, invalid) = SymbolsOf(job, cache, invalid)
  BY <1>1, SameTexts DEF SymbolsOf, One!SymbolsOf, ClearSymbols, One!ClearSymbols
<1>10. /\ \A scopes : One!Kept(scopes) = Kept(scopes)
       /\ \A job, symbols : One!ProgramSymbols(job, symbols) = ProgramSymbols(job, symbols)
  BY <1>1 DEF Kept, One!Kept, ProgramSymbols, One!ProgramSymbols
<1>11. QED BY <1>1, <1>2, <1>7, <1>8, <1>9, <1>10

-----------------------------------------------------------------------------
(* The mapping. *)

\* A thread next to idle ones has the job that runs.
LEMMA JobOfThread ==
    ASSUME NEW run, NEW w \in Workers, \A v \in Workers \ {w} : run[v] = Idle
    PROVE  JobOf(run) = run[w]
  BY DEF JobOf

\* The pool rests when the mapped one does.
LEMMA SettledMaps ==
    /\ Settled => One!Settled
    /\ One!Settled => Settled
<1>1. JobOf(running) = Idle <=> \A w \in Workers : running[w] = Idle BY DEF JobOf
<1>2. [w \in {0} |-> JobOf(running)][0] = JobOf(running) OBVIOUS
<1>3. One!Idle = Idle BY SameTexts
<1>4. QED BY <1>1, <1>2, <1>3 DEF Settled, One!Settled

\* A step of a job leaves the other threads idle.
LEMMA StepAlone ==
    ASSUME Types, JobsAbout, Serial, Serial', NEW w \in Workers, StartJob(w) \/ WorkStep(w)
    PROVE  /\ \A v \in Workers \ {w} : running[v] = Idle
           /\ \A v \in Workers \ {w} : running'[v] = Idle
           /\ JobOf(running) = running[w] /\ JobOf(running') = running'[w]
           /\ running' = [running EXCEPT ![w] = running'[w]]
<1>1. /\ running' = [running EXCEPT ![w] = running'[w]]
      /\ \A v \in Workers \ {w} : running'[v] = running[v]
  BY DEF StartJob, WorkStep, LoadCode, ClearChanged, ParseMain, FollowCached, ReadFile, WriteFile,
     Collect, ScanUnimported, MarkChanged, Resolve, StoreScopes, FindSymbols, Goto, Types, PoolTypes
<1>2. CASE StartJob(w)
  <2>1. running'[w] # Idle
    <3>1. running'[w].step = "start" BY <1>2, StartedJob
    <3>2. QED BY <3>1 DEF Idle
  <2>2. QED BY <1>1, <2>1, JobOfThread DEF Serial, Busy
<1>3. CASE WorkStep(w)
  <2>1. running[w] # Idle
    BY <1>3, StepsAre, RunningJob DEF WorkStep, LoadCode, ClearChanged, ParseMain, FollowCached,
       ReadFile, WriteFile, Collect, ScanUnimported, MarkChanged, Resolve, StoreScopes, FindSymbols,
       At, Types, Busy
  <2>2. QED BY <1>1, <2>1, JobOfThread DEF Serial, Busy
<1>4. QED BY <1>2, <1>3

\* The step of the only job meets no lock that is held.
LEMMA NoLockHeld ==
    ASSUME NEW w \in Workers, \A v \in Workers \ {w} : running[v] = Idle
    PROVE  /\ TryWrite(w) = One!TryWrite(0) /\ TryLock(w) = One!TryLock(0)
<1>1. Idle.step \notin ScopeSteps /\ Idle.step # "symbols" BY DEF Idle, ScopeSteps
<1>2. /\ (\A v \in Workers \ {w} : running[v].step \notin ScopeSteps) <=> TRUE
      /\ (\A v \in Workers \ {w} : ~At(v, "symbols")) <=> TRUE
  BY <1>1 DEF At
<1>3. TryWrite(w) = {TRUE} /\ TryLock(w) = {TRUE}
  BY <1>2, Zenon DEF TryWrite, TryLock
<1>4. One!TryWrite(0) = {TRUE} /\ One!TryLock(0) = {TRUE}
  BY DEF One!TryWrite, One!TryLock
<1>5. QED BY <1>3, <1>4

-----------------------------------------------------------------------------
(* The steps of the jobs map to steps of the one thread. *)

\* The pool before and after a step of the job that w runs.
MapsTo(w) ==
    /\ [v \in {0} |-> JobOf(running)][0] = running[w]
    /\ \A x : running' = [running EXCEPT ![w] = x] =>
                 [v \in {0} |-> JobOf(running)]' = [[v \in {0} |-> JobOf(running)] EXCEPT ![0] = x]

\* The steps of the parser.
LEMMA ParserMaps ==
    ASSUME NEW w \in Workers, MapsTo(w),
           LoadCode(w) \/ ClearChanged(w) \/ ParseMain(w) \/ FollowCached(w) \/ ReadFile(w)
              \/ WriteFile(w) \/ Collect(w) \/ ScanUnimported(w)
    PROVE  One!CompileStep(0)
<1>1. \A step : One!At(0, step) <=> At(w, step) BY DEF One!At, At, MapsTo
<1>2. \A step, job : Goto(w, step, job) => One!Goto(0, step, job)
  BY DEF One!Goto, Goto, MapsTo
<1>3. CASE LoadCode(w)
  <2>1. One!LoadCode(0)
    BY <1>1, <1>2, <1>3, SameTexts DEF LoadCode, One!LoadCode, MapsTo, textVars, One!textVars,
       moduleVars, One!moduleVars, scopeVars, One!scopeVars
  <2>2. QED BY <2>1 DEF One!CompileStep
<1>4. CASE ClearChanged(w)
  <2>1. One!ClearChanged(0)
    BY <1>1, <1>2, <1>4, SameTexts DEF ClearChanged, One!ClearChanged, MapsTo, textVars, One!textVars,
       moduleVars, One!moduleVars, scopeVars, One!scopeVars
  <2>2. QED BY <2>1 DEF One!CompileStep
<1>5. CASE ParseMain(w)
  <2> DEFINE job == running[w]
             job1 == [v \in {0} |-> JobOf(running)][0]
             main == PkgFiles[job.root][MainPkg]
             deps == UNION {PkgFilesOf(job.root, t.imports) : t \in UNION {job.code[f] : f \in main}}
             deps1 == UNION {One!PkgFilesOf(job1.root, t.imports) :
                                t \in UNION {job1.code[f] : f \in PkgFiles[job1.root][MainPkg]}}
  <2>3. job1 = job BY DEF MapsTo
  <2>4. deps1 = deps
    <3>1. UNION {job1.code[f] : f \in PkgFiles[job1.root][MainPkg]} = UNION {job.code[f] : f \in main}
      BY <2>3
    <3> HIDE DEF job, job1
    <3>2. QED BY <2>3, <3>1, SameTexts
  <2>5. /\ [f \in Files |-> IF f \in main THEN job.code[f] ELSE ast_cache[f]] =
           [f \in Files |-> IF f \in PkgFiles[job1.root][MainPkg] THEN job1.code[f] ELSE ast_cache[f]]
        /\ [f \in Files |-> IF f \in main
                            THEN [dep_cache[f] EXCEPT ![MainPkg] = {t.imports : t \in job.code[f]}]
                            ELSE dep_cache[f]] =
           [f \in Files |-> IF f \in PkgFiles[job1.root][MainPkg]
                            THEN [dep_cache[f] EXCEPT ![MainPkg] = {t.imports : t \in job1.code[f]}]
                            ELSE dep_cache[f]]
    <3> HIDE DEF job, job1
    <3> QED BY <2>3
  <2>6. /\ At(w, "main")
        /\ ast_cache' = [f \in Files |-> IF f \in main THEN job.code[f] ELSE ast_cache[f]]
        /\ dep_cache' = [f \in Files |->
               IF f \in main
               THEN [dep_cache[f] EXCEPT ![MainPkg] = {t.imports : t \in job.code[f]}]
               ELSE dep_cache[f]]
        /\ Goto(w, "parse", [job EXCEPT !.found = (main \X {MainPkg}) \cup deps, !.todo = deps])
        /\ UNCHANGED <<textVars, jobs, source_code, last_compile_input, scopeVars, gs, compiled>>
    BY <1>5 DEF ParseMain
  <2>7. One!Goto(0, "parse",
             [job1 EXCEPT !.found = (PkgFiles[job1.root][MainPkg] \X {MainPkg}) \cup deps1, !.todo = deps1])
    <3>1. Goto(w, "parse",
             [job1 EXCEPT !.found = (PkgFiles[job1.root][MainPkg] \X {MainPkg}) \cup deps1, !.todo = deps1])
      <4> HIDE DEF job, job1, deps, deps1
      <4> QED BY <2>3, <2>4, <2>6 DEF main
    <3> HIDE DEF job, job1, deps, deps1
    <3>2. QED BY <1>2, <3>1
  <2>1. One!ParseMain(0)
    BY <1>1, <2>5, <2>6, <2>7 DEF One!ParseMain, textVars, One!textVars, scopeVars, One!scopeVars
  <2>2. QED BY <2>1 DEF One!CompileStep
<1>6. CASE FollowCached(w)
  <2>1. One!FollowCached(0)
    BY <1>1, <1>2, <1>6, SameTexts DEF FollowCached, One!FollowCached, MapsTo, textVars, One!textVars,
       moduleVars, One!moduleVars, scopeVars, One!scopeVars
  <2>2. QED BY <2>1 DEF One!CompileStep
<1>7. CASE ReadFile(w)
  <2>1. One!ReadFile(0)
    BY <1>1, <1>2, <1>7, SameTexts DEF ReadFile, One!ReadFile, MapsTo, textVars, One!textVars,
       moduleVars, One!moduleVars, scopeVars, One!scopeVars, Source, One!Source
  <2>2. QED BY <2>1 DEF One!CompileStep
<1>8. CASE WriteFile(w)
  <2>1. One!WriteFile(0)
    BY <1>1, <1>2, <1>8, SameTexts DEF WriteFile, One!WriteFile, MapsTo, textVars, One!textVars,
       moduleVars, One!moduleVars, scopeVars, One!scopeVars
  <2>2. QED BY <2>1 DEF One!CompileStep
<1>9. CASE Collect(w)
  <2>1. One!Collect(0)
    BY <1>1, <1>2, <1>9, SameTexts DEF Collect, One!Collect, MapsTo, textVars, One!textVars,
       moduleVars, One!moduleVars, scopeVars, One!scopeVars
  <2>2. QED BY <2>1 DEF One!CompileStep
<1>10. CASE ScanUnimported(w)
  <2> DEFINE job == running[w]
             job1 == [v \in {0} |-> JobOf(running)][0]
             rest == IF last_compile_input = {job.root} THEN {}
                     ELSE {f \in RootFiles(job.root) : ast_cache[f] = {}}
             rest1 == IF last_compile_input = {job1.root} THEN {}
                      ELSE {f \in One!RootFiles(job1.root) : ast_cache[f] = {}}
             parsed == [f \in Files |-> IF f \in rest THEN Source(f) ELSE ast_cache[f]]
             parsed1 == [f \in Files |-> IF f \in rest1 THEN One!Source(f) ELSE ast_cache[f]]
             deps == UNION {PkgFilesOf(job.root, t.imports) : t \in UNION {parsed[f] : f \in rest}}
             deps1 == UNION {One!PkgFilesOf(job1.root, t.imports) :
                                t \in UNION {parsed1[f] : f \in rest1}}
             new == {x \in PkgFilesOf(job.root, Pkgs) \ job.found : x[1] \in rest \/ x \in deps}
             new1 == {x \in One!PkgFilesOf(job1.root, Pkgs) \ job1.found :
                         x[1] \in rest1 \/ x \in deps1}
             after == [job EXCEPT !.mods = [f \in Files |-> IF \E x \in new : x[1] = f
                                                            THEN parsed[f] ELSE @[f]],
                                  !.unimported = {x[2] : x \in new}]
             after1 == [job1 EXCEPT !.mods = [f \in Files |-> IF \E x \in new1 : x[1] = f
                                                              THEN parsed1[f] ELSE @[f]],
                                    !.unimported = {x[2] : x \in new1}]
             depends == [f \in Files |-> [p \in Pkgs |->
                            IF f \in rest \cap PkgFiles[job.root][p]
                            THEN {t.imports : t \in Source(f)} ELSE dep_cache[f][p]]]
             depends1 == [f \in Files |-> [p \in Pkgs |->
                            IF f \in rest1 \cap PkgFiles[job1.root][p]
                            THEN {t.imports : t \in One!Source(f)} ELSE dep_cache[f][p]]]
  <2>3. job1 = job BY DEF MapsTo
  <2> HIDE DEF job, job1
  <2>4. rest1 = rest BY <2>3, SameTexts
  <2> HIDE DEF rest, rest1
  <2>5. parsed1 = parsed BY <2>4, SameTexts
  <2>6. depends1 = depends
    <3>1. \A f : {t.imports : t \in One!Source(f)} = {t.imports : t \in Source(f)} BY SameTexts
    <3>2. QED BY <2>3, <2>4, <3>1
  <2> HIDE DEF parsed, parsed1
  <2>7. deps1 = deps
    <3>1. UNION {parsed1[f] : f \in rest1} = UNION {parsed[f] : f \in rest} BY <2>4, <2>5
    <3>2. QED BY <2>3, <3>1, SameTexts
  <2> HIDE DEF deps, deps1
  <2>8. new1 = new BY <2>3, <2>4, <2>7, SameTexts
  <2> HIDE DEF new, new1
  <2>9. after1 = after
    <3>1. {x[2] : x \in new1} = {x[2] : x \in new} BY <2>8
    <3>2. [f \in Files |-> IF \E x \in new1 : x[1] = f THEN parsed1[f] ELSE job1.mods[f]] =
          [f \in Files |-> IF \E x \in new : x[1] = f THEN parsed[f] ELSE job.mods[f]]
      BY <2>3, <2>5, <2>8
    <3>3. QED BY <2>3, <3>1, <3>2
  <2>10. /\ At(w, "scan") /\ last_compile_input' = {job.root} /\ ast_cache' = parsed
         /\ dep_cache' = depends /\ Goto(w, "mark", after)
         /\ UNCHANGED <<textVars, jobs, source_code, scopeVars, gs, compiled>>
    BY <1>10 DEF ScanUnimported, job, rest, parsed, deps, new
  <2> HIDE DEF after, after1, depends, depends1
  <2>11. /\ last_compile_input' = {job1.root} /\ ast_cache' = parsed1 /\ dep_cache' = depends1
         /\ Goto(w, "mark", after1)
    BY <2>3, <2>5, <2>6, <2>9, <2>10
  <2>12. One!Goto(0, "mark", after1) BY <1>2, <2>11
  <2>1. One!ScanUnimported(0)
    BY <1>1, <2>10, <2>11, <2>12 DEF One!ScanUnimported, textVars, One!textVars, scopeVars,
       One!scopeVars, job1, rest1, parsed1, deps1, new1, after1, depends1
  <2>2. QED BY <2>1 DEF One!CompileStep
<1>11. QED BY <1>3, <1>4, <1>5, <1>6, <1>7, <1>8, <1>9, <1>10

\* The steps that try the locks of the CachedScope and the GlobalState.
LEMMA ResolverMaps ==
    ASSUME NEW w \in Workers, MapsTo(w), \A v \in Workers \ {w} : running[v] = Idle,
           MarkChanged(w) \/ Resolve(w) \/ StoreScopes(w) \/ FindSymbols(w)
    PROVE  One!CompileStep(0)
<1>1. \A step : One!At(0, step) <=> At(w, step) BY DEF One!At, At, MapsTo
<1>2. \A step, job : Goto(w, step, job) => One!Goto(0, step, job)
  BY DEF One!Goto, Goto, MapsTo
<1>3. CASE MarkChanged(w)
  <2>1. One!MarkChanged(0)
    BY <1>1, <1>2, <1>3, SameTexts, SameScopes, NoLockHeld DEF MarkChanged, One!MarkChanged, MapsTo, textVars, One!textVars,
       moduleVars, One!moduleVars, scopeVars, One!scopeVars,
       CacheBecomes, One!CacheBecomes
  <2>2. QED BY <2>1 DEF One!CompileStep
<1>4. CASE Resolve(w)
  <2>1. One!Resolve(0)
    BY <1>1, <1>2, <1>4, SameTexts, SameScopes, NoLockHeld DEF Resolve, One!Resolve, MapsTo, textVars, One!textVars,
       moduleVars, One!moduleVars, scopeVars, One!scopeVars,
       CacheBecomes, One!CacheBecomes
  <2>2. QED BY <2>1 DEF One!CompileStep
<1>5. CASE StoreScopes(w)
  <2>1. One!StoreScopes(0)
    BY <1>1, <1>2, <1>5, SameTexts, SameScopes, NoLockHeld DEF StoreScopes, One!StoreScopes, MapsTo, textVars, One!textVars,
       moduleVars, One!moduleVars, scopeVars, One!scopeVars,
       CacheBecomes, One!CacheBecomes
  <2>2. QED BY <2>1 DEF One!CompileStep
<1>6. CASE FindSymbols(w)
  <2> DEFINE job == running[w]
             job1 == [v \in {0} |-> JobOf(running)][0]
  <2>3. job1 = job BY DEF MapsTo
  <2>4. PICK locked \in TryLock(w), read \in TryWrite(w) :
           LET symbols == SymbolsOf(job, IF locked THEN gs ELSE NoScopes,
                                    IF read THEN invalidate_pkgs ELSE {})
           IN  /\ gs' = IF locked THEN symbols ELSE gs
               /\ compiled' = [compiled EXCEPT ![job.root] =
                      [scopes |-> job.scopes[MainPkg], symbols |-> ProgramSymbols(job, symbols)]]
    BY <1>6 DEF FindSymbols
  <2>5. locked \in One!TryLock(0) /\ read \in One!TryWrite(0) BY NoLockHeld
  <2> DEFINE symbols1 == One!SymbolsOf(job1, IF locked THEN gs ELSE One!NoScopes,
                                       IF read THEN invalidate_pkgs ELSE {})
  <2>6. /\ gs' = IF locked THEN symbols1 ELSE gs
        /\ compiled' = [compiled EXCEPT ![job1.root] =
               [scopes |-> job1.scopes[MainPkg], symbols |-> One!ProgramSymbols(job1, symbols1)]]
    <3>1. symbols1 = SymbolsOf(job, IF locked THEN gs ELSE NoScopes,
                               IF read THEN invalidate_pkgs ELSE {})
      <4> HIDE DEF job, job1
      <4> QED BY <2>3, SameTexts, SameScopes
    <3> HIDE DEF job, job1, symbols1
    <3>2. QED BY <2>3, <2>4, <3>1, SameScopes
  <2>7. /\ At(w, "symbols") /\ running' = [running EXCEPT ![w] = Idle]
        /\ UNCHANGED <<textVars, jobs, moduleVars, scopeVars>>
    BY <1>6 DEF FindSymbols
  <2>8. [v \in {0} |-> JobOf(running)]' = [[v \in {0} |-> JobOf(running)] EXCEPT ![0] = One!Idle]
    BY <2>7, SameTexts DEF MapsTo
  <2>1. One!FindSymbols(0)
    BY <1>1, <2>5, <2>6, <2>7, <2>8 DEF One!FindSymbols, textVars, One!textVars, moduleVars,
       One!moduleVars, scopeVars, One!scopeVars
  <2>2. QED BY <2>1 DEF One!CompileStep
<1>7. QED BY <1>3, <1>4, <1>5, <1>6

\* A thread takes a job from the queue.
LEMMA StartMaps ==
    ASSUME NEW w \in Workers, MapsTo(w), StartJob(w) PROVE One!CompileStep(0)
<1>1. One!StartJob(0)
  BY SameTexts DEF StartJob, One!StartJob, MapsTo, textVars, One!textVars, moduleVars,
     One!moduleVars, scopeVars, One!scopeVars
<1>2. QED BY <1>1 DEF One!CompileStep

\* Every step of the pool is a step of the one thread, or the client's.
LEMMA StepMaps ==
    ASSUME Types, JobsAbout, Serial, Serial', InOrder', ImportsAtRest, [CachesNext]_cacheVars
    PROVE  [One!CachesNext]_(One!cacheVars)
<1> USE DEF textVars, One!textVars, poolVars, One!poolVars, moduleVars, One!moduleVars,
            scopeVars, One!scopeVars
<1>1. CASE UNCHANGED cacheVars
  BY <1>1 DEF cacheVars, One!cacheVars
<1>2. ASSUME NEW r \in Roots, OpenRoot(r) PROVE One!CachesNext
  <2>1. One!OpenRoot(r) BY <1>2, SameTexts DEF OpenRoot, One!OpenRoot
  <2>2. QED BY <2>1 DEF One!CachesNext
<1>3. ASSUME NEW f \in Files, Edit(f) PROVE One!CachesNext
  <2>1. PICK imports \in Imports[f] :
           text' = [text EXCEPT ![f] = [edit |-> edits + 1, imports |-> imports]]
    BY <1>3 DEF Edit
  <2>2. One!MayImport(f, imports)
    <3>1. imports = text[f].imports \/ Settled
      BY <1>3, <2>1 DEF ImportsAtRest, Types, TextTypes
    <3>2. QED BY <3>1, SettledMaps DEF One!MayImport
  <2>3. One!InOrder' BY SameOrder, PTL
  <2>4. \E s \in One!JobsFor({r \in opened : f \in One!RootFiles(r)}, {f}) : jobs' = jobs \o s
    <3>1. {r \in opened : f \in One!RootFiles(r)} = {r \in opened : f \in RootFiles(r)}
      BY SameTexts
    <3>2. QED BY <1>3, <3>1, SameTexts DEF Edit
  <2>5. One!Edit(f) BY <1>3, <2>1, <2>2, <2>3, <2>4 DEF Edit, One!Edit
  <2>6. QED BY <2>5 DEF One!CachesNext
<1>4. ASSUME NEW w \in Workers, StartJob(w) \/ WorkStep(w) PROVE One!CachesNext
  <2>1. /\ \A v \in Workers \ {w} : running[v] = Idle
        /\ JobOf(running) = running[w] /\ JobOf(running') = running'[w]
    BY <1>4, StepAlone
  <2>2. MapsTo(w) BY <2>1 DEF MapsTo, Types, PoolTypes
  <2>3. One!CompileStep(0)
    BY <1>4, <2>1, <2>2, StartMaps, ParserMaps, ResolverMaps DEF WorkStep
  <2>4. QED BY <2>3 DEF One!CachesNext
<1>5. QED BY <1>1, <1>2, <1>3, <1>4, NextCases

\* The pool starts like the one thread.
LEMMA StartIsOne ==
    ASSUME CachesStart, InOrder PROVE One!CachesStart
<1>1. JobOf(running) = Idle BY DEF JobOf, CachesStart
<1>2. [w \in {0} |-> JobOf(running)] = [w \in {0} |-> One!Idle] BY <1>1, SameTexts
<1>3. QED BY <1>2, SameTexts DEF CachesStart, One!CachesStart

\* A behaviour without overlapping jobs is one of the pool with one thread.
SerialBehaviour ==
    CachesSpec /\ []Serial /\ []InOrder /\ [][ImportsAtRest]_cacheVars

\* The refinement.
LEMMA SerialIsOne ==
    SerialBehaviour => One!CachesSpec
<1>1. CachesStart /\ InOrder => One!CachesStart BY StartIsOne
<1>2. /\ Types /\ JobsAbout /\ Serial /\ Serial' /\ InOrder'
      /\ [ImportsAtRest]_cacheVars /\ [CachesNext]_cacheVars
      => [One!CachesNext]_(One!cacheVars)
  <2>1. ASSUME UNCHANGED cacheVars PROVE ImportsAtRest
    BY <2>1 DEF ImportsAtRest, cacheVars, textVars
  <2>2. QED BY <2>1, StepMaps
<1>3. QED BY <1>1, <1>2, TypesAlways, PTL DEF SerialBehaviour, CachesSpec, One!CachesSpec

\* What the theorems about the one thread assume.
LEMMA OneThread ==
    /\ One!Orderly
    /\ One!CachesAssumption
<1>1. \A S : IsFiniteSet(S) => One!IsFiniteSet(S) BY DEF One!IsFiniteSet, IsFiniteSet
<1>2. One!CachesAssumption BY <1>1, CachesAssumption DEF One!CachesAssumption, CachesAssumption
<1>3. QED BY <1>2 DEF One!Orderly, One!OneWorker

-----------------------------------------------------------------------------
(* What one thread achieves, the pool achieves. *)

\* DependencyGraph::invalidate_module finds every cached scope that a changed
\* file went into, however the imports were edited before: a pool of any size
\* whose jobs do not overlap never leaves a stale scope in the CachedScope.
\* Overlapping jobs may, since each stores its own view of the graph.
THEOREM CachedScopesAreInvalidated ==
    SerialBehaviour => []CachedScopesInvalidated
<1>1. One!CachesSpec => []One!CachedScopesInvalidated
  BY OneThread, One!InvalidatedByOne DEF One!CachesAssumption
<1>2. One!CachedScopesInvalidated => CachedScopesInvalidated
  BY SameScopes DEF CachedScopesInvalidated, One!CachedScopesInvalidated
<1>3. QED BY <1>1, <1>2, SerialIsOne, PTL

\* When every job is done, the types that the last job of every workspace
\* returned were computed from the newest texts of all files of its program,
\* although jobs reuse parsed files and scopes of earlier ones, of other roots
\* and other threads included.  The client may edit while a job runs: only the
\* jobs must not overlap, or one clears a file the other has found
\* (parse_program) or overwrites which file has changed (compile).
THEOREM ScopesAreFresh ==
    SerialBehaviour => []ScopesFresh
<1>1. One!CachesSpec => []One!ScopesFresh
  BY OneThread, One!ScopesOfOne DEF One!CachesAssumption
<1>2. One!ScopesFresh => ScopesFresh
  BY SettledMaps, SameTexts DEF ScopesFresh, One!ScopesFresh
<1>3. QED BY <1>1, <1>2, SerialIsOne, PTL

\* As long as one workspace is open, the symbols that its last job returned are
\* those of the newest texts once every job is done: GlobalState::clear_cache
\* drops every package that an edit reaches.  With a second workspace it is
\* false even if the jobs do not overlap.
THEOREM SymbolsAreFreshAlone ==
    SerialBehaviour => []SymbolsFreshAlone
<1>1. One!CachesSpec => []One!SymbolsFreshAlone
  BY OneThread, One!SymbolsOfOne DEF One!CachesAssumption
<1>2. One!SymbolsFreshAlone => SymbolsFreshAlone
  <2>1. One!Cardinality(opened) = Cardinality(opened) BY DEF Cardinality, One!Cardinality
  <2>2. QED BY <2>1, SettledMaps, SameTexts
        DEF SymbolsFreshAlone, One!SymbolsFreshAlone, SymbolsFresh, One!SymbolsFresh
<1>3. QED BY <1>1, <1>2, SerialIsOne, PTL
=============================================================================
