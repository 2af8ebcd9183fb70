--------------------------- MODULE CompileCaches ----------------------------
(***************************************************************************)
(* The caches that the compile jobs of the language server share: the      *)
(* parsed files (ModuleCache), the resolved package scopes with their      *)
(* dependency graph (CachedScope) and the symbols (GlobalState). A job     *)
(* compiles the program of one root directory after one file changed and   *)
(* reuses what it believes to be unaffected (compile.rs, parser/lib.rs,    *)
(* resolver/mod.rs, resolver/scope.rs, namer/mod.rs).                      *)
(*                                                                         *)
(* The text of a file is the number of the edit that made it and the       *)
(* packages it imports. What is computed from texts, the scope or the      *)
(* symbols of a package, is the set of texts it was computed from, the     *)
(* imported ones included: it is up to date iff these are the newest.      *)
(***************************************************************************)
EXTENDS Naturals, Sequences, FiniteSets

CONSTANTS
    Workers,
    Files,
    Pkgs,               \* import paths, MainPkg among them
    MainPkg,            \* kcl_ast::MAIN_PKG
    Roots,              \* program roots, one for each workspace
    PkgFiles,           \* PkgFiles[r][p]: the files of package p below root r
    Imports,            \* Imports[f]: the sets of packages a text of f imports
    Client,             \* when the client edits, "orderly" or "any"
    MaxEdits,           \* bound: edits by the client
    MaxQueue            \* bound: compile jobs that wait

ASSUME CachesAssumption ==
    /\ IsFiniteSet(Files) /\ IsFiniteSet(Pkgs) /\ IsFiniteSet(Roots)
    /\ MainPkg \in Pkgs
    /\ PkgFiles \in [Roots -> [Pkgs -> SUBSET Files]]
    /\ \A r \in Roots : PkgFiles[r][MainPkg] # {}
    \* The files of a package are found below its own root, not below the
    \* importing one, and main files belong to no other package.
    /\ \A r, s \in Roots : \A p \in Pkgs \ {MainPkg} :
          /\ PkgFiles[s][p] \in {{}, PkgFiles[r][p]} \/ PkgFiles[r][p] = {}
          /\ PkgFiles[r][MainPkg] \cap PkgFiles[s][p] = {}
    /\ Imports \in [Files -> SUBSET SUBSET (Pkgs \ {MainPkg})]
    /\ \A f \in Files : Imports[f] # {}
    /\ Client \in {"orderly", "any"}
    /\ MaxEdits \in Nat /\ MaxQueue \in Nat

VARIABLES
    text,               \* text[f]: the text the client has
    edits,              \* edits made so far
    opened,             \* the roots with a workspace
    jobs,               \* the pool's queue of compile jobs
    running,            \* running[w]: the job of worker w, or Idle
    ast_cache,          \* ast_cache[f]: the parsed text, {} if there is none
    dep_cache,          \* dep_cache[f][p]: {} or the set of imports of f in p
    source_code,        \* source_code[f]: {} or the text to parse
    last_compile_input, \* the root whose unimported files were scanned last
    program_root,       \* the root the scopes belong to, {} at the start
    graph,              \* CachedScope::dependency_graph
    scope_map,          \* scope_map[p]: texts the cached scope was made from
    changed,            \* invalidate_pkg_modules, {} for None
    invalidate_pkgs,    \* CachedScope::invalidate_pkgs
    gs,                 \* gs[p]: texts the symbols of p were made from
    compiled            \* compiled[r]: what the last job of root r returned

textVars == <<text, edits, opened>>
poolVars == <<jobs, running>>
moduleVars == <<ast_cache, dep_cache, source_code, last_compile_input>>
scopeVars == <<program_root, graph, scope_map, changed, invalidate_pkgs>>
cacheVars ==
    <<textVars, poolVars, moduleVars, scopeVars, gs, compiled>>

Texts == [edit : 0..MaxEdits, imports : SUBSET Pkgs]
Stamp(f, t) == <<f, t.edit>>
Stamps == Files \X (0..MaxEdits)
Idle == [step |-> "idle"]

NoGraph ==
    [modules |-> [f \in Files |-> {}], nodes |-> {},
     parents |-> [p \in Pkgs |-> {}], children |-> [p \in Pkgs |-> {}]]
NoScopes == [p \in Pkgs |-> {}]

RootFiles(r) == UNION {PkgFiles[r][p] : p \in Pkgs}

\* A compile job with its local variables: the changed file, the main texts it
\* took from the Vfs, the files still to be parsed and those found, the file
\* being parsed with its text, the program, and the scopes it has resolved.
Job(r, file) ==
    [step |-> "start", root |-> r, file |-> file, code |-> [f \in Files |-> {}],
     todo |-> {}, found |-> {}, parsing |-> {},
     mods |-> [f \in Files |-> {}], unimported |-> {}, scopes |-> NoScopes]

\* The sequences that list a set once: HashMap iteration has no fixed order.
Orders(S) ==
    {s \in [1..Cardinality(S) -> S] : \A x \in S : \E i \in DOMAIN s : s[i] = x}
JobsFor(S, file) ==
    {[i \in DOMAIN s |-> Job(s[i], file)] : s \in Orders(S)}

\* What a package with the given texts imports, if it exists below root r.
Existing(r, S) == {p \in S : PkgFiles[r][p] # {}}
ImportsOf(r, mods, p) ==
    Existing(r, UNION {UNION {t.imports : t \in mods[f]} : f \in PkgFiles[r][p]})

\* The least set of packages that contains S and with p all of next[p]: what a
\* work list that starts with S and is fed with next ends up with.
Closure(S, next) ==
    {p \in Pkgs : \A T \in SUBSET Pkgs :
        S \subseteq T /\ (\A q \in T : next[q] \subseteq T) => p \in T}

\* The packages reached from those of S through packages without an entry in
\* cached, which are the ones that are visited.
Visited(r, mods, cached, S) ==
    Closure(S, [p \in Pkgs |-> IF cached[p] = {} THEN ImportsOf(r, mods, p)
                               ELSE {}])

\* The texts that what is computed for the packages of S depends on: cached
\* packages contribute what they were computed from.
Own(r, mods, p) ==
    UNION {{Stamp(f, t) : t \in mods[f]} : f \in PkgFiles[r][p]}
Computed(r, mods, cached, S) ==
    UNION {IF cached[p] # {} THEN cached[p] ELSE Own(r, mods, p) :
              p \in Visited(r, mods, cached, S)}

\* The program of root r and what a compilation without caches would see.
Current == [f \in Files |-> {text[f]}]
ProgramPkgs(r) == Visited(r, Current, NoScopes, {MainPkg})
ProgramFiles(r) == UNION {PkgFiles[r][p] : p \in ProgramPkgs(r)}
Newest(r) == {Stamp(f, text[f]) : f \in ProgramFiles(r)}

Settled == jobs = <<>> /\ \A w \in Workers : running[w] = Idle

\* The texts of an orderly client: every file below a root is imported by the
\* program of that root. Such a client changes imports only when no job is
\* under way, the rest of a text at any time.
InOrder == \A r \in Roots : RootFiles(r) = ProgramFiles(r)
MayImport(f, imports) ==
    Client = "any" \/ imports = text[f].imports \/ Settled

CachesStart ==
    /\ text \in [Files -> {[edit |-> 0, imports |-> I] :
                               I \in UNION {Imports[f] : f \in Files}}]
    /\ \A f \in Files : text[f].imports \in Imports[f]
    /\ Client = "orderly" => InOrder
    /\ edits = 0
    /\ opened = {}
    /\ jobs = <<>>
    /\ running = [w \in Workers |-> Idle]
    /\ ast_cache = [f \in Files |-> {}]
    /\ dep_cache = [f \in Files |-> [p \in Pkgs |-> {}]]
    /\ source_code = [f \in Files |-> {}]
    /\ last_compile_input = {}
    /\ program_root = {}
    /\ graph = NoGraph
    /\ scope_map = NoScopes
    /\ changed = {}
    /\ invalidate_pkgs = {}
    /\ gs = NoScopes
    /\ compiled = [r \in Roots |-> [scopes |-> {}, symbols |-> {}]]

-----------------------------------------------------------------------------
\* A workspace is found: by initialize without a changed file, or by didOpen of
\* one of its files.
OpenRoot(r) ==
    /\ r \notin opened
    /\ opened' = opened \cup {r}
    /\ \E file \in {{}} \cup {{f} : f \in PkgFiles[r][MainPkg]} :
          jobs' = Append(jobs, Job(r, file))
    /\ Len(jobs') <= MaxQueue
    /\ UNCHANGED <<text, edits, running, moduleVars, scopeVars, gs, compiled>>

\* didChange: every workspace the file belongs to is compiled. The client
\* saves what it types, so the text on disk is the same.
Edit(f) ==
    /\ edits < MaxEdits
    /\ \E imports \in Imports[f] :
          /\ MayImport(f, imports)
          /\ text' = [text EXCEPT ![f] = [edit |-> edits + 1,
                                          imports |-> imports]]
    /\ Client = "orderly" => InOrder'
    /\ edits' = edits + 1
    /\ \E s \in JobsFor({r \in opened : f \in RootFiles(r)}, {f}) :
          jobs' = jobs \o s
    /\ Len(jobs') <= MaxQueue
    /\ UNCHANGED <<opened, running, moduleVars, scopeVars, gs, compiled>>

StartJob(w) ==
    /\ running[w] = Idle
    /\ jobs # <<>>
    /\ running' = [running EXCEPT ![w] = Head(jobs)]
    /\ jobs' = Tail(jobs)
    /\ UNCHANGED <<textVars, moduleVars, scopeVars, gs, compiled>>

At(w, step) == running[w].step = step
Goto(w, step, job) == running' = [running EXCEPT ![w] = [job EXCEPT !.step = step]]

\* ModuleCache::clear
Cleared(file) == [f \in Files |-> IF f \in file THEN {} ELSE ast_cache[f]]

\* compile takes the main texts from the Vfs ...
LoadCode(w) ==
    /\ At(w, "start")
    /\ LET job == running[w] IN
       Goto(w, "clear",
            [job EXCEPT !.code = [f \in Files |->
                IF f \in PkgFiles[job.root][MainPkg] THEN {text[f]} ELSE {}]])
    /\ UNCHANGED <<textVars, jobs, moduleVars, scopeVars, gs, compiled>>

\* ... and clears the changed file from the module cache. dep_cache has entries
\* of f only for the packages in file_pkg[f], so all of them go.
ClearChanged(w) ==
    /\ At(w, "clear")
    /\ LET file == running[w].file IN
       /\ ast_cache' = Cleared(file)
       /\ dep_cache' = [f \in Files |-> IF f \in file THEN [p \in Pkgs |-> {}]
                                        ELSE dep_cache[f]]
       /\ source_code' = [f \in Files |-> IF f \in file THEN {text[f]}
                                          ELSE source_code[f]]
    /\ Goto(w, "main", running[w])
    /\ UNCHANGED <<textVars, jobs, last_compile_input, scopeVars, gs, compiled>>

\* The files of the packages of S as PkgFiles.
PkgFilesOf(r, S) == UNION {PkgFiles[r][p] \X {p} : p \in S}

\* parse_pkg for the main package: its files are always parsed.
ParseMain(w) ==
    /\ At(w, "main")
    /\ LET job == running[w]
           main == PkgFiles[job.root][MainPkg]
           deps == UNION {PkgFilesOf(job.root, t.imports) :
                             t \in UNION {job.code[f] : f \in main}}
       IN
       /\ ast_cache' = [f \in Files |-> IF f \in main THEN job.code[f]
                                        ELSE ast_cache[f]]
       /\ dep_cache' = [f \in Files |->
              IF f \in main
              THEN [dep_cache[f] EXCEPT ![MainPkg] =
                       {t.imports : t \in job.code[f]}]
              ELSE dep_cache[f]]
       /\ Goto(w, "parse", [job EXCEPT !.found = (main \X {MainPkg}) \cup deps,
                                       !.todo = deps])
    /\ UNCHANGED <<textVars, jobs, source_code, last_compile_input, scopeVars,
                   gs, compiled>>

\* The files a file adds to the work list of job once its imports are known.
Discover(job, x, imports) ==
    LET deps == PkgFilesOf(job.root, imports) IN
    [job EXCEPT !.found = @ \cup deps,
                !.todo = (@ \ {x}) \cup (deps \ job.found),
                !.parsing = {}]

\* The imports of a cached file: from dep_cache, or from the module itself.
CachedImports(x) ==
    IF dep_cache[x[1]][x[2]] # {} THEN UNION dep_cache[x[1]][x[2]]
    ELSE UNION {t.imports : t \in ast_cache[x[1]]}

\* parse_entry, the work list: a file in the cache is not parsed again.
FollowCached(w) ==
    /\ At(w, "parse")
    /\ \E x \in running[w].todo :
          /\ ast_cache[x[1]] # {}
          /\ Goto(w, "parse", Discover(running[w], x, CachedImports(x)))
    /\ UNCHANGED <<textVars, jobs, moduleVars, scopeVars, gs, compiled>>

\* What parse_file reads if it is given no text.
Source(f) == IF source_code[f] # {} THEN source_code[f] ELSE {text[f]}

\* parse_file for a file that is not in the cache, up to its write lock.
ReadFile(w) ==
    /\ At(w, "parse")
    /\ \E x \in running[w].todo :
          /\ ast_cache[x[1]] = {}
          /\ Goto(w, "write", [running[w] EXCEPT !.parsing =
                                  {<<x, t>> : t \in Source(x[1])}])
    /\ UNCHANGED <<textVars, jobs, moduleVars, scopeVars, gs, compiled>>

WriteFile(w) ==
    /\ At(w, "write")
    /\ \E y \in running[w].parsing :
          LET x == y[1]  t == y[2] IN
          /\ ast_cache' = [ast_cache EXCEPT ![x[1]] = {t}]
          /\ dep_cache' = [dep_cache EXCEPT ![x[1]][x[2]] = {t.imports}]
          /\ Goto(w, "parse", Discover(running[w], x, t.imports))
    /\ UNCHANGED <<textVars, jobs, source_code, last_compile_input, scopeVars,
                   gs, compiled>>

\* parse_program collects the modules of the file graph; a module another job
\* has cleared meanwhile is a panic, and the job is gone.
Collect(w) ==
    /\ At(w, "parse")
    /\ running[w].todo = {}
    /\ LET job == running[w]
           found == {x[1] : x \in job.found}
       IN
       IF \E f \in found : ast_cache[f] = {}
       THEN running' = [running EXCEPT ![w] = Idle]
       ELSE Goto(w, "scan", [job EXCEPT !.mods =
                [f \in Files |-> IF f \in found THEN ast_cache[f] ELSE {}]])
    /\ UNCHANGED <<textVars, jobs, moduleVars, scopeVars, gs, compiled>>

\* load_all_files_under_paths: files below the root that nobody has parsed are
\* parsed too, unless the same input was scanned last. They and the files they
\* import, if the program does not, are its modules_not_imported.
ScanUnimported(w) ==
    /\ At(w, "scan")
    /\ LET job == running[w]
           r == job.root
           rest == IF last_compile_input = {r} THEN {}
                   ELSE {f \in RootFiles(r) : ast_cache[f] = {}}
           parsed == [f \in Files |-> IF f \in rest THEN Source(f)
                                      ELSE ast_cache[f]]
           deps == UNION {PkgFilesOf(r, t.imports) :
                             t \in UNION {parsed[f] : f \in rest}}
           new == {x \in PkgFilesOf(r, Pkgs) \ job.found :
                      x[1] \in rest \/ x \in deps}
       IN
       /\ last_compile_input' = {r}
       /\ ast_cache' = parsed
       /\ dep_cache' = [f \in Files |-> [p \in Pkgs |->
              IF f \in rest \cap PkgFiles[r][p]
              THEN {t.imports : t \in Source(f)} ELSE dep_cache[f][p]]]
       /\ Goto(w, "mark", [job EXCEPT
              !.mods = [f \in Files |-> IF \E x \in new : x[1] = f
                                        THEN parsed[f] ELSE @[f]],
              !.unimported = {x[2] : x \in new}])
    /\ UNCHANGED <<textVars, jobs, source_code, scopeVars, gs, compiled>>

-----------------------------------------------------------------------------
\* The lock of the CachedScope is only tried: a job goes on without the cache
\* when another one has it.
ScopeSteps == {"mark", "resolve1", "resolve2", "symbols"}
TryWrite(w) ==
    {TRUE} \cup {\A v \in Workers \ {w} : running[v].step \notin ScopeSteps}
TryLock(w) == {TRUE} \cup {\A v \in Workers \ {w} : ~At(v, "symbols")}

\* compile tells the CachedScope which file changed.
MarkChanged(w) ==
    /\ At(w, "mark")
    /\ \E locked \in TryWrite(w) :
          changed' = IF locked /\ running[w].file # {} THEN running[w].file
                     ELSE changed
    /\ Goto(w, "resolve1", running[w])
    /\ UNCHANGED <<textVars, jobs, moduleVars, program_root, graph, scope_map,
                   invalidate_pkgs, gs, compiled>>

\* program.pkgs
PkgsOf(job) == {x[2] : x \in job.found}

\* Faulty: the imported package does not learn which files import it.
AddParents(g, mods, S) ==
    [g EXCEPT !.parents = [p \in Pkgs |->
        @[p] \cup UNION {UNION {t.imports : t \in mods[f]} :
                            f \in {h \in S : p \in g.modules[h]}}]]

\* DependencyGraph::add_new_module for the modules of S
AddModules(g, mods, S) ==
    LET imports == [f \in Files |-> UNION {t.imports : t \in mods[f]}]
        known == {f \in S : g.modules[f] # {}}
    IN
    [g EXCEPT
        !.children = [p \in Pkgs |->
            @[p] \cup {f \in known : p \in imports[f] \cap g.nodes}],
        !.parents = [p \in Pkgs |->
            @[p] \cup UNION {imports[f] : f \in {h \in known :
                                                   p \in g.modules[h]}}]]

\* Faulty: only the packages of the changed files.
InvalidatedOwn(g, S) == UNION {g.modules[f] : f \in S}

\* invalidate_module: the packages of the files of S and all that import them.
Invalidated(g, S) ==
    Closure(UNION {g.modules[f] : f \in S},
            [p \in Pkgs |-> UNION {g.modules[f] : f \in g.children[p]}])

\* remove_dependency_from_pkg for the files of S
RemoveDependencies(g, S) ==
    [g EXCEPT !.children = [q \in Pkgs |->
        @[q] \ {f \in S : \E p \in g.modules[f] : q \in g.parents[p]}]]

\* The packages of the program and their new modules enter the graph.
Registered(g, job) ==
    LET pkgs == PkgsOf(job) \ {MainPkg}
        all == [g EXCEPT
            !.nodes = @ \cup pkgs,
            !.modules = [f \in Files |->
                @[f] \cup {p \in pkgs : f \in PkgFiles[job.root][p]}]]
    IN AddModules(all, job.mods,
                  {f \in Files : g.modules[f] = {} /\ all.modules[f] # {}})

\* DependencyGraph::update: the changed files are unlinked, and linked again if
\* the program has them.
UpdateGraph(old, job, files) ==
    LET g == Registered(old, job) IN
    [invalid |-> Invalidated(g, files),
     graph |-> AddModules(RemoveDependencies(g, files), job.mods,
                          {f \in files : job.mods[f] # {}})]

\* CachedScope::update. A cache of another root is cleared, and what was marked
\* as changed with it; without a changed file it is the main files.
Updated(job) ==
    LET same == program_root = {job.root}
        marked == IF same THEN changed ELSE {}
        u == UpdateGraph(IF same THEN graph ELSE NoGraph, job,
                         IF marked # {} THEN marked
                         ELSE PkgFiles[job.root][MainPkg])
    IN
    [graph |-> u.graph, changed |-> marked, invalid |-> u.invalid,
     scopes |-> [p \in Pkgs |-> IF same /\ p \notin u.invalid THEN scope_map[p]
                                ELSE {}]]

\* check_and_lint_all_pkgs: the scopes of the program, cached ones reused. The
\* packages that are not imported are resolved without their imports, which
\* init_import_list looks up in program.pkgs.
Resolved(job, cached) ==
    LET visited == Visited(job.root, job.mods, cached, {MainPkg}) IN
    [p \in Pkgs |->
        IF cached[p] # {} THEN cached[p]
        ELSE IF p \in visited THEN Computed(job.root, job.mods, cached, {p})
        ELSE IF p \in job.unimported THEN Own(job.root, job.mods, p)
        ELSE {}]

\* The CachedScope of job after update returned c.
CacheBecomes(job, c, scopes, files) ==
    /\ program_root' = {job.root}
    /\ graph' = c.graph
    /\ scope_map' = scopes
    /\ changed' = files
    /\ invalidate_pkgs' = c.invalid \cup {MainPkg}

\* resolve_program_with_opts before the check, and the check.
Resolve(w) ==
    /\ At(w, "resolve1")
    /\ \E locked \in TryWrite(w) :
          LET job == running[w]
              c == Updated(job)
              cached == IF locked THEN c.scopes ELSE NoScopes
          IN
          /\ IF locked THEN CacheBecomes(job, c, c.scopes, c.changed)
             ELSE UNCHANGED scopeVars
          /\ Goto(w, "resolve2", [job EXCEPT !.scopes = Resolved(job, cached)])
    /\ UNCHANGED <<textVars, jobs, moduleVars, gs, compiled>>

\* What of the scopes is kept for the next job.
Kept(scopes) == [scopes EXCEPT ![MainPkg] = {}]

\* resolve_program_with_opts after the check: the result is cached.
StoreScopes(w) ==
    /\ At(w, "resolve2")
    /\ \E locked \in TryWrite(w) :
          LET job == running[w] IN
          IF locked THEN CacheBecomes(job, Updated(job), Kept(job.scopes), {})
          ELSE UNCHANGED scopeVars
    /\ Goto(w, "symbols", running[w])
    /\ UNCHANGED <<textVars, jobs, moduleVars, gs, compiled>>

\* Faulty: only the symbols of the main package are cleared.
ClearMain(cache, invalid) == [cache EXCEPT ![MainPkg] = {}]

\* GlobalState::clear_cache
ClearSymbols(cache, invalid) ==
    [p \in Pkgs |-> IF p \in invalid THEN {} ELSE cache[p]]

\* Namer::find_symbols for the packages of the program that have no symbols.
SymbolsOf(job, cache, invalid) ==
    LET cleared == ClearSymbols(cache, invalid \cup job.unimported) IN
    [p \in Pkgs |-> IF cleared[p] = {} /\ p \in PkgsOf(job)
                    THEN Computed(job.root, job.mods, cleared, {p})
                    ELSE cleared[p]]

\* What AdvancedResolver finds for the program in the symbols.
ProgramSymbols(job, symbols) == UNION {symbols[p] : p \in PkgsOf(job)}

\* The rest of compile. The lock of the GlobalState is only tried, too.
FindSymbols(w) ==
    /\ At(w, "symbols")
    /\ \E locked \in TryLock(w), read \in TryWrite(w) :
          LET job == running[w]
              symbols == SymbolsOf(job, IF locked THEN gs ELSE NoScopes,
                                   IF read THEN invalidate_pkgs ELSE {})
          IN
          /\ gs' = IF locked THEN symbols ELSE gs
          /\ compiled' = [compiled EXCEPT ![job.root] =
                 [scopes |-> job.scopes[MainPkg],
                  symbols |-> ProgramSymbols(job, symbols)]]
    /\ running' = [running EXCEPT ![w] = Idle]
    /\ UNCHANGED <<textVars, jobs, moduleVars, scopeVars>>

CompileStep(w) ==
    \/ StartJob(w) \/ LoadCode(w) \/ ClearChanged(w) \/ ParseMain(w)
    \/ FollowCached(w) \/ ReadFile(w) \/ WriteFile(w) \/ Collect(w)
    \/ ScanUnimported(w) \/ MarkChanged(w) \/ Resolve(w) \/ StoreScopes(w)
    \/ FindSymbols(w)

CachesNext ==
    \/ \E r \in Roots : OpenRoot(r)
    \/ \E f \in Files : Edit(f)
    \/ \E w \in Workers : CompileStep(w)

CachesSpec == CachesStart /\ [][CachesNext]_cacheVars

-----------------------------------------------------------------------------
\* The type invariant.
CachesTypeOK ==
    /\ text \in [Files -> Texts]
    /\ edits \in 0..MaxEdits
    /\ opened \subseteq Roots
    /\ \A f \in Files : ast_cache[f] \cup source_code[f] \subseteq Texts
    /\ last_compile_input \cup program_root \subseteq opened
    /\ graph.modules \in [Files -> SUBSET graph.nodes]
    /\ graph.parents \in [Pkgs -> SUBSET (Pkgs \ {MainPkg})]
    /\ graph.children \in [Pkgs -> SUBSET Files]
    /\ scope_map \in [Pkgs -> SUBSET Stamps]
    /\ scope_map[MainPkg] = {}
    /\ changed \subseteq Files
    /\ invalidate_pkgs \subseteq Pkgs
    /\ gs \in [Pkgs -> SUBSET Stamps]

\* Once every job is done, the types of every open workspace were computed from
\* the newest texts of all files of its program (CachedScope::update,
\* resolve_program_with_opts, ModuleCache::clear).
ScopesFresh ==
    Settled => \A r \in opened : compiled[r].scopes = Newest(r)

\* Likewise for the symbols (GlobalState::clear_cache, Namer::find_symbols).
SymbolsFresh ==
    Settled => \A r \in opened : compiled[r].symbols = Newest(r)

\* The symbols are those of the newest texts if there is only one workspace.
SymbolsFreshAlone == Cardinality(opened) = 1 => SymbolsFresh

\* A change of any file that a cached scope was computed from invalidates that
\* scope (DependencyGraph::invalidate_module), whatever was edited before.
CachedScopesInvalidated ==
    \A p \in Pkgs : \A s \in scope_map[p] : p \in Invalidated(graph, {s[1]})
=============================================================================
