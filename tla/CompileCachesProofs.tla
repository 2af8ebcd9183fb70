------------------------ MODULE CompileCachesProofs -------------------------
(***************************************************************************)
(* Theorems about the caches the compile jobs share, for every set of      *)
(* files, packages and program roots, every number of edits and every way  *)
(* the files import each other.  The types hold for any number of pool     *)
(* threads and any client.  That what the last jobs return is fresh is     *)
(* shown here for one pool thread and an orderly client, as lemmas; for a  *)
(* pool of any size CompileSerialProofs rests on them.                     *)
(***************************************************************************)
EXTENDS CompileCaches, FiniteSetTheorems, TLAPS

OneWorker == \A u, v \in Workers : u = v
Orderly == OneWorker /\ Client = "orderly"

-----------------------------------------------------------------------------
(* The invariant, in layers: each is kept by a step that also keeps those   *)
(* above it.                                                                *)

\* Types.
Importable == Pkgs \ {MainPkg}
Sources == [edit : 0..MaxEdits, imports : SUBSET Importable]
Units == Files \X Pkgs
Early == {"start", "clear"}
Parsing == {"parse", "write"}
Checked == {"resolve2", "symbols"}
Parsed == {"scan", "mark", "resolve1"} \cup Checked
Steps == Early \cup {"main"} \cup Parsing \cup Parsed
Scopes == [Pkgs -> SUBSET Stamps]
CompileJobs ==
    [step : Steps, root : Roots, file : SUBSET Files, code : [Files -> SUBSET Sources],
     todo : SUBSET Units, found : SUBSET Units, parsing : SUBSET (Units \X Sources),
     mods : [Files -> SUBSET Sources], unimported : SUBSET Pkgs, scopes : Scopes]
Graphs ==
    [modules : [Files -> SUBSET Importable], nodes : SUBSET Importable,
     parents : [Pkgs -> SUBSET Importable], children : [Pkgs -> SUBSET Files]]

TextTypes ==
    /\ text \in [Files -> Sources]
    /\ edits \in 0..MaxEdits
    /\ opened \subseteq Roots
PoolTypes ==
    /\ jobs \in Seq(CompileJobs)
    /\ running \in [Workers -> CompileJobs \cup {Idle}]
ModuleTypes ==
    /\ ast_cache \in [Files -> SUBSET Sources]
    /\ dep_cache \in [Files -> [Pkgs -> SUBSET SUBSET Importable]]
    /\ source_code \in [Files -> SUBSET Sources]
    /\ last_compile_input \subseteq Roots
ScopeTypes ==
    /\ program_root \subseteq Roots
    /\ graph \in Graphs
    /\ scope_map \in Scopes
    /\ scope_map[MainPkg] = {}
    /\ changed \subseteq Files
    /\ invalidate_pkgs \subseteq Pkgs
ResultTypes ==
    /\ gs \in Scopes
    /\ compiled \in [Roots -> [scopes : SUBSET Stamps, symbols : SUBSET Stamps]]
Types == TextTypes /\ PoolTypes /\ ModuleTypes /\ ScopeTypes /\ ResultTypes

\* Jobs are about opened roots and about one of their files, or none.  A job
\* that waits has done nothing.
Busy(w) == running[w] # Idle
JobAbout(job) ==
    /\ job.root \in opened
    /\ job.file = {} \/ \E f \in RootFiles(job.root) : job.file = {f}
    /\ job.todo \cup job.found \cup {y[1] : y \in job.parsing} \subseteq PkgFilesOf(job.root, Pkgs)
JobsAbout ==
    /\ \A i \in DOMAIN jobs : JobAbout(jobs[i]) /\ jobs[i] = Job(jobs[i].root, jobs[i].file)
    /\ \A w \in Workers : Busy(w) => JobAbout(running[w])
    /\ last_compile_input \cup program_root \subseteq opened
    /\ \A r, s \in program_root : r = s

\* The texts of file f that the module cache and a job have.
CacheTexts(f) == ast_cache[f] \cup source_code[f]
LocalTexts(job, f) ==
    job.code[f] \cup job.mods[f] \cup {y[2] : y \in {z \in job.parsing : z[1][1] = f}}

\* A text is the client's or an older one; only files of opened roots are kept.
Older(f, t) == t.edit <= edits /\ (t.edit = text[f].edit => t = text[f])
TextsKnown ==
    /\ \A f \in Files : text[f].edit <= edits
    /\ \A f \in Files : \A t \in CacheTexts(f) : Older(f, t)
    /\ \A w \in Workers, f \in Files :
          Busy(w) => \A t \in LocalTexts(running[w], f) : Older(f, t) /\ f \in RootFiles(running[w].root)
    /\ \A f \in Files :
          CacheTexts(f) # {} \/ (\E p \in Pkgs : dep_cache[f][p] # {})
              => \E r \in opened : f \in RootFiles(r)

\* The next job to clear a file.
Clearing(f) == \E w \in Workers : running[w].step \in Early /\ running[w].file = {f}
NextClears(f) ==
    (\A w \in Workers : running[w] = Idle) /\ jobs # <<>> /\ Head(jobs).file = {f}

\* What the program imports is the same for the client and for the jobs,
\* except for a file that the next job starts with.
ImportsCurrent ==
    /\ InOrder
    /\ \A f \in Files :
          \/ /\ \A t \in CacheTexts(f) : t.imports = text[f].imports
             /\ \A p \in Pkgs : dep_cache[f][p] \subseteq {text[f].imports}
          \/ Clearing(f) \/ NextClears(f)
    /\ \A w \in Workers, f \in Files :
          Busy(w) => \A t \in LocalTexts(running[w], f) : t.imports = text[f].imports

\* A job for root r and file f waits; a file that has changed will be cleared
\* before the jobs that read it, or these are followed by another.
Due(r, f) == \E i \in DOMAIN jobs : jobs[i].root = r /\ jobs[i].file = {f}
Awaited(f) ==
    /\ \E k \in DOMAIN jobs : jobs[k].file = {f}
    /\ \A l \in DOMAIN jobs :
          f \in RootFiles(jobs[l].root) =>
              Due(jobs[l].root, f) \/ \E k \in 1..l : jobs[k].file = {f}
    /\ \A w \in Workers :
          Busy(w) /\ f \in RootFiles(running[w].root) => Due(running[w].root, f)
TextsCurrent ==
    /\ \A f \in Files :
          CacheTexts(f) \subseteq {text[f]} \/ Clearing(f) \/ Awaited(f)
    /\ \A w \in Workers, f \in Files :
          Busy(w) => LocalTexts(running[w], f) \subseteq {text[f]} \/ Awaited(f)

\* What a job has found of its program, and in the end it has all of it.
FoundOf(job) ==
    /\ PkgFilesOf(job.root, {MainPkg}) \subseteq job.found
    /\ job.found \subseteq PkgFilesOf(job.root, ProgramPkgs(job.root))
    /\ job.todo \subseteq job.found
    /\ \A x \in job.found : PkgFilesOf(job.root, {x[2]}) \subseteq job.found
    /\ \A x \in job.found \ job.todo :
          PkgFilesOf(job.root, text[x[1]].imports) \subseteq job.found
FoundBy(job) ==
    /\ job.step \in Steps => job.unimported = {}
    /\ job.step \in {"clear", "main"} => \A f \in PkgFiles[job.root][MainPkg] : job.code[f] # {}
    /\ job.step \in Parsing \cup Parsed => FoundOf(job)
    /\ job.step \in Parsing \cup {"scan"} => \A x \in job.found \ job.todo : ast_cache[x[1]] # {}
    /\ job.step = "write" => \A y \in job.parsing : y[1] \in job.todo
    /\ job.step \in Parsed => job.todo = {} /\ \A x \in job.found : job.mods[x[1]] # {}
ProgramFound == \A w \in Workers : FoundBy(running[w])

\* The changed file a job has told the CachedScope of.
ChangedTold ==
    \A w \in Workers :
        /\ running[w].step = "resolve1" => changed = running[w].file
        /\ running[w].step = "resolve2" => changed \in {{}, running[w].file}
        /\ running[w].step \notin {"resolve1", "resolve2"} => changed = {}

\* The dependency graph knows the files of its packages and what they import,
\* except those of a file that is about to be linked again.
Relinking(f) ==
    \/ \E w \in Workers : running[w].step \in Steps \ Checked /\ running[w].file = {f}
    \/ NextClears(f)
Linked(r, f) == \A q \in Existing(r, text[f].imports) : f \in graph.children[q]
GraphKnows(g, r) ==
    /\ \A f \in Files : g.modules[f] = {p \in g.nodes : f \in PkgFiles[r][p]}
    /\ \A q \in Pkgs : g.children[q] # {} => q \in g.nodes
GraphOf(r) ==
    /\ GraphKnows(graph, r)
    /\ \A f \in Files : graph.modules[f] # {} => Linked(r, f) \/ Relinking(f)
\* After update the graph has the packages of the job, and updating it again
\* removes no link that is not put back.
ChangedFiles(job) == IF changed # {} THEN changed ELSE PkgFiles[job.root][MainPkg]
Relinked(job) ==
    \A f \in ChangedFiles(job) : \A q \in Pkgs :
        f \in graph.children[q] /\ (\E p \in graph.modules[f] : q \in graph.parents[p])
            => \E t \in job.mods[f] : q \in t.imports
GraphCurrent ==
    /\ \A r \in program_root : GraphOf(r)
    /\ \A w \in Workers :
          running[w].step \in Checked =>
              /\ program_root = {running[w].root}
              /\ PkgsOf(running[w]) \ {MainPkg} \subseteq graph.nodes
              /\ running[w].step = "resolve2" => Relinked(running[w])

\* Every scope is reachable in the graph from the files it was computed from.
ReachesAll(scopes) ==
    \A p \in Importable : \A s \in scopes[p] : p \in Invalidated(graph, {s[1]})
ScopesReached ==
    /\ ReachesAll(scope_map)
    /\ \A w \in Workers : running[w].step \in Checked => ReachesAll(running[w].scopes)

\* The texts scopes were computed from are those of files of the root, and if
\* they are the newest they are all there are to see.
Newer(s) == s[2] = text[s[1]].edit
FullAt(r, p, S) ==
    S # {} /\ (\A s \in S : Newer(s)) =>
        \A q \in Visited(r, Current, NoScopes, {p}) : Own(r, Current, q) \subseteq S
OfRootAt(r, S) == \A s \in S : s[1] \in RootFiles(r) /\ s[2] <= edits
Full(r, scopes) == \A p \in Pkgs : FullAt(r, p, scopes[p])
OfRoot(r, scopes) == \A p \in Pkgs : OfRootAt(r, scopes[p])
ScopesFull ==
    /\ \A r \in program_root : OfRoot(r, scope_map) /\ Full(r, scope_map)
    /\ \A w \in Workers :
          running[w].step \in Checked =>
              /\ OfRoot(running[w].root, running[w].scopes)
              /\ Full(running[w].root, running[w].scopes)
              /\ running[w].scopes[MainPkg] # {}

\* A scope that was computed from an older text waits for the job that
\* invalidates it.
ScopesCurrent ==
    /\ \A r \in program_root, p \in Pkgs : \A s \in scope_map[p] :
          \/ Newer(s) \/ Due(r, s[1])
          \/ \E w \in Workers : /\ running[w].step \in Steps \ Checked
                                /\ running[w].root = r /\ running[w].file = {s[1]}
    /\ \A w \in Workers, p \in Pkgs :
          running[w].step \in Checked =>
              \A s \in running[w].scopes[p] : Newer(s) \/ Due(running[w].root, s[1])

\* The results of a root are the newest or a job for it is under way.
UnderWay(r) ==
    \/ \E i \in DOMAIN jobs : jobs[i].root = r
    \/ \E w \in Workers : Busy(w) /\ running[w].root = r
ResultsCurrent == \A r \in opened : UnderWay(r) \/ compiled[r].scopes = Newest(r)

\* The symbols, as long as there is one root: like the scopes, but they are
\* cleared at the end of a job, by invalidate_pkgs, and not by the graph of then.
Alone == \A r, s \in opened : r = s
SymbolsReached ==
    \A p \in Importable : \A s \in gs[p] :
        \/ p \in Invalidated(graph, {s[1]})
        \/ p \in invalidate_pkgs /\ \E w \in Workers : running[w].step \in Checked
SymbolsInvalid ==
    \A w \in Workers :
        /\ running[w].step \in Checked =>
              MainPkg \in invalidate_pkgs /\ Invalidated(graph, running[w].file) \subseteq invalidate_pkgs
        /\ running[w].step = "resolve2" =>
              /\ changed = running[w].file
              /\ invalidate_pkgs \subseteq Invalidated(graph, ChangedFiles(running[w])) \cup {MainPkg}
SymbolsLinked(r) == gs # NoScopes => program_root = {r} /\ SymbolsReached /\ SymbolsInvalid
SymbolsDue(r) ==
    \A p \in Pkgs : \A s \in gs[p] :
        \/ Newer(s) \/ Due(r, s[1])
        \/ \E w \in Workers : Busy(w) /\ running[w].file = {s[1]}
SymbolsCurrent(r) ==
    /\ OfRoot(r, gs) /\ Full(r, gs)
    /\ SymbolsLinked(r)
    /\ SymbolsDue(r)
    /\ UnderWay(r) \/ compiled[r].symbols = Newest(r)
AloneCurrent ==
    /\ opened = {} => gs = NoScopes
    /\ Alone => \A r \in opened : SymbolsCurrent(r)

-----------------------------------------------------------------------------
(* Closures. *)

\* A closure contains its start, is closed, and is part of every such set.
LEMMA ClosureFacts ==
    ASSUME NEW S \in SUBSET Pkgs, NEW next \in [Pkgs -> SUBSET Pkgs]
    PROVE  /\ S \subseteq Closure(S, next)
           /\ Closure(S, next) \subseteq Pkgs
           /\ \A q \in Closure(S, next) : next[q] \subseteq Closure(S, next)
           /\ \A T \in SUBSET Pkgs :
                 S \subseteq T /\ (\A q \in T : next[q] \subseteq T)
                     => Closure(S, next) \subseteq T
<1>1. S \subseteq Closure(S, next) BY DEF Closure
<1>2. Closure(S, next) \subseteq Pkgs BY DEF Closure
<1>3. ASSUME NEW q \in Closure(S, next), NEW p \in next[q] PROVE p \in Closure(S, next)
  <2>1. q \in Pkgs /\ p \in Pkgs BY <1>2, <1>3
  <2>2. ASSUME NEW T \in SUBSET Pkgs, S \subseteq T, \A u \in T : next[u] \subseteq T
        PROVE  p \in T
    BY <1>3, <2>2 DEF Closure
  <2>3. QED BY <2>1, <2>2 DEF Closure
<1>4. ASSUME NEW T \in SUBSET Pkgs, S \subseteq T, \A q \in T : next[q] \subseteq T
      PROVE  Closure(S, next) \subseteq T
  BY <1>4 DEF Closure
<1>5. QED BY <1>1, <1>2, <1>3, <1>4

\* What a package imports is never the main package.
LEMMA ImportsOfType ==
    ASSUME NEW r \in Roots, NEW mods \in [Files -> SUBSET Sources], NEW p \in Pkgs
    PROVE  ImportsOf(r, mods, p) \subseteq Importable
<1>1. PkgFiles[r][p] \subseteq Files BY CachesAssumption
<1>2. QED BY <1>1 DEF ImportsOf, Existing, Sources

LEMMA VisitedFacts ==
    ASSUME NEW r \in Roots, NEW mods \in [Files -> SUBSET Sources],
           NEW cached \in Scopes, NEW S \in SUBSET Pkgs
    PROVE  /\ S \subseteq Visited(r, mods, cached, S)
           /\ Visited(r, mods, cached, S) \subseteq Pkgs
           /\ \A q \in Visited(r, mods, cached, S) :
                 cached[q] = {} => ImportsOf(r, mods, q) \subseteq Visited(r, mods, cached, S)
           /\ \A T \in SUBSET Pkgs :
                 S \subseteq T /\ (\A q \in T : cached[q] = {} => ImportsOf(r, mods, q) \subseteq T)
                     => Visited(r, mods, cached, S) \subseteq T
<1> DEFINE next == [p \in Pkgs |-> IF cached[p] = {} THEN ImportsOf(r, mods, p) ELSE {}]
           V == Closure(S, next)
<1>1. \A p \in Pkgs : ImportsOf(r, mods, p) \in SUBSET Pkgs BY ImportsOfType DEF Importable
<1>2. next \in [Pkgs -> SUBSET Pkgs] BY <1>1
<1>3. Visited(r, mods, cached, S) = V BY DEF Visited
<1>4. \A p \in Pkgs : next[p] = IF cached[p] = {} THEN ImportsOf(r, mods, p) ELSE {}
  OBVIOUS
<1> HIDE DEF next
<1>5. /\ S \subseteq V /\ V \subseteq Pkgs
      /\ \A q \in V : next[q] \subseteq V
      /\ \A T \in SUBSET Pkgs : S \subseteq T /\ (\A q \in T : next[q] \subseteq T) => V \subseteq T
  BY <1>2, ClosureFacts
<1> HIDE DEF V
<1>6. QED BY <1>3, <1>4, <1>5

LEMMA VisitedOne ==
    ASSUME NEW r \in Roots, NEW mods \in [Files -> SUBSET Sources],
           NEW cached \in Scopes, NEW p \in Pkgs
    PROVE  LET V == Visited(r, mods, cached, {p}) IN
           /\ p \in V /\ V \in SUBSET Pkgs
           /\ \A q \in V : cached[q] = {} => ImportsOf(r, mods, q) \subseteq V
<1> DEFINE S == {p}
           V == Visited(r, mods, cached, S)
<1>1. S \in SUBSET Pkgs /\ p \in S OBVIOUS
<1> HIDE DEF S
<1>2. /\ S \subseteq V /\ V \subseteq Pkgs
      /\ \A q \in V : cached[q] = {} => ImportsOf(r, mods, q) \subseteq V
  BY <1>1, VisitedFacts
<1> HIDE DEF V
<1>3. QED BY <1>1, <1>2 DEF V, S

LEMMA VisitedLeast ==
    ASSUME NEW r \in Roots, NEW mods \in [Files -> SUBSET Sources],
           NEW cached \in Scopes, NEW S \in SUBSET Pkgs, NEW T \in SUBSET Pkgs, S \subseteq T,
           \A q \in T : cached[q] = {} => ImportsOf(r, mods, q) \subseteq T
    PROVE  Visited(r, mods, cached, S) \subseteq T
  BY VisitedFacts

\* A visit depends on the imports only.
LEMMA VisitedSame ==
    ASSUME NEW r \in Roots, NEW mods \in [Files -> SUBSET Sources],
           NEW mods2 \in [Files -> SUBSET Sources],
           NEW cached \in Scopes, NEW S \in SUBSET Pkgs,
           \A p \in Pkgs : ImportsOf(r, mods, p) = ImportsOf(r, mods2, p)
    PROVE  Visited(r, mods, cached, S) = Visited(r, mods2, cached, S)
  BY DEF Visited

LEMMA InvalidatedFacts ==
    ASSUME NEW g \in Graphs, NEW S \in SUBSET Files
    PROVE  /\ Invalidated(g, S) \subseteq Pkgs
           /\ \A f \in S : g.modules[f] \subseteq Invalidated(g, S)
           /\ \A q \in Invalidated(g, S) : \A f \in g.children[q] :
                 g.modules[f] \subseteq Invalidated(g, S)
           /\ \A T \in SUBSET Pkgs :
                 /\ \A f \in S : g.modules[f] \subseteq T
                 /\ \A q \in T : \A f \in g.children[q] : g.modules[f] \subseteq T
                 => Invalidated(g, S) \subseteq T
<1> DEFINE next == [p \in Pkgs |-> UNION {g.modules[f] : f \in g.children[p]}]
           start == UNION {g.modules[f] : f \in S}
           I == Closure(start, next)
<1>0. /\ g.modules \in [Files -> SUBSET Importable]
      /\ g.children \in [Pkgs -> SUBSET Files]
  BY DEF Graphs
<1>1. next \in [Pkgs -> SUBSET Pkgs] BY <1>0 DEF Importable
<1>2. start \in SUBSET Pkgs BY <1>0 DEF Importable
<1>3. Invalidated(g, S) = I BY DEF Invalidated
<1>4. \A p \in Pkgs : next[p] = UNION {g.modules[f] : f \in g.children[p]} OBVIOUS
<1>5. \A p \in Pkgs : \A T : next[p] \subseteq T <=> \A f \in g.children[p] : g.modules[f] \subseteq T
  BY <1>4
<1>6. \A T : start \subseteq T <=> \A f \in S : g.modules[f] \subseteq T OBVIOUS
<1> HIDE DEF next, start
<1>7. /\ start \subseteq I /\ I \subseteq Pkgs
      /\ \A q \in I : next[q] \subseteq I
      /\ \A T \in SUBSET Pkgs : start \subseteq T /\ (\A q \in T : next[q] \subseteq T) => I \subseteq T
  BY <1>1, <1>2, ClosureFacts
<1> HIDE DEF I
<1>8. /\ I \subseteq Pkgs
      /\ \A f \in S : g.modules[f] \subseteq I
      /\ \A q \in I : \A f \in g.children[q] : g.modules[f] \subseteq I
  BY <1>5, <1>6, <1>7
<1>9. ASSUME NEW T \in SUBSET Pkgs, \A f \in S : g.modules[f] \subseteq T,
             \A q \in T : \A f \in g.children[q] : g.modules[f] \subseteq T
      PROVE  I \subseteq T
  <2>1. \A q \in T : next[q] \subseteq T BY <1>5, <1>9
  <2>2. start \subseteq T BY <1>6, <1>9
  <2>3. QED BY <1>7, <2>1, <2>2
<1>10. QED BY <1>3, <1>8, <1>9

-----------------------------------------------------------------------------
(* Types. *)

LEMMA PkgFilesType ==
    ASSUME NEW r \in Roots
    PROVE  /\ \A p \in Pkgs : PkgFiles[r][p] \in SUBSET Files
           /\ RootFiles(r) \in SUBSET Files
           /\ \A S \in SUBSET Pkgs : PkgFilesOf(r, S) \in SUBSET Units
           /\ \A S : \A x \in PkgFilesOf(r, S) : x[2] \in S /\ x[1] \in PkgFiles[r][x[2]]
<1>1. \A p \in Pkgs : PkgFiles[r][p] \in SUBSET Files BY CachesAssumption
<1>2. RootFiles(r) \in SUBSET Files BY <1>1 DEF RootFiles
<1>3. \A S \in SUBSET Pkgs : PkgFilesOf(r, S) \in SUBSET Units BY <1>1 DEF PkgFilesOf, Units
<1>4. \A S : \A x \in PkgFilesOf(r, S) : x[2] \in S /\ x[1] \in PkgFiles[r][x[2]]
  BY DEF PkgFilesOf
<1>5. QED BY <1>1, <1>2, <1>3, <1>4

LEMMA PkgFilesOfMember ==
    ASSUME NEW r, NEW S, NEW p \in S, NEW f \in PkgFiles[r][p]
    PROVE  <<f, p>> \in PkgFilesOf(r, S)
  BY DEF PkgFilesOf

LEMMA OwnType ==
    ASSUME NEW r \in Roots, NEW mods \in [Files -> SUBSET Sources], NEW p \in Pkgs
    PROVE  Own(r, mods, p) \in SUBSET Stamps
<1>1. PkgFiles[r][p] \subseteq Files BY PkgFilesType
<1>2. QED BY <1>1 DEF Own, Stamp, Stamps, Sources

\* A stamp of a package is that of one of its files.
LEMMA OwnMember ==
    ASSUME NEW r \in Roots, NEW mods \in [Files -> SUBSET Sources], NEW p \in Pkgs
    PROVE  /\ \A f \in PkgFiles[r][p] : \A t \in mods[f] : <<f, t.edit>> \in Own(r, mods, p)
           /\ \A s \in Own(r, mods, p) :
                 \E f \in PkgFiles[r][p] : \E t \in mods[f] : s = <<f, t.edit>>
  BY DEF Own, Stamp

LEMMA ComputedMember ==
    ASSUME NEW r, NEW mods, NEW cached, NEW S
    PROVE  /\ \A p \in Visited(r, mods, cached, S) :
                 IF cached[p] # {} THEN cached[p] \subseteq Computed(r, mods, cached, S)
                 ELSE Own(r, mods, p) \subseteq Computed(r, mods, cached, S)
           /\ \A s \in Computed(r, mods, cached, S) :
                 \E p \in Visited(r, mods, cached, S) :
                     s \in IF cached[p] # {} THEN cached[p] ELSE Own(r, mods, p)
  BY DEF Computed

LEMMA ComputedType ==
    ASSUME NEW r \in Roots, NEW mods \in [Files -> SUBSET Sources],
           NEW cached \in Scopes, NEW S \in SUBSET Pkgs
    PROVE  Computed(r, mods, cached, S) \in SUBSET Stamps
<1>1. Visited(r, mods, cached, S) \subseteq Pkgs BY VisitedFacts
<1>2. \A p \in Pkgs : Own(r, mods, p) \in SUBSET Stamps BY OwnType
<1>3. \A p \in Pkgs : cached[p] \in SUBSET Stamps BY DEF Scopes
<1>4. QED BY <1>1, <1>2, <1>3, ComputedMember

LEMMA ResolvedType ==
    ASSUME NEW job \in CompileJobs, NEW cached \in Scopes
    PROVE  Resolved(job, cached) \in Scopes
<1>1. job.root \in Roots /\ job.mods \in [Files -> SUBSET Sources] BY DEF CompileJobs
<1>2. \A p \in Pkgs : Own(job.root, job.mods, p) \in SUBSET Stamps BY <1>1, OwnType
<1>3. \A p \in Pkgs : Computed(job.root, job.mods, cached, {p}) \in SUBSET Stamps
  BY <1>1, ComputedType
<1>4. \A p \in Pkgs : cached[p] \in SUBSET Stamps BY DEF Scopes
<1>5. QED BY <1>2, <1>3, <1>4 DEF Resolved, Scopes

LEMMA SymbolsOfType ==
    ASSUME NEW job \in CompileJobs, NEW cache \in Scopes, NEW invalid \in SUBSET Pkgs
    PROVE  /\ SymbolsOf(job, cache, invalid) \in Scopes
           /\ ProgramSymbols(job, SymbolsOf(job, cache, invalid)) \in SUBSET Stamps
<1> DEFINE cleared == ClearSymbols(cache, invalid \cup job.unimported)
<1>1. job.root \in Roots /\ job.mods \in [Files -> SUBSET Sources] /\ job.found \in SUBSET Units
  BY DEF CompileJobs
<1>2. cleared \in Scopes BY DEF ClearSymbols, Scopes
<1>3. \A p \in Pkgs : Computed(job.root, job.mods, cleared, {p}) \in SUBSET Stamps
  BY <1>1, <1>2, ComputedType
<1>4. \A p \in Pkgs : cleared[p] \in SUBSET Stamps BY <1>2 DEF Scopes
<1> HIDE DEF cleared
<1>5. SymbolsOf(job, cache, invalid)
          = [p \in Pkgs |-> IF cleared[p] = {} /\ p \in PkgsOf(job)
                            THEN Computed(job.root, job.mods, cleared, {p})
                            ELSE cleared[p]]
  BY DEF SymbolsOf, cleared
<1>6. SymbolsOf(job, cache, invalid) \in Scopes BY <1>3, <1>4, <1>5 DEF Scopes
<1>7. PkgsOf(job) \subseteq Pkgs BY <1>1 DEF PkgsOf, Units
<1>8. QED BY <1>6, <1>7 DEF ProgramSymbols, Scopes

LEMMA DiscoverType ==
    ASSUME NEW job \in CompileJobs, NEW x \in Units, NEW imports \in SUBSET Importable
    PROVE  Discover(job, x, imports) \in CompileJobs
<1>1. job.root \in Roots BY DEF CompileJobs
<1>2. PkgFilesOf(job.root, imports) \in SUBSET Units BY <1>1, PkgFilesType DEF Importable
<1>3. QED BY <1>2 DEF Discover, CompileJobs

\* What a text of file f in mods imports.
ModImports(mods, f) == UNION {t.imports : t \in mods[f]}

LEMMA AddModulesFacts ==
    ASSUME NEW g \in Graphs, NEW mods \in [Files -> SUBSET Sources], NEW S \in SUBSET Files
    PROVE  /\ AddModules(g, mods, S) \in Graphs
           /\ AddModules(g, mods, S).modules = g.modules
           /\ AddModules(g, mods, S).nodes = g.nodes
           /\ \A p \in Pkgs :
                 AddModules(g, mods, S).children[p] =
                     g.children[p] \cup {f \in {h \in S : g.modules[h] # {}} :
                                           p \in ModImports(mods, f) \cap g.nodes}
           /\ \A p \in Pkgs :
                 AddModules(g, mods, S).parents[p] =
                     g.parents[p] \cup UNION {ModImports(mods, f) : f \in {h \in S : p \in g.modules[h]}}
<1> DEFINE imports == [f \in Files |-> ModImports(mods, f)]
           known == {f \in S : g.modules[f] # {}}
           children == [p \in Pkgs |-> g.children[p] \cup {f \in known : p \in imports[f] \cap g.nodes}]
           parents == [p \in Pkgs |->
               g.parents[p] \cup UNION {imports[f] : f \in {h \in known : p \in g.modules[h]}}]
<1>1. \A f \in Files : ModImports(mods, f) \in SUBSET Importable BY DEF Sources, ModImports
<1>2. g = [modules |-> g.modules, nodes |-> g.nodes, parents |-> g.parents, children |-> g.children]
  BY DEF Graphs
<1>3. AddModules(g, mods, S) = [g EXCEPT !.children = children, !.parents = parents]
  BY DEF AddModules, ModImports
<1>4. AddModules(g, mods, S)
        = [modules |-> g.modules, nodes |-> g.nodes, parents |-> parents, children |-> children]
  <2> HIDE DEF children, parents
  <2> QED BY <1>2, <1>3
<1>5. \A p \in Pkgs : {h \in known : p \in g.modules[h]} = {h \in S : p \in g.modules[h]}
  OBVIOUS
<1>6. /\ g.children \in [Pkgs -> SUBSET Files] /\ g.parents \in [Pkgs -> SUBSET Importable]
      /\ g.modules \in [Files -> SUBSET Importable] /\ g.nodes \in SUBSET Importable
  BY DEF Graphs
<1>7. children \in [Pkgs -> SUBSET Files] BY <1>6
<1>8. parents \in [Pkgs -> SUBSET Importable]
  <2>1. ASSUME NEW p \in Pkgs
        PROVE  UNION {imports[f] : f \in {h \in known : p \in g.modules[h]}} \subseteq Importable
    BY <1>1
  <2> HIDE DEF imports, known
  <2>2. QED BY <1>6, <2>1
<1>9. \A p \in Pkgs : children[p] =
          g.children[p] \cup {f \in {h \in S : g.modules[h] # {}} : p \in ModImports(mods, f) \cap g.nodes}
  OBVIOUS
<1>10. ASSUME NEW p \in Pkgs
       PROVE  parents[p] = g.parents[p] \cup
                  UNION {ModImports(mods, f) : f \in {h \in S : p \in g.modules[h]}}
  <2>1. {imports[f] : f \in {h \in known : p \in g.modules[h]}}
          = {ModImports(mods, f) : f \in {h \in S : p \in g.modules[h]}}
    BY <1>5
  <2> HIDE DEF imports, known
  <2>2. QED BY <2>1
<1> HIDE DEF children, parents
<1>11. AddModules(g, mods, S) \in Graphs BY <1>4, <1>6, <1>7, <1>8 DEF Graphs
<1>12. QED BY <1>4, <1>9, <1>10, <1>11

LEMMA UpdateGraphType ==
    ASSUME NEW g \in Graphs, NEW job \in CompileJobs, NEW S \in SUBSET Files
    PROVE  /\ Registered(g, job) \in Graphs
           /\ UpdateGraph(g, job, S).graph \in Graphs
           /\ UpdateGraph(g, job, S).invalid \in SUBSET Pkgs
<1>1. job.root \in Roots /\ job.mods \in [Files -> SUBSET Sources] /\ job.found \in SUBSET Units
  BY DEF CompileJobs
<1>2. PkgsOf(job) \subseteq Pkgs BY <1>1 DEF PkgsOf, Units
<1> DEFINE pkgs == PkgsOf(job) \ {MainPkg}
           all == [g EXCEPT
            !.nodes = @ \cup pkgs,
            !.modules = [f \in Files |-> @[f] \cup {p \in pkgs : f \in PkgFiles[job.root][p]}]]
<1>3. pkgs \subseteq Importable BY <1>2 DEF Importable
<1> HIDE DEF pkgs
<1>4. all \in Graphs BY <1>3 DEF Graphs
<1> HIDE DEF all
<1>5. Registered(g, job)
        = AddModules(all, job.mods, {f \in Files : g.modules[f] = {} /\ all.modules[f] # {}})
  BY DEF Registered, all, pkgs
<1>6. Registered(g, job) \in Graphs BY <1>1, <1>4, <1>5, AddModulesFacts
<1>7. RemoveDependencies(Registered(g, job), S) \in Graphs
  BY <1>6 DEF RemoveDependencies, Graphs
<1>8. Invalidated(Registered(g, job), S) \in SUBSET Pkgs BY <1>6, InvalidatedFacts
<1>9. QED BY <1>1, <1>6, <1>7, <1>8, AddModulesFacts DEF UpdateGraph

LEMMA UpdatedType ==
    ASSUME ScopeTypes, NEW job \in CompileJobs
    PROVE  /\ Updated(job).graph \in Graphs
           /\ Updated(job).changed \in SUBSET Files
           /\ Updated(job).invalid \in SUBSET Pkgs
           /\ Updated(job).scopes \in Scopes
           /\ Updated(job).scopes[MainPkg] = {}
<1>1. NoGraph \in Graphs BY DEF NoGraph, Graphs
<1>2. job.root \in Roots BY DEF CompileJobs
<1>3. PkgFiles[job.root][MainPkg] \in SUBSET Files BY <1>2, PkgFilesType, CachesAssumption
<1> DEFINE same == program_root = {job.root}
           marked == IF same THEN changed ELSE {}
           u == UpdateGraph(IF same THEN graph ELSE NoGraph, job,
                            IF marked # {} THEN marked ELSE PkgFiles[job.root][MainPkg])
<1>4. marked \in SUBSET Files BY DEF ScopeTypes
<1>5. u.graph \in Graphs /\ u.invalid \in SUBSET Pkgs
  BY <1>1, <1>3, <1>4, UpdateGraphType DEF ScopeTypes
<1> HIDE DEF same, marked, u
<1>6. Updated(job) =
        [graph |-> u.graph, changed |-> marked, invalid |-> u.invalid,
         scopes |-> [p \in Pkgs |-> IF same /\ p \notin u.invalid THEN scope_map[p] ELSE {}]]
  BY DEF Updated, same, marked, u
<1>7. QED BY <1>4, <1>5, <1>6, CachesAssumption DEF ScopeTypes, Scopes

\* The job of a busy worker.
LEMMA RunningJob ==
    ASSUME PoolTypes, NEW w \in Workers
    PROVE  /\ Busy(w) => running[w] \in CompileJobs
           /\ running[w].step \in Steps => running[w] \in CompileJobs
           /\ Busy(w) <=> running[w].step \in Steps
<1>1. Idle.step \notin Steps BY DEF Idle, Steps, Early, Parsing, Parsed, Checked
<1>2. running[w] \in CompileJobs \cup {Idle} BY DEF PoolTypes
<1>3. \A job \in CompileJobs : job.step \in Steps BY DEF CompileJobs
<1>4. QED BY <1>1, <1>2, <1>3 DEF Busy

LEMMA JobType ==
    ASSUME NEW r \in Roots, NEW file \in SUBSET Files
    PROVE  Job(r, file) \in CompileJobs
  BY DEF Job, CompileJobs, Steps, Early, NoScopes, Scopes

\* The jobs of a change are one for every workspace of the file.
LEMMA JobsForFacts ==
    ASSUME NEW S \in SUBSET Roots, NEW file \in SUBSET Files, NEW s \in JobsFor(S, file)
    PROVE  /\ s \in Seq(CompileJobs)
           /\ \A i \in DOMAIN s : s[i].root \in S /\ s[i] = Job(s[i].root, file)
                                    /\ s[i].file = file
           /\ \A r \in S : \E i \in DOMAIN s : s[i] = Job(r, file)
<1>1. PICK o \in Orders(S) : s = [i \in DOMAIN o |-> Job(o[i], file)]
  BY DEF JobsFor
<1>2. IsFiniteSet(S) BY FS_Subset, CachesAssumption
<1>3. Cardinality(S) \in Nat BY <1>2, FS_CardinalityType
<1>4. o \in [1..Cardinality(S) -> S] /\ \A x \in S : \E i \in DOMAIN o : o[i] = x
  BY DEF Orders
<1>5. \A i \in DOMAIN o : Job(o[i], file) \in CompileJobs BY <1>4, JobType
<1>6. s \in [1..Cardinality(S) -> CompileJobs] BY <1>1, <1>4, <1>5
<1>7. s \in Seq(CompileJobs) BY <1>3, <1>6
<1>8. \A r : Job(r, file).root = r /\ Job(r, file).file = file BY DEF Job
<1>9. QED BY <1>1, <1>4, <1>7, <1>8

LEMMA GotoType ==
    ASSUME PoolTypes, NEW w \in Workers, NEW job \in CompileJobs, NEW step \in Steps,
           Goto(w, step, job), UNCHANGED jobs
    PROVE  PoolTypes'
<1>1. [job EXCEPT !.step = step] \in CompileJobs BY DEF CompileJobs
<1>2. QED BY <1>1 DEF Goto, PoolTypes

LEMMA StepsAre ==
    /\ "start" \in Steps /\ "clear" \in Steps /\ "main" \in Steps /\ "parse" \in Steps
    /\ "write" \in Steps /\ "scan" \in Steps /\ "mark" \in Steps /\ "resolve1" \in Steps
    /\ "resolve2" \in Steps /\ "symbols" \in Steps
  BY DEF Steps, Early, Parsing, Parsed, Checked

LEMMA SourceType ==
    ASSUME TextTypes, ModuleTypes, NEW f \in Files
    PROVE  Source(f) \in SUBSET Sources
  BY DEF TextTypes, ModuleTypes, Source

\* The types are inductive.
LEMMA TypesStep ==
    ASSUME Types, [CachesNext]_cacheVars
    PROVE  Types'
<1> USE DEF Types
<1>0. \A w \in Workers : running[w].step \in Steps => running[w] \in CompileJobs
  BY RunningJob
<1>1. ASSUME NEW r \in Roots, OpenRoot(r) PROVE Types'
  <2>1. \A p \in Pkgs : PkgFiles[r][p] \in SUBSET Files BY PkgFilesType
  <2>2. PICK file \in {{}} \cup {{f} : f \in PkgFiles[r][MainPkg]} : jobs' = Append(jobs, Job(r, file))
    BY <1>1 DEF OpenRoot
  <2>3. Job(r, file) \in CompileJobs BY <2>1, JobType, CachesAssumption
  <2>4. jobs' \in Seq(CompileJobs) BY <2>2, <2>3 DEF PoolTypes
  <2>5. QED
    BY <1>1, <2>4
       DEF OpenRoot, TextTypes, PoolTypes, ModuleTypes, ScopeTypes, ResultTypes, moduleVars, scopeVars
<1>2. ASSUME NEW f \in Files, Edit(f) PROVE Types'
  <2>1. PICK s \in JobsFor({r \in opened : f \in RootFiles(r)}, {f}) : jobs' = jobs \o s
    BY <1>2 DEF Edit
  <2>2. s \in Seq(CompileJobs) BY JobsForFacts DEF TextTypes
  <2>3. jobs' \in Seq(CompileJobs) BY <2>1, <2>2 DEF PoolTypes
  <2>4. PICK imports \in Imports[f] :
            text' = [text EXCEPT ![f] = [edit |-> edits + 1, imports |-> imports]]
    BY <1>2 DEF Edit
  <2>5. imports \subseteq Importable BY CachesAssumption DEF Importable
  <2>6. edits + 1 \in 0..MaxEdits BY <1>2, CachesAssumption DEF Edit, TextTypes
  <2>7. text' \in [Files -> Sources] BY <2>4, <2>5, <2>6 DEF TextTypes, Sources
  <2>8. QED
    BY <1>2, <2>3, <2>6, <2>7
       DEF Edit, TextTypes, PoolTypes, ModuleTypes, ScopeTypes, ResultTypes, moduleVars, scopeVars
<1>3. ASSUME NEW w \in Workers, StartJob(w) PROVE Types'
  <2>1. Head(jobs) \in CompileJobs /\ Tail(jobs) \in Seq(CompileJobs)
    BY <1>3 DEF StartJob, PoolTypes
  <2>2. QED
    BY <1>3, <2>1
       DEF StartJob, TextTypes, PoolTypes, ModuleTypes, ScopeTypes, ResultTypes,
           textVars, moduleVars, scopeVars
<1>4. ASSUME NEW w \in Workers, LoadCode(w) PROVE Types'
  <2> DEFINE job == running[w]
             code == [f \in Files |-> IF f \in PkgFiles[job.root][MainPkg] THEN {text[f]} ELSE {}]
  <2>1. job \in CompileJobs BY <1>0, <1>4, StepsAre DEF LoadCode, At
  <2>2. code \in [Files -> SUBSET Sources] BY DEF TextTypes
  <2> HIDE DEF code
  <2>3. [job EXCEPT !.code = code] \in CompileJobs BY <2>1, <2>2 DEF CompileJobs
  <2>4. Goto(w, "clear", [job EXCEPT !.code = code]) BY <1>4 DEF LoadCode, code
  <2>5. PoolTypes' BY <1>4, <2>3, <2>4, GotoType, StepsAre DEF LoadCode
  <2>6. QED
    BY <1>4, <2>5
       DEF LoadCode, TextTypes, ModuleTypes, ScopeTypes, ResultTypes, textVars, moduleVars, scopeVars
<1>5. ASSUME NEW w \in Workers, ClearChanged(w) PROVE Types'
  <2>1. running[w] \in CompileJobs BY <1>0, <1>5, StepsAre DEF ClearChanged, At
  <2>2. PoolTypes' BY <1>5, <2>1, GotoType, StepsAre DEF ClearChanged
  <2>3. ModuleTypes' BY <1>5 DEF ClearChanged, Cleared, ModuleTypes, TextTypes
  <2>4. QED
    BY <1>5, <2>2, <2>3
       DEF ClearChanged, TextTypes, ScopeTypes, ResultTypes, textVars, scopeVars
<1>6. ASSUME NEW w \in Workers, ParseMain(w) PROVE Types'
  <2> DEFINE job == running[w]
             main == PkgFiles[job.root][MainPkg]
             deps == UNION {PkgFilesOf(job.root, t.imports) : t \in UNION {job.code[f] : f \in main}}
             found == (main \X {MainPkg}) \cup deps
  <2>1. job \in CompileJobs BY <1>0, <1>6, StepsAre DEF ParseMain, At
  <2>2. job.root \in Roots /\ job.code \in [Files -> SUBSET Sources] BY <2>1 DEF CompileJobs
  <2>3. main \in SUBSET Files BY <2>2, PkgFilesType, CachesAssumption
  <2>4. deps \in SUBSET Units
    <3>1. \A t \in UNION {job.code[f] : f \in main} : t \in Sources BY <2>2, <2>3
    <3>2. \A t \in Sources : PkgFilesOf(job.root, t.imports) \in SUBSET Units
      BY <2>2, PkgFilesType DEF Sources, Importable
    <3>3. QED BY <3>1, <3>2
  <2>5. found \in SUBSET Units BY <2>3, <2>4, CachesAssumption DEF Units
  <2> HIDE DEF deps, found
  <2>6. [job EXCEPT !.found = found, !.todo = deps] \in CompileJobs
    BY <2>1, <2>4, <2>5 DEF CompileJobs
  <2>7. Goto(w, "parse", [job EXCEPT !.found = found, !.todo = deps])
    BY <1>6 DEF ParseMain, found, deps
  <2>8. PoolTypes' BY <1>6, <2>6, <2>7, GotoType, StepsAre DEF ParseMain
  <2>9. ast_cache' \in [Files -> SUBSET Sources]
    BY <1>6, <2>2, <2>3 DEF ParseMain, ModuleTypes
  <2>10. \A f \in Files : {t.imports : t \in job.code[f]} \in SUBSET SUBSET Importable
    BY <2>2 DEF Sources
  <2>11. dep_cache' \in [Files -> [Pkgs -> SUBSET SUBSET Importable]]
    BY <1>6, <2>3, <2>10 DEF ParseMain, ModuleTypes
  <2>12. QED
    BY <1>6, <2>8, <2>9, <2>11
       DEF ParseMain, TextTypes, ModuleTypes, ScopeTypes, ResultTypes, textVars, scopeVars
<1>7. ASSUME NEW w \in Workers, FollowCached(w) PROVE Types'
  <2>1. running[w] \in CompileJobs BY <1>0, <1>7, StepsAre DEF FollowCached, At
  <2>2. PICK x \in running[w].todo : Goto(w, "parse", Discover(running[w], x, CachedImports(x)))
    BY <1>7 DEF FollowCached
  <2>3. x \in Units BY <2>1 DEF CompileJobs
  <2>4. CachedImports(x) \in SUBSET Importable
    BY <2>3 DEF CachedImports, ModuleTypes, Units, Sources
  <2>5. PoolTypes' BY <1>7, <2>1, <2>2, <2>3, <2>4, DiscoverType, GotoType, StepsAre DEF FollowCached
  <2>6. QED
    BY <1>7, <2>5
       DEF FollowCached, TextTypes, ModuleTypes, ScopeTypes, ResultTypes, textVars, moduleVars, scopeVars
<1>8. ASSUME NEW w \in Workers, ReadFile(w) PROVE Types'
  <2>1. running[w] \in CompileJobs BY <1>0, <1>8, StepsAre DEF ReadFile, At
  <2>2. PICK x \in running[w].todo :
            Goto(w, "write", [running[w] EXCEPT !.parsing = {<<x, t>> : t \in Source(x[1])}])
    BY <1>8 DEF ReadFile
  <2>3. x \in Units /\ x[1] \in Files BY <2>1 DEF CompileJobs, Units
  <2>4. {<<x, t>> : t \in Source(x[1])} \in SUBSET (Units \X Sources) BY <2>3, SourceType
  <2>5. [running[w] EXCEPT !.parsing = {<<x, t>> : t \in Source(x[1])}] \in CompileJobs
    BY <2>1, <2>4 DEF CompileJobs
  <2>6. PoolTypes' BY <1>8, <2>2, <2>5, GotoType, StepsAre DEF ReadFile
  <2>7. QED
    BY <1>8, <2>6
       DEF ReadFile, TextTypes, ModuleTypes, ScopeTypes, ResultTypes, textVars, moduleVars, scopeVars
<1>9. ASSUME NEW w \in Workers, WriteFile(w) PROVE Types'
  <2>1. running[w] \in CompileJobs BY <1>0, <1>9, StepsAre DEF WriteFile, At
  <2>2. PICK y \in running[w].parsing :
            /\ ast_cache' = [ast_cache EXCEPT ![y[1][1]] = {y[2]}]
            /\ dep_cache' = [dep_cache EXCEPT ![y[1][1]][y[1][2]] = {y[2].imports}]
            /\ Goto(w, "parse", Discover(running[w], y[1], y[2].imports))
    BY <1>9 DEF WriteFile
  <2>3. y[1] \in Units /\ y[1][1] \in Files /\ y[1][2] \in Pkgs /\ y[2] \in Sources
    BY <2>1 DEF CompileJobs, Units
  <2>4. y[2].imports \in SUBSET Importable BY <2>3 DEF Sources
  <2>5. PoolTypes' BY <1>9, <2>1, <2>2, <2>3, <2>4, DiscoverType, GotoType, StepsAre DEF WriteFile
  <2>6. ast_cache' \in [Files -> SUBSET Sources] BY <2>2, <2>3 DEF ModuleTypes
  <2>7. dep_cache' \in [Files -> [Pkgs -> SUBSET SUBSET Importable]]
    BY <2>2, <2>3, <2>4 DEF ModuleTypes
  <2>8. QED
    BY <1>9, <2>5, <2>6, <2>7
       DEF WriteFile, TextTypes, ModuleTypes, ScopeTypes, ResultTypes, textVars, scopeVars
<1>10. ASSUME NEW w \in Workers, Collect(w) PROVE Types'
  <2> DEFINE found == {x[1] : x \in running[w].found}
             mods == [f \in Files |-> IF f \in found THEN ast_cache[f] ELSE {}]
  <2>1. running[w] \in CompileJobs BY <1>0, <1>10, StepsAre DEF Collect, At
  <2>2. mods \in [Files -> SUBSET Sources] BY DEF ModuleTypes
  <2> HIDE DEF mods
  <2>3. [running[w] EXCEPT !.mods = mods] \in CompileJobs BY <2>1, <2>2 DEF CompileJobs
  <2>4. \/ running' = [running EXCEPT ![w] = Idle]
        \/ Goto(w, "scan", [running[w] EXCEPT !.mods = mods])
    BY <1>10 DEF Collect, mods
  <2>5. UNCHANGED jobs BY <1>10 DEF Collect
  <2>6. ASSUME running' = [running EXCEPT ![w] = Idle] PROVE PoolTypes'
    BY <2>5, <2>6 DEF PoolTypes
  <2>7. ASSUME Goto(w, "scan", [running[w] EXCEPT !.mods = mods]) PROVE PoolTypes'
    BY <2>3, <2>5, <2>7, GotoType, StepsAre
  <2>8. PoolTypes' BY <2>4, <2>6, <2>7
  <2>9. QED
    BY <1>10, <2>8
       DEF Collect, TextTypes, ModuleTypes, ScopeTypes, ResultTypes, textVars, moduleVars, scopeVars
<1>11. ASSUME NEW w \in Workers, ScanUnimported(w) PROVE Types'
  <2> DEFINE job == running[w]
             r == job.root
             rest == IF last_compile_input = {r} THEN {} ELSE {f \in RootFiles(r) : ast_cache[f] = {}}
             parsed == [f \in Files |-> IF f \in rest THEN Source(f) ELSE ast_cache[f]]
             deps == UNION {PkgFilesOf(r, t.imports) : t \in UNION {parsed[f] : f \in rest}}
             new == {x \in PkgFilesOf(r, Pkgs) \ job.found : x[1] \in rest \/ x \in deps}
             mods == [f \in Files |-> IF \E x \in new : x[1] = f THEN parsed[f] ELSE job.mods[f]]
             unimported == {x[2] : x \in new}
  <2>1. job \in CompileJobs BY <1>0, <1>11, StepsAre DEF ScanUnimported, At
  <2>2. r \in Roots /\ job.mods \in [Files -> SUBSET Sources] BY <2>1 DEF CompileJobs
  <2>3. parsed \in [Files -> SUBSET Sources] BY SourceType DEF ModuleTypes
  <2>4. new \subseteq Units BY <2>2, PkgFilesType
  <2>5. unimported \in SUBSET Pkgs BY <2>4 DEF Units
  <2>6. /\ ast_cache' = parsed
        /\ last_compile_input' = {r}
        /\ dep_cache' = [f \in Files |-> [p \in Pkgs |->
              IF f \in rest \cap PkgFiles[r][p]
              THEN {t.imports : t \in Source(f)} ELSE dep_cache[f][p]]]
        /\ Goto(w, "mark", [job EXCEPT !.mods = mods, !.unimported = unimported])
    BY <1>11, <2>1 DEF ScanUnimported, CompileJobs
  <2> HIDE DEF parsed, new, rest
  <2>7. mods \in [Files -> SUBSET Sources] BY <2>2, <2>3
  <2> HIDE DEF mods, unimported
  <2>8. [job EXCEPT !.mods = mods, !.unimported = unimported] \in CompileJobs
    BY <2>1, <2>5, <2>7 DEF CompileJobs
  <2>9. PoolTypes' BY <1>11, <2>6, <2>8, GotoType, StepsAre DEF ScanUnimported
  <2>10. \A f \in Files : {t.imports : t \in Source(f)} \in SUBSET SUBSET Importable
    BY SourceType DEF Sources
  <2>11. dep_cache' \in [Files -> [Pkgs -> SUBSET SUBSET Importable]]
    BY <2>6, <2>10 DEF ModuleTypes
  <2>12. QED
    BY <1>11, <2>2, <2>3, <2>6, <2>9, <2>11
       DEF ScanUnimported, TextTypes, ModuleTypes, ScopeTypes, ResultTypes, textVars, scopeVars
<1>12. ASSUME NEW w \in Workers, MarkChanged(w) PROVE Types'
  <2>1. running[w] \in CompileJobs BY <1>0, <1>12, StepsAre DEF MarkChanged, At
  <2>2. PoolTypes' BY <1>12, <2>1, GotoType, StepsAre DEF MarkChanged
  <2>3. changed' \subseteq Files BY <1>12, <2>1 DEF MarkChanged, ScopeTypes, CompileJobs
  <2>4. QED
    BY <1>12, <2>2, <2>3
       DEF MarkChanged, TextTypes, ModuleTypes, ScopeTypes, ResultTypes, textVars, moduleVars
<1>13. ASSUME NEW w \in Workers, Resolve(w) PROVE Types'
  <2> DEFINE job == running[w]
             c == Updated(job)
  <2>1. job \in CompileJobs BY <1>0, <1>13, StepsAre DEF Resolve, At
  <2>2. /\ c.graph \in Graphs /\ c.changed \in SUBSET Files /\ c.invalid \in SUBSET Pkgs
        /\ c.scopes \in Scopes /\ c.scopes[MainPkg] = {}
    BY <2>1, UpdatedType
  <2> HIDE DEF c
  <2>3. PICK locked \in TryWrite(w) :
            /\ IF locked THEN CacheBecomes(job, c, c.scopes, c.changed) ELSE UNCHANGED scopeVars
            /\ Goto(w, "resolve2", [job EXCEPT !.scopes =
                                       Resolved(job, IF locked THEN c.scopes ELSE NoScopes)])
    BY <1>13 DEF Resolve, c
  <2>4. NoScopes \in Scopes BY DEF NoScopes, Scopes
  <2>5. Resolved(job, IF locked THEN c.scopes ELSE NoScopes) \in Scopes
    BY <2>1, <2>2, <2>4, ResolvedType
  <2>6. [job EXCEPT !.scopes = Resolved(job, IF locked THEN c.scopes ELSE NoScopes)] \in CompileJobs
    BY <2>1, <2>5 DEF CompileJobs
  <2>7. PoolTypes' BY <1>13, <2>3, <2>6, GotoType, StepsAre DEF Resolve
  <2>8. ScopeTypes'
    <3>1. CASE locked
      BY <2>1, <2>2, <2>3, <3>1, CachesAssumption DEF CacheBecomes, ScopeTypes, CompileJobs
    <3>2. CASE ~locked
      BY <2>3, <3>2 DEF scopeVars, ScopeTypes
    <3>3. QED BY <3>1, <3>2
  <2>9. QED
    BY <1>13, <2>7, <2>8 DEF Resolve, TextTypes, ModuleTypes, ResultTypes, textVars, moduleVars
<1>14. ASSUME NEW w \in Workers, StoreScopes(w) PROVE Types'
  <2> DEFINE job == running[w]
             c == Updated(job)
  <2>1. job \in CompileJobs BY <1>0, <1>14, StepsAre DEF StoreScopes, At
  <2>2. c.graph \in Graphs /\ c.invalid \in SUBSET Pkgs BY <2>1, UpdatedType
  <2>3. Kept(job.scopes) \in Scopes /\ Kept(job.scopes)[MainPkg] = {}
    BY <2>1, CachesAssumption DEF Kept, CompileJobs, Scopes
  <2> HIDE DEF c
  <2>4. PICK locked \in TryWrite(w) :
            IF locked THEN CacheBecomes(job, c, Kept(job.scopes), {}) ELSE UNCHANGED scopeVars
    BY <1>14 DEF StoreScopes, c
  <2>5. PoolTypes' BY <1>14, <2>1, GotoType, StepsAre DEF StoreScopes
  <2>6. ScopeTypes'
    <3>1. CASE locked
      BY <2>1, <2>2, <2>3, <2>4, <3>1, CachesAssumption DEF CacheBecomes, ScopeTypes, CompileJobs
    <3>2. CASE ~locked
      BY <2>4, <3>2 DEF scopeVars, ScopeTypes
    <3>3. QED BY <3>1, <3>2
  <2>7. QED
    BY <1>14, <2>5, <2>6 DEF StoreScopes, TextTypes, ModuleTypes, ResultTypes, textVars, moduleVars
<1>15. ASSUME NEW w \in Workers, FindSymbols(w) PROVE Types'
  <2> DEFINE job == running[w]
  <2>1. job \in CompileJobs BY <1>0, <1>15, StepsAre DEF FindSymbols, At
  <2>2. PICK locked \in TryLock(w), read \in TryWrite(w) :
            LET symbols == SymbolsOf(job, IF locked THEN gs ELSE NoScopes,
                                     IF read THEN invalidate_pkgs ELSE {})
            IN  /\ gs' = IF locked THEN symbols ELSE gs
                /\ compiled' = [compiled EXCEPT ![job.root] =
                       [scopes |-> job.scopes[MainPkg], symbols |-> ProgramSymbols(job, symbols)]]
    BY <1>15 DEF FindSymbols
  <2> DEFINE symbols == SymbolsOf(job, IF locked THEN gs ELSE NoScopes,
                                  IF read THEN invalidate_pkgs ELSE {})
  <2>3. NoScopes \in Scopes BY DEF NoScopes, Scopes
  <2>4. symbols \in Scopes /\ ProgramSymbols(job, symbols) \in SUBSET Stamps
    BY <2>1, <2>3, SymbolsOfType DEF ResultTypes, ScopeTypes
  <2> HIDE DEF symbols
  <2>5. /\ gs' = IF locked THEN symbols ELSE gs
        /\ compiled' = [compiled EXCEPT ![job.root] =
               [scopes |-> job.scopes[MainPkg], symbols |-> ProgramSymbols(job, symbols)]]
    BY <2>2 DEF symbols
  <2>6. job.scopes[MainPkg] \in SUBSET Stamps /\ job.root \in Roots
    BY <2>1, CachesAssumption DEF CompileJobs, Scopes
  <2>7. ResultTypes' BY <2>4, <2>5, <2>6 DEF ResultTypes
  <2>8. PoolTypes' BY <1>15 DEF FindSymbols, PoolTypes
  <2>9. QED
    BY <1>15, <2>7, <2>8 DEF FindSymbols, TextTypes, ModuleTypes, ScopeTypes, textVars, moduleVars, scopeVars
<1>16. CASE UNCHANGED cacheVars
  BY <1>16
     DEF cacheVars, TextTypes, PoolTypes, ModuleTypes, ScopeTypes, ResultTypes,
         textVars, poolVars, moduleVars, scopeVars
<1>17. QED
  BY <1>1, <1>2, <1>3, <1>4, <1>5, <1>6, <1>7, <1>8, <1>9, <1>10, <1>11, <1>12, <1>13,
     <1>14, <1>15, <1>16
     DEF CachesNext, CompileStep

-----------------------------------------------------------------------------
(* What the steps of a job do. *)

LEMMA GotoFacts ==
    ASSUME PoolTypes, NEW w \in Workers, NEW job \in CompileJobs, NEW step, Goto(w, step, job)
    PROVE  /\ running'[w].step = step
           /\ running'[w].root = job.root /\ running'[w].file = job.file
           /\ running'[w].code = job.code /\ running'[w].mods = job.mods
           /\ running'[w].todo = job.todo /\ running'[w].found = job.found
           /\ running'[w].parsing = job.parsing
           /\ running'[w].unimported = job.unimported /\ running'[w].scopes = job.scopes
           /\ \A v \in Workers \ {w} : running'[v] = running[v]
           /\ step \in Steps => running'[w] \in CompileJobs
  BY DEF Goto, PoolTypes, CompileJobs

\* Where a step leads.
Leads(from, to) ==
    \/ from = "start" /\ to = "clear"
    \/ from = "clear" /\ to = "main"
    \/ from \in {"main", "write"} /\ to = "parse"
    \/ from = "parse" /\ to \in {"parse", "write", "scan"}
    \/ from = "scan" /\ to = "mark"
    \/ from = "mark" /\ to = "resolve1"
    \/ from = "resolve1" /\ to = "resolve2"
    \/ from = "resolve2" /\ to = "symbols"

\* The texts a step reads: the job's own, the client's, and those of the cache
\* once the job has cleared its file.
Readable(w, f) ==
    LocalTexts(running[w], f) \cup {text[f]}
        \cup (IF running[w].step \in Early THEN {} ELSE CacheTexts(f))

LEMMA LocalTextsMember ==
    ASSUME NEW job \in CompileJobs, NEW f \in Files
    PROVE  /\ LocalTexts(job, f) \in SUBSET Sources
           /\ job.code[f] \subseteq LocalTexts(job, f)
           /\ job.mods[f] \subseteq LocalTexts(job, f)
           /\ \A y \in job.parsing : y[1][1] = f => y[2] \in LocalTexts(job, f)
           /\ \A t \in LocalTexts(job, f) :
                 \/ t \in job.code[f] \/ t \in job.mods[f]
                 \/ \E y \in job.parsing : y[1][1] = f /\ y[2] = t
  BY DEF LocalTexts, CompileJobs, Units

StepFacts(w) ==
    /\ running[w] \in CompileJobs
    /\ \A v \in Workers \ {w} : running'[v] = running[v]
    /\ jobs' = jobs /\ text' = text /\ edits' = edits /\ opened' = opened
JobFacts(w) ==
    /\ running'[w] \in CompileJobs
    /\ running'[w].root = running[w].root /\ running'[w].file = running[w].file
    /\ Leads(running[w].step, running'[w].step)
CacheFacts(w) ==
    /\ \A f \in Files : CacheTexts(f)' \subseteq CacheTexts(f) \cup Readable(w, f)
    /\ \A f \in Files, p \in Pkgs :
          dep_cache'[f][p] \subseteq dep_cache[f][p] \cup {t.imports : t \in Readable(w, f)}
    /\ \A f \in Files :
          CacheTexts(f)' # {} \/ (\E p \in Pkgs : dep_cache'[f][p] # {}) =>
              \/ CacheTexts(f) # {} \/ (\E p \in Pkgs : dep_cache[f][p] # {})
              \/ f \in RootFiles(running[w].root)
LocalFacts(w) ==
    /\ \A f \in Files : LocalTexts(running'[w], f) \subseteq Readable(w, f)
    /\ \A f \in Files : LocalTexts(running'[w], f) # {} =>
          f \in RootFiles(running[w].root) \/ LocalTexts(running[w], f) # {}
ClearFacts(w) ==
    running[w].step = "clear" => \A f \in running[w].file :
        CacheTexts(f)' \subseteq {text[f]} /\ \A p \in Pkgs : dep_cache'[f][p] = {}
UnitFacts(w) ==
    running'[w].todo \cup running'[w].found \cup {y[1] : y \in running'[w].parsing}
        \subseteq PkgFilesOf(running[w].root, Pkgs)

LEMMA SameCacheFacts ==
    ASSUME Types, NEW w \in Workers, running[w] \in CompileJobs,
           UNCHANGED moduleVars, running[w].step # "clear"
    PROVE  CacheFacts(w) /\ ClearFacts(w)
  BY DEF moduleVars, CacheFacts, ClearFacts, CacheTexts

\* The parts of a job that a step leaves alone.
LEMMA SameLocalFacts ==
    ASSUME Types, NEW w \in Workers, JobsAbout, running[w] \in CompileJobs,
           running'[w].parsing \subseteq running[w].parsing
    PROVE  /\ (running'[w].code = running[w].code /\ running'[w].mods = running[w].mods)
                  => LocalFacts(w)
           /\ (running'[w].todo \subseteq running[w].todo
               /\ running'[w].found \subseteq running[w].found) => UnitFacts(w)
<1>1. ASSUME running'[w].code = running[w].code, running'[w].mods = running[w].mods
      PROVE  LocalFacts(w)
  BY <1>1 DEF LocalFacts, LocalTexts, Readable
<1>2. running[w] # Idle BY RunningJob DEF Types, CompileJobs, Busy
<1>3. JobAbout(running[w]) BY <1>2 DEF JobsAbout, Busy
<1>4. QED BY <1>1, <1>3 DEF JobAbout, UnitFacts

\* A step of a job that has started.
WorkStep(w) ==
    \/ LoadCode(w) \/ ClearChanged(w) \/ ParseMain(w) \/ FollowCached(w) \/ ReadFile(w)
    \/ WriteFile(w) \/ Collect(w) \/ ScanUnimported(w) \/ MarkChanged(w) \/ Resolve(w)
    \/ StoreScopes(w) \/ FindSymbols(w)
Ends(w) ==
    /\ running'[w] = Idle /\ running[w].step \in {"parse", "symbols"}
    /\ Collect(w) \/ FindSymbols(w)
Flow(w) ==
    /\ StepFacts(w) /\ CacheFacts(w) /\ ClearFacts(w)
    /\ Ends(w) \/ (JobFacts(w) /\ LocalFacts(w) /\ UnitFacts(w))

LEMMA AboutRunning ==
    ASSUME Types, JobsAbout, NEW w \in Workers, running[w].step \in Steps
    PROVE  /\ running[w] \in CompileJobs /\ Busy(w) /\ JobAbout(running[w])
           /\ running[w].root \in Roots /\ running[w].file \in SUBSET Files
           /\ running[w].root \in opened
<1>1. running[w] \in CompileJobs /\ Busy(w) BY RunningJob DEF Types
<1>2. QED BY <1>1 DEF JobsAbout, JobAbout, CompileJobs

LEMMA LoadCodeFlow ==
    ASSUME Types, JobsAbout, NEW w \in Workers, LoadCode(w) PROVE Flow(w)
<1> DEFINE job == running[w]
           code == [f \in Files |-> IF f \in PkgFiles[job.root][MainPkg] THEN {text[f]} ELSE {}]
<1>1. job \in CompileJobs /\ job.step = "start" BY AboutRunning, StepsAre DEF LoadCode, At
<1>2. code \in [Files -> SUBSET Sources] BY DEF Types, TextTypes
<1>3. \A f \in Files : code[f] \subseteq {text[f]} /\ (code[f] # {} => f \in PkgFiles[job.root][MainPkg])
  OBVIOUS
<1> HIDE DEF code
<1>4. [job EXCEPT !.code = code] \in CompileJobs BY <1>1, <1>2 DEF CompileJobs
<1>5. Goto(w, "clear", [job EXCEPT !.code = code]) BY DEF LoadCode, code
<1>6. /\ running'[w].code = code /\ running'[w].mods = job.mods /\ running'[w].step = "clear"
      /\ running'[w].root = job.root /\ running'[w].file = job.file
      /\ running'[w].todo = job.todo /\ running'[w].found = job.found
      /\ running'[w].parsing = job.parsing
      /\ \A v \in Workers \ {w} : running'[v] = running[v]
  BY <1>1, <1>4, <1>5, GotoFacts DEF Types, CompileJobs
<1>7. UNCHANGED <<textVars, jobs, moduleVars>> BY DEF LoadCode
<1>9. running'[w] \in CompileJobs BY <1>4, <1>5, StepsAre, GotoFacts DEF Types
<1>10. JobFacts(w) /\ StepFacts(w) BY <1>1, <1>6, <1>7, <1>9 DEF JobFacts, StepFacts, Leads, textVars
<1>11. LocalFacts(w)
  <2>1. PkgFiles[job.root][MainPkg] \subseteq RootFiles(job.root)
    BY CachesAssumption DEF RootFiles
  <2>2. QED BY <1>1, <1>3, <1>6, <2>1 DEF LocalFacts, LocalTexts, Readable
<1>12. UnitFacts(w) BY <1>1, <1>6, SameLocalFacts
<1>13. QED BY <1>1, <1>7, <1>10, <1>11, <1>12, SameCacheFacts DEF Flow

LEMMA ClearChangedFlow ==
    ASSUME Types, JobsAbout, NEW w \in Workers, ClearChanged(w) PROVE Flow(w)
<1> DEFINE job == running[w]
<1>1. job \in CompileJobs /\ job.step = "clear" BY AboutRunning, StepsAre DEF ClearChanged, At
<1>2. JobAbout(job) BY <1>1, AboutRunning, StepsAre
<1>3. Goto(w, "main", job) BY DEF ClearChanged
<1>4. /\ running'[w] \in CompileJobs /\ running'[w].step = "main"
      /\ running'[w].code = job.code /\ running'[w].mods = job.mods
      /\ running'[w].root = job.root /\ running'[w].file = job.file
      /\ running'[w].todo = job.todo /\ running'[w].found = job.found
      /\ running'[w].parsing = job.parsing
      /\ \A v \in Workers \ {w} : running'[v] = running[v]
  BY <1>1, <1>3, StepsAre, GotoFacts DEF Types
<1>5. UNCHANGED <<textVars, jobs>> BY DEF ClearChanged
<1>6. JobFacts(w) /\ StepFacts(w) BY <1>1, <1>4, <1>5 DEF JobFacts, StepFacts, Leads, textVars
<1>7. LocalFacts(w) /\ UnitFacts(w) BY <1>1, <1>4, SameLocalFacts
<1>8. ASSUME NEW f \in Files
      PROVE  /\ ast_cache'[f] = IF f \in job.file THEN {} ELSE ast_cache[f]
             /\ dep_cache'[f] = IF f \in job.file THEN [p \in Pkgs |-> {}] ELSE dep_cache[f]
             /\ source_code'[f] = IF f \in job.file THEN {text[f]} ELSE source_code[f]
  BY DEF ClearChanged, Cleared
<1>9. ClearFacts(w) BY <1>1, <1>8 DEF ClearFacts, CacheTexts, CompileJobs
<1>10. job.file \subseteq RootFiles(job.root) BY <1>2 DEF JobAbout
<1>11. CacheFacts(w) BY <1>8, <1>10 DEF CacheFacts, CacheTexts, Readable
<1>12. QED BY <1>6, <1>7, <1>9, <1>11 DEF Flow

LEMMA RootFilesMember ==
    ASSUME NEW r \in Roots
    PROVE  /\ \A p \in Pkgs : PkgFiles[r][p] \subseteq RootFiles(r)
           /\ \A S : \A x \in PkgFilesOf(r, S) : x[2] \in Pkgs => x[1] \in RootFiles(r)
<1>1. \A p \in Pkgs : PkgFiles[r][p] \subseteq RootFiles(r) BY DEF RootFiles
<1>2. QED BY <1>1, PkgFilesType

LEMMA PkgFilesOfMonotone ==
    ASSUME NEW r, NEW S, NEW T, S \subseteq T PROVE PkgFilesOf(r, S) \subseteq PkgFilesOf(r, T)
  BY DEF PkgFilesOf

LEMMA ParseMainFlow ==
    ASSUME Types, JobsAbout, NEW w \in Workers, ParseMain(w) PROVE Flow(w)
<1> DEFINE job == running[w]
           main == PkgFiles[job.root][MainPkg]
           deps == UNION {PkgFilesOf(job.root, t.imports) : t \in UNION {job.code[f] : f \in main}}
           found == (main \X {MainPkg}) \cup deps
<1>1. job \in CompileJobs /\ job.step = "main" BY AboutRunning, StepsAre DEF ParseMain, At
<1>2. JobAbout(job) BY <1>1, AboutRunning, StepsAre
<1>3. main \subseteq Files /\ job.root \in Roots /\ job.code \in [Files -> SUBSET Sources]
  BY <1>1, PkgFilesType, CachesAssumption DEF CompileJobs
<1>4. deps \subseteq PkgFilesOf(job.root, Pkgs)
  <2>1. \A f \in main : \A t \in job.code[f] : t.imports \subseteq Pkgs BY <1>3 DEF Sources, Importable
  <2>2. \A f \in main : \A t \in job.code[f] : PkgFilesOf(job.root, t.imports) \subseteq PkgFilesOf(job.root, Pkgs)
    BY <2>1, PkgFilesOfMonotone
  <2>3. QED BY <2>2
<1>5. main \X {MainPkg} \subseteq PkgFilesOf(job.root, Pkgs)
  BY PkgFilesOfMember, CachesAssumption
<1>6. PkgFilesOf(job.root, Pkgs) \in SUBSET Units BY <1>3, PkgFilesType
<1>7. Goto(w, "parse", [job EXCEPT !.found = found, !.todo = deps]) BY DEF ParseMain
<1>8. \A f \in Files :
         /\ ast_cache'[f] = IF f \in main THEN job.code[f] ELSE ast_cache[f]
         /\ dep_cache'[f] = IF f \in main
                            THEN [dep_cache[f] EXCEPT ![MainPkg] = {t.imports : t \in job.code[f]}]
                            ELSE dep_cache[f]
  BY DEF ParseMain
<1>9. found \subseteq PkgFilesOf(job.root, Pkgs) BY <1>4, <1>5
<1> HIDE DEF deps, found
<1> DEFINE next == [job EXCEPT !.found = found, !.todo = deps]
<1>10. /\ next \in CompileJobs /\ next.code = job.code /\ next.mods = job.mods
       /\ next.root = job.root /\ next.file = job.file /\ next.parsing = job.parsing
       /\ next.found = found /\ next.todo = deps
  BY <1>1, <1>4, <1>6, <1>9 DEF CompileJobs
<1> HIDE DEF next
<1>11. /\ running'[w] \in CompileJobs /\ running'[w].step = "parse"
       /\ running'[w].code = job.code /\ running'[w].mods = job.mods
       /\ running'[w].root = job.root /\ running'[w].file = job.file
       /\ running'[w].todo = deps /\ running'[w].found = found
       /\ running'[w].parsing = job.parsing
       /\ \A v \in Workers \ {w} : running'[v] = running[v]
  <2>1. Goto(w, "parse", next) BY <1>7 DEF next
  <2>2. QED BY <1>10, <2>1, StepsAre, GotoFacts DEF Types
<1>12. UNCHANGED <<textVars, jobs, source_code>> BY DEF ParseMain
<1>13. JobFacts(w) /\ StepFacts(w) BY <1>1, <1>11, <1>12 DEF JobFacts, StepFacts, Leads, textVars
<1>14. LocalFacts(w) BY <1>1, <1>11, SameLocalFacts
<1>15. UnitFacts(w) BY <1>2, <1>4, <1>9, <1>11 DEF UnitFacts, JobAbout
<1>16. ClearFacts(w) BY <1>1 DEF ClearFacts
<1>17. main \subseteq RootFiles(job.root) BY <1>3, RootFilesMember, CachesAssumption
<1>18. \A f \in Files : CacheTexts(f)' \subseteq CacheTexts(f) \cup Readable(w, f)
  BY <1>8, <1>12 DEF CacheTexts, Readable, LocalTexts
<1>19. ASSUME NEW f \in Files, NEW p \in Pkgs
       PROVE  dep_cache'[f][p] \subseteq dep_cache[f][p] \cup {t.imports : t \in Readable(w, f)}
  <2>1. job.code[f] \subseteq Readable(w, f) BY DEF Readable, LocalTexts
  <2>2. dep_cache'[f][p] \in {dep_cache[f][p], {t.imports : t \in job.code[f]}}
    BY <1>8 DEF Types, ModuleTypes
  <2>3. QED BY <2>1, <2>2
<1>20. CacheFacts(w) BY <1>8, <1>12, <1>17, <1>18, <1>19 DEF CacheFacts, CacheTexts
<1>21. QED BY <1>13, <1>14, <1>15, <1>16, <1>20 DEF Flow

LEMMA DiscoverFacts ==
    ASSUME NEW job \in CompileJobs, NEW x \in Units, NEW imports \in SUBSET Importable
    PROVE  LET next == Discover(job, x, imports)
               deps == PkgFilesOf(job.root, imports) IN
           /\ next \in CompileJobs /\ next.code = job.code /\ next.mods = job.mods
           /\ next.root = job.root /\ next.file = job.file /\ next.parsing = {}
           /\ next.found = job.found \cup deps
           /\ next.todo = (job.todo \ {x}) \cup (deps \ job.found)
           /\ next.unimported = job.unimported /\ next.scopes = job.scopes
  BY DiscoverType DEF Discover, CompileJobs

\* The part of a flow that the two ways to follow a file have in common.
LEMMA DiscoverFlow ==
    ASSUME Types, JobsAbout, NEW w \in Workers, NEW x \in Units,
           NEW imports \in SUBSET Importable, running[w].step \in Parsing,
           Goto(w, "parse", Discover(running[w], x, imports))
    PROVE  /\ JobFacts(w) /\ LocalFacts(w) /\ UnitFacts(w)
           /\ \A v \in Workers \ {w} : running'[v] = running[v]
<1> DEFINE job == running[w]
           next == Discover(job, x, imports)
           deps == PkgFilesOf(job.root, imports)
<1>1. job.step \in Steps BY DEF Steps
<1>2. job \in CompileJobs /\ JobAbout(job) BY <1>1, AboutRunning
<1>4. /\ next \in CompileJobs /\ next.code = job.code /\ next.mods = job.mods
      /\ next.root = job.root /\ next.file = job.file /\ next.parsing = {}
      /\ next.found = job.found \cup deps
      /\ next.todo = (job.todo \ {x}) \cup (deps \ job.found)
  BY <1>2, DiscoverFacts
<1> HIDE DEF next
<1>5. /\ running'[w] \in CompileJobs /\ running'[w].step = "parse"
      /\ running'[w].code = job.code /\ running'[w].mods = job.mods
      /\ running'[w].root = job.root /\ running'[w].file = job.file
      /\ running'[w].todo = (job.todo \ {x}) \cup (deps \ job.found)
      /\ running'[w].found = job.found \cup deps
      /\ running'[w].parsing = {}
      /\ \A v \in Workers \ {w} : running'[v] = running[v]
  <2>1. Goto(w, "parse", next) BY DEF next
  <2>2. QED BY <1>4, <2>1, StepsAre, GotoFacts DEF Types
<1>6. deps \subseteq PkgFilesOf(job.root, Pkgs) BY PkgFilesOfMonotone DEF Importable
<1>7. JobFacts(w) BY <1>5 DEF JobFacts, Leads, Parsing
<1>8. LocalFacts(w) BY <1>2, <1>5, SameLocalFacts
<1>9. UnitFacts(w) BY <1>2, <1>5, <1>6 DEF UnitFacts, JobAbout
<1>10. QED BY <1>5, <1>7, <1>8, <1>9

LEMMA CachedImportsType ==
    ASSUME Types, NEW x \in Units PROVE CachedImports(x) \in SUBSET Importable
  BY DEF Types, CachedImports, ModuleTypes, Units, Sources

LEMMA FollowCachedFlow ==
    ASSUME Types, JobsAbout, NEW w \in Workers, FollowCached(w) PROVE Flow(w)
<1>1. running[w] \in CompileJobs /\ running[w].step = "parse"
  BY AboutRunning, StepsAre DEF FollowCached, At
<1>2. PICK x \in running[w].todo : Goto(w, "parse", Discover(running[w], x, CachedImports(x)))
  BY DEF FollowCached
<1>3. CachedImports(x) \in SUBSET Importable BY <1>1, CachedImportsType DEF CompileJobs
<1>4. /\ JobFacts(w) /\ LocalFacts(w) /\ UnitFacts(w)
      /\ \A v \in Workers \ {w} : running'[v] = running[v]
  BY <1>1, <1>2, <1>3, DiscoverFlow DEF Parsing, CompileJobs
<1>5. UNCHANGED <<textVars, jobs, moduleVars>> BY DEF FollowCached
<1>6. StepFacts(w) BY <1>1, <1>4, <1>5 DEF StepFacts, textVars
<1>7. QED BY <1>1, <1>4, <1>5, <1>6, SameCacheFacts DEF Flow

LEMMA SourceReadable ==
    ASSUME Types, NEW w \in Workers, running[w].step \notin Early, NEW f \in Files
    PROVE  Source(f) \subseteq Readable(w, f)
  BY DEF Source, Readable, CacheTexts

LEMMA ReadFileFlow ==
    ASSUME Types, JobsAbout, NEW w \in Workers, ReadFile(w) PROVE Flow(w)
<1> DEFINE job == running[w]
<1>1. job \in CompileJobs /\ job.step = "parse" BY AboutRunning, StepsAre DEF ReadFile, At
<1>2. JobAbout(job) BY <1>1, AboutRunning, StepsAre
<1>3. PICK x \in job.todo :
          Goto(w, "write", [job EXCEPT !.parsing = {<<x, t>> : t \in Source(x[1])}])
  BY DEF ReadFile
<1> DEFINE parsing == {<<x, t>> : t \in Source(x[1])}
           next == [job EXCEPT !.parsing = parsing]
<1>4. x \in Units /\ x[1] \in Files BY <1>1 DEF CompileJobs, Units
<1>5. parsing \in SUBSET (Units \X Sources) BY <1>4, SourceType DEF Types
<1>6. \A y \in parsing : y[1] = x /\ y[2] \in Source(x[1]) OBVIOUS
<1> HIDE DEF parsing
<1>7. /\ next \in CompileJobs /\ next.code = job.code /\ next.mods = job.mods
      /\ next.root = job.root /\ next.file = job.file /\ next.parsing = parsing
      /\ next.found = job.found /\ next.todo = job.todo
  BY <1>1, <1>5 DEF CompileJobs
<1> HIDE DEF next
<1>8. /\ running'[w] \in CompileJobs /\ running'[w].step = "write"
      /\ running'[w].code = job.code /\ running'[w].mods = job.mods
      /\ running'[w].root = job.root /\ running'[w].file = job.file
      /\ running'[w].todo = job.todo /\ running'[w].found = job.found
      /\ running'[w].parsing = parsing
      /\ \A v \in Workers \ {w} : running'[v] = running[v]
  <2>1. Goto(w, "write", next) BY <1>3 DEF next, parsing
  <2>2. QED BY <1>7, <2>1, StepsAre, GotoFacts DEF Types
<1>9. UNCHANGED <<textVars, jobs, moduleVars>> BY DEF ReadFile
<1>10. JobFacts(w) /\ StepFacts(w) BY <1>1, <1>8, <1>9 DEF JobFacts, StepFacts, Leads, textVars
<1>11. Source(x[1]) \subseteq Readable(w, x[1]) BY <1>1, <1>4, SourceReadable DEF Early
<1>12. LocalFacts(w)
  <2>1. x[1] \in RootFiles(job.root)
    <3>1. x \in PkgFilesOf(job.root, Pkgs) /\ job.root \in Roots
      BY <1>1, <1>2 DEF JobAbout, CompileJobs
    <3>2. QED BY <1>4, <3>1, RootFilesMember DEF Units
  <2>2. QED BY <1>1, <1>6, <1>8, <1>11, <2>1 DEF LocalFacts, LocalTexts, Readable
<1>13. UnitFacts(w) BY <1>2, <1>6, <1>8 DEF UnitFacts, JobAbout
<1>14. QED BY <1>1, <1>9, <1>10, <1>12, <1>13, SameCacheFacts DEF Flow

LEMMA WriteFileFlow ==
    ASSUME Types, JobsAbout, NEW w \in Workers, WriteFile(w) PROVE Flow(w)
<1> DEFINE job == running[w]
<1>1. job \in CompileJobs /\ job.step = "write" BY AboutRunning, StepsAre DEF WriteFile, At
<1>2. JobAbout(job) BY <1>1, AboutRunning, StepsAre
<1>3. PICK y \in job.parsing :
          /\ ast_cache' = [ast_cache EXCEPT ![y[1][1]] = {y[2]}]
          /\ dep_cache' = [dep_cache EXCEPT ![y[1][1]][y[1][2]] = {y[2].imports}]
          /\ Goto(w, "parse", Discover(job, y[1], y[2].imports))
  BY DEF WriteFile
<1>4. y[1] \in Units /\ y[1][1] \in Files /\ y[1][2] \in Pkgs /\ y[2] \in Sources
  BY <1>1 DEF CompileJobs, Units
<1>5. y[2].imports \in SUBSET Importable BY <1>4 DEF Sources
<1>6. /\ JobFacts(w) /\ LocalFacts(w) /\ UnitFacts(w)
      /\ \A v \in Workers \ {w} : running'[v] = running[v]
  BY <1>1, <1>3, <1>4, <1>5, DiscoverFlow DEF Parsing
<1>7. UNCHANGED <<textVars, jobs, source_code>> BY DEF WriteFile
<1>8. StepFacts(w) BY <1>1, <1>6, <1>7 DEF StepFacts, textVars
<1>9. y[2] \in Readable(w, y[1][1]) BY <1>1, <1>4, LocalTextsMember DEF Readable
<1>10. job.root \in Roots BY <1>1 DEF CompileJobs
<1>11. y[1][1] \in RootFiles(job.root)
  <2>1. y[1] \in PkgFilesOf(job.root, Pkgs) BY <1>2 DEF JobAbout
  <2>2. QED BY <1>4, <1>10, <2>1, RootFilesMember
<1>12. \A f \in Files : ast_cache'[f] = IF f = y[1][1] THEN {y[2]} ELSE ast_cache[f]
  BY <1>3 DEF Types, ModuleTypes
<1>13. \A f \in Files, p \in Pkgs :
          dep_cache'[f][p] = IF f = y[1][1] /\ p = y[1][2] THEN {y[2].imports} ELSE dep_cache[f][p]
  BY <1>3, <1>4 DEF Types, ModuleTypes
<1>14. CacheFacts(w) BY <1>7, <1>9, <1>11, <1>12, <1>13 DEF CacheFacts, CacheTexts
<1>15. ClearFacts(w) BY <1>1 DEF ClearFacts
<1>16. QED BY <1>6, <1>8, <1>14, <1>15 DEF Flow

LEMMA CollectFlow ==
    ASSUME Types, JobsAbout, NEW w \in Workers, Collect(w) PROVE Flow(w)
<1> DEFINE job == running[w]
           found == {x[1] : x \in job.found}
           mods == [f \in Files |-> IF f \in found THEN ast_cache[f] ELSE {}]
           next == [job EXCEPT !.mods = mods]
<1>1. job \in CompileJobs /\ job.step = "parse" BY AboutRunning, StepsAre DEF Collect, At
<1>2. mods \in [Files -> SUBSET Sources] BY DEF Types, ModuleTypes
<1>3. \A f \in Files : mods[f] \subseteq ast_cache[f] /\ (mods[f] # {} => f \in found) OBVIOUS
<1>11. found \subseteq RootFiles(job.root)
  <2>1. JobAbout(job) /\ job.root \in Roots BY <1>1, AboutRunning, StepsAre
  <2>2. job.found \subseteq PkgFilesOf(job.root, Pkgs) BY <2>1 DEF JobAbout
  <2>3. \A x \in job.found : x[1] \in RootFiles(job.root)
    BY <1>1, <2>1, <2>2, RootFilesMember DEF CompileJobs, Units
  <2>4. QED BY <2>3
<1>4. running' = [running EXCEPT ![w] = Idle] \/ Goto(w, "scan", next) BY DEF Collect
<1> HIDE DEF mods, found
<1>5. /\ next \in CompileJobs /\ next.code = job.code /\ next.mods = mods
      /\ next.root = job.root /\ next.file = job.file /\ next.parsing = job.parsing
      /\ next.found = job.found /\ next.todo = job.todo
  BY <1>1, <1>2 DEF CompileJobs
<1> HIDE DEF next
<1>6. UNCHANGED <<textVars, jobs, moduleVars>> BY DEF Collect
<1>7. CacheFacts(w) /\ ClearFacts(w) BY <1>1, <1>6, SameCacheFacts
<1>8. CASE running' = [running EXCEPT ![w] = Idle]
  <2>1. StepFacts(w) BY <1>1, <1>6, <1>8 DEF StepFacts, textVars, Types, PoolTypes
  <2>2. Ends(w) BY <1>1, <1>8 DEF Ends, Types, PoolTypes
  <2>3. QED BY <1>7, <2>1, <2>2 DEF Flow
<1>9. CASE Goto(w, "scan", next)
  <2>1. /\ running'[w] \in CompileJobs /\ running'[w].step = "scan"
        /\ running'[w].code = job.code /\ running'[w].mods = mods
        /\ running'[w].root = job.root /\ running'[w].file = job.file
        /\ running'[w].todo = job.todo /\ running'[w].found = job.found
        /\ running'[w].parsing = job.parsing
        /\ \A v \in Workers \ {w} : running'[v] = running[v]
    BY <1>5, <1>9, StepsAre, GotoFacts DEF Types
  <2>2. JobFacts(w) /\ StepFacts(w) BY <1>1, <1>6, <2>1 DEF JobFacts, StepFacts, Leads, textVars
  <2>3. LocalFacts(w)
    BY <1>1, <1>3, <1>11, <2>1 DEF LocalFacts, LocalTexts, Readable, CacheTexts, Early
  <2>4. UnitFacts(w) BY <1>1, <2>1, SameLocalFacts
  <2>5. QED BY <1>7, <2>2, <2>3, <2>4 DEF Flow
<1>10. QED BY <1>4, <1>8, <1>9

LEMMA ScanUnimportedFlow ==
    ASSUME Types, JobsAbout, NEW w \in Workers, ScanUnimported(w) PROVE Flow(w)
<1> DEFINE job == running[w]
           r == job.root
           rest == IF last_compile_input = {r} THEN {} ELSE {f \in RootFiles(r) : ast_cache[f] = {}}
           parsed == [f \in Files |-> IF f \in rest THEN Source(f) ELSE ast_cache[f]]
           deps == UNION {PkgFilesOf(r, t.imports) : t \in UNION {parsed[f] : f \in rest}}
           new == {x \in PkgFilesOf(r, Pkgs) \ job.found : x[1] \in rest \/ x \in deps}
           mods == [f \in Files |-> IF \E x \in new : x[1] = f THEN parsed[f] ELSE job.mods[f]]
           unimported == {x[2] : x \in new}
           next == [job EXCEPT !.mods = mods, !.unimported = unimported]
<1>1. job \in CompileJobs /\ job.step = "scan" BY AboutRunning, StepsAre DEF ScanUnimported, At
<1>2. r \in Roots /\ job.mods \in [Files -> SUBSET Sources] BY <1>1 DEF CompileJobs
<1>3. parsed \in [Files -> SUBSET Sources] BY SourceType DEF Types, ModuleTypes
<1>4. unimported \in SUBSET Pkgs BY <1>2, PkgFilesType DEF Units
<1>5. /\ ast_cache' = parsed
      /\ last_compile_input' = {r}
      /\ dep_cache' = [f \in Files |-> [p \in Pkgs |->
            IF f \in rest \cap PkgFiles[r][p]
            THEN {t.imports : t \in Source(f)} ELSE dep_cache[f][p]]]
      /\ Goto(w, "mark", next)
  BY <1>1 DEF ScanUnimported, CompileJobs
<1>6. \A f \in Files : parsed[f] \subseteq ast_cache[f] \cup Readable(w, f)
  BY <1>1, SourceReadable DEF Early
<1>7. \A f \in Files : parsed[f] # {} => ast_cache[f] # {} \/ f \in RootFiles(r) OBVIOUS
<1>8. rest \subseteq RootFiles(r) OBVIOUS
<1>23. \A x \in new : x[1] \in RootFiles(r) BY <1>2, RootFilesMember, PkgFilesType
<1> HIDE DEF parsed, new, rest
<1>9. mods \in [Files -> SUBSET Sources] BY <1>2, <1>3
<1>10. \A f \in Files :
          /\ mods[f] \subseteq parsed[f] \cup job.mods[f]
          /\ mods[f] # {} => job.mods[f] # {} \/ f \in RootFiles(r)
  BY <1>23
<1> HIDE DEF mods, unimported
<1>11. /\ next \in CompileJobs /\ next.code = job.code /\ next.mods = mods
       /\ next.root = job.root /\ next.file = job.file /\ next.parsing = job.parsing
       /\ next.found = job.found /\ next.todo = job.todo
  BY <1>1, <1>4, <1>9 DEF CompileJobs
<1> HIDE DEF next
<1>12. /\ running'[w] \in CompileJobs /\ running'[w].step = "mark"
       /\ running'[w].code = job.code /\ running'[w].mods = mods
       /\ running'[w].root = job.root /\ running'[w].file = job.file
       /\ running'[w].todo = job.todo /\ running'[w].found = job.found
       /\ running'[w].parsing = job.parsing
       /\ \A v \in Workers \ {w} : running'[v] = running[v]
  BY <1>5, <1>11, StepsAre, GotoFacts DEF Types
<1>13. UNCHANGED <<textVars, jobs, source_code>> BY DEF ScanUnimported
<1>14. JobFacts(w) /\ StepFacts(w) BY <1>1, <1>12, <1>13 DEF JobFacts, StepFacts, Leads, textVars
<1>15. \A f \in Files : ast_cache[f] \subseteq Readable(w, f)
  BY <1>1 DEF Readable, CacheTexts, Early
<1>16. LocalFacts(w)
  <2>1. \A f \in Files : LocalTexts(running'[w], f) \subseteq LocalTexts(job, f) \cup mods[f]
    BY <1>12 DEF LocalTexts
  <2>2. \A f \in Files : job.mods[f] \subseteq LocalTexts(job, f) BY DEF LocalTexts
  <2>3. \A f \in Files : LocalTexts(job, f) \subseteq Readable(w, f) BY DEF Readable
  <2>4. \A f \in Files : mods[f] \subseteq Readable(w, f) BY <1>6, <1>10, <1>15, <2>2, <2>3
  <2>5. \A f \in Files : mods[f] # {} => f \in RootFiles(r) \/ LocalTexts(job, f) # {}
    BY <1>10, <2>2
  <2>6. QED BY <2>1, <2>3, <2>4, <2>5 DEF LocalFacts
<1>17. UnitFacts(w) BY <1>1, <1>12, SameLocalFacts
<1>18. ASSUME NEW f \in Files, NEW p \in Pkgs
       PROVE  dep_cache'[f][p] \subseteq dep_cache[f][p] \cup {t.imports : t \in Readable(w, f)}
  <2>1. Source(f) \subseteq Readable(w, f) BY <1>1, SourceReadable DEF Early
  <2>2. dep_cache'[f][p] \in {dep_cache[f][p], {t.imports : t \in Source(f)}} BY <1>5
  <2>3. QED BY <2>1, <2>2
<1>19. \A f \in Files, p \in Pkgs : dep_cache'[f][p] # {} => dep_cache[f][p] # {} \/ f \in RootFiles(r)
  BY <1>5, <1>8
<1>20. CacheFacts(w) BY <1>5, <1>6, <1>7, <1>13, <1>18, <1>19 DEF CacheFacts, CacheTexts
<1>21. ClearFacts(w) BY <1>1 DEF ClearFacts
<1>22. QED BY <1>14, <1>16, <1>17, <1>20, <1>21 DEF Flow

LEMMA MarkChangedFlow ==
    ASSUME Types, JobsAbout, NEW w \in Workers, MarkChanged(w) PROVE Flow(w)
<1> DEFINE job == running[w]
<1>1. job \in CompileJobs /\ job.step = "mark" BY AboutRunning, StepsAre DEF MarkChanged, At
<1>2. Goto(w, "resolve1", job) BY DEF MarkChanged
<1>3. /\ running'[w] \in CompileJobs /\ running'[w].step = "resolve1"
      /\ running'[w].code = job.code /\ running'[w].mods = job.mods
      /\ running'[w].root = job.root /\ running'[w].file = job.file
      /\ running'[w].todo = job.todo /\ running'[w].found = job.found
      /\ running'[w].parsing = job.parsing
      /\ \A v \in Workers \ {w} : running'[v] = running[v]
  BY <1>1, <1>2, StepsAre, GotoFacts DEF Types
<1>4. UNCHANGED <<textVars, jobs, moduleVars>> BY DEF MarkChanged
<1>5. JobFacts(w) /\ StepFacts(w) BY <1>1, <1>3, <1>4 DEF JobFacts, StepFacts, Leads, textVars
<1>6. QED BY <1>1, <1>3, <1>4, <1>5, SameLocalFacts, SameCacheFacts DEF Flow

LEMMA ResolveFlow ==
    ASSUME Types, JobsAbout, NEW w \in Workers, Resolve(w) PROVE Flow(w)
<1> DEFINE job == running[w]
           c == Updated(job)
<1>1. job \in CompileJobs /\ job.step = "resolve1" BY AboutRunning, StepsAre DEF Resolve, At
<1>2. c.scopes \in Scopes BY <1>1, UpdatedType DEF Types
<1>3. NoScopes \in Scopes BY DEF NoScopes, Scopes
<1>4. PICK locked \in TryWrite(w) :
          Goto(w, "resolve2", [job EXCEPT !.scopes = Resolved(job, IF locked THEN c.scopes ELSE NoScopes)])
  BY DEF Resolve
<1> DEFINE scopes == Resolved(job, IF locked THEN c.scopes ELSE NoScopes)
           next == [job EXCEPT !.scopes = scopes]
<1>5. scopes \in Scopes BY <1>1, <1>2, <1>3, ResolvedType
<1> HIDE DEF scopes
<1>6. /\ next \in CompileJobs /\ next.code = job.code /\ next.mods = job.mods
      /\ next.root = job.root /\ next.file = job.file /\ next.parsing = job.parsing
      /\ next.found = job.found /\ next.todo = job.todo
  BY <1>1, <1>5 DEF CompileJobs
<1> HIDE DEF next
<1>7. /\ running'[w] \in CompileJobs /\ running'[w].step = "resolve2"
      /\ running'[w].code = job.code /\ running'[w].mods = job.mods
      /\ running'[w].root = job.root /\ running'[w].file = job.file
      /\ running'[w].todo = job.todo /\ running'[w].found = job.found
      /\ running'[w].parsing = job.parsing
      /\ \A v \in Workers \ {w} : running'[v] = running[v]
  <2>1. Goto(w, "resolve2", next) BY <1>4 DEF next, scopes
  <2>2. QED BY <1>6, <2>1, StepsAre, GotoFacts DEF Types
<1>8. UNCHANGED <<textVars, jobs, moduleVars>> BY DEF Resolve
<1>9. JobFacts(w) /\ StepFacts(w) BY <1>1, <1>7, <1>8 DEF JobFacts, StepFacts, Leads, textVars
<1>10. QED BY <1>1, <1>7, <1>8, <1>9, SameLocalFacts, SameCacheFacts DEF Flow

LEMMA StoreScopesFlow ==
    ASSUME Types, JobsAbout, NEW w \in Workers, StoreScopes(w) PROVE Flow(w)
<1> DEFINE job == running[w]
<1>1. job \in CompileJobs /\ job.step = "resolve2" BY AboutRunning, StepsAre DEF StoreScopes, At
<1>2. Goto(w, "symbols", job) BY DEF StoreScopes
<1>3. /\ running'[w] \in CompileJobs /\ running'[w].step = "symbols"
      /\ running'[w].code = job.code /\ running'[w].mods = job.mods
      /\ running'[w].root = job.root /\ running'[w].file = job.file
      /\ running'[w].todo = job.todo /\ running'[w].found = job.found
      /\ running'[w].parsing = job.parsing
      /\ \A v \in Workers \ {w} : running'[v] = running[v]
  BY <1>1, <1>2, StepsAre, GotoFacts DEF Types
<1>4. UNCHANGED <<textVars, jobs, moduleVars>> BY DEF StoreScopes
<1>5. JobFacts(w) /\ StepFacts(w) BY <1>1, <1>3, <1>4 DEF JobFacts, StepFacts, Leads, textVars
<1>6. QED BY <1>1, <1>3, <1>4, <1>5, SameLocalFacts, SameCacheFacts DEF Flow

LEMMA FindSymbolsFlow ==
    ASSUME Types, JobsAbout, NEW w \in Workers, FindSymbols(w) PROVE Flow(w)
<1>1. running[w] \in CompileJobs /\ running[w].step = "symbols"
  BY AboutRunning, StepsAre DEF FindSymbols, At
<1>2. running' = [running EXCEPT ![w] = Idle] /\ UNCHANGED <<textVars, jobs, moduleVars>>
  BY DEF FindSymbols
<1>3. StepFacts(w) BY <1>1, <1>2 DEF StepFacts, textVars, Types, PoolTypes
<1>4. Ends(w) BY <1>1, <1>2 DEF Ends, Types, PoolTypes
<1>5. QED BY <1>1, <1>2, <1>3, <1>4, SameCacheFacts DEF Flow

LEMMA WorkFlow ==
    ASSUME Types, JobsAbout, NEW w \in Workers, WorkStep(w) PROVE Flow(w)
  BY LoadCodeFlow, ClearChangedFlow, ParseMainFlow, FollowCachedFlow, ReadFileFlow, WriteFileFlow,
     CollectFlow, ScanUnimportedFlow, MarkChangedFlow, ResolveFlow, StoreScopesFlow, FindSymbolsFlow
     DEF WorkStep

\* What a step that is not a job's does: a root is opened, a file is edited, or
\* a job is taken from the queue.
LEMMA NextCases ==
    ASSUME [CachesNext]_cacheVars
    PROVE  \/ \E r \in Roots : OpenRoot(r)
           \/ \E f \in Files : Edit(f)
           \/ \E w \in Workers : StartJob(w)
           \/ \E w \in Workers : WorkStep(w)
           \/ UNCHANGED cacheVars
  BY DEF CachesNext, CompileStep, WorkStep

-----------------------------------------------------------------------------
(* The queue and what jobs are about. *)

\* What the actions that touch the queue make of it.
LEMMA OpenRootQueue ==
    ASSUME Types, NEW r \in Roots, OpenRoot(r)
    PROVE  \E file \in SUBSET Files :
              /\ file = {} \/ \E f \in PkgFiles[r][MainPkg] : file = {f}
              /\ jobs' = Append(jobs, Job(r, file))
              /\ jobs' \in Seq(CompileJobs)
              /\ DOMAIN jobs' = 1..(Len(jobs) + 1) /\ Len(jobs) \in Nat /\ DOMAIN jobs = 1..Len(jobs)
              /\ \A i \in DOMAIN jobs : jobs'[i] = jobs[i]
              /\ jobs'[Len(jobs) + 1] = Job(r, file)
<1>1. PICK file \in {{}} \cup {{f} : f \in PkgFiles[r][MainPkg]} : jobs' = Append(jobs, Job(r, file))
  BY DEF OpenRoot
<1>2. PkgFiles[r][MainPkg] \in SUBSET Files BY PkgFilesType, CachesAssumption
<1>3. file \in SUBSET Files /\ (file = {} \/ \E f \in PkgFiles[r][MainPkg] : file = {f})
  BY <1>2
<1>4. Job(r, file) \in CompileJobs BY <1>3, JobType
<1>5. jobs \in Seq(CompileJobs) BY DEF Types, PoolTypes
<1>6. /\ jobs' \in Seq(CompileJobs)
      /\ DOMAIN jobs' = 1..(Len(jobs) + 1) /\ Len(jobs) \in Nat /\ DOMAIN jobs = 1..Len(jobs)
      /\ \A i \in DOMAIN jobs : jobs'[i] = jobs[i]
      /\ jobs'[Len(jobs) + 1] = Job(r, file)
  BY <1>1, <1>4, <1>5
<1>7. QED BY <1>1, <1>3, <1>6

LEMMA EditQueue ==
    ASSUME Types, NEW f \in Files, Edit(f)
    PROVE  /\ jobs' \in Seq(CompileJobs)
           /\ DOMAIN jobs \subseteq DOMAIN jobs'
           /\ Len(jobs) \in Nat /\ DOMAIN jobs = 1..Len(jobs) /\ DOMAIN jobs' \subseteq Nat
           /\ \A i \in DOMAIN jobs : jobs'[i] = jobs[i]
           /\ \A i \in DOMAIN jobs' \ DOMAIN jobs :
                 /\ jobs'[i].root \in opened /\ f \in RootFiles(jobs'[i].root)
                 /\ jobs'[i] = Job(jobs'[i].root, {f}) /\ jobs'[i].file = {f}
           /\ \A r \in opened : f \in RootFiles(r) =>
                 \E i \in DOMAIN jobs' : jobs'[i].root = r /\ jobs'[i].file = {f}
<1> DEFINE S == {r \in opened : f \in RootFiles(r)}
<1>1. PICK s \in JobsFor(S, {f}) : jobs' = jobs \o s BY DEF Edit
<1>2. S \in SUBSET Roots /\ {f} \in SUBSET Files BY DEF Types, TextTypes
<1>3. /\ s \in Seq(CompileJobs)
      /\ \A i \in DOMAIN s : s[i].root \in S /\ s[i] = Job(s[i].root, {f}) /\ s[i].file = {f}
      /\ \A r \in S : \E i \in DOMAIN s : s[i] = Job(r, {f})
  <2> DEFINE Q(q, T, file) ==
          /\ q \in Seq(CompileJobs)
          /\ \A i \in DOMAIN q : q[i].root \in T /\ q[i] = Job(q[i].root, file) /\ q[i].file = file
          /\ \A r \in T : \E i \in DOMAIN q : q[i] = Job(r, file)
  <2>1. \A T \in SUBSET Roots, file \in SUBSET Files : \A q \in JobsFor(T, file) : Q(q, T, file)
    BY JobsForFacts
  <2> HIDE DEF S, Q
  <2>2. Q(s, S, {f}) BY <1>1, <1>2, <2>1
  <2>3. QED BY <2>2 DEF Q
<1>4. jobs \in Seq(CompileJobs) BY DEF Types, PoolTypes
<1>5. /\ jobs' \in Seq(CompileJobs) /\ Len(jobs) \in Nat /\ Len(s) \in Nat
      /\ DOMAIN jobs = 1..Len(jobs) /\ DOMAIN jobs' = 1..(Len(jobs) + Len(s))
      /\ DOMAIN s = 1..Len(s)
      /\ \A i \in DOMAIN jobs : jobs'[i] = jobs[i]
      /\ \A i \in DOMAIN s : jobs'[Len(jobs) + i] = s[i]
  BY <1>1, <1>3, <1>4
<1>6. ASSUME NEW i \in DOMAIN jobs' \ DOMAIN jobs
      PROVE  i - Len(jobs) \in DOMAIN s /\ jobs'[i] = s[i - Len(jobs)]
  BY <1>5, <1>6
<1>7. ASSUME NEW r \in opened, f \in RootFiles(r)
      PROVE  \E i \in DOMAIN jobs' : jobs'[i].root = r /\ jobs'[i].file = {f}
  <2>1. PICK i \in DOMAIN s : s[i] = Job(r, {f}) BY <1>3, <1>7
  <2>2. Len(jobs) + i \in DOMAIN jobs' /\ jobs'[Len(jobs) + i] = s[i] BY <1>5, <2>1
  <2>3. QED BY <2>1, <2>2 DEF Job
<1>8. ASSUME NEW i \in DOMAIN jobs' \ DOMAIN jobs
      PROVE  /\ jobs'[i].root \in opened /\ f \in RootFiles(jobs'[i].root)
             /\ jobs'[i] = Job(jobs'[i].root, {f}) /\ jobs'[i].file = {f}
  BY <1>3, <1>6
<1>9. DOMAIN jobs \subseteq DOMAIN jobs' /\ DOMAIN jobs' \subseteq Nat BY <1>5
<1>10. QED BY <1>5, <1>7, <1>8, <1>9

LEMMA StartJobQueue ==
    ASSUME Types, NEW w \in Workers, StartJob(w)
    PROVE  /\ running[w] = Idle /\ jobs # <<>>
           /\ Len(jobs) \in Nat \ {0} /\ DOMAIN jobs = 1..Len(jobs) /\ 1 \in DOMAIN jobs
           /\ running'[w] = jobs[1] /\ Head(jobs) = jobs[1]
           /\ \A v \in Workers \ {w} : running'[v] = running[v]
           /\ jobs' \in Seq(CompileJobs) /\ Len(jobs') = Len(jobs) - 1
           /\ DOMAIN jobs' = 1..(Len(jobs) - 1)
           /\ \A i \in DOMAIN jobs' : i + 1 \in DOMAIN jobs /\ jobs'[i] = jobs[i + 1]
           /\ \A i \in DOMAIN jobs \ {1} : i - 1 \in DOMAIN jobs' /\ jobs'[i - 1] = jobs[i]
<1>1. jobs \in Seq(CompileJobs) /\ running \in [Workers -> CompileJobs \cup {Idle}]
  BY DEF Types, PoolTypes
<1>2. /\ running[w] = Idle /\ jobs # <<>> /\ jobs' = Tail(jobs)
      /\ running' = [running EXCEPT ![w] = Head(jobs)]
  BY DEF StartJob
<1>3. Len(jobs) \in Nat \ {0} /\ DOMAIN jobs = 1..Len(jobs) /\ Head(jobs) = jobs[1]
  BY <1>1, <1>2
<1>4. jobs' \in Seq(CompileJobs) /\ Len(jobs') = Len(jobs) - 1 /\ DOMAIN jobs' = 1..(Len(jobs) - 1)
  BY <1>1, <1>2, <1>3
<1>5. \A i \in 1..(Len(jobs) - 1) : jobs'[i] = jobs[i + 1] BY <1>1, <1>2, <1>3
<1>6. QED BY <1>1, <1>2, <1>3, <1>4, <1>5

\* The roots that the caches name are those of jobs.
LEMMA WorkRoots ==
    ASSUME Types, NEW w \in Workers, WorkStep(w)
    PROVE  /\ program_root' \in {program_root, {running[w].root}}
           /\ last_compile_input' \in {last_compile_input, {running[w].root}}
  BY DEF WorkStep, LoadCode, ClearChanged, ParseMain, FollowCached, ReadFile, WriteFile, Collect,
         ScanUnimported, MarkChanged, Resolve, StoreScopes, FindSymbols, CacheBecomes,
         moduleVars, scopeVars

LEMMA JobAboutNew ==
    ASSUME NEW r \in opened, NEW file, file = {} \/ \E f \in RootFiles(r) : file = {f}
    PROVE  JobAbout(Job(r, file)) /\ Job(r, file) = Job(Job(r, file).root, Job(r, file).file)
  BY DEF JobAbout, Job

LEMMA JobsAboutStep ==
    ASSUME Types, JobsAbout, [CachesNext]_cacheVars
    PROVE  JobsAbout'
<1>0. /\ \A i \in DOMAIN jobs : JobAbout(jobs[i]) /\ jobs[i] = Job(jobs[i].root, jobs[i].file)
      /\ \A w \in Workers : Busy(w) => JobAbout(running[w])
      /\ last_compile_input \cup program_root \subseteq opened
      /\ \A r, s \in program_root : r = s
  BY DEF JobsAbout
<1>1. ASSUME NEW r \in Roots, OpenRoot(r) PROVE JobsAbout'
  <2>1. PICK file \in SUBSET Files :
            /\ file = {} \/ \E f \in PkgFiles[r][MainPkg] : file = {f}
            /\ DOMAIN jobs' = 1..(Len(jobs) + 1) /\ Len(jobs) \in Nat /\ DOMAIN jobs = 1..Len(jobs)
            /\ \A i \in DOMAIN jobs : jobs'[i] = jobs[i]
            /\ jobs'[Len(jobs) + 1] = Job(r, file)
    BY <1>1, OpenRootQueue
  <2>2. file = {} \/ \E f \in RootFiles(r) : file = {f} BY <2>1, RootFilesMember, CachesAssumption
  <2>3. /\ opened' = opened \cup {r} /\ running' = running
        /\ last_compile_input' = last_compile_input /\ program_root' = program_root
    BY <1>1 DEF OpenRoot, moduleVars, scopeVars
  <2>4. \A job : JobAbout(job) => JobAbout(job)' BY <2>3 DEF JobAbout
  <2>5. JobAbout(Job(r, file))' /\ Job(r, file) = Job(Job(r, file).root, Job(r, file).file)
    BY <2>2, <2>3 DEF JobAbout, Job
  <2>6. \A i \in DOMAIN jobs' : JobAbout(jobs[i])' /\ jobs'[i] = Job(jobs'[i].root, jobs'[i].file)
    <3>1. TAKE i \in DOMAIN jobs'
    <3>2. i \in DOMAIN jobs \/ i = Len(jobs) + 1 BY <2>1
    <3>3. QED BY <1>0, <2>1, <2>4, <2>5, <3>2
  <2>7. QED BY <1>0, <2>3, <2>4, <2>6 DEF JobsAbout, Busy
<1>2. ASSUME NEW f \in Files, Edit(f) PROVE JobsAbout'
  <2>1. /\ opened' = opened /\ running' = running
        /\ last_compile_input' = last_compile_input /\ program_root' = program_root
    BY <1>2 DEF Edit, moduleVars, scopeVars
  <2>2. \A job : JobAbout(job) => JobAbout(job)' BY <2>1 DEF JobAbout
  <2>3. \A i \in DOMAIN jobs' : JobAbout(jobs[i])' /\ jobs'[i] = Job(jobs'[i].root, jobs'[i].file)
    <3>1. TAKE i \in DOMAIN jobs'
    <3>2. CASE i \in DOMAIN jobs BY <1>0, <1>2, <2>2, <3>2, EditQueue
    <3>3. CASE i \notin DOMAIN jobs
      <4>1. /\ jobs'[i].root \in opened /\ f \in RootFiles(jobs'[i].root)
            /\ jobs'[i] = Job(jobs'[i].root, {f}) /\ jobs'[i].file = {f}
        BY <1>2, <3>3, EditQueue
      <4>2. JobAbout(Job(jobs'[i].root, {f})) BY <4>1, JobAboutNew
      <4>3. QED BY <2>2, <4>1, <4>2
    <3>4. QED BY <3>2, <3>3
  <2>4. QED BY <1>0, <2>1, <2>2, <2>3 DEF JobsAbout, Busy
<1>3. ASSUME NEW w \in Workers, StartJob(w) PROVE JobsAbout'
  <2>1. /\ opened' = opened
        /\ last_compile_input' = last_compile_input /\ program_root' = program_root
    BY <1>3 DEF StartJob, textVars, moduleVars, scopeVars
  <2>2. \A job : JobAbout(job) => JobAbout(job)' BY <2>1 DEF JobAbout
  <2>3. \A i \in DOMAIN jobs' : JobAbout(jobs[i])' /\ jobs'[i] = Job(jobs'[i].root, jobs'[i].file)
    BY <1>0, <1>3, <2>2, StartJobQueue
  <2>4. \A v \in Workers : Busy(v)' => JobAbout(running[v])'
    BY <1>0, <1>3, <2>2, StartJobQueue DEF Busy
  <2>5. QED BY <1>0, <2>1, <2>3, <2>4 DEF JobsAbout
<1>4. ASSUME NEW w \in Workers, WorkStep(w) PROVE JobsAbout'
  <2>1. Flow(w) BY <1>4, WorkFlow
  <2>2. StepFacts(w) BY <2>1 DEF Flow
  <2>3. \A job : JobAbout(job) => JobAbout(job)' BY <2>2 DEF JobAbout, StepFacts
  <2>4. Busy(w) BY <2>2, RunningJob DEF StepFacts, Types, CompileJobs
  <2>5. JobAbout(running[w]) BY <1>0, <2>4
  <2>6. Busy(w)' => JobAbout(running[w])'
    BY <2>1, <2>2, <2>5 DEF Flow, StepFacts, Ends, JobFacts, UnitFacts, JobAbout, Busy
  <2>7. \A v \in Workers : Busy(v)' => JobAbout(running[v])'
    BY <1>0, <2>2, <2>3, <2>6 DEF StepFacts, Busy
  <2>8. \A i \in DOMAIN jobs' : JobAbout(jobs[i])' /\ jobs'[i] = Job(jobs'[i].root, jobs'[i].file)
    BY <1>0, <2>2, <2>3 DEF StepFacts
  <2>9. running[w].root \in opened BY <2>5 DEF JobAbout
  <2>10. last_compile_input' \cup program_root' \subseteq opened' /\ \A r, s \in program_root' : r = s
    BY <1>0, <1>4, <2>2, <2>9, WorkRoots DEF StepFacts
  <2>11. QED BY <2>7, <2>8, <2>10 DEF JobsAbout
<1>5. CASE UNCHANGED cacheVars
  BY <1>5 DEF cacheVars, textVars, poolVars, moduleVars, scopeVars, JobsAbout, JobAbout, Busy
<1>6. QED BY <1>1, <1>2, <1>3, <1>4, <1>5, NextCases

-----------------------------------------------------------------------------
(* The dependency graph after an update. *)

\* The graph with the packages of the program.
LEMMA RegisteredFacts ==
    ASSUME NEW g \in Graphs, NEW job \in CompileJobs
    PROVE  LET new == Registered(g, job)
               pkgs == PkgsOf(job) \ {MainPkg} IN
           /\ new \in Graphs
           /\ new.nodes = g.nodes \cup pkgs
           /\ \A f \in Files :
                 new.modules[f] = g.modules[f] \cup {p \in pkgs : f \in PkgFiles[job.root][p]}
           /\ \A p \in Pkgs :
                 new.children[p] = g.children[p] \cup
                     {f \in Files : /\ g.modules[f] = {} /\ new.modules[f] # {}
                                    /\ p \in ModImports(job.mods, f) \cap new.nodes}
           /\ \A p \in Pkgs :
                 new.parents[p] = g.parents[p] \cup
                     UNION {ModImports(job.mods, f) :
                               f \in {h \in Files : g.modules[h] = {} /\ p \in new.modules[h]}}
<1> DEFINE pkgs == PkgsOf(job) \ {MainPkg}
           all == [g EXCEPT
            !.nodes = @ \cup pkgs,
            !.modules = [f \in Files |-> @[f] \cup {p \in pkgs : f \in PkgFiles[job.root][p]}]]
           S == {f \in Files : g.modules[f] = {} /\ all.modules[f] # {}}
           new == Registered(g, job)
<1>1. job.mods \in [Files -> SUBSET Sources] /\ job.found \in SUBSET Units
  BY DEF CompileJobs
<1>2. pkgs \subseteq Importable BY <1>1 DEF PkgsOf, Units, Importable
<1> HIDE DEF pkgs
<1>3. /\ all \in Graphs
      /\ all.nodes = g.nodes \cup pkgs /\ all.children = g.children /\ all.parents = g.parents
      /\ \A f \in Files : all.modules[f] = g.modules[f] \cup {p \in pkgs : f \in PkgFiles[job.root][p]}
  BY <1>2 DEF Graphs
<1>4. new = AddModules(all, job.mods, S) BY DEF Registered, pkgs
<1> HIDE DEF all, new
<1>5. S \in SUBSET Files OBVIOUS
<1>6. /\ new \in Graphs /\ new.modules = all.modules /\ new.nodes = all.nodes
      /\ \A p \in Pkgs :
            new.children[p] = all.children[p] \cup {f \in {h \in S : all.modules[h] # {}} :
                                           p \in ModImports(job.mods, f) \cap all.nodes}
      /\ \A p \in Pkgs :
            new.parents[p] =
                all.parents[p] \cup UNION {ModImports(job.mods, f) : f \in {h \in S : p \in all.modules[h]}}
  <2> HIDE DEF S
  <2> QED BY <1>1, <1>3, <1>4, <1>5, AddModulesFacts
<1>7. \A p \in Pkgs :
         {f \in {h \in S : all.modules[h] # {}} : p \in ModImports(job.mods, f) \cap all.nodes}
           = {f \in Files : /\ g.modules[f] = {} /\ new.modules[f] # {}
                            /\ p \in ModImports(job.mods, f) \cap new.nodes}
  BY <1>6
<1>8. \A p \in Pkgs :
         {h \in S : p \in all.modules[h]} = {h \in Files : g.modules[h] = {} /\ p \in new.modules[h]}
  BY <1>6
<1>9. ASSUME NEW p \in Pkgs
      PROVE  UNION {ModImports(job.mods, f) : f \in {h \in S : p \in all.modules[h]}} =
             UNION {ModImports(job.mods, f) :
                               f \in {h \in Files : g.modules[h] = {} /\ p \in new.modules[h]}}
  BY <1>8
<1> HIDE DEF S
<1>10. QED BY <1>3, <1>6, <1>7, <1>9 DEF new, pkgs

\* The graph after the files of S were linked again.
LEMMA UpdateGraphFacts ==
    ASSUME NEW old \in Graphs, NEW job \in CompileJobs, NEW S \in SUBSET Files
    PROVE  LET g == Registered(old, job)
               new == UpdateGraph(old, job, S).graph IN
           /\ new \in Graphs
           /\ UpdateGraph(old, job, S).invalid = Invalidated(g, S)
           /\ new.modules = g.modules /\ new.nodes = g.nodes
           /\ \A q \in Pkgs :
                 new.children[q] =
                     (g.children[q] \ {f \in S : \E p \in g.modules[f] : q \in g.parents[p]})
                     \cup {f \in S : g.modules[f] # {} /\ q \in ModImports(job.mods, f) \cap g.nodes}
           /\ \A p \in Pkgs :
                 new.parents[p] = g.parents[p] \cup
                     UNION {ModImports(job.mods, f) : f \in {h \in S : p \in g.modules[h]}}
<1> DEFINE g == Registered(old, job)
           rem == RemoveDependencies(g, S)
           T == {f \in S : job.mods[f] # {}}
           new == UpdateGraph(old, job, S).graph
<1>1. job.mods \in [Files -> SUBSET Sources] BY DEF CompileJobs
<1>2. g \in Graphs BY UpdateGraphType
<1> HIDE DEF g
<1>3. /\ rem \in Graphs /\ rem.modules = g.modules /\ rem.nodes = g.nodes /\ rem.parents = g.parents
      /\ \A q \in Pkgs : rem.children[q] =
            g.children[q] \ {f \in S : \E p \in g.modules[f] : q \in g.parents[p]}
  BY <1>2 DEF RemoveDependencies, Graphs
<1>4. UpdateGraph(old, job, S) = [invalid |-> Invalidated(g, S), graph |-> AddModules(rem, job.mods, T)]
  BY DEF UpdateGraph, g
<1> HIDE DEF rem
<1>5. new = AddModules(rem, job.mods, T) /\ UpdateGraph(old, job, S).invalid = Invalidated(g, S)
  BY <1>4
<1> HIDE DEF new
<1>6. T \in SUBSET Files OBVIOUS
<1>7. \A f \in Files : \A q \in ModImports(job.mods, f) : job.mods[f] # {} BY DEF ModImports
<1>8. /\ new \in Graphs /\ new.modules = rem.modules /\ new.nodes = rem.nodes
      /\ \A p \in Pkgs :
            new.children[p] = rem.children[p] \cup {f \in {h \in T : rem.modules[h] # {}} :
                                           p \in ModImports(job.mods, f) \cap rem.nodes}
      /\ \A p \in Pkgs :
            new.parents[p] =
                rem.parents[p] \cup UNION {ModImports(job.mods, f) : f \in {h \in T : p \in rem.modules[h]}}
  <2> HIDE DEF T
  <2> QED BY <1>1, <1>3, <1>5, <1>6, AddModulesFacts
<1>9. \A p \in Pkgs :
         {f \in {h \in T : rem.modules[h] # {}} : p \in ModImports(job.mods, f) \cap rem.nodes}
           = {f \in S : g.modules[f] # {} /\ p \in ModImports(job.mods, f) \cap g.nodes}
  BY <1>3, <1>7
<1>10. ASSUME NEW p \in Pkgs
       PROVE  UNION {ModImports(job.mods, f) : f \in {h \in T : p \in rem.modules[h]}}
                = UNION {ModImports(job.mods, f) : f \in {h \in S : p \in g.modules[h]}}
  BY <1>3, <1>7
<1> HIDE DEF T
<1>11. QED BY <1>3, <1>5, <1>8, <1>9, <1>10 DEF g, new

\* The parts of CachedScope::update.
OldGraph(job) == IF program_root = {job.root} THEN graph ELSE NoGraph
Marked(job) == IF program_root = {job.root} THEN changed ELSE {}
UpdateFiles(job) == IF Marked(job) # {} THEN Marked(job) ELSE PkgFiles[job.root][MainPkg]

LEMMA UpdatedFacts ==
    ASSUME ScopeTypes, NEW job \in CompileJobs
    PROVE  /\ OldGraph(job) \in Graphs /\ UpdateFiles(job) \in SUBSET Files
           /\ Updated(job).graph = UpdateGraph(OldGraph(job), job, UpdateFiles(job)).graph
           /\ Updated(job).invalid = Invalidated(Registered(OldGraph(job), job), UpdateFiles(job))
           /\ Updated(job).changed = Marked(job)
           /\ \A p \in Pkgs : Updated(job).scopes[p] =
                 IF program_root = {job.root} /\ p \notin Updated(job).invalid THEN scope_map[p] ELSE {}
<1>1. NoGraph \in Graphs BY DEF NoGraph, Graphs
<1>2. job.root \in Roots BY DEF CompileJobs
<1>3. PkgFiles[job.root][MainPkg] \in SUBSET Files BY <1>2, PkgFilesType, CachesAssumption
<1>4. OldGraph(job) \in Graphs /\ UpdateFiles(job) \in SUBSET Files
  BY <1>1, <1>3 DEF ScopeTypes, OldGraph, UpdateFiles, Marked
<1> DEFINE u == UpdateGraph(OldGraph(job), job, UpdateFiles(job))
<1>5. u.invalid = Invalidated(Registered(OldGraph(job), job), UpdateFiles(job))
  BY <1>4, UpdateGraphFacts
<1>6. Updated(job) =
        [graph |-> u.graph, changed |-> Marked(job), invalid |-> u.invalid,
         scopes |-> [p \in Pkgs |-> IF program_root = {job.root} /\ p \notin u.invalid
                                    THEN scope_map[p] ELSE {}]]
  BY DEF Updated, OldGraph, UpdateFiles, Marked
<1> HIDE DEF u
<1>7. QED BY <1>4, <1>5, <1>6 DEF u

\* Every package of a module is in the graph.
NodesOf(g) == \A f \in Files : g.modules[f] \subseteq g.nodes
NodesKnown == NodesOf(graph)

LEMMA UpdatedNodes ==
    ASSUME ScopeTypes, NodesKnown, NEW job \in CompileJobs
    PROVE  NodesOf(Updated(job).graph)
<1>1. OldGraph(job) \in Graphs /\ UpdateFiles(job) \in SUBSET Files BY UpdatedFacts
<1>2. NodesOf(OldGraph(job)) BY DEF NodesKnown, NodesOf, OldGraph, NoGraph
<1>3. NodesOf(Registered(OldGraph(job), job)) BY <1>1, <1>2, RegisteredFacts DEF NodesOf
<1>4. QED BY <1>1, <1>3, UpdatedFacts, UpdateGraphFacts DEF NodesOf

\* What a step can make of the graph.
LEMMA GraphSteps ==
    ASSUME Types, JobsAbout, [CachesNext]_cacheVars
    PROVE  \/ graph' = graph
           \/ \E w \in Workers : running[w] \in CompileJobs /\ graph' = Updated(running[w]).graph
<1>1. ASSUME NEW w \in Workers, Resolve(w) \/ StoreScopes(w)
      PROVE  \/ graph' = graph
             \/ running[w] \in CompileJobs /\ graph' = Updated(running[w]).graph
  <2>1. running[w] \in CompileJobs
    BY <1>1, AboutRunning, StepsAre DEF Resolve, StoreScopes, At
  <2>2. graph' = graph \/ graph' = Updated(running[w]).graph
    BY <1>1 DEF Resolve, StoreScopes, CacheBecomes, scopeVars
  <2>3. QED BY <2>1, <2>2
<1>2. ASSUME NEW w \in Workers, WorkStep(w), ~Resolve(w), ~StoreScopes(w) PROVE graph' = graph
  BY <1>2 DEF WorkStep, LoadCode, ClearChanged, ParseMain, FollowCached, ReadFile, WriteFile, Collect,
         ScanUnimported, MarkChanged, FindSymbols, scopeVars
<1>3. ASSUME \/ \E r \in Roots : OpenRoot(r)
             \/ \E f \in Files : Edit(f)
             \/ \E w \in Workers : StartJob(w)
             \/ UNCHANGED cacheVars
      PROVE  graph' = graph
  BY <1>3 DEF OpenRoot, Edit, StartJob, cacheVars, scopeVars
<1>4. QED BY <1>1, <1>2, <1>3, NextCases

LEMMA NodesStep ==
    ASSUME Types, JobsAbout, NodesKnown, [CachesNext]_cacheVars PROVE NodesKnown'
  BY GraphSteps, UpdatedNodes DEF NodesKnown, NodesOf, Types

LEMMA TypesInit ==
    CachesStart => Types /\ JobsAbout /\ NodesKnown
<1> SUFFICES ASSUME CachesStart PROVE Types /\ JobsAbout /\ NodesKnown OBVIOUS
<1>1. text \in [Files -> Sources]
  <2>1. text \in [Files -> {[edit |-> 0, imports |-> I] : I \in UNION {Imports[f] : f \in Files}}]
    BY DEF CachesStart
  <2>2. \A I \in UNION {Imports[f] : f \in Files} : [edit |-> 0, imports |-> I] \in Sources
    BY CachesAssumption DEF Sources, Importable
  <2>3. QED BY <2>1, <2>2
<1>2. TextTypes BY <1>1, CachesAssumption DEF CachesStart, TextTypes
<1>3. PoolTypes BY DEF CachesStart, PoolTypes
<1>4. ModuleTypes BY DEF CachesStart, ModuleTypes
<1>5. NoGraph \in Graphs /\ NoScopes \in Scopes /\ NoScopes[MainPkg] = {}
  BY CachesAssumption DEF NoGraph, Graphs, NoScopes, Scopes
<1>6. ScopeTypes BY <1>5 DEF CachesStart, ScopeTypes
<1>7. ResultTypes BY <1>5 DEF CachesStart, ResultTypes
<1>8. JobsAbout BY DEF CachesStart, JobsAbout, Busy
<1>9. NodesKnown BY DEF CachesStart, NodesKnown, NodesOf, NoGraph
<1>10. QED BY <1>2, <1>3, <1>4, <1>6, <1>7, <1>8, <1>9 DEF Types

LEMMA TypesAlways ==
    CachesSpec => [](Types /\ JobsAbout /\ NodesKnown)
<1>1. Types /\ JobsAbout /\ NodesKnown /\ [CachesNext]_cacheVars => (Types /\ JobsAbout /\ NodesKnown)'
  BY TypesStep, JobsAboutStep, NodesStep
<1>2. QED BY TypesInit, <1>1, PTL DEF CachesSpec

\* The type invariant of the shared caches, for any number of pool threads and
\* any client: no step of any job, whichever locks it gets, leaves the module
\* cache, the CachedScope or the GlobalState ill-formed, and they name only
\* roots that were opened.
THEOREM CachesTypesHold ==
    CachesSpec => []CachesTypeOK
<1>1. ASSUME Types, JobsAbout, NodesKnown PROVE CachesTypeOK
  <2>1. Sources \subseteq Texts BY DEF Sources, Texts, Importable
  <2>2. /\ text \in [Files -> Texts] /\ edits \in 0..MaxEdits /\ opened \subseteq Roots
        /\ \A f \in Files : ast_cache[f] \cup source_code[f] \subseteq Texts
    BY <1>1, <2>1 DEF Types, TextTypes, ModuleTypes
  <2>3. graph.modules \in [Files -> SUBSET graph.nodes]
    BY <1>1 DEF Types, ScopeTypes, Graphs, NodesKnown, NodesOf
  <2>4. graph.parents \in [Pkgs -> SUBSET (Pkgs \ {MainPkg})] /\ graph.children \in [Pkgs -> SUBSET Files]
    BY <1>1 DEF Types, ScopeTypes, Graphs, Importable
  <2>5. QED
    BY <1>1, <2>2, <2>3, <2>4 DEF CachesTypeOK, Types, ScopeTypes, ResultTypes, Scopes, JobsAbout
<1>2. QED BY <1>1, TypesAlways, PTL

-----------------------------------------------------------------------------
(* The texts are known. *)

\* A job that starts has no texts.
LEMMA StartedJob ==
    ASSUME Types, JobsAbout, NEW w \in Workers, StartJob(w)
    PROVE  /\ running'[w] \in CompileJobs /\ running'[w].step = "start"
           /\ running'[w].root = jobs[1].root /\ running'[w].file = jobs[1].file
           /\ JobAbout(jobs[1]) /\ jobs[1].root \in Roots
           /\ \A f \in Files : LocalTexts(running'[w], f) = {}
<1>1. jobs[1] \in CompileJobs /\ 1 \in DOMAIN jobs /\ running'[w] = jobs[1]
  BY StartJobQueue DEF Types, PoolTypes
<1>2. jobs[1] = Job(jobs[1].root, jobs[1].file) /\ JobAbout(jobs[1]) BY <1>1 DEF JobsAbout
<1>3. \A r, file : /\ Job(r, file).step = "start"
                   /\ \A f \in Files : LocalTexts(Job(r, file), f) = {}
  BY DEF Job, LocalTexts
<1>4. QED BY <1>1, <1>2, <1>3 DEF CompileJobs

\* What an edit does to the texts.
LEMMA EditTexts ==
    ASSUME Types, NEW f \in Files, Edit(f)
    PROVE  /\ text'[f].edit = edits + 1
           /\ text'[f].imports \in Imports[f] /\ MayImport(f, text'[f].imports)
           /\ \A h \in Files \ {f} : text'[h] = text[h]
           /\ edits' = edits + 1 /\ edits \in Nat
           /\ opened' = opened /\ running' = running
           /\ UNCHANGED <<moduleVars, scopeVars, gs, compiled>>
<1>1. PICK imports \in Imports[f] :
          /\ MayImport(f, imports)
          /\ text' = [text EXCEPT ![f] = [edit |-> edits + 1, imports |-> imports]]
  BY DEF Edit
<1>2. QED BY <1>1, CachesAssumption DEF Edit, Types, TextTypes

LEMMA TextsKnownStep ==
    ASSUME Types, JobsAbout, TextsKnown, [CachesNext]_cacheVars
    PROVE  TextsKnown'
<1>0. /\ \A f \in Files : text[f] \in Sources /\ text[f].edit \in Nat /\ text[f].edit <= edits
      /\ edits \in Nat
  BY CachesAssumption DEF Types, TextTypes, Sources, TextsKnown
<1>1. \A f \in Files : Older(f, text[f]) BY <1>0 DEF Older
<1>2. ASSUME NEW r \in Roots, OpenRoot(r) PROVE TextsKnown'
  <2>1. /\ opened \subseteq opened' /\ running' = running /\ text' = text /\ edits' = edits
        /\ UNCHANGED moduleVars
    BY <1>2 DEF OpenRoot
  <2>2. QED BY <2>1 DEF TextsKnown, Older, Busy, CacheTexts, LocalTexts, moduleVars
<1>3. ASSUME NEW f \in Files, Edit(f) PROVE TextsKnown'
  <2>1. /\ text'[f].edit = edits + 1 /\ \A h \in Files \ {f} : text'[h] = text[h]
        /\ edits' = edits + 1 /\ opened' = opened /\ running' = running /\ UNCHANGED moduleVars
    BY <1>3, EditTexts
  <2>2. \A h \in Files : text'[h].edit <= edits' BY <1>0, <2>1
  <2>3. ASSUME NEW h \in Files, NEW t \in Sources, Older(h, t) PROVE Older(h, t)'
    <3>1. t.edit \in Nat BY CachesAssumption DEF Sources
    <3>2. QED BY <1>0, <2>1, <2>3, <3>1 DEF Older
  <2>4. \A h \in Files : CacheTexts(h) \in SUBSET Sources BY DEF Types, ModuleTypes, CacheTexts
  <2>5. \A w \in Workers, h \in Files : Busy(w) => LocalTexts(running[w], h) \in SUBSET Sources
    BY RunningJob, LocalTextsMember DEF Types
  <2>6. \A h \in Files : CacheTexts(h)' = CacheTexts(h) BY <2>1 DEF CacheTexts, moduleVars
  <2>7. \A w \in Workers, h \in Files :
           Busy(w)' = Busy(w) /\ LocalTexts(running[w], h)' = LocalTexts(running[w], h)
    BY <2>1 DEF LocalTexts, Busy
  <2>8. \A h \in Files : \A t \in CacheTexts(h)' : Older(h, t)'
    BY <2>3, <2>4, <2>6 DEF TextsKnown
  <2>9. \A w \in Workers, h \in Files : Busy(w)' => \A t \in LocalTexts(running[w], h)' :
            Older(h, t)' /\ h \in RootFiles(running'[w].root)
    BY <2>1, <2>3, <2>5, <2>7 DEF TextsKnown
  <2>10. \A h \in Files :
          CacheTexts(h)' # {} \/ (\E p \in Pkgs : dep_cache'[h][p] # {})
              => \E r \in opened' : h \in RootFiles(r)
    BY <2>1, <2>6 DEF TextsKnown, moduleVars
  <2>11. QED BY <2>2, <2>8, <2>9, <2>10 DEF TextsKnown
<1>4. ASSUME NEW w \in Workers, StartJob(w) PROVE TextsKnown'
  <2>1. opened' = opened /\ text' = text /\ edits' = edits /\ UNCHANGED moduleVars
    BY <1>4 DEF StartJob, textVars
  <2>2. \A h \in Files : LocalTexts(running'[w], h) = {} BY <1>4, StartedJob
  <2>3. \A v \in Workers \ {w} : running'[v] = running[v] BY <1>4, StartJobQueue
  <2>4. \A h \in Files : CacheTexts(h)' = CacheTexts(h) BY <2>1 DEF CacheTexts, moduleVars
  <2>5. \A h \in Files : \A t : Older(h, t)' = Older(h, t) BY <2>1 DEF Older
  <2>6. ASSUME NEW v \in Workers, NEW h \in Files, Busy(v)', NEW t \in LocalTexts(running'[v], h)
        PROVE  Older(h, t)' /\ h \in RootFiles(running'[v].root)
    <3>1. v # w BY <2>2, <2>6
    <3>2. running'[v] = running[v] /\ Busy(v) BY <2>3, <2>6, <3>1 DEF Busy
    <3>3. QED BY <2>5, <2>6, <3>2 DEF TextsKnown
  <2>7. \A v \in Workers, h \in Files : Busy(v)' => \A t \in LocalTexts(running[v], h)' :
            Older(h, t)' /\ h \in RootFiles(running'[v].root)
    BY <2>6 DEF LocalTexts
  <2>8. QED BY <2>1, <2>4, <2>5, <2>7 DEF TextsKnown, moduleVars
<1>5. ASSUME NEW w \in Workers, WorkStep(w) PROVE TextsKnown'
  <2>1. Flow(w) BY <1>5, WorkFlow
  <2>2. StepFacts(w) /\ CacheFacts(w) BY <2>1 DEF Flow
  <2>3. /\ text' = text /\ edits' = edits /\ opened' = opened
        /\ \A v \in Workers \ {w} : running'[v] = running[v]
    BY <2>2 DEF StepFacts
  <2>4. Busy(w) /\ running[w] \in CompileJobs
    BY <2>2, RunningJob DEF StepFacts, Types, CompileJobs
  <2>5. \A h \in Files : \A t : Older(h, t)' = Older(h, t) BY <2>3 DEF Older
  <2>6. \A h \in Files : \A t \in Readable(w, h) : Older(h, t)
    BY <1>1, <2>4 DEF TextsKnown, Readable
  <2>7. \A h \in Files : \A t \in CacheTexts(h)' : Older(h, t)'
    BY <2>2, <2>5, <2>6 DEF CacheFacts, TextsKnown
  <2>8. ASSUME NEW v \in Workers, NEW h \in Files, Busy(v)', NEW t \in LocalTexts(running'[v], h)
        PROVE  Older(h, t)' /\ h \in RootFiles(running'[v].root)
    <3>1. CASE v = w
      BY <2>1, <2>4, <2>5, <2>6, <2>8, <3>1 DEF Flow, Ends, Busy, LocalFacts, JobFacts, TextsKnown
    <3>2. CASE v # w
      BY <2>3, <2>5, <2>8, <3>2 DEF TextsKnown, Busy
    <3>3. QED BY <3>1, <3>2
  <2>9. \A v \in Workers, h \in Files : Busy(v)' => \A t \in LocalTexts(running[v], h)' :
            Older(h, t)' /\ h \in RootFiles(running'[v].root)
    BY <2>8 DEF LocalTexts
  <2>10. running[w].root \in opened BY <2>4 DEF JobsAbout, JobAbout
  <2>11. \A h \in Files :
          CacheTexts(h)' # {} \/ (\E p \in Pkgs : dep_cache'[h][p] # {})
              => \E r \in opened' : h \in RootFiles(r)
    BY <2>2, <2>3, <2>10 DEF CacheFacts, TextsKnown
  <2>12. QED BY <1>0, <2>3, <2>7, <2>9, <2>11 DEF TextsKnown
<1>6. CASE UNCHANGED cacheVars
  BY <1>6 DEF cacheVars, textVars, poolVars, moduleVars, TextsKnown, Older, Busy, CacheTexts, LocalTexts
<1>7. QED BY <1>2, <1>3, <1>4, <1>5, <1>6, NextCases

-----------------------------------------------------------------------------
(* The imports are current. *)

\* The facts about the one worker and the client used below.
LEMMA TheWorker ==
    ASSUME Types, Orderly, NEW w \in Workers
    PROVE  /\ Client = "orderly" /\ \A v \in Workers : v = w
           /\ \A f : Clearing(f) <=> running[w].step \in Early /\ running[w].file = {f}
           /\ \A f : NextClears(f) <=> running[w] = Idle /\ jobs # <<>> /\ Head(jobs).file = {f}
           /\ Idle.step \notin Steps
<1>1. \A v \in Workers : v = w BY DEF Orderly, OneWorker
<1>2. Idle.step \notin Steps BY DEF Idle, Steps, Early, Parsing, Parsed, Checked
<1>3. QED BY <1>1, <1>2 DEF Orderly, Clearing, NextClears

LEMMA InOrderSame ==
    ASSUME InOrder, text' = text PROVE InOrder'
<1>1. Current' = Current BY DEF Current
<1>2. \A r \in Roots : ProgramFiles(r)' = ProgramFiles(r) BY <1>1 DEF ProgramFiles, ProgramPkgs
<1>3. QED BY <1>2 DEF InOrder

CacheImports(f) ==
    /\ \A t \in CacheTexts(f) : t.imports = text[f].imports
    /\ \A p \in Pkgs : dep_cache[f][p] \subseteq {text[f].imports}
LocalImports(w) ==
    \A f \in Files : Busy(w) => \A t \in LocalTexts(running[w], f) : t.imports = text[f].imports

LEMMA ImportsParts ==
    ImportsCurrent <=>
        /\ InOrder
        /\ \A f \in Files : CacheImports(f) \/ Clearing(f) \/ NextClears(f)
        /\ \A w \in Workers : LocalImports(w)
  BY DEF ImportsCurrent, CacheImports, LocalImports

LEMMA ImportsEdit ==
    ASSUME Types, JobsAbout, TextsKnown, ImportsCurrent, Orderly, NEW f \in Files, Edit(f)
    PROVE  ImportsCurrent'
<1>1. /\ text'[f].imports \in Imports[f] /\ MayImport(f, text'[f].imports)
      /\ \A h \in Files \ {f} : text'[h] = text[h]
      /\ opened' = opened /\ running' = running
      /\ UNCHANGED moduleVars
  BY EditTexts
<1>2. InOrder' BY DEF Edit, Orderly
<1>3. \A h \in Files : CacheTexts(h)' = CacheTexts(h) BY <1>1 DEF CacheTexts, moduleVars
<1>4. \A h \in Files : Clearing(h)' <=> Clearing(h) BY <1>1 DEF Clearing
<1>5. jobs # <<>> => jobs' # <<>> /\ Head(jobs') = Head(jobs)
  <2>1. jobs \in Seq(CompileJobs) /\ jobs' \in Seq(CompileJobs) BY EditQueue DEF Types, PoolTypes
  <2>2. HAVE jobs # <<>>
  <2>3. 1 \in DOMAIN jobs BY <2>1, <2>2
  <2>4. 1 \in DOMAIN jobs' /\ jobs'[1] = jobs[1] BY <2>3, EditQueue
  <2>5. QED BY <2>1, <2>3, <2>4
<1>6. \A h \in Files : NextClears(h) => NextClears(h)' BY <1>1, <1>5 DEF NextClears
<1>7. \A w \in Workers, h \in Files :
           Busy(w)' = Busy(w) /\ LocalTexts(running[w], h)' = LocalTexts(running[w], h)
  BY <1>1 DEF LocalTexts, Busy
<1>8. CASE text'[f].imports = text[f].imports
  <2>1. \A h \in Files : text'[h].imports = text[h].imports BY <1>1, <1>8
  <2>2. \A h \in Files : CacheImports(h) => CacheImports(h)'
    BY <1>1, <1>3, <2>1 DEF CacheImports, moduleVars
  <2>3. \A w \in Workers : LocalImports(w) => LocalImports(w)'
    BY <1>7, <2>1 DEF LocalImports
  <2>4. QED BY <1>2, <1>4, <1>6, <2>2, <2>3, ImportsParts DEF ImportsCurrent, CacheImports, LocalImports
<1>9. CASE Settled
  <2>1. jobs = <<>> /\ \A w \in Workers : running[w] = Idle BY <1>9 DEF Settled
  <2>2. \A h : ~Clearing(h) /\ ~NextClears(h) BY <2>1 DEF Clearing, NextClears, Idle, Early
  <2>3. \A h \in Files : CacheImports(h) BY <2>2, ImportsParts
  <2>4. \A h \in Files \ {f} : CacheImports(h)' BY <1>1, <1>3, <2>3 DEF CacheImports, moduleVars
  <2>5. \A w \in Workers : LocalImports(w)' BY <1>7, <2>1 DEF LocalImports, Busy
  <2>6. CASE CacheTexts(f) # {} \/ \E p \in Pkgs : dep_cache[f][p] # {}
    <3>1. PICK r \in opened : f \in RootFiles(r) BY <2>6 DEF TextsKnown
    <3>2. PICK i \in DOMAIN jobs' : jobs'[i].file = {f} BY <3>1, EditQueue
    <3>3. jobs' \in Seq(CompileJobs) BY EditQueue
    <3>4. 1 \in DOMAIN jobs' /\ jobs' # <<>> /\ Head(jobs') = jobs'[1] BY <3>2, <3>3
    <3>5. 1 \notin DOMAIN jobs BY <2>1
    <3>6. jobs'[1].file = {f} BY <3>4, <3>5, EditQueue
    <3>7. NextClears(f)' BY <1>1, <2>1, <3>4, <3>6 DEF NextClears
    <3>8. QED BY <1>2, <2>4, <2>5, <3>7 DEF ImportsCurrent, CacheImports, LocalImports
  <2>7. CASE ~(CacheTexts(f) # {} \/ \E p \in Pkgs : dep_cache[f][p] # {})
    <3>1. CacheImports(f)' BY <1>1, <1>3, <2>7 DEF CacheImports, moduleVars
    <3>2. QED BY <1>2, <2>4, <2>5, <3>1 DEF ImportsCurrent, CacheImports, LocalImports
  <2>8. QED BY <2>6, <2>7
<1>10. QED BY <1>1, <1>8, <1>9 DEF MayImport, Orderly

LEMMA ImportsStart ==
    ASSUME Types, JobsAbout, ImportsCurrent, Orderly, NEW w \in Workers, StartJob(w)
    PROVE  ImportsCurrent'
<1>1. opened' = opened /\ text' = text /\ UNCHANGED moduleVars BY DEF StartJob, textVars
<1>2. InOrder' BY <1>1, InOrderSame DEF ImportsCurrent
<1>3. running[w] = Idle /\ Head(jobs) = jobs[1] BY StartJobQueue
<1>4. running'[w].step = "start" /\ running'[w].file = jobs[1].file BY StartedJob
<1>5. \A h : ~Clearing(h) BY <1>3, TheWorker DEF Steps
<1>6. \A h \in Files : NextClears(h) => Clearing(h)'
  BY <1>3, <1>4, TheWorker DEF Clearing, Early
<1>7. \A h \in Files : CacheTexts(h)' = CacheTexts(h) BY <1>1 DEF CacheTexts, moduleVars
<1>8. \A h \in Files : CacheImports(h) => CacheImports(h)'
  BY <1>1, <1>7 DEF CacheImports, moduleVars
<1>9. LocalImports(w)'
  <2>1. \A h \in Files : LocalTexts(running'[w], h) = {} BY StartedJob
  <2>2. QED BY <2>1 DEF LocalImports, LocalTexts
<1>10. \A v \in Workers : LocalImports(v)' BY <1>9, TheWorker
<1>11. \A f \in Files : CacheImports(f)' \/ Clearing(f)' BY <1>5, <1>6, <1>8, ImportsParts
<1>12. QED BY <1>2, <1>10, <1>11 DEF ImportsCurrent, CacheImports, LocalImports

LEMMA ReadableImports ==
    ASSUME Types, ImportsCurrent, Orderly, NEW w \in Workers, running[w] \in CompileJobs
    PROVE  /\ Busy(w)
           /\ \A f \in Files : running[w].step \notin Early => CacheImports(f)
           /\ \A f \in Files : \A t \in Readable(w, f) : t.imports = text[f].imports
<1>1. Busy(w) BY RunningJob DEF Types, CompileJobs
<1>2. \A f : ~NextClears(f) BY <1>1, TheWorker DEF Busy
<1>3. \A f \in Files : running[w].step \notin Early => CacheImports(f)
  BY <1>2, TheWorker, ImportsParts
<1>4. \A f \in Files : \A t \in Readable(w, f) : t.imports = text[f].imports
  BY <1>1, <1>3, ImportsParts DEF Readable, CacheImports, LocalImports
<1>5. QED BY <1>1, <1>3, <1>4

LEMMA ImportsWork ==
    ASSUME Types, JobsAbout, ImportsCurrent, Orderly, NEW w \in Workers, WorkStep(w)
    PROVE  ImportsCurrent'
<1>1. Flow(w) BY WorkFlow
<1>2. StepFacts(w) /\ CacheFacts(w) /\ ClearFacts(w) BY <1>1 DEF Flow
<1>3. text' = text /\ running[w] \in CompileJobs BY <1>2 DEF StepFacts
<1>4. InOrder' BY <1>3, InOrderSame DEF ImportsCurrent
<1>5. Busy(w) /\ \A f \in Files : \A t \in Readable(w, f) : t.imports = text[f].imports
  BY <1>3, ReadableImports
<1>6. \A f \in Files : CacheImports(f) => CacheImports(f)'
  BY <1>2, <1>3, <1>5 DEF CacheImports, CacheFacts
<1>7. ASSUME NEW f \in Files, Clearing(f) PROVE CacheImports(f)' \/ Clearing(f)'
  <2>1. running[w].step \in Early /\ running[w].file = {f} BY <1>7, TheWorker
  <2>2. CASE running[w].step = "start"
    <3>1. running'[w].step = "clear" /\ running'[w].file = {f}
      BY <1>1, <2>1, <2>2 DEF Flow, Ends, JobFacts, Leads
    <3>2. QED BY <3>1 DEF Clearing, Early
  <2>3. CASE running[w].step = "clear"
    BY <1>2, <1>3, <2>1, <2>3 DEF ClearFacts, CacheImports
  <2>4. QED BY <2>1, <2>2, <2>3 DEF Early
<1>8. \A f : ~NextClears(f) BY <1>5, TheWorker DEF Busy
<1>9. LocalImports(w)'
  BY <1>1, <1>3, <1>5 DEF Flow, Ends, LocalFacts, LocalImports, LocalTexts, Busy
<1>10. \A v \in Workers : LocalImports(v)' BY <1>9, TheWorker
<1>11. \A f \in Files : CacheImports(f)' \/ Clearing(f)' BY <1>6, <1>7, <1>8, ImportsParts
<1>12. QED BY <1>4, <1>10, <1>11 DEF ImportsCurrent, CacheImports, LocalImports

LEMMA ImportsStep ==
    ASSUME Types, JobsAbout, TextsKnown, ImportsCurrent, Orderly, [CachesNext]_cacheVars
    PROVE  ImportsCurrent'
<1>1. ASSUME NEW r \in Roots, OpenRoot(r) PROVE ImportsCurrent'
  <2>1. /\ running' = running /\ text' = text /\ UNCHANGED moduleVars
    BY <1>1 DEF OpenRoot
  <2>2. \A f : NextClears(f) => NextClears(f)'
    <3>1. jobs # <<>> => jobs' # <<>> /\ Head(jobs') = Head(jobs)
      BY <1>1 DEF OpenRoot, Types, PoolTypes
    <3>2. QED BY <2>1, <3>1 DEF NextClears
  <2>3. InOrder' BY <2>1, InOrderSame DEF ImportsCurrent
  <2>4. \A f : Clearing(f)' <=> Clearing(f) BY <2>1 DEF Clearing
  <2>5. \A f \in Files : CacheImports(f)' <=> CacheImports(f)
    BY <2>1 DEF CacheImports, CacheTexts, moduleVars
  <2>6. \A w \in Workers : LocalImports(w)' <=> LocalImports(w)
    BY <2>1 DEF LocalImports, LocalTexts, Busy
  <2>7. QED BY <2>2, <2>3, <2>4, <2>5, <2>6 DEF ImportsCurrent, CacheImports, LocalImports
<1>2. CASE UNCHANGED cacheVars
  <2>1. running' = running /\ text' = text /\ jobs' = jobs /\ UNCHANGED moduleVars
    BY <1>2 DEF cacheVars, poolVars, textVars
  <2>2. InOrder' BY <2>1, InOrderSame DEF ImportsCurrent
  <2>3. QED
    BY <2>1, <2>2 DEF ImportsCurrent, Clearing, NextClears, Busy, CacheTexts, LocalTexts, moduleVars
<1>3. QED BY <1>1, <1>2, ImportsEdit, ImportsStart, ImportsWork, NextCases

-----------------------------------------------------------------------------
(* The texts are current, or another job will see to it. *)


\* Jobs that are added to the queue keep what is due and awaited.
LEMMA QueueGrows ==
    ASSUME Types, running' = running, jobs' \in Seq(CompileJobs),
           DOMAIN jobs \subseteq DOMAIN jobs', \A i \in DOMAIN jobs : jobs'[i] = jobs[i]
    PROVE  /\ \A r, f : Due(r, f) => Due(r, f)'
           /\ \A f : Awaited(f) => Awaited(f)'
<1>1. \A r, f : Due(r, f) => Due(r, f)' BY DEF Due
<1>2. ASSUME NEW f, Awaited(f) PROVE Awaited(f)'
  <2>1. jobs \in Seq(CompileJobs) BY DEF Types, PoolTypes
  <2>2. PICK k \in DOMAIN jobs : jobs[k].file = {f} BY <1>2 DEF Awaited
  <2>3. k \in DOMAIN jobs' /\ jobs'[k].file = {f} BY <2>2
  <2>4. ASSUME NEW l \in DOMAIN jobs', f \in RootFiles(jobs'[l].root)
        PROVE  Due(jobs[l].root, f)' \/ \E i \in 1..l : jobs'[i].file = {f}
    <3>1. CASE l \in DOMAIN jobs
      <4>1. Due(jobs[l].root, f) \/ \E i \in 1..l : jobs[i].file = {f}
        BY <1>2, <2>4, <3>1 DEF Awaited
      <4>2. \A i \in 1..l : i \in DOMAIN jobs BY <2>1, <3>1
      <4>3. jobs'[l] = jobs[l] BY <3>1
      <4>4. QED BY <1>1, <4>1, <4>2, <4>3
    <3>2. CASE l \notin DOMAIN jobs
      <4>1. k \in 1..l BY <2>1, <2>2, <2>4, <3>2
      <4>2. QED BY <2>3, <4>1
    <3>3. QED BY <3>1, <3>2
  <2>5. \A w \in Workers :
          Busy(w)' /\ f \in RootFiles(running'[w].root) => Due(running[w].root, f)'
    BY <1>1, <1>2 DEF Awaited, Busy
  <2>6. QED BY <2>3, <2>4, <2>5 DEF Awaited
<1>3. QED BY <1>1, <1>2

LEMMA OpenRootGrows ==
    ASSUME Types, NEW r \in Roots, OpenRoot(r)
    PROVE  /\ running' = running /\ jobs' \in Seq(CompileJobs)
           /\ DOMAIN jobs \subseteq DOMAIN jobs' /\ \A i \in DOMAIN jobs : jobs'[i] = jobs[i]
<1>1. running' = running BY DEF OpenRoot
<1>2. QED BY <1>1, OpenRootQueue

LEMMA TextsEdit ==
    ASSUME Types, JobsAbout, TextsKnown, TextsCurrent, NEW f \in Files, Edit(f)
    PROVE  TextsCurrent'
<1>1. /\ \A h \in Files \ {f} : text'[h] = text[h]
      /\ opened' = opened /\ running' = running /\ UNCHANGED moduleVars
  BY EditTexts
<1>2. /\ \A r, h : Due(r, h) => Due(r, h)'
      /\ \A h : Awaited(h) => Awaited(h)'
  BY <1>1, EditQueue, QueueGrows
<1>3. \A h \in Files : CacheTexts(h)' = CacheTexts(h) BY <1>1 DEF CacheTexts, moduleVars
<1>4. \A h : Clearing(h)' <=> Clearing(h) BY <1>1 DEF Clearing
<1>5. \A w \in Workers, h \in Files :
           Busy(w)' = Busy(w) /\ LocalTexts(running[w], h)' = LocalTexts(running[w], h)
  BY <1>1 DEF LocalTexts, Busy
<1>6. \A h \in Files \ {f} : CacheTexts(h)' \subseteq {text'[h]} \/ Clearing(h)' \/ Awaited(h)'
  BY <1>1, <1>2, <1>3, <1>4 DEF TextsCurrent
<1>7. \A w \in Workers, h \in Files \ {f} :
          Busy(w)' => LocalTexts(running[w], h)' \subseteq {text'[h]} \/ Awaited(h)'
  BY <1>1, <1>2, <1>5 DEF TextsCurrent
<1>8. CASE \E r \in opened : f \in RootFiles(r)
  <2>1. \A r \in opened : f \in RootFiles(r) => Due(r, f)' BY EditQueue DEF Due
  <2>2. \E k \in DOMAIN jobs' : jobs'[k].file = {f} BY <1>8, EditQueue
  <2>3. \A l \in DOMAIN jobs' : jobs'[l].root \in opened
    BY EditQueue DEF JobsAbout, JobAbout
  <2>4. \A w \in Workers : Busy(w)' => running'[w].root \in opened
    BY <1>1, <1>5 DEF JobsAbout, JobAbout
  <2>5. Awaited(f)' BY <2>1, <2>2, <2>3, <2>4 DEF Awaited
  <2>6. QED BY <1>6, <1>7, <2>5 DEF TextsCurrent
<1>9. CASE ~\E r \in opened : f \in RootFiles(r)
  <2>1. CacheTexts(f)' = {} BY <1>3, <1>9 DEF TextsKnown
  <2>2. \A w \in Workers : Busy(w)' => LocalTexts(running[w], f)' = {}
    BY <1>5, <1>9 DEF TextsKnown, JobsAbout, JobAbout
  <2>3. QED BY <1>6, <1>7, <2>1, <2>2 DEF TextsCurrent
<1>10. QED BY <1>8, <1>9

\* What is awaited when a job starts is awaited still or the job sees to it.
LEMMA AwaitedStart ==
    ASSUME Types, JobsAbout, Orderly, NEW w \in Workers, StartJob(w), NEW f, Awaited(f)
    PROVE  Awaited(f)' \/ jobs[1].file = {f}
<1> SUFFICES ASSUME jobs[1].file # {f} PROVE Awaited(f)' OBVIOUS
<1>1. \A r : Due(r, f) => Due(r, f)' BY StartJobQueue DEF Due
<1>2. PICK k \in DOMAIN jobs : jobs[k].file = {f} BY DEF Awaited
<1>3. k # 1 BY <1>2
<1>4. \E i \in DOMAIN jobs' : jobs'[i].file = {f} BY <1>2, <1>3, StartJobQueue
<1>5. ASSUME NEW l \in DOMAIN jobs', f \in RootFiles(jobs'[l].root)
      PROVE  Due(jobs[l].root, f)' \/ \E i \in 1..l : jobs'[i].file = {f}
  <2>1. l + 1 \in DOMAIN jobs /\ jobs'[l] = jobs[l + 1] BY StartJobQueue
  <2>2. Due(jobs[l + 1].root, f) \/ \E i \in 1..(l + 1) : jobs[i].file = {f}
    BY <1>5, <2>1 DEF Awaited
  <2>3. ASSUME NEW i \in 1..(l + 1), jobs[i].file = {f} PROVE \E j \in 1..l : jobs'[j].file = {f}
    <3>1. i # 1 BY <2>3
    <3>2. l \in Nat /\ i \in DOMAIN jobs BY <2>1, StartJobQueue
    <3>3. i - 1 \in 1..l BY <3>1, <3>2
    <3>4. jobs'[i - 1] = jobs[i] BY <3>1, <3>2, StartJobQueue
    <3>5. QED BY <2>3, <3>3, <3>4
  <2>4. QED BY <1>1, <2>1, <2>2, <2>3
<1>6. ASSUME NEW v \in Workers, Busy(v)', f \in RootFiles(running'[v].root)
      PROVE  Due(running[v].root, f)'
  <2>1. v = w BY TheWorker
  <2>2. running'[v] = jobs[1] /\ 1 \in DOMAIN jobs BY <2>1, StartJobQueue
  <2>3. Due(jobs[1].root, f) \/ \E i \in 1..1 : jobs[i].file = {f}
    BY <1>6, <2>2 DEF Awaited
  <2>4. QED BY <1>1, <2>2, <2>3
<1>7. QED BY <1>4, <1>5, <1>6 DEF Awaited

LEMMA TextsStart ==
    ASSUME Types, JobsAbout, TextsCurrent, Orderly, NEW w \in Workers, StartJob(w)
    PROVE  TextsCurrent'
<1>1. text' = text /\ UNCHANGED moduleVars BY DEF StartJob, textVars
<1>2. \A f \in Files : CacheTexts(f)' = CacheTexts(f) BY <1>1 DEF CacheTexts, moduleVars
<1>3. \A f : ~Clearing(f)
  <2>1. running[w] = Idle BY StartJobQueue
  <2>2. QED BY <2>1, TheWorker DEF Steps
<1>4. running'[w].step = "start" /\ running'[w].file = jobs[1].file BY StartedJob
<1>5. \A f : jobs[1].file = {f} => Clearing(f)' BY <1>4 DEF Clearing, Early
<1>6. \A f \in Files : CacheTexts(f)' \subseteq {text'[f]} \/ Clearing(f)' \/ Awaited(f)'
  BY <1>1, <1>2, <1>3, <1>5, AwaitedStart DEF TextsCurrent
<1>7. \A f \in Files : LocalTexts(running[w], f)' = {} BY StartedJob DEF LocalTexts
<1>8. QED BY <1>6, <1>7, TheWorker DEF TextsCurrent

\* The queue and the roots of jobs stay the same while a job runs.
LEMMA WorkQueue ==
    ASSUME Types, JobsAbout, NEW w \in Workers, Flow(w)
    PROVE  /\ \A r, f : Due(r, f)' <=> Due(r, f)
           /\ \A f : Awaited(f) => Awaited(f)'
           /\ Busy(w)
<1>1. Busy(w) BY RunningJob DEF Flow, StepFacts, Types, CompileJobs
<1>2. jobs' = jobs BY DEF Flow, StepFacts
<1>3. \A r, f : Due(r, f)' <=> Due(r, f) BY <1>2 DEF Due
<1>4. \A v \in Workers : Busy(v)' => Busy(v) /\ running'[v].root = running[v].root
  BY <1>1 DEF Flow, StepFacts, Ends, JobFacts, Busy
<1>5. \A f : Awaited(f) => Awaited(f)' BY <1>2, <1>3, <1>4 DEF Awaited
<1>6. QED BY <1>1, <1>3, <1>5

LEMMA TextsWork ==
    ASSUME Types, JobsAbout, TextsCurrent, Orderly, NEW w \in Workers, WorkStep(w)
    PROVE  TextsCurrent'
<1>1. Flow(w) BY WorkFlow
<1>2. StepFacts(w) /\ CacheFacts(w) /\ ClearFacts(w) BY <1>1 DEF Flow
<1>3. text' = text /\ running[w] \in CompileJobs BY <1>2 DEF StepFacts
<1>4. Busy(w) /\ \A f : Awaited(f) => Awaited(f)' BY <1>1, WorkQueue
<1>5. \A f \in Files : LocalTexts(running[w], f) \subseteq {text[f]} \/ Awaited(f)
  BY <1>4 DEF TextsCurrent
<1>6. ASSUME NEW f \in Files, running[w].step \notin Early PROVE Readable(w, f) \subseteq {text[f]} \/ Awaited(f)
  <2>1. CacheTexts(f) \subseteq {text[f]} \/ Awaited(f)
    BY <1>6, TheWorker DEF TextsCurrent
  <2>2. QED BY <1>5, <2>1 DEF Readable
<1>7. ASSUME NEW f \in Files, running[w].step \in Early PROVE Readable(w, f) \subseteq {text[f]} \/ Awaited(f)
  BY <1>5, <1>7 DEF Readable
<1>8. \A f \in Files : Readable(w, f) \subseteq {text[f]} \/ Awaited(f) BY <1>6, <1>7
<1>9. ASSUME NEW f \in Files, Clearing(f) PROVE CacheTexts(f)' \subseteq {text'[f]} \/ Clearing(f)'
  <2>1. running[w].step \in Early /\ running[w].file = {f} BY <1>9, TheWorker
  <2>2. CASE running[w].step = "start"
    <3>1. running'[w].step = "clear" /\ running'[w].file = {f}
      BY <1>1, <2>1, <2>2 DEF Flow, Ends, JobFacts, Leads
    <3>2. QED BY <3>1 DEF Clearing, Early
  <2>3. CASE running[w].step = "clear" BY <1>2, <1>3, <2>1, <2>3 DEF ClearFacts
  <2>4. QED BY <2>1, <2>2, <2>3 DEF Early
<1>10. \A f \in Files : CacheTexts(f)' \subseteq {text'[f]} \/ Clearing(f)' \/ Awaited(f)'
  BY <1>2, <1>3, <1>4, <1>8, <1>9 DEF CacheFacts, TextsCurrent
<1>11. \A f \in Files : Busy(w)' => LocalTexts(running[w], f)' \subseteq {text'[f]} \/ Awaited(f)'
  <2>1. \A f \in Files : Busy(w)' => LocalTexts(running'[w], f) \subseteq Readable(w, f)
    BY <1>1 DEF Flow, Ends, Busy, LocalFacts
  <2>2. \A f \in Files : LocalTexts(running[w], f)' = LocalTexts(running'[w], f) BY DEF LocalTexts
  <2>3. QED BY <1>3, <1>4, <1>8, <2>1, <2>2
<1>12. QED BY <1>10, <1>11, TheWorker DEF TextsCurrent

LEMMA TextsStep ==
    ASSUME Types, JobsAbout, TextsKnown, TextsCurrent, Orderly, [CachesNext]_cacheVars
    PROVE  TextsCurrent'
<1>1. ASSUME NEW r \in Roots, OpenRoot(r) PROVE TextsCurrent'
  <2>1. running' = running /\ text' = text /\ UNCHANGED moduleVars BY <1>1 DEF OpenRoot
  <2>2. \A f : Awaited(f) => Awaited(f)' BY <1>1, OpenRootGrows, QueueGrows
  <2>3. \A f : Clearing(f)' <=> Clearing(f) BY <2>1 DEF Clearing
  <2>4. \A f \in Files : CacheTexts(f)' = CacheTexts(f) BY <2>1 DEF CacheTexts, moduleVars
  <2>5. QED BY <2>1, <2>2, <2>3, <2>4 DEF TextsCurrent, LocalTexts, Busy
<1>2. CASE UNCHANGED cacheVars
  <2>1. running' = running /\ text' = text /\ jobs' = jobs /\ UNCHANGED moduleVars
    BY <1>2 DEF cacheVars, poolVars, textVars
  <2>2. \A r, f : Due(r, f)' <=> Due(r, f) BY <2>1 DEF Due
  <2>3. \A f : Awaited(f)' <=> Awaited(f) BY <2>1, <2>2 DEF Awaited, Busy
  <2>4. \A f : Clearing(f)' <=> Clearing(f) BY <2>1 DEF Clearing
  <2>5. QED BY <2>1, <2>3, <2>4 DEF TextsCurrent, CacheTexts, LocalTexts, Busy, moduleVars
<1>3. QED BY <1>1, <1>2, TextsEdit, TextsStart, TextsWork, NextCases

-----------------------------------------------------------------------------
(* A job finds its program. *)

LEMMA CurrentType ==
    ASSUME Types PROVE Current \in [Files -> SUBSET Sources] /\ NoScopes \in Scopes
  BY DEF Current, Types, TextTypes, NoScopes, Scopes

\* What the files of a package import belongs to a program with the package.
LEMMA CurrentImports ==
    ASSUME Types, NEW r \in Roots, NEW p \in Pkgs
    PROVE  /\ \A f \in PkgFiles[r][p] : Existing(r, text[f].imports) \subseteq ImportsOf(r, Current, p)
           /\ \A q \in ImportsOf(r, Current, p) :
                 \E f \in PkgFiles[r][p] : q \in Existing(r, text[f].imports)
<1>1. PkgFiles[r][p] \in SUBSET Files BY PkgFilesType
<1>2. \A f \in PkgFiles[r][p] : Current[f] = {text[f]} BY <1>1 DEF Current
<1>3. UNION {UNION {t.imports : t \in Current[f]} : f \in PkgFiles[r][p]}
        = UNION {text[f].imports : f \in PkgFiles[r][p]}
  <2>1. \A f \in PkgFiles[r][p] : UNION {t.imports : t \in Current[f]} = text[f].imports BY <1>2
  <2>2. QED BY <2>1
<1>4. ImportsOf(r, Current, p) = Existing(r, UNION {text[f].imports : f \in PkgFiles[r][p]})
  BY <1>3 DEF ImportsOf
<1>5. QED BY <1>4 DEF Existing

LEMMA ProgramFacts ==
    ASSUME Types, NEW r \in Roots
    PROVE  /\ MainPkg \in ProgramPkgs(r) /\ ProgramPkgs(r) \subseteq Pkgs
           /\ \A p \in ProgramPkgs(r) : \A f \in PkgFiles[r][p] :
                 Existing(r, text[f].imports) \subseteq ProgramPkgs(r)
           /\ \A T \in SUBSET Pkgs :
                 /\ MainPkg \in T
                 /\ \A p \in T : \A f \in PkgFiles[r][p] : Existing(r, text[f].imports) \subseteq T
                 => ProgramPkgs(r) \subseteq T
           /\ \A p \in ProgramPkgs(r) : PkgFiles[r][p] # {}
<1>1. Current \in [Files -> SUBSET Sources] /\ NoScopes \in Scopes /\ {MainPkg} \in SUBSET Pkgs
  BY CurrentType, CachesAssumption
<1>2. \A q \in Pkgs : NoScopes[q] = {} BY DEF NoScopes
<1>3. /\ {MainPkg} \subseteq ProgramPkgs(r) /\ ProgramPkgs(r) \subseteq Pkgs
      /\ \A q \in ProgramPkgs(r) : NoScopes[q] = {} => ImportsOf(r, Current, q) \subseteq ProgramPkgs(r)
      /\ \A T \in SUBSET Pkgs :
            {MainPkg} \subseteq T /\ (\A q \in T : NoScopes[q] = {} => ImportsOf(r, Current, q) \subseteq T)
                => ProgramPkgs(r) \subseteq T
  BY <1>1, VisitedFacts DEF ProgramPkgs
<1>4. MainPkg \in ProgramPkgs(r) /\ ProgramPkgs(r) \subseteq Pkgs BY <1>3
<1>5. \A p \in ProgramPkgs(r) : \A f \in PkgFiles[r][p] :
         Existing(r, text[f].imports) \subseteq ProgramPkgs(r)
  BY <1>2, <1>3, CurrentImports
<1>6. ASSUME NEW T \in SUBSET Pkgs, MainPkg \in T,
             \A p \in T : \A f \in PkgFiles[r][p] : Existing(r, text[f].imports) \subseteq T
      PROVE  ProgramPkgs(r) \subseteq T
  <2>1. \A q \in T : ImportsOf(r, Current, q) \subseteq T BY <1>6, CurrentImports
  <2>2. QED BY <1>3, <1>6, <2>1
<1>7. \A p \in ProgramPkgs(r) : PkgFiles[r][p] # {}
  <2> DEFINE T == {p \in Pkgs : PkgFiles[r][p] # {}}
  <2>1. MainPkg \in T BY CachesAssumption
  <2>2. \A p \in T : \A f \in PkgFiles[r][p] : Existing(r, text[f].imports) \subseteq T
    <3>1. \A p \in Pkgs : \A f \in PkgFiles[r][p] : text[f].imports \subseteq Pkgs
      BY PkgFilesType DEF Types, TextTypes, Sources, Importable
    <3>2. QED BY <3>1 DEF Existing
  <2>3. ProgramPkgs(r) \subseteq T BY <1>6, <2>1, <2>2
  <2>4. QED BY <2>3
<1>8. QED BY <1>4, <1>5, <1>6, <1>7

\* The units that imports lead to.
LEMMA ImportedUnits ==
    ASSUME Types, NEW r \in Roots, NEW S \in SUBSET Pkgs
    PROVE  /\ \A x \in PkgFilesOf(r, S) :
                 /\ x[2] \in Existing(r, S)
                 /\ PkgFilesOf(r, {x[2]}) \subseteq PkgFilesOf(r, S)
           /\ \A T : Existing(r, S) \subseteq T => PkgFilesOf(r, S) \subseteq PkgFilesOf(r, T)
  BY DEF PkgFilesOf, Existing

LEMMA UnitsAre ==
    ASSUME NEW r, NEW p
    PROVE  \A x : x \in PkgFilesOf(r, {p}) <=> \E f \in PkgFiles[r][p] : x = <<f, p>>
  BY DEF PkgFilesOf

\* The imports of the units of a program lead to units of the program.
LEMMA FoundImports ==
    ASSUME Types, NEW r \in Roots, NEW x \in PkgFilesOf(r, ProgramPkgs(r))
    PROVE  PkgFilesOf(r, text[x[1]].imports) \subseteq PkgFilesOf(r, ProgramPkgs(r))
<1>1. x[2] \in ProgramPkgs(r) /\ x[1] \in PkgFiles[r][x[2]] BY PkgFilesType
<1>2. Existing(r, text[x[1]].imports) \subseteq ProgramPkgs(r) BY <1>1, ProgramFacts
<1>3. text[x[1]].imports \in SUBSET Pkgs
  <2>1. x[1] \in Files BY <1>1, ProgramFacts, PkgFilesType
  <2>2. QED BY <2>1 DEF Types, TextTypes, Sources, Importable
<1>4. QED BY <1>2, <1>3, ImportedUnits

\* Once nothing is left to do, everything was found.
LEMMA FoundAll ==
    ASSUME Types, NEW job \in CompileJobs, FoundOf(job), job.todo = {}
    PROVE  /\ job.found = PkgFilesOf(job.root, ProgramPkgs(job.root))
           /\ PkgsOf(job) = ProgramPkgs(job.root)
<1> DEFINE r == job.root
           T == {p \in Pkgs : PkgFilesOf(r, {p}) \subseteq job.found}
<1>1. r \in Roots BY DEF CompileJobs
<1>2. MainPkg \in T BY CachesAssumption DEF FoundOf
<1>3. ASSUME NEW p \in T, NEW f \in PkgFiles[r][p], NEW q \in Existing(r, text[f].imports)
      PROVE  q \in T
  <2>1. <<f, p>> \in job.found BY <1>3, UnitsAre
  <2>2. PkgFilesOf(r, text[f].imports) \subseteq job.found
    <3>1. <<f, p>>[1] = f OBVIOUS
    <3>2. QED BY <2>1, <3>1 DEF FoundOf
  <2>3. q \in text[f].imports /\ q \in Pkgs
    <3>1. f \in Files BY <1>1, PkgFilesType
    <3>2. QED BY <3>1 DEF Existing, Types, TextTypes, Sources, Importable
  <2>4. PkgFilesOf(r, {q}) \subseteq PkgFilesOf(r, text[f].imports) BY <2>3, PkgFilesOfMonotone
  <2>5. QED BY <2>2, <2>3, <2>4
<1>4. ProgramPkgs(r) \subseteq T
  <2>1. T \in SUBSET Pkgs OBVIOUS
  <2>2. \A p \in T : \A f \in PkgFiles[r][p] : Existing(r, text[f].imports) \subseteq T BY <1>3
  <2> HIDE DEF T
  <2>3. QED BY <1>1, <1>2, <2>1, <2>2, ProgramFacts
<1>5. PkgFilesOf(r, ProgramPkgs(r)) \subseteq job.found
  BY <1>4 DEF PkgFilesOf
<1>6. job.found = PkgFilesOf(r, ProgramPkgs(r)) BY <1>5 DEF FoundOf
<1>7. PkgsOf(job) = ProgramPkgs(r)
  <2>1. ASSUME NEW p \in ProgramPkgs(r) PROVE p \in PkgsOf(job)
    <3>1. PICK f : f \in PkgFiles[r][p] BY <1>1, ProgramFacts
    <3>2. <<f, p>> \in job.found BY <1>6, <3>1, PkgFilesOfMember
    <3>3. <<f, p>>[2] = p OBVIOUS
    <3>4. QED BY <3>2, <3>3 DEF PkgsOf
  <2>2. \A x \in job.found : x[2] \in ProgramPkgs(r) BY <1>1, <1>6, PkgFilesType
  <2>3. PkgsOf(job) \subseteq ProgramPkgs(r) BY <2>2 DEF PkgsOf
  <2>4. QED BY <2>1, <2>3
<1>8. QED BY <1>6, <1>7

\* What is found depends on the imports only.
LEMMA ProgramSame ==
    ASSUME Types, Types', \A f \in Files : text'[f].imports = text[f].imports, NEW r \in Roots
    PROVE  ProgramPkgs(r)' = ProgramPkgs(r)
<1>1. ASSUME NEW p \in Pkgs PROVE ImportsOf(r, Current', p) = ImportsOf(r, Current, p)
  <2>1. PkgFiles[r][p] \in SUBSET Files BY PkgFilesType
  <2>2. \A f \in PkgFiles[r][p] : UNION {t.imports : t \in Current'[f]} = UNION {t.imports : t \in Current[f]}
    BY <2>1 DEF Current
  <2>3. QED BY <2>2 DEF ImportsOf
<1>2. Current \in [Files -> SUBSET Sources] /\ Current' \in [Files -> SUBSET Sources]
  BY DEF Current, Types, TextTypes
<1>3. NoScopes \in Scopes /\ {MainPkg} \in SUBSET Pkgs BY CachesAssumption DEF NoScopes, Scopes
<1>4. Visited(r, Current', NoScopes, {MainPkg}) = Visited(r, Current, NoScopes, {MainPkg})
  <2> DEFINE C == Current  D == Current'
  <2>1. /\ C \in [Files -> SUBSET Sources] /\ D \in [Files -> SUBSET Sources]
        /\ \A p \in Pkgs : ImportsOf(r, D, p) = ImportsOf(r, C, p)
    BY <1>1, <1>2
  <2> HIDE DEF C, D
  <2>2. Visited(r, D, NoScopes, {MainPkg}) = Visited(r, C, NoScopes, {MainPkg})
    BY <1>3, <2>1, VisitedSame
  <2>3. QED BY <2>2 DEF C, D
<1>5. QED BY <1>4 DEF ProgramPkgs

LEMMA FoundOfSame ==
    ASSUME Types, Types', \A f \in Files : text'[f].imports = text[f].imports,
           NEW job \in CompileJobs, NEW next \in CompileJobs,
           next.root = job.root, next.found = job.found, next.todo = job.todo, FoundOf(job)
    PROVE  FoundOf(next)'
<1>1. job.root \in Roots BY DEF CompileJobs
<1>2. ProgramPkgs(job.root)' = ProgramPkgs(job.root) BY <1>1, ProgramSame
<1>3. \A x \in job.found : x[1] \in Files BY DEF CompileJobs, Units
<1>4. QED BY <1>2, <1>3 DEF FoundOf

\* A file is followed: its imports are added to what was found.
LEMMA FoundOfDiscover ==
    ASSUME Types, NEW job \in CompileJobs, FoundOf(job), NEW x \in job.todo, NEW next \in CompileJobs,
           next.root = job.root,
           next.found = job.found \cup PkgFilesOf(job.root, text[x[1]].imports),
           next.todo = (job.todo \ {x}) \cup (PkgFilesOf(job.root, text[x[1]].imports) \ job.found)
    PROVE  /\ FoundOf(next)
           /\ \A y \in next.found \ next.todo : y \in job.found \ job.todo \/ y = x
<1> DEFINE r == job.root
           deps == PkgFilesOf(r, text[x[1]].imports)
<1>1. r \in Roots BY DEF CompileJobs
<1>2. x \in PkgFilesOf(r, ProgramPkgs(r)) BY DEF FoundOf
<1>3. deps \subseteq PkgFilesOf(r, ProgramPkgs(r)) BY <1>1, <1>2, FoundImports
<1>4. x[1] \in Files BY DEF CompileJobs, Units
<1>5. text[x[1]].imports \in SUBSET Pkgs BY <1>4 DEF Types, TextTypes, Sources, Importable
<1>6. \A y \in deps : PkgFilesOf(r, {y[2]}) \subseteq deps BY <1>1, <1>5, ImportedUnits
<1> HIDE DEF deps
<1>7. next.found = job.found \cup deps /\ next.todo = (job.todo \ {x}) \cup (deps \ job.found)
  BY DEF deps
<1>8. \A y \in next.found \ next.todo : y \in job.found \ job.todo \/ y = x BY <1>7
<1>9. \A y \in next.found \ next.todo : PkgFilesOf(r, text[y[1]].imports) \subseteq next.found
  <2>1. TAKE y \in next.found \ next.todo
  <2>2. CASE y = x BY <1>7, <2>2 DEF deps
  <2>3. CASE y \in job.found \ job.todo BY <1>7, <2>3 DEF FoundOf
  <2>4. QED BY <1>8, <2>2, <2>3
<1>10. \A y \in next.found : PkgFilesOf(r, {y[2]}) \subseteq next.found BY <1>6, <1>7 DEF FoundOf
<1>11. /\ PkgFilesOf(r, {MainPkg}) \subseteq next.found
       /\ next.found \subseteq PkgFilesOf(r, ProgramPkgs(r)) /\ next.todo \subseteq next.found
  BY <1>3, <1>7 DEF FoundOf
<1>12. QED BY <1>8, <1>9, <1>10, <1>11 DEF FoundOf

LEMMA LoadCodeFound ==
    ASSUME Types, JobsAbout, ProgramFound, NEW w \in Workers, LoadCode(w)
    PROVE  FoundBy(running[w])'
<1> DEFINE job == running[w]
           code == [f \in Files |-> IF f \in PkgFiles[job.root][MainPkg] THEN {text[f]} ELSE {}]
<1>1. job \in CompileJobs /\ job.step = "start" /\ job.root \in Roots
  BY AboutRunning, StepsAre DEF LoadCode, At
<1>2. code \in [Files -> SUBSET Sources] BY DEF Types, TextTypes
<1>3. PkgFiles[job.root][MainPkg] \in SUBSET Files BY <1>1, PkgFilesType, CachesAssumption
<1>4. \A f \in PkgFiles[job.root][MainPkg] : code[f] # {} BY <1>3
<1> HIDE DEF code
<1>5. [job EXCEPT !.code = code] \in CompileJobs BY <1>1, <1>2 DEF CompileJobs
<1>6. Goto(w, "clear", [job EXCEPT !.code = code]) BY DEF LoadCode, code
<1>7. /\ running'[w].code = code /\ running'[w].step = "clear"
      /\ running'[w].root = job.root /\ running'[w].unimported = job.unimported
  BY <1>1, <1>5, <1>6, GotoFacts DEF Types, CompileJobs
<1>8. job.unimported = {} BY <1>1, StepsAre DEF ProgramFound, FoundBy
<1>9. QED BY <1>4, <1>7, <1>8 DEF FoundBy, Parsing, Parsed, Checked

LEMMA ClearChangedFound ==
    ASSUME Types, JobsAbout, ProgramFound, NEW w \in Workers, ClearChanged(w)
    PROVE  FoundBy(running[w])'
<1> DEFINE job == running[w]
<1>1. job \in CompileJobs /\ job.step = "clear" BY AboutRunning, StepsAre DEF ClearChanged, At
<1>2. Goto(w, "main", job) BY DEF ClearChanged
<1>3. /\ running'[w].code = job.code /\ running'[w].step = "main"
      /\ running'[w].root = job.root /\ running'[w].unimported = job.unimported
  BY <1>1, <1>2, GotoFacts DEF Types
<1>4. job.unimported = {} /\ \A f \in PkgFiles[job.root][MainPkg] : job.code[f] # {}
  BY <1>1, StepsAre DEF ProgramFound, FoundBy
<1>5. QED BY <1>3, <1>4 DEF FoundBy, Parsing, Parsed, Checked

LEMMA ParseMainFound ==
    ASSUME Types, Types', JobsAbout, ImportsCurrent, ProgramFound, NEW w \in Workers, ParseMain(w)
    PROVE  FoundBy(running[w])'
<1> DEFINE job == running[w]
           r == job.root
           main == PkgFiles[r][MainPkg]
           deps == UNION {PkgFilesOf(r, t.imports) : t \in UNION {job.code[f] : f \in main}}
           found == (main \X {MainPkg}) \cup deps
           next == [job EXCEPT !.found = found, !.todo = deps]
<1>1. job \in CompileJobs /\ job.step = "main" /\ r \in Roots /\ Busy(w)
  BY AboutRunning, StepsAre DEF ParseMain, At
<1>2. main \in SUBSET Files /\ job.code \in [Files -> SUBSET Sources]
  BY <1>1, PkgFilesType, CachesAssumption DEF CompileJobs
<1>3. job.unimported = {} /\ \A f \in main : job.code[f] # {}
  BY <1>1, StepsAre DEF ProgramFound, FoundBy
<1>4. \A f \in main : \A t \in job.code[f] : t.imports = text[f].imports
  BY <1>1, <1>2, LocalTextsMember DEF ImportsCurrent
<1>5. /\ \A f \in main : PkgFilesOf(r, text[f].imports) \subseteq deps
      /\ \A x \in deps : \E f \in main : x \in PkgFilesOf(r, text[f].imports)
  BY <1>3, <1>4
<1>6. Goto(w, "parse", next) BY DEF ParseMain
<1>7. \A f \in main : ast_cache'[f] # {} BY <1>2, <1>3 DEF ParseMain
<1>8. text' = text BY DEF ParseMain, textVars
<1> HIDE DEF deps
<1>9. \A f \in main : <<f, MainPkg>> \in PkgFilesOf(r, ProgramPkgs(r))
  BY <1>1, ProgramFacts, PkgFilesOfMember
<1>10. \A f \in main : PkgFilesOf(r, text[f].imports) \subseteq PkgFilesOf(r, ProgramPkgs(r))
  <2>1. TAKE f \in main
  <2>2. <<f, MainPkg>>[1] = f OBVIOUS
  <2>3. QED BY <1>1, <1>9, <2>2, FoundImports
<1>11. \A f \in main : text[f].imports \in SUBSET Pkgs
  BY <1>2 DEF Types, TextTypes, Sources, Importable
<1>12. deps \subseteq PkgFilesOf(r, ProgramPkgs(r)) BY <1>5, <1>10
<1>13. \A x \in deps : PkgFilesOf(r, {x[2]}) \subseteq deps
  <2>1. TAKE x \in deps
  <2>2. PICK f \in main : x \in PkgFilesOf(r, text[f].imports) BY <1>5
  <2>3. PkgFilesOf(r, {x[2]}) \subseteq PkgFilesOf(r, text[f].imports)
    BY <1>1, <1>11, <2>2, ImportedUnits
  <2>4. QED BY <1>5, <2>3
<1>14. PkgFilesOf(r, {MainPkg}) = main \X {MainPkg} BY DEF PkgFilesOf
<1>15. \A x \in main \X {MainPkg} : x[1] \in main /\ x[2] = MainPkg /\ x \in PkgFilesOf(r, ProgramPkgs(r))
  BY <1>9
<1>16. found \in SUBSET Units /\ deps \in SUBSET Units
  <2>1. PkgFilesOf(r, ProgramPkgs(r)) \in SUBSET Units BY <1>1, ProgramFacts, PkgFilesType
  <2>2. QED BY <1>12, <1>15, <2>1
<1>17. /\ \A x \in found : (x[1] \in main /\ x[2] = MainPkg) \/ x \in deps
       /\ \A x \in found \ deps : x[1] \in main
       /\ deps \subseteq found /\ PkgFilesOf(r, {MainPkg}) \subseteq found
       /\ found \subseteq PkgFilesOf(r, ProgramPkgs(r))
  BY <1>12, <1>14, <1>15
<1> HIDE DEF found
<1>18. /\ next \in CompileJobs /\ next.root = r /\ next.found = found /\ next.todo = deps
       /\ next.unimported = {}
  BY <1>1, <1>3, <1>16 DEF CompileJobs
<1> HIDE DEF next
<1>19. /\ running'[w].step = "parse" /\ running'[w].root = r /\ running'[w].unimported = {}
       /\ running'[w].found = found /\ running'[w].todo = deps
  BY <1>6, <1>18, GotoFacts DEF Types
<1>20. \A x \in found : PkgFilesOf(r, {x[2]}) \subseteq found
  BY <1>13, <1>17
<1>21. \A x \in found \ deps : PkgFilesOf(r, text[x[1]].imports) \subseteq found
  BY <1>5, <1>17
<1>22. \A s \in Roots : ProgramPkgs(s)' = ProgramPkgs(s) BY <1>8, ProgramSame
<1>23. FoundOf(running[w])'
  BY <1>1, <1>8, <1>17, <1>19, <1>20, <1>21, <1>22 DEF FoundOf
<1>24. QED BY <1>7, <1>17, <1>19, <1>23 DEF FoundBy, Parsing, Parsed, Checked

\* A job that follows file x with the imports of its text.
LEMMA DiscoverFound ==
    ASSUME Types, Types', JobsAbout, ProgramFound, NEW w \in Workers, running[w].step \in Parsing,
           NEW x \in running[w].todo, text' = text, ast_cache'[x[1]] # {},
           \A f \in Files : ast_cache[f] # {} => ast_cache'[f] # {},
           Goto(w, "parse", Discover(running[w], x, text[x[1]].imports))
    PROVE  FoundBy(running[w])'
<1> DEFINE job == running[w]
           deps == PkgFilesOf(job.root, text[x[1]].imports)
           next == Discover(job, x, text[x[1]].imports)
<1>1. job.step \in Steps BY DEF Steps
<1>2. job \in CompileJobs BY <1>1, AboutRunning
<1>3. /\ FoundOf(job) /\ job.unimported = {}
      /\ \A y \in job.found \ job.todo : ast_cache[y[1]] # {}
  BY <1>1 DEF ProgramFound, FoundBy
<1>4. x \in Units /\ x[1] \in Files /\ \A y \in job.found : y[1] \in Files
  BY <1>2 DEF CompileJobs, Units
<1>5. text[x[1]].imports \in SUBSET Importable BY <1>4 DEF Types, TextTypes, Sources
<1>6. /\ next \in CompileJobs /\ next.root = job.root
      /\ next.found = job.found \cup deps
      /\ next.todo = (job.todo \ {x}) \cup (deps \ job.found)
      /\ next.unimported = job.unimported
  BY <1>2, <1>4, <1>5, DiscoverFacts
<1> HIDE DEF next
<1>7. /\ FoundOf(next)
      /\ \A y \in next.found \ next.todo : y \in job.found \ job.todo \/ y = x
  BY <1>2, <1>3, <1>6, FoundOfDiscover
<1>8. /\ running'[w] \in CompileJobs /\ running'[w].step = "parse" /\ running'[w].root = next.root
      /\ running'[w].found = next.found /\ running'[w].todo = next.todo
      /\ running'[w].unimported = next.unimported
  <2>1. Goto(w, "parse", next) BY DEF next
  <2>2. QED BY <1>6, <2>1, StepsAre, GotoFacts DEF Types
<1>9. FoundOf(running[w])' BY <1>6, <1>7, <1>8, FoundOfSame
<1>10. \A y \in next.found \ next.todo : ast_cache'[y[1]] # {} BY <1>3, <1>4, <1>7
<1>11. QED BY <1>3, <1>6, <1>8, <1>9, <1>10 DEF FoundBy, Parsing, Parsed, Checked

LEMMA FollowCachedFound ==
    ASSUME Types, Types', JobsAbout, ImportsCurrent, ProgramFound, Orderly,
           NEW w \in Workers, FollowCached(w)
    PROVE  FoundBy(running[w])'
<1>1. running[w] \in CompileJobs /\ running[w].step = "parse"
  BY AboutRunning, StepsAre DEF FollowCached, At
<1>2. PICK x \in running[w].todo :
          ast_cache[x[1]] # {} /\ Goto(w, "parse", Discover(running[w], x, CachedImports(x)))
  BY DEF FollowCached
<1>3. x[1] \in Files /\ x[2] \in Pkgs BY <1>1 DEF CompileJobs, Units
<1>4. CacheImports(x[1]) BY <1>1, <1>3, ReadableImports DEF Early
<1>5. CachedImports(x) = text[x[1]].imports
  <2>1. CASE dep_cache[x[1]][x[2]] # {}
    <3>1. dep_cache[x[1]][x[2]] = {text[x[1]].imports} BY <1>3, <1>4, <2>1 DEF CacheImports
    <3>2. QED BY <2>1, <3>1 DEF CachedImports
  <2>2. CASE dep_cache[x[1]][x[2]] = {}
    <3>1. \A t \in ast_cache[x[1]] : t.imports = text[x[1]].imports
      BY <1>4 DEF CacheImports, CacheTexts
    <3>2. {t.imports : t \in ast_cache[x[1]]} = {text[x[1]].imports} BY <1>2, <3>1
    <3>3. QED BY <2>2, <3>2 DEF CachedImports
  <2>3. QED BY <2>1, <2>2
<1>6. text' = text /\ ast_cache' = ast_cache BY DEF FollowCached, textVars, moduleVars
<1>7. QED BY <1>1, <1>2, <1>5, <1>6, DiscoverFound DEF Parsing

LEMMA ReadFileFound ==
    ASSUME Types, Types', JobsAbout, ProgramFound, NEW w \in Workers, ReadFile(w)
    PROVE  FoundBy(running[w])'
<1> DEFINE job == running[w]
<1>1. job \in CompileJobs /\ job.step = "parse" BY AboutRunning, StepsAre DEF ReadFile, At
<1>2. PICK x \in job.todo :
          Goto(w, "write", [job EXCEPT !.parsing = {<<x, t>> : t \in Source(x[1])}])
  BY DEF ReadFile
<1> DEFINE parsing == {<<x, t>> : t \in Source(x[1])}
           next == [job EXCEPT !.parsing = parsing]
<1>3. x \in Units /\ x[1] \in Files BY <1>1 DEF CompileJobs, Units
<1>4. parsing \in SUBSET (Units \X Sources) BY <1>3, SourceType DEF Types
<1>5. \A y \in parsing : y[1] = x OBVIOUS
<1> HIDE DEF parsing
<1>6. /\ next \in CompileJobs /\ next.root = job.root /\ next.parsing = parsing
      /\ next.found = job.found /\ next.todo = job.todo /\ next.unimported = job.unimported
  BY <1>1, <1>4 DEF CompileJobs
<1> HIDE DEF next
<1>7. /\ running'[w] \in CompileJobs /\ running'[w].step = "write" /\ running'[w].root = job.root
      /\ running'[w].found = job.found /\ running'[w].todo = job.todo
      /\ running'[w].unimported = job.unimported /\ running'[w].parsing = parsing
  <2>1. Goto(w, "write", next) BY <1>2 DEF next, parsing
  <2>2. QED BY <1>6, <2>1, StepsAre, GotoFacts DEF Types
<1>8. /\ FoundOf(job) /\ job.unimported = {}
      /\ \A y \in job.found \ job.todo : ast_cache[y[1]] # {}
  BY <1>1, StepsAre DEF ProgramFound, FoundBy, Parsing
<1>9. text' = text /\ ast_cache' = ast_cache BY DEF ReadFile, textVars, moduleVars
<1>10. FoundOf(running[w])' BY <1>1, <1>7, <1>8, <1>9, FoundOfSame
<1>11. QED BY <1>2, <1>5, <1>7, <1>8, <1>9, <1>10 DEF FoundBy, Parsing, Parsed, Checked

LEMMA WriteFileFound ==
    ASSUME Types, Types', JobsAbout, ImportsCurrent, ProgramFound, NEW w \in Workers, WriteFile(w)
    PROVE  FoundBy(running[w])'
<1> DEFINE job == running[w]
<1>1. job \in CompileJobs /\ job.step = "write" /\ Busy(w)
  BY AboutRunning, StepsAre DEF WriteFile, At
<1>2. PICK y \in job.parsing :
          /\ ast_cache' = [ast_cache EXCEPT ![y[1][1]] = {y[2]}]
          /\ Goto(w, "parse", Discover(job, y[1], y[2].imports))
  BY DEF WriteFile
<1>3. y[1] \in job.todo BY <1>1 DEF ProgramFound, FoundBy
<1>4. y[1][1] \in Files BY <1>1 DEF CompileJobs, Units
<1>5. y[2].imports = text[y[1][1]].imports
  <2>1. y[2] \in LocalTexts(job, y[1][1]) BY <1>1, <1>4, LocalTextsMember
  <2>2. QED BY <1>1, <1>4, <2>1 DEF ImportsCurrent
<1>6. text' = text BY DEF WriteFile, textVars
<1>7. \A f \in Files : ast_cache'[f] = IF f = y[1][1] THEN {y[2]} ELSE ast_cache[f]
  BY <1>2 DEF Types, ModuleTypes
<1>8. ast_cache'[y[1][1]] # {} /\ \A f \in Files : ast_cache[f] # {} => ast_cache'[f] # {}
  BY <1>4, <1>7
<1>9. QED BY <1>1, <1>2, <1>3, <1>5, <1>6, <1>8, DiscoverFound DEF Parsing

\* A job does not panic, since nobody clears the files it has found.
LEMMA CollectFound ==
    ASSUME Types, Types', JobsAbout, ProgramFound, NEW w \in Workers, Collect(w)
    PROVE  FoundBy(running[w])' /\ running'[w].step = "scan"
<1> DEFINE job == running[w]
           found == {x[1] : x \in job.found}
           mods == [f \in Files |-> IF f \in found THEN ast_cache[f] ELSE {}]
           next == [job EXCEPT !.mods = mods]
<1>1. job \in CompileJobs /\ job.step = "parse" /\ job.todo = {}
  BY AboutRunning, StepsAre DEF Collect, At
<1>2. /\ FoundOf(job) /\ job.unimported = {}
      /\ \A x \in job.found : ast_cache[x[1]] # {}
  BY <1>1, StepsAre DEF ProgramFound, FoundBy, Parsing
<1>3. Goto(w, "scan", next) BY <1>2 DEF Collect
<1>4. mods \in [Files -> SUBSET Sources] BY DEF Types, ModuleTypes
<1>5. \A x \in job.found : x[1] \in Files /\ x[1] \in found BY <1>1 DEF CompileJobs, Units
<1>6. \A x \in job.found : mods[x[1]] # {} BY <1>2, <1>5
<1> HIDE DEF mods
<1>7. /\ next \in CompileJobs /\ next.root = job.root /\ next.mods = mods
      /\ next.found = job.found /\ next.todo = job.todo /\ next.unimported = job.unimported
  BY <1>1, <1>4 DEF CompileJobs
<1> HIDE DEF next
<1>8. /\ running'[w] \in CompileJobs /\ running'[w].step = "scan" /\ running'[w].root = job.root
      /\ running'[w].found = job.found /\ running'[w].todo = job.todo
      /\ running'[w].unimported = job.unimported /\ running'[w].mods = mods
  BY <1>3, <1>7, StepsAre, GotoFacts DEF Types
<1>9. text' = text /\ ast_cache' = ast_cache BY DEF Collect, textVars, moduleVars
<1>10. FoundOf(running[w])' BY <1>1, <1>2, <1>8, <1>9, FoundOfSame
<1>11. QED BY <1>1, <1>2, <1>6, <1>8, <1>9, <1>10 DEF FoundBy, Parsing, Parsed, Checked

\* Every file of an orderly program was parsed, so none is left to scan.
LEMMA ScanUnimportedFound ==
    ASSUME Types, Types', JobsAbout, ImportsCurrent, ProgramFound, NEW w \in Workers, ScanUnimported(w)
    PROVE  FoundBy(running[w])'
<1> DEFINE job == running[w]
           r == job.root
           rest == IF last_compile_input = {r} THEN {} ELSE {f \in RootFiles(r) : ast_cache[f] = {}}
           parsed == [f \in Files |-> IF f \in rest THEN Source(f) ELSE ast_cache[f]]
           deps == UNION {PkgFilesOf(r, t.imports) : t \in UNION {parsed[f] : f \in rest}}
           new == {x \in PkgFilesOf(r, Pkgs) \ job.found : x[1] \in rest \/ x \in deps}
           mods == [f \in Files |-> IF \E x \in new : x[1] = f THEN parsed[f] ELSE job.mods[f]]
           unimported == {x[2] : x \in new}
           next == [job EXCEPT !.mods = mods, !.unimported = unimported]
<1>1. job \in CompileJobs /\ job.step = "scan" /\ r \in Roots
  BY AboutRunning, StepsAre DEF ScanUnimported, At
<1>2. /\ FoundOf(job) /\ job.unimported = {} /\ job.todo = {}
      /\ \A x \in job.found : ast_cache[x[1]] # {} /\ job.mods[x[1]] # {}
  BY <1>1, StepsAre DEF ProgramFound, FoundBy, Parsed
<1>3. job.found = PkgFilesOf(r, ProgramPkgs(r)) BY <1>1, <1>2, FoundAll
<1>4. RootFiles(r) = ProgramFiles(r) BY <1>1 DEF ImportsCurrent, InOrder
<1>5. ASSUME NEW f \in RootFiles(r) PROVE ast_cache[f] # {}
  <2>1. PICK p \in ProgramPkgs(r) : f \in PkgFiles[r][p] BY <1>4 DEF ProgramFiles
  <2>2. <<f, p>> \in job.found BY <1>3, <2>1, PkgFilesOfMember
  <2>3. <<f, p>>[1] = f OBVIOUS
  <2>4. QED BY <1>2, <2>2, <2>3
<1>6. rest = {} BY <1>5
<1>7. new = {} BY <1>6
<1>8. Goto(w, "mark", next) BY <1>1 DEF ScanUnimported, CompileJobs
<1>15. unimported = {} BY <1>7
<1>9. mods = job.mods /\ unimported = {}
  <2>1. job.mods \in [Files -> SUBSET Sources] BY <1>1 DEF CompileJobs
  <2> HIDE DEF new, parsed
  <2>2. mods = [f \in Files |-> job.mods[f]] BY <1>7
  <2>3. QED BY <1>15, <2>1, <2>2
<1> HIDE DEF mods, unimported
<1>10. /\ next \in CompileJobs /\ next.root = job.root /\ next.mods = job.mods
       /\ next.found = job.found /\ next.todo = job.todo /\ next.unimported = {}
  BY <1>1, <1>9 DEF CompileJobs
<1> HIDE DEF next
<1>11. /\ running'[w] \in CompileJobs /\ running'[w].step = "mark" /\ running'[w].root = job.root
       /\ running'[w].found = job.found /\ running'[w].todo = job.todo
       /\ running'[w].unimported = {} /\ running'[w].mods = job.mods
  BY <1>8, <1>10, StepsAre, GotoFacts DEF Types
<1>12. text' = text BY DEF ScanUnimported, textVars
<1>13. FoundOf(running[w])' BY <1>1, <1>2, <1>11, <1>12, FoundOfSame
<1>14. QED BY <1>2, <1>11, <1>13 DEF FoundBy, Parsing, Parsed, Checked

\* The one worker always gets the locks it tries.
LEMMA LocksFree ==
    ASSUME Orderly, NEW w \in Workers
    PROVE  \A locked \in TryWrite(w) \cup TryLock(w) : locked = TRUE
<1>1. Workers \ {w} = {} BY DEF Orderly, OneWorker
<1>2. (\A v \in Workers \ {w} : running[v].step \notin ScopeSteps) = TRUE BY <1>1
<1>3. (\A v \in Workers \ {w} : ~At(v, "symbols")) = TRUE BY <1>1
<1>4. QED BY <1>2, <1>3 DEF TryWrite, TryLock

\* The program of a job is the same from the scan to the end.
SameProgram(w) ==
    /\ running[w] \in CompileJobs /\ running'[w] \in CompileJobs
    /\ running'[w].root = running[w].root /\ running'[w].file = running[w].file
    /\ running'[w].found = running[w].found /\ running'[w].todo = running[w].todo
    /\ running'[w].mods = running[w].mods /\ running'[w].unimported = running[w].unimported
    /\ text' = text /\ jobs' = jobs /\ opened' = opened /\ edits' = edits

LEMMA MarkEffect ==
    ASSUME Types, JobsAbout, Orderly, NEW w \in Workers, MarkChanged(w)
    PROVE  /\ running[w].step = "mark" /\ running'[w].step = "resolve1" /\ SameProgram(w)
           /\ running'[w].scopes = running[w].scopes
           /\ changed' = IF running[w].file # {} THEN running[w].file ELSE changed
           /\ UNCHANGED <<program_root, graph, scope_map, invalidate_pkgs, gs, compiled>>
<1>1. running[w] \in CompileJobs /\ running[w].step = "mark"
  BY AboutRunning, StepsAre DEF MarkChanged, At
<1>2. Goto(w, "resolve1", running[w]) BY DEF MarkChanged
<1>3. /\ text' = text /\ jobs' = jobs /\ opened' = opened /\ edits' = edits
      /\ UNCHANGED <<program_root, graph, scope_map, invalidate_pkgs, gs, compiled>>
  BY DEF MarkChanged, textVars
<1>4. changed' = IF running[w].file # {} THEN running[w].file ELSE changed
  BY LocksFree DEF MarkChanged
<1>5. QED BY <1>1, <1>2, <1>3, <1>4, GotoFacts, StepsAre DEF Types, SameProgram

LEMMA ResolveEffect ==
    ASSUME Types, JobsAbout, Orderly, NEW w \in Workers, Resolve(w)
    PROVE  LET job == running[w]
               c == Updated(job) IN
           /\ job.step = "resolve1" /\ running'[w].step = "resolve2" /\ SameProgram(w)
           /\ running'[w].scopes = Resolved(job, c.scopes)
           /\ program_root' = {job.root} /\ graph' = c.graph /\ scope_map' = c.scopes
           /\ changed' = c.changed /\ invalidate_pkgs' = c.invalid \cup {MainPkg}
           /\ UNCHANGED <<gs, compiled>>
<1> DEFINE job == running[w]
           c == Updated(job)
           scopes == Resolved(job, c.scopes)
           next == [job EXCEPT !.scopes = scopes]
<1>1. job \in CompileJobs /\ job.step = "resolve1" BY AboutRunning, StepsAre DEF Resolve, At
<1>2. c.scopes \in Scopes BY <1>1, UpdatedType DEF Types
<1>3. scopes \in Scopes BY <1>1, <1>2, ResolvedType
<1>4. Goto(w, "resolve2", next) /\ CacheBecomes(job, c, c.scopes, c.changed)
  BY LocksFree DEF Resolve
<1>5. /\ text' = text /\ jobs' = jobs /\ opened' = opened /\ edits' = edits /\ UNCHANGED <<gs, compiled>>
  BY DEF Resolve, textVars
<1> HIDE DEF c, scopes
<1>6. /\ next \in CompileJobs /\ next.root = job.root /\ next.file = job.file
      /\ next.found = job.found /\ next.todo = job.todo /\ next.mods = job.mods
      /\ next.unimported = job.unimported /\ next.scopes = scopes
  BY <1>1, <1>3 DEF CompileJobs
<1> HIDE DEF next
<1>7. /\ running'[w].step = "resolve2" /\ running'[w] \in CompileJobs
      /\ running'[w].root = next.root /\ running'[w].file = next.file
      /\ running'[w].found = next.found /\ running'[w].todo = next.todo
      /\ running'[w].mods = next.mods /\ running'[w].unimported = next.unimported
      /\ running'[w].scopes = next.scopes
  BY <1>4, <1>6, GotoFacts, StepsAre DEF Types
<1>8. SameProgram(w) BY <1>1, <1>5, <1>6, <1>7 DEF SameProgram
<1>9. QED BY <1>1, <1>4, <1>5, <1>6, <1>7, <1>8 DEF CacheBecomes, c, scopes

LEMMA StoreEffect ==
    ASSUME Types, JobsAbout, Orderly, NEW w \in Workers, StoreScopes(w)
    PROVE  LET job == running[w]
               c == Updated(job) IN
           /\ job.step = "resolve2" /\ running'[w].step = "symbols" /\ SameProgram(w)
           /\ running'[w].scopes = job.scopes
           /\ program_root' = {job.root} /\ graph' = c.graph /\ scope_map' = Kept(job.scopes)
           /\ changed' = {} /\ invalidate_pkgs' = c.invalid \cup {MainPkg}
           /\ UNCHANGED <<gs, compiled>>
<1> DEFINE job == running[w]
<1>1. job \in CompileJobs /\ job.step = "resolve2" BY AboutRunning, StepsAre DEF StoreScopes, At
<1>2. Goto(w, "symbols", job) BY DEF StoreScopes
<1>3. CacheBecomes(job, Updated(job), Kept(job.scopes), {}) BY LocksFree DEF StoreScopes
<1>4. /\ text' = text /\ jobs' = jobs /\ opened' = opened /\ edits' = edits /\ UNCHANGED <<gs, compiled>>
  BY DEF StoreScopes, textVars
<1>5. QED BY <1>1, <1>2, <1>3, <1>4, GotoFacts, StepsAre DEF Types, SameProgram, CacheBecomes

LEMMA SymbolsEffect ==
    ASSUME Types, JobsAbout, Orderly, NEW w \in Workers, FindSymbols(w)
    PROVE  LET job == running[w]
               symbols == SymbolsOf(job, gs, invalidate_pkgs) IN
           /\ job \in CompileJobs /\ job.step = "symbols" /\ running'[w] = Idle
           /\ gs' = symbols
           /\ compiled' = [compiled EXCEPT ![job.root] =
                 [scopes |-> job.scopes[MainPkg], symbols |-> ProgramSymbols(job, symbols)]]
           /\ text' = text /\ jobs' = jobs /\ opened' = opened /\ edits' = edits
           /\ UNCHANGED scopeVars
<1>1. running[w] \in CompileJobs /\ running[w].step = "symbols"
  BY AboutRunning, StepsAre DEF FindSymbols, At
<1>2. running'[w] = Idle BY DEF FindSymbols, Types, PoolTypes
<1>3. PICK locked \in TryLock(w), read \in TryWrite(w) :
          LET symbols == SymbolsOf(running[w], IF locked THEN gs ELSE NoScopes,
                                   IF read THEN invalidate_pkgs ELSE {})
          IN  /\ gs' = IF locked THEN symbols ELSE gs
              /\ compiled' = [compiled EXCEPT ![running[w].root] =
                     [scopes |-> running[w].scopes[MainPkg],
                      symbols |-> ProgramSymbols(running[w], symbols)]]
  BY DEF FindSymbols
<1>4. locked = TRUE /\ read = TRUE BY LocksFree
<1>5. text' = text /\ jobs' = jobs /\ opened' = opened /\ edits' = edits /\ UNCHANGED scopeVars
  BY DEF FindSymbols, textVars
<1>6. QED BY <1>1, <1>2, <1>3, <1>4, <1>5

\* The steps before do not touch the CachedScope.
EarlyStep(w) ==
    \/ LoadCode(w) \/ ClearChanged(w) \/ ParseMain(w) \/ FollowCached(w) \/ ReadFile(w)
    \/ WriteFile(w) \/ Collect(w) \/ ScanUnimported(w)
LEMMA EarlyEffect ==
    ASSUME Types, JobsAbout, NEW w \in Workers, EarlyStep(w)
    PROVE  /\ UNCHANGED <<scopeVars, gs, compiled>>
           /\ running[w].step \in Early \cup {"main", "scan"} \cup Parsing
           /\ running'[w] = Idle \/ running'[w].step \in {"clear", "main", "scan", "mark"} \cup Parsing
           /\ Flow(w)
<1>1. WorkStep(w) BY DEF EarlyStep, WorkStep
<1>2. Flow(w) BY <1>1, WorkFlow
<1>3. UNCHANGED <<scopeVars, gs, compiled>>
  BY DEF EarlyStep, LoadCode, ClearChanged, ParseMain, FollowCached, ReadFile, WriteFile, Collect,
         ScanUnimported
<1>4. running[w].step \in Early \cup {"main", "scan"} \cup Parsing
  BY DEF EarlyStep, LoadCode, ClearChanged, ParseMain, FollowCached, ReadFile, WriteFile, Collect,
         ScanUnimported, At, Early, Parsing
<1>5. running'[w] = Idle \/ Leads(running[w].step, running'[w].step)
  BY <1>2 DEF Flow, Ends, JobFacts
<1>6. QED BY <1>2, <1>3, <1>4, <1>5 DEF Leads, Early, Parsing

LEMMA WorkCases ==
    ASSUME NEW w \in Workers, WorkStep(w)
    PROVE  EarlyStep(w) \/ MarkChanged(w) \/ Resolve(w) \/ StoreScopes(w) \/ FindSymbols(w)
  BY DEF WorkStep, EarlyStep

\* A job with the same program still has it.
LEMMA SameProgramFound ==
    ASSUME Types, Types', ProgramFound, NEW w \in Workers, SameProgram(w),
           running[w].step \in {"mark", "resolve1", "resolve2"},
           running'[w].step \in {"resolve1", "resolve2", "symbols"}
    PROVE  FoundBy(running[w])'
<1>1. /\ FoundOf(running[w]) /\ running[w].unimported = {} /\ running[w].todo = {}
      /\ \A x \in running[w].found : running[w].mods[x[1]] # {}
  BY StepsAre DEF ProgramFound, FoundBy, Parsed, Checked
<1>2. FoundOf(running[w])' BY <1>1, FoundOfSame DEF SameProgram
<1>3. QED BY <1>1, <1>2 DEF FoundBy, Parsing, Parsed, Checked, SameProgram

LEMMA WorkFound ==
    ASSUME Types, Types', JobsAbout, ImportsCurrent, ProgramFound, Orderly, NEW w \in Workers, WorkStep(w)
    PROVE  FoundBy(running[w])' /\ (running'[w] = Idle => FindSymbols(w))
<1>1. CASE FindSymbols(w)
  <2>1. running'[w] = Idle BY <1>1, SymbolsEffect
  <2>2. QED BY <1>1, <2>1 DEF FoundBy, Idle, Steps, Early, Parsing, Parsed, Checked
<1>2. CASE MarkChanged(w)
  BY <1>2, MarkEffect, SameProgramFound DEF Idle
<1>3. CASE Resolve(w)
  BY <1>3, ResolveEffect, SameProgramFound DEF Idle
<1>4. CASE StoreScopes(w)
  BY <1>4, StoreEffect, SameProgramFound DEF Idle
<1>5. CASE EarlyStep(w)
  <2>1. FoundBy(running[w])'
    BY <1>5, LoadCodeFound, ClearChangedFound, ParseMainFound, FollowCachedFound, ReadFileFound,
       WriteFileFound, CollectFound, ScanUnimportedFound DEF EarlyStep
  <2>2. CASE Collect(w) BY <2>1, <2>2, CollectFound DEF Idle
  <2>3. CASE ~Collect(w)
    <3>2. Flow(w) /\ running[w].step # "symbols" BY <1>5, EarlyEffect DEF Early, Parsing
    <3>3. running'[w] # Idle \/ Ends(w) BY <3>2 DEF Flow, JobFacts, CompileJobs, Idle, Steps
    <3>4. ~FindSymbols(w) BY <3>2 DEF FindSymbols, At
    <3>5. QED BY <2>1, <2>3, <3>3, <3>4 DEF Ends
  <2>4. QED BY <2>2, <2>3
<1>6. QED BY <1>1, <1>2, <1>3, <1>4, <1>5, WorkCases

LEMMA IdleFound ==
    ASSUME NEW w \in Workers, running'[w] = Idle PROVE FoundBy(running[w])'
  BY DEF FoundBy, Idle, Steps, Early, Parsing, Parsed, Checked

LEMMA FoundBySame ==
    ASSUME Types, Types', ProgramFound, \A f \in Files : text'[f].imports = text[f].imports,
           running' = running, ast_cache' = ast_cache
    PROVE  ProgramFound'
<1>1. ASSUME NEW w \in Workers PROVE FoundBy(running[w])'
  <2>1. CASE running[w] = Idle BY <2>1, IdleFound
  <2>2. CASE running[w] # Idle
    <3>1. running[w] \in CompileJobs BY <2>2, RunningJob DEF Types, Busy
    <3>2. FoundOf(running[w]) => FoundOf(running[w])' BY <3>1, FoundOfSame
    <3>3. QED BY <3>2 DEF ProgramFound, FoundBy
  <2>3. QED BY <2>1, <2>2
<1>2. QED BY <1>1 DEF ProgramFound

\* What an orderly edit does to the imports.
LEMMA OrderlyEdit ==
    ASSUME Types, Orderly, NEW f \in Files, Edit(f)
    PROVE  Settled \/ \A h \in Files : text'[h].imports = text[h].imports
<1>1. MayImport(f, text'[f].imports) /\ \A h \in Files \ {f} : text'[h] = text[h] BY EditTexts
<1>2. QED BY <1>1 DEF MayImport, Orderly

LEMMA FoundStep ==
    ASSUME Types, Types', JobsAbout, ImportsCurrent, ProgramFound, Orderly, [CachesNext]_cacheVars
    PROVE  ProgramFound'
<1>1. ASSUME NEW r \in Roots, OpenRoot(r) PROVE ProgramFound'
  BY <1>1, FoundBySame DEF OpenRoot, moduleVars
<1>2. ASSUME NEW f \in Files, Edit(f) PROVE ProgramFound'
  <2>1. running' = running /\ UNCHANGED moduleVars BY <1>2, EditTexts
  <2>2. CASE Settled
    <3>1. \A w \in Workers : running'[w] = Idle BY <2>1, <2>2 DEF Settled
    <3>2. QED BY <3>1, IdleFound DEF ProgramFound
  <2>3. CASE \A h \in Files : text'[h].imports = text[h].imports
    BY <2>1, <2>3, FoundBySame DEF moduleVars
  <2>4. QED BY <1>2, <2>2, <2>3, OrderlyEdit
<1>3. ASSUME NEW w \in Workers, StartJob(w) PROVE ProgramFound'
  <2>1. 1 \in DOMAIN jobs /\ running'[w] = jobs[1] BY <1>3, StartJobQueue
  <2>2. jobs[1] = Job(jobs[1].root, jobs[1].file) BY <2>1 DEF JobsAbout
  <2>3. \A r, file : Job(r, file).step = "start" /\ Job(r, file).unimported = {} BY DEF Job
  <2>4. running'[w].step = "start" /\ running'[w].unimported = {} BY <2>1, <2>2, <2>3
  <2>5. FoundBy(running[w])' BY <2>4 DEF FoundBy, Parsing, Parsed, Checked
  <2>6. QED BY <2>5, TheWorker DEF ProgramFound
<1>4. ASSUME NEW w \in Workers, WorkStep(w) PROVE ProgramFound'
  BY <1>4, WorkFound, TheWorker DEF ProgramFound
<1>5. CASE UNCHANGED cacheVars
  BY <1>5, FoundBySame DEF cacheVars, textVars, poolVars, moduleVars
<1>6. QED BY <1>1, <1>2, <1>3, <1>4, <1>5, NextCases

LEMMA ToldStep ==
    ASSUME Types, JobsAbout, ChangedTold, Orderly, [CachesNext]_cacheVars
    PROVE  ChangedTold'
<1>1. ASSUME NEW w \in Workers, StartJob(w) PROVE ChangedTold'
  <2>1. running[w] = Idle BY <1>1, StartJobQueue
  <2>2. changed' = {} BY <1>1, <2>1 DEF StartJob, scopeVars, ChangedTold, Idle
  <2>3. running'[w].step = "start" BY <1>1, StartedJob
  <2>4. QED BY <2>2, <2>3, TheWorker DEF ChangedTold
<1>2. ASSUME NEW w \in Workers, EarlyStep(w) PROVE ChangedTold'
  <2>1. changed' = {} BY <1>2, EarlyEffect DEF ChangedTold, scopeVars, Early, Parsing
  <2>2. running'[w].step \notin {"resolve1", "resolve2"}
    BY <1>2, EarlyEffect DEF Parsing, Idle
  <2>3. QED BY <2>1, <2>2, TheWorker DEF ChangedTold
<1>3. ASSUME NEW w \in Workers, MarkChanged(w) PROVE ChangedTold'
  <2>1. changed = {} BY <1>3, MarkEffect DEF ChangedTold
  <2>2. changed' = running'[w].file /\ running'[w].step = "resolve1"
    BY <1>3, <2>1, MarkEffect DEF SameProgram
  <2>3. QED BY <2>2, TheWorker DEF ChangedTold
<1>4. ASSUME NEW w \in Workers, Resolve(w) PROVE ChangedTold'
  <2>1. changed = running[w].file /\ running[w] \in CompileJobs
    BY <1>4, ResolveEffect DEF ChangedTold, SameProgram
  <2>2. changed' = Marked(running[w]) BY <1>4, <2>1, ResolveEffect, UpdatedFacts DEF Types
  <2>3. changed' \in {{}, running'[w].file} /\ running'[w].step = "resolve2"
    BY <1>4, <2>1, <2>2, ResolveEffect DEF SameProgram, Marked
  <2>4. QED BY <2>3, TheWorker DEF ChangedTold
<1>5. ASSUME NEW w \in Workers, StoreScopes(w) PROVE ChangedTold'
  <2>1. changed' = {} /\ running'[w].step = "symbols" BY <1>5, StoreEffect
  <2>2. QED BY <2>1, TheWorker DEF ChangedTold
<1>6. ASSUME NEW w \in Workers, FindSymbols(w) PROVE ChangedTold'
  <2>1. changed' = {} /\ running'[w] = Idle BY <1>6, SymbolsEffect DEF ChangedTold, scopeVars
  <2>2. QED BY <2>1, TheWorker DEF ChangedTold, Idle
<1>7. ASSUME \/ \E r \in Roots : OpenRoot(r)
             \/ \E f \in Files : Edit(f)
             \/ UNCHANGED cacheVars
      PROVE  ChangedTold'
  <2>1. changed' = changed /\ running' = running
    BY <1>7 DEF OpenRoot, Edit, cacheVars, poolVars, scopeVars
  <2>2. QED BY <2>1 DEF ChangedTold
<1>8. QED BY <1>1, <1>2, <1>3, <1>4, <1>5, <1>6, <1>7, NextCases, WorkCases

-----------------------------------------------------------------------------
(* The dependency graph is current. *)

\* The file of an edit that finds the server settled is the next to be cleared.
LEMMA EditClears ==
    ASSUME Types, NEW f \in Files, Edit(f), Settled, NEW r \in opened, f \in RootFiles(r)
    PROVE  NextClears(f)'
<1>1. PICK i \in DOMAIN jobs' : jobs'[i].file = {f} BY EditQueue
<1>2. jobs' \in Seq(CompileJobs) BY EditQueue
<1>3. 1 \in DOMAIN jobs' /\ jobs' # <<>> /\ Head(jobs') = jobs'[1] BY <1>1, <1>2
<1>4. 1 \notin DOMAIN jobs BY DEF Settled
<1>5. jobs'[1].file = {f} BY <1>3, <1>4, EditQueue
<1>6. running' = running BY EditTexts
<1>7. QED BY <1>3, <1>5, <1>6 DEF NextClears, Settled

LEMMA NextClearsStays ==
    ASSUME Types, running' = running, jobs' \in Seq(CompileJobs),
           DOMAIN jobs \subseteq DOMAIN jobs', \A i \in DOMAIN jobs : jobs'[i] = jobs[i],
           NEW f, NextClears(f)
    PROVE  NextClears(f)'
<1>1. jobs \in Seq(CompileJobs) /\ jobs # <<>> BY DEF Types, PoolTypes, NextClears
<1>2. 1 \in DOMAIN jobs /\ Head(jobs) = jobs[1] BY <1>1
<1>3. 1 \in DOMAIN jobs' /\ jobs'[1] = jobs[1] BY <1>2
<1>4. jobs' # <<>> /\ Head(jobs') = jobs'[1] BY <1>3
<1>5. QED BY <1>2, <1>3, <1>4 DEF NextClears

\* A job that has parsed its program has the current imports of every file of
\* its root.
LEMMA JobProgram ==
    ASSUME Types, JobsAbout, ImportsCurrent, ProgramFound, NEW w \in Workers, running[w].step \in Parsed
    PROVE  LET job == running[w]
               r == job.root IN
           /\ job \in CompileJobs /\ r \in Roots /\ Busy(w) /\ job.unimported = {}
           /\ PkgsOf(job) = ProgramPkgs(r)
           /\ \A f \in RootFiles(r) :
                 /\ job.mods[f] # {} /\ \A t \in job.mods[f] : t.imports = text[f].imports
                 /\ ModImports(job.mods, f) = text[f].imports
                 /\ Existing(r, text[f].imports) \subseteq ProgramPkgs(r)
<1> DEFINE job == running[w]
           r == job.root
<1>1. job.step \in Steps BY DEF Steps
<1>2. job \in CompileJobs /\ r \in Roots /\ Busy(w) BY <1>1, AboutRunning
<1>3. /\ FoundOf(job) /\ job.unimported = {} /\ job.todo = {}
      /\ \A x \in job.found : job.mods[x[1]] # {}
  BY <1>1 DEF ProgramFound, FoundBy
<1>4. PkgsOf(job) = ProgramPkgs(r) /\ job.found = PkgFilesOf(r, ProgramPkgs(r))
  BY <1>2, <1>3, FoundAll
<1>5. ASSUME NEW f \in RootFiles(r)
      PROVE  /\ job.mods[f] # {} /\ \A t \in job.mods[f] : t.imports = text[f].imports
             /\ ModImports(job.mods, f) = text[f].imports
             /\ Existing(r, text[f].imports) \subseteq ProgramPkgs(r)
  <2>1. f \in Files BY <1>2, PkgFilesType
  <2>2. PICK p \in ProgramPkgs(r) : f \in PkgFiles[r][p]
    BY <1>2 DEF ImportsCurrent, InOrder, ProgramFiles
  <2>3. <<f, p>> \in job.found /\ <<f, p>>[1] = f BY <1>4, <2>2, PkgFilesOfMember
  <2>4. job.mods[f] # {} BY <1>3, <2>3
  <2>5. \A t \in job.mods[f] : t.imports = text[f].imports
    BY <1>2, <2>1, LocalTextsMember DEF ImportsCurrent
  <2>6. {t.imports : t \in job.mods[f]} = {text[f].imports} BY <2>4, <2>5
  <2>7. ModImports(job.mods, f) = text[f].imports BY <2>6 DEF ModImports
  <2>8. Existing(r, text[f].imports) \subseteq ProgramPkgs(r) BY <1>2, <2>2, ProgramFacts
  <2>9. QED BY <2>4, <2>5, <2>7, <2>8
<1>6. QED BY <1>2, <1>3, <1>4, <1>5

\* The files a job updates are the changed one, or the main files.
LEMMA UpdatesOne ==
    ASSUME Types, JobsAbout, NEW w \in Workers, running[w].step \in Steps,
           changed \in {{}, running[w].file}
    PROVE  LET job == running[w] IN
           \/ \E f \in RootFiles(job.root) : UpdateFiles(job) = {f} /\ job.file = {f}
           \/ UpdateFiles(job) = PkgFiles[job.root][MainPkg] /\ Marked(job) = {}
<1>1. JobAbout(running[w]) BY AboutRunning
<1>2. QED BY <1>1 DEF JobAbout, UpdateFiles, Marked

\* Main files are modules of no node.
LEMMA MainModules ==
    ASSUME NEW g \in Graphs, NEW r \in Roots, GraphKnows(g, r), NEW f \in PkgFiles[r][MainPkg]
    PROVE  g.modules[f] = {}
<1>1. \A p \in Importable : f \notin PkgFiles[r][p] BY CachesAssumption DEF Importable
<1>2. f \in Files BY PkgFilesType, CachesAssumption
<1>3. QED BY <1>1, <1>2 DEF GraphKnows, Graphs

LEMMA RegisteredKnows ==
    ASSUME NEW g \in Graphs, NEW job \in CompileJobs, GraphKnows(g, job.root)
    PROVE  GraphKnows(Registered(g, job), job.root)
<1> DEFINE reg == Registered(g, job)
           pkgs == PkgsOf(job) \ {MainPkg}
<1>1. /\ reg \in Graphs
      /\ reg.nodes = g.nodes \cup pkgs
      /\ \A f \in Files : reg.modules[f] = g.modules[f] \cup {p \in pkgs : f \in PkgFiles[job.root][p]}
      /\ \A p \in Pkgs :
            reg.children[p] = g.children[p] \cup
                {f \in Files : /\ g.modules[f] = {} /\ reg.modules[f] # {}
                               /\ p \in ModImports(job.mods, f) \cap reg.nodes}
  BY RegisteredFacts
<1> HIDE DEF reg, pkgs
<1>2. \A f \in Files : reg.modules[f] = {p \in reg.nodes : f \in PkgFiles[job.root][p]}
  BY <1>1 DEF GraphKnows
<1>3. \A q \in Pkgs : reg.children[q] # {} => q \in reg.nodes BY <1>1 DEF GraphKnows
<1>4. QED BY <1>2, <1>3 DEF GraphKnows, reg

LEMMA UpdateKnows ==
    ASSUME NEW old \in Graphs, NEW job \in CompileJobs, NEW S \in SUBSET Files,
           GraphKnows(old, job.root)
    PROVE  GraphKnows(UpdateGraph(old, job, S).graph, job.root)
<1> DEFINE g == Registered(old, job)
           new == UpdateGraph(old, job, S).graph
<1>1. GraphKnows(g, job.root) BY RegisteredKnows
<1>2. /\ new \in Graphs /\ new.modules = g.modules /\ new.nodes = g.nodes
      /\ \A q \in Pkgs :
            new.children[q] =
                (g.children[q] \ {f \in S : \E p \in g.modules[f] : q \in g.parents[p]})
                \cup {f \in S : g.modules[f] # {} /\ q \in ModImports(job.mods, f) \cap g.nodes}
  BY UpdateGraphFacts
<1> HIDE DEF g, new
<1>3. QED BY <1>1, <1>2 DEF GraphKnows, new

\* The modules of the nodes of a root are files of the root.
LEMMA ModulesOfRoot ==
    ASSUME NEW g \in Graphs, NEW r \in Roots, GraphKnows(g, r), NEW f \in Files, g.modules[f] # {}
    PROVE  f \in RootFiles(r)
<1>1. PICK p \in g.nodes : f \in PkgFiles[r][p] BY DEF GraphKnows
<1>2. p \in Pkgs BY DEF Graphs, Importable
<1>3. QED BY <1>1, <1>2, RootFilesMember

LEMMA NoGraphKnows ==
    ASSUME NEW r PROVE GraphKnows(NoGraph, r) /\ NoGraph \in Graphs
  BY DEF GraphKnows, NoGraph, Graphs

\* The graph an update starts from.
LEMMA OldGraphFacts ==
    ASSUME Types, GraphCurrent, NEW job \in CompileJobs
    PROVE  /\ OldGraph(job) \in Graphs /\ GraphKnows(OldGraph(job), job.root)
           /\ \A f \in Files : OldGraph(job).modules[f] # {} =>
                 /\ program_root = {job.root} /\ OldGraph(job) = graph
                 /\ Linked(job.root, f) \/ Relinking(f)
<1>1. CASE program_root = {job.root}
  <2>1. OldGraph(job) = graph BY <1>1 DEF OldGraph
  <2>2. GraphOf(job.root) BY <1>1 DEF GraphCurrent
  <2>3. QED BY <1>1, <2>1, <2>2 DEF GraphOf, Types, ScopeTypes
<1>2. CASE program_root # {job.root}
  <2>1. OldGraph(job) = NoGraph BY <1>2 DEF OldGraph
  <2>2. \A f \in Files : NoGraph.modules[f] = {} BY DEF NoGraph
  <2>3. QED BY <2>1, <2>2, NoGraphKnows
<1>3. QED BY <1>1, <1>2

\* After the update of Resolve every module is linked to what it imports.
LEMMA ResolveLinks ==
    ASSUME Types, JobsAbout, ImportsCurrent, ProgramFound, ChangedTold, GraphCurrent, Orderly,
           NEW w \in Workers, running[w].step = "resolve1"
    PROVE  LET job == running[w]
               new == Updated(job).graph IN
           /\ new \in Graphs /\ GraphKnows(new, job.root)
           /\ PkgsOf(job) \ {MainPkg} \subseteq new.nodes
           /\ \A f \in Files : new.modules[f] # {} =>
                 \A q \in Existing(job.root, text[f].imports) : f \in new.children[q]
<1> DEFINE job == running[w]
           r == job.root
           old == OldGraph(job)
           reg == Registered(old, job)
           S == UpdateFiles(job)
           new == Updated(job).graph
<1>1. /\ job \in CompileJobs /\ r \in Roots /\ Busy(w) /\ PkgsOf(job) = ProgramPkgs(r)
      /\ \A f \in RootFiles(r) :
            /\ ModImports(job.mods, f) = text[f].imports
            /\ Existing(r, text[f].imports) \subseteq ProgramPkgs(r)
  BY JobProgram DEF Parsed
<1>2. old \in Graphs /\ GraphKnows(old, r) BY <1>1, OldGraphFacts
<1>3. S \in SUBSET Files /\ new = UpdateGraph(old, job, S).graph BY <1>1, UpdatedFacts DEF Types
<1>4. new \in Graphs /\ GraphKnows(new, r) BY <1>1, <1>2, <1>3, UpdateKnows, UpdateGraphFacts
<1>5. reg \in Graphs /\ GraphKnows(reg, r) BY <1>1, <1>2, RegisteredKnows, RegisteredFacts
<1>6. /\ reg.nodes = old.nodes \cup (PkgsOf(job) \ {MainPkg})
      /\ \A p \in Pkgs :
            reg.children[p] = old.children[p] \cup
                {f \in Files : /\ old.modules[f] = {} /\ reg.modules[f] # {}
                               /\ p \in ModImports(job.mods, f) \cap reg.nodes}
  <2> HIDE DEF old
  <2> QED BY <1>1, <1>2, RegisteredFacts
<1>7. /\ new.modules = reg.modules /\ new.nodes = reg.nodes
      /\ \A q \in Pkgs :
            new.children[q] =
                (reg.children[q] \ {f \in S : \E p \in reg.modules[f] : q \in reg.parents[p]})
                \cup {f \in S : reg.modules[f] # {} /\ q \in ModImports(job.mods, f) \cap reg.nodes}
  <2> HIDE DEF old, S
  <2> QED BY <1>1, <1>2, <1>3, UpdateGraphFacts
<1>8. \A f \in Files : old.modules[f] # {} /\ f \notin S =>
         \A q \in Existing(r, text[f].imports) : f \in old.children[q]
  <2>1. SUFFICES ASSUME NEW f \in Files, old.modules[f] # {}, f \notin S PROVE Linked(r, f) /\ old = graph
    BY DEF Linked
  <2>2. /\ program_root = {r} /\ old = graph
        /\ Linked(r, f) \/ Relinking(f)
    BY <1>1, <2>1, OldGraphFacts
  <2>3. ASSUME Relinking(f) PROVE FALSE
    <3>1. job.file = {f} BY <1>1, <2>3, TheWorker DEF Relinking, Busy
    <3>2. changed = {f} BY <3>1 DEF ChangedTold
    <3>3. f \in S BY <2>2, <3>2 DEF UpdateFiles, Marked
    <3>4. QED BY <2>1, <3>3
  <2>4. QED BY <2>2, <2>3
<1> HIDE DEF old, reg, S, new
<1>9. ASSUME NEW f \in Files, new.modules[f] # {}, NEW q \in Existing(r, text[f].imports)
      PROVE  f \in new.children[q]
  <2>1. f \in RootFiles(r) BY <1>1, <1>4, <1>9, ModulesOfRoot
  <2>2. q \in ModImports(job.mods, f) /\ q \in ProgramPkgs(r)
    BY <1>1, <1>9, <2>1 DEF Existing
  <2>3. q \in Importable
    <3>1. text[f].imports \subseteq Importable BY DEF Types, TextTypes, Sources
    <3>2. QED BY <1>9, <3>1 DEF Existing
  <2>4. q \in reg.nodes BY <1>1, <1>6, <2>2, <2>3 DEF Importable
  <2>5. q \in Pkgs BY <2>3 DEF Importable
  <2>6. CASE f \in S BY <1>7, <1>9, <2>2, <2>4, <2>5, <2>6
  <2>7. CASE f \notin S
    <3>1. f \in reg.children[q]
      <4>1. CASE old.modules[f] = {} BY <1>6, <1>7, <1>9, <2>2, <2>4, <2>5, <4>1
      <4>2. CASE old.modules[f] # {} BY <1>6, <1>8, <1>9, <2>5, <2>7, <4>2
      <4>3. QED BY <4>1, <4>2
    <3>2. QED BY <1>7, <2>5, <2>7, <3>1
  <2>8. QED BY <2>6, <2>7
<1>10. PkgsOf(job) \ {MainPkg} \subseteq new.nodes BY <1>6, <1>7
<1>11. QED BY <1>4, <1>9, <1>10 DEF new

\* What the second update would remove is put back.
LEMMA ResolveRelinks ==
    ASSUME Types, JobsAbout, ImportsCurrent, ProgramFound, ChangedTold, GraphCurrent, Orderly,
           NEW w \in Workers, running[w].step = "resolve1"
    PROVE  LET job == running[w]
               new == Updated(job).graph IN
           \A f \in UpdateFiles(job) : \A q \in Pkgs :
               f \in new.children[q] /\ (\E p \in new.modules[f] : q \in new.parents[p])
                   => \E t \in job.mods[f] : q \in t.imports
<1> DEFINE job == running[w]
           r == job.root
           old == OldGraph(job)
           reg == Registered(old, job)
           S == UpdateFiles(job)
           new == Updated(job).graph
<1>1. job \in CompileJobs /\ r \in Roots BY JobProgram DEF Parsed
<1>2. old \in Graphs /\ GraphKnows(old, r) BY <1>1, OldGraphFacts
<1>3. S \in SUBSET Files /\ new = UpdateGraph(old, job, S).graph BY <1>1, UpdatedFacts DEF Types
<1>4. new \in Graphs /\ GraphKnows(new, r) BY <1>1, <1>2, <1>3, UpdateKnows, UpdateGraphFacts
<1>5. /\ new.modules = reg.modules
      /\ \A q \in Pkgs :
            new.children[q] =
                (reg.children[q] \ {f \in S : \E p \in reg.modules[f] : q \in reg.parents[p]})
                \cup {f \in S : reg.modules[f] # {} /\ q \in ModImports(job.mods, f) \cap reg.nodes}
      /\ \A p \in Pkgs :
            new.parents[p] = reg.parents[p] \cup
                UNION {ModImports(job.mods, f) : f \in {h \in S : p \in reg.modules[h]}}
  <2> HIDE DEF old, S
  <2> QED BY <1>1, <1>2, <1>3, UpdateGraphFacts
<1>6. (\E f \in S : S = {f}) \/ S = PkgFiles[r][MainPkg]
  <2>1. changed \in {{}, job.file} BY DEF ChangedTold
  <2>2. QED BY <2>1, UpdatesOne, StepsAre
<1> HIDE DEF old, reg, S, new
<1>7. ASSUME NEW f \in S, NEW q \in Pkgs, f \in new.children[q],
             NEW p \in new.modules[f], q \in new.parents[p]
      PROVE  q \in ModImports(job.mods, f)
  <2>1. f \in Files /\ p \in Pkgs BY <1>3, <1>4 DEF Graphs, Importable
  <2>2. CASE S = PkgFiles[r][MainPkg]
    <3>1. new.modules[f] = {} BY <1>1, <1>4, <2>2, MainModules
    <3>2. QED BY <3>1
  <2>3. CASE \E h \in S : S = {h}
    <3>1. S = {f} BY <2>3
    <3>2. CASE q \in reg.parents[p] BY <1>5, <1>7, <2>1, <3>2
    <3>3. CASE q \notin reg.parents[p]
      <4>1. PICK h \in S : q \in ModImports(job.mods, h) BY <1>5, <1>7, <2>1, <3>3
      <4>2. QED BY <3>1, <4>1
    <3>4. QED BY <3>2, <3>3
  <2>4. QED BY <1>6, <2>2, <2>3
<1>8. QED BY <1>7 DEF ModImports, S, new

\* The second update of a job, by StoreScopes, only adds links.
LEMMA StoreLinks ==
    ASSUME Types, JobsAbout, GraphCurrent, NEW w \in Workers, running[w].step = "resolve2"
    PROVE  LET job == running[w]
               reg == Registered(graph, job)
               new == Updated(job).graph IN
           /\ job \in CompileJobs /\ job.root \in Roots /\ program_root = {job.root}
           /\ UpdateFiles(job) = ChangedFiles(job)
           /\ Updated(job).invalid = Invalidated(graph, ChangedFiles(job))
           /\ new \in Graphs /\ GraphKnows(new, job.root)
           /\ new.modules = graph.modules /\ new.nodes = graph.nodes
           /\ \A q \in Pkgs : graph.children[q] \subseteq new.children[q]
<1> DEFINE job == running[w]
           r == job.root
           reg == Registered(graph, job)
           S == ChangedFiles(job)
           new == Updated(job).graph
<1>1. job \in CompileJobs /\ r \in Roots BY AboutRunning, StepsAre
<1>2. /\ program_root = {r} /\ PkgsOf(job) \ {MainPkg} \subseteq graph.nodes /\ Relinked(job)
  BY DEF GraphCurrent, Checked
<1>3. graph \in Graphs /\ GraphKnows(graph, r) BY <1>2 DEF GraphCurrent, GraphOf, Types, ScopeTypes
<1>4. OldGraph(job) = graph /\ UpdateFiles(job) = S
  BY <1>2 DEF OldGraph, UpdateFiles, Marked, ChangedFiles
<1>5. /\ S \in SUBSET Files /\ new = UpdateGraph(graph, job, S).graph
      /\ Updated(job).invalid = Invalidated(reg, S)
  BY <1>1, <1>4, UpdatedFacts DEF Types
<1>6. /\ reg \in Graphs /\ reg.nodes = graph.nodes \cup (PkgsOf(job) \ {MainPkg})
      /\ \A f \in Files :
            reg.modules[f] = graph.modules[f]
                \cup {p \in PkgsOf(job) \ {MainPkg} : f \in PkgFiles[r][p]}
      /\ \A p \in Pkgs :
            reg.children[p] = graph.children[p] \cup
                {f \in Files : /\ graph.modules[f] = {} /\ reg.modules[f] # {}
                               /\ p \in ModImports(job.mods, f) \cap reg.nodes}
  BY <1>1, <1>3, RegisteredFacts
<1>7. /\ new \in Graphs /\ new.modules = reg.modules /\ new.nodes = reg.nodes
      /\ \A q \in Pkgs :
            new.children[q] =
                (reg.children[q] \ {f \in S : \E p \in reg.modules[f] : q \in reg.parents[p]})
                \cup {f \in S : reg.modules[f] # {} /\ q \in ModImports(job.mods, f) \cap reg.nodes}
  <2> HIDE DEF S
  <2> QED BY <1>1, <1>3, <1>5, UpdateGraphFacts
<1>8. GraphKnows(new, r)
  <2> HIDE DEF S, new
  <2> QED BY <1>1, <1>3, <1>5, UpdateKnows
<1> DEFINE pkgs == PkgsOf(job) \ {MainPkg}
<1>9. /\ pkgs \subseteq graph.nodes
      /\ \A f \in Files : reg.modules[f] = graph.modules[f] \cup {p \in pkgs : f \in PkgFiles[r][p]}
      /\ \A p \in Pkgs :
            reg.parents[p] = graph.parents[p] \cup
                UNION {ModImports(job.mods, f) :
                         f \in {h \in Files : graph.modules[h] = {} /\ p \in reg.modules[h]}}
  BY <1>1, <1>2, <1>3, <1>6, RegisteredFacts
<1> HIDE DEF reg, S, new
<1>10. reg.nodes = graph.nodes BY <1>2, <1>6
<1>11. \A f \in Files : reg.modules[f] = graph.modules[f]
  <2> HIDE DEF pkgs
  <2>1. ASSUME NEW f \in Files PROVE {p \in pkgs : f \in PkgFiles[r][p]} \subseteq graph.modules[f]
    BY <1>3, <1>9 DEF GraphKnows
  <2>2. QED BY <1>9, <2>1
<1>12. reg.modules = graph.modules
  <2>1. reg.modules \in [Files -> SUBSET Importable] /\ graph.modules \in [Files -> SUBSET Importable]
    BY <1>3, <1>6 DEF Graphs
  <2>2. QED BY <1>11, <2>1
<1>13. reg.children = graph.children /\ reg.parents = graph.parents
  <2>1. ASSUME NEW p \in Pkgs PROVE reg.children[p] = graph.children[p]
    <3>1. {f \in Files : /\ graph.modules[f] = {} /\ reg.modules[f] # {}
                         /\ p \in ModImports(job.mods, f) \cap reg.nodes} = {}
      BY <1>11
    <3>2. QED BY <1>6, <3>1
  <2>2. ASSUME NEW p \in Pkgs PROVE reg.parents[p] = graph.parents[p]
    <3>1. {h \in Files : graph.modules[h] = {} /\ p \in reg.modules[h]} = {} BY <1>11
    <3>2. UNION {ModImports(job.mods, f) :
                    f \in {h \in Files : graph.modules[h] = {} /\ p \in reg.modules[h]}} = {}
      BY <3>1
    <3>3. QED BY <1>9, <3>2
  <2>3. /\ reg.children \in [Pkgs -> SUBSET Files] /\ graph.children \in [Pkgs -> SUBSET Files]
        /\ reg.parents \in [Pkgs -> SUBSET Importable] /\ graph.parents \in [Pkgs -> SUBSET Importable]
    BY <1>3, <1>6 DEF Graphs
  <2>4. QED BY <2>1, <2>2, <2>3
<1>14. Invalidated(reg, S) = Invalidated(graph, S) BY <1>12, <1>13 DEF Invalidated
<1>15. ASSUME NEW q \in Pkgs, NEW f \in graph.children[q] PROVE f \in new.children[q]
  <2>1. CASE f \in S /\ \E p \in graph.modules[f] : q \in graph.parents[p]
    <3>1. \E t \in job.mods[f] : q \in t.imports BY <1>2, <1>15, <2>1 DEF Relinked, S
    <3>2. q \in ModImports(job.mods, f) BY <3>1 DEF ModImports
    <3>3. q \in graph.nodes BY <1>3, <1>15 DEF GraphKnows
    <3>4. QED BY <1>7, <1>10, <1>12, <2>1, <3>2, <3>3
  <2>2. CASE ~(f \in S /\ \E p \in graph.modules[f] : q \in graph.parents[p])
    BY <1>7, <1>12, <1>13, <1>15, <2>2
  <2>3. QED BY <2>1, <2>2
<1>16. QED BY <1>1, <1>2, <1>4, <1>5, <1>7, <1>8, <1>10, <1>12, <1>14, <1>15 DEF S, new

\* Steps that leave the graph alone.
LEMMA GraphSame ==
    ASSUME GraphCurrent, graph' = graph, program_root' = program_root,
           \A r \in program_root, f \in Files :
               graph.modules[f] # {} /\ (Linked(r, f) \/ Relinking(f)) => (Linked(r, f) \/ Relinking(f))',
           \A w \in Workers :
               running'[w].step \in Checked => running'[w] = running[w] /\ changed' = changed
    PROVE  GraphCurrent'
<1>1. ASSUME NEW r \in program_root PROVE GraphOf(r)'
  BY <1>1 DEF GraphCurrent, GraphOf, GraphKnows
<1>2. ASSUME NEW w \in Workers, running'[w].step \in Checked
      PROVE  /\ program_root' = {running'[w].root}
             /\ PkgsOf(running'[w]) \ {MainPkg} \subseteq graph'.nodes
             /\ running'[w].step = "resolve2" => Relinked(running[w])'
  <2>1. running'[w] = running[w] /\ changed' = changed BY <1>2
  <2>2. Relinked(running[w]) => Relinked(running[w])' BY <2>1 DEF Relinked, ChangedFiles
  <2>3. QED BY <1>2, <2>1, <2>2 DEF GraphCurrent
<1>3. QED BY <1>1, <1>2 DEF GraphCurrent, PkgsOf

\* A job after update has everything linked.
LEMMA GraphAfter ==
    ASSUME Types, Orderly, NEW w \in Workers, running'[w].step \in Checked,
           program_root' = {running'[w].root}, GraphKnows(graph', running'[w].root),
           PkgsOf(running'[w]) \ {MainPkg} \subseteq graph'.nodes,
           \A f \in Files : graph'.modules[f] # {} =>
               \A q \in Existing(running'[w].root, text'[f].imports) : f \in graph'.children[q],
           running'[w].step = "resolve2" => Relinked(running[w])'
    PROVE  GraphCurrent'
<1>1. GraphOf(running[w].root)' BY DEF GraphOf, GraphKnows, Linked
<1>2. \A r \in program_root' : GraphOf(r)' BY <1>1
<1>3. \A v \in Workers : v = w BY TheWorker
<1>4. QED BY <1>2, <1>3 DEF GraphCurrent, PkgsOf

LEMMA GraphResolve ==
    ASSUME Types, JobsAbout, ImportsCurrent, ProgramFound, ChangedTold, GraphCurrent, Orderly,
           NEW w \in Workers, Resolve(w)
    PROVE  GraphCurrent'
<1> DEFINE job == running[w]
           new == Updated(job).graph
<1>1. /\ job.step = "resolve1" /\ running'[w].step = "resolve2" /\ SameProgram(w)
      /\ program_root' = {job.root} /\ graph' = new /\ changed' = Updated(job).changed
  BY ResolveEffect
<1>2. /\ job \in CompileJobs /\ running'[w].root = job.root /\ running'[w].found = job.found
      /\ running'[w].mods = job.mods /\ text' = text
  BY <1>1 DEF SameProgram
<1>3. /\ GraphKnows(new, job.root)
      /\ PkgsOf(job) \ {MainPkg} \subseteq new.nodes
      /\ \A f \in Files : new.modules[f] # {} =>
            \A q \in Existing(job.root, text[f].imports) : f \in new.children[q]
  BY <1>1, ResolveLinks
<1>4. \A f \in UpdateFiles(job) : \A q \in Pkgs :
          f \in new.children[q] /\ (\E p \in new.modules[f] : q \in new.parents[p])
              => \E t \in job.mods[f] : q \in t.imports
  BY <1>1, ResolveRelinks
<1> HIDE DEF new
<1>5. changed' = Marked(job) BY <1>1, <1>2, UpdatedFacts DEF Types
<1>6. ChangedFiles(running[w])' = UpdateFiles(job)
  BY <1>2, <1>5 DEF ChangedFiles, UpdateFiles
<1>7. Relinked(running[w])' BY <1>1, <1>2, <1>4, <1>6 DEF Relinked
<1>8. PkgsOf(running'[w]) = PkgsOf(job) BY <1>2 DEF PkgsOf
<1>9. QED BY <1>1, <1>2, <1>3, <1>7, <1>8, GraphAfter DEF Checked

LEMMA GraphStore ==
    ASSUME Types, JobsAbout, GraphCurrent, Orderly, NEW w \in Workers, StoreScopes(w)
    PROVE  GraphCurrent'
<1> DEFINE job == running[w]
           new == Updated(job).graph
<1>1. /\ job.step = "resolve2" /\ running'[w].step = "symbols" /\ SameProgram(w)
      /\ program_root' = {job.root} /\ graph' = new
  BY StoreEffect
<1>2. /\ job \in CompileJobs /\ running'[w].root = job.root /\ running'[w].found = job.found
      /\ text' = text
  BY <1>1 DEF SameProgram
<1>3. /\ GraphKnows(new, job.root) /\ program_root = {job.root}
      /\ new.modules = graph.modules /\ new.nodes = graph.nodes
      /\ \A q \in Pkgs : graph.children[q] \subseteq new.children[q]
  BY <1>1, StoreLinks
<1> HIDE DEF new
<1>4. \A f : ~Relinking(f)
  <2>1. running[w] # Idle BY <1>1 DEF Idle
  <2>2. job.step \notin Steps \ Checked BY <1>1 DEF Checked
  <2>3. QED BY <2>1, <2>2, TheWorker DEF Relinking
<1>5. GraphOf(job.root) BY <1>3 DEF GraphCurrent
<1>6. ASSUME NEW f \in Files, new.modules[f] # {}, NEW q \in Existing(job.root, text[f].imports)
      PROVE  f \in new.children[q]
  <2>1. f \in graph.children[q] BY <1>3, <1>4, <1>5, <1>6 DEF GraphOf, Linked
  <2>2. q \in Pkgs BY <1>6 DEF Existing, Types, TextTypes, Sources, Importable
  <2>3. QED BY <1>3, <2>1, <2>2
<1>7. PkgsOf(running'[w]) \ {MainPkg} \subseteq new.nodes
  BY <1>1, <1>2, <1>3 DEF GraphCurrent, PkgsOf, Checked
<1>8. QED BY <1>1, <1>2, <1>3, <1>6, <1>7, GraphAfter DEF Checked

LEMMA GraphEdit ==
    ASSUME Types, JobsAbout, GraphCurrent, Orderly, NEW f \in Files, Edit(f)
    PROVE  GraphCurrent'
<1>1. /\ \A h \in Files \ {f} : text'[h] = text[h]
      /\ running' = running /\ graph' = graph /\ program_root' = program_root /\ changed' = changed
  BY EditTexts DEF scopeVars
<1>2. \A h : Relinking(h) => Relinking(h)'
  BY <1>1, EditQueue, NextClearsStays DEF Relinking
<1>3. ASSUME NEW r \in program_root, NEW h \in Files, graph.modules[h] # {}, Linked(r, h) \/ Relinking(h)
      PROVE  (Linked(r, h) \/ Relinking(h))'
  <2>1. CASE Relinking(h) BY <1>2, <2>1
  <2>2. CASE Linked(r, h) /\ text'[h].imports = text[h].imports
    BY <1>1, <2>2 DEF Linked
  <2>3. CASE text'[h].imports # text[h].imports
    <3>1. h = f /\ Settled BY <1>1, <2>3, OrderlyEdit
    <3>2. r \in opened /\ r \in Roots BY DEF JobsAbout, Types, TextTypes
    <3>3. graph \in Graphs /\ GraphKnows(graph, r) BY DEF GraphCurrent, GraphOf, Types, ScopeTypes
    <3>4. h \in RootFiles(r) BY <1>3, <3>2, <3>3, ModulesOfRoot
    <3>5. NextClears(f)' BY <3>1, <3>2, <3>4, EditClears
    <3>6. QED BY <3>1, <3>5 DEF Relinking
  <2>4. QED BY <1>3, <2>1, <2>2, <2>3
<1>4. QED BY <1>1, <1>3, GraphSame

LEMMA GraphStep ==
    ASSUME Types, Types', JobsAbout, ImportsCurrent, ProgramFound, ChangedTold, GraphCurrent, Orderly,
           [CachesNext]_cacheVars
    PROVE  GraphCurrent'
<1>1. ASSUME NEW r \in Roots, OpenRoot(r) PROVE GraphCurrent'
  <2>1. /\ running' = running /\ text' = text /\ graph' = graph /\ program_root' = program_root
        /\ changed' = changed
    BY <1>1 DEF OpenRoot, scopeVars
  <2>2. \A h : Relinking(h) => Relinking(h)'
    BY <1>1, OpenRootGrows, NextClearsStays DEF Relinking
  <2>3. QED BY <2>1, <2>2, GraphSame DEF Linked
<1>2. ASSUME NEW w \in Workers, StartJob(w) PROVE GraphCurrent'
  <2>1. text' = text /\ graph' = graph /\ program_root' = program_root
    BY <1>2 DEF StartJob, scopeVars, textVars
  <2>2. running[w] = Idle /\ Head(jobs) = jobs[1] BY <1>2, StartJobQueue
  <2>3. running'[w].step = "start" /\ running'[w].file = jobs[1].file BY <1>2, StartedJob
  <2>4. \A h : Relinking(h) => NextClears(h) BY <2>2, TheWorker DEF Relinking
  <2>5. \A h : NextClears(h) => Relinking(h)'
    <3>1. \A h : NextClears(h) => running'[w].file = {h} BY <2>2, <2>3 DEF NextClears
    <3>2. running'[w].step \in Steps \ Checked BY <2>3 DEF Steps, Early, Checked
    <3>3. QED BY <3>1, <3>2 DEF Relinking
  <2>6. \A v \in Workers : running'[v].step \notin Checked BY <2>3, TheWorker DEF Checked
  <2>7. QED BY <2>1, <2>4, <2>5, <2>6, GraphSame DEF Linked
<1>3. ASSUME NEW w \in Workers, EarlyStep(w) \/ MarkChanged(w) PROVE GraphCurrent'
  <2>1. WorkStep(w) BY <1>3 DEF EarlyStep, WorkStep
  <2>2. Flow(w) BY <2>1, WorkFlow
  <2>3. text' = text BY <2>2 DEF Flow, StepFacts
  <2>4. /\ graph' = graph /\ program_root' = program_root
        /\ running[w].step \notin Checked
    BY <1>3, EarlyEffect, MarkEffect DEF scopeVars, Early, Parsing, Checked
  <2>5. running'[w] # Idle
    <3>1. ~FindSymbols(w) BY <2>4 DEF FindSymbols, At, Checked
    <3>2. QED BY <2>1, <3>1, WorkFound
  <2>6. JobFacts(w) /\ running[w] \in CompileJobs BY <2>2, <2>5 DEF Flow, Ends, StepFacts
  <2>7. /\ running'[w].step \in Steps \ Checked /\ running'[w].file = running[w].file
        /\ running[w] # Idle
    BY <1>3, <2>6, EarlyEffect, MarkEffect, TheWorker
       DEF JobFacts, CompileJobs, Idle, Steps, Early, Parsing, Checked
  <2>8. \A h : Relinking(h) => Relinking(h)' BY <2>7, TheWorker DEF Relinking
  <2>9. \A v \in Workers : running'[v].step \notin Checked BY <2>7, TheWorker
  <2>10. QED BY <2>3, <2>4, <2>8, <2>9, GraphSame DEF Linked
<1>4. ASSUME NEW w \in Workers, FindSymbols(w) PROVE GraphCurrent'
  <2>1. /\ running[w].step = "symbols" /\ running'[w] = Idle /\ text' = text
        /\ graph' = graph /\ program_root' = program_root
    BY <1>4, SymbolsEffect DEF scopeVars
  <2>2. \A h : ~Relinking(h)
    BY <2>1, TheWorker DEF Relinking, Checked, Idle
  <2>3. \A v \in Workers : running'[v].step \notin Checked BY <2>1, TheWorker DEF Idle, Checked
  <2>4. QED BY <2>1, <2>2, <2>3, GraphSame DEF Linked
<1>5. CASE UNCHANGED cacheVars
  <2>1. /\ running' = running /\ text' = text /\ graph' = graph /\ program_root' = program_root
        /\ changed' = changed /\ jobs' = jobs
    BY <1>5 DEF cacheVars, textVars, poolVars, scopeVars
  <2>2. \A h : Relinking(h) => Relinking(h)' BY <2>1 DEF Relinking, NextClears
  <2>3. QED BY <2>1, <2>2, GraphSame DEF Linked
<1>6. QED BY <1>1, <1>2, <1>3, <1>4, <1>5, GraphEdit, GraphResolve, GraphStore, NextCases, WorkCases

-----------------------------------------------------------------------------
(* Scopes are reached from the files they were computed from. *)

\* A larger graph invalidates more.
LEMMA InvalidatedGrows ==
    ASSUME NEW g \in Graphs, NEW h \in Graphs, NEW S \in SUBSET Files,
           \A f \in Files : g.modules[f] \subseteq h.modules[f],
           \A q \in Pkgs : g.children[q] \subseteq h.children[q]
    PROVE  Invalidated(g, S) \subseteq Invalidated(h, S)
<1> DEFINE T == Invalidated(h, S)
<1>1. /\ T \in SUBSET Pkgs /\ \A f \in S : h.modules[f] \subseteq T
      /\ \A q \in T : \A f \in h.children[q] : h.modules[f] \subseteq T
  BY InvalidatedFacts
<1>2. \A q \in Pkgs : g.children[q] \subseteq Files BY DEF Graphs
<1> HIDE DEF T
<1>3. \A f \in S : g.modules[f] \subseteq T BY <1>1
<1>4. \A q \in T : \A f \in g.children[q] : g.modules[f] \subseteq T BY <1>1, <1>2
<1>5. QED BY <1>1, <1>3, <1>4, InvalidatedFacts DEF T

\* A job that has parsed its program follows the client's imports.
LEMMA JobImports ==
    ASSUME Types, JobsAbout, ImportsCurrent, ProgramFound, NEW w \in Workers, running[w].step \in Parsed,
           NEW p \in Pkgs
    PROVE  ImportsOf(running[w].root, running[w].mods, p) = ImportsOf(running[w].root, Current, p)
<1> DEFINE r == running[w].root
           mods == running[w].mods
<1>1. r \in Roots /\ \A f \in RootFiles(r) : ModImports(mods, f) = text[f].imports BY JobProgram
<1>2. PkgFiles[r][p] \subseteq RootFiles(r) /\ PkgFiles[r][p] \subseteq Files
  BY <1>1, RootFilesMember, PkgFilesType
<1>3. \A f \in PkgFiles[r][p] : UNION {t.imports : t \in mods[f]} = UNION {t.imports : t \in Current[f]}
  BY <1>1, <1>2 DEF ModImports, Current
<1>4. QED BY <1>3 DEF ImportsOf

\* What a job visits belongs to its program.
LEMMA VisitedProgram ==
    ASSUME Types, JobsAbout, ImportsCurrent, ProgramFound, NEW w \in Workers, running[w].step \in Parsed,
           NEW cached \in Scopes
    PROVE  Visited(running[w].root, running[w].mods, cached, {MainPkg}) \subseteq ProgramPkgs(running[w].root)
<1> DEFINE r == running[w].root
           mods == running[w].mods
<1>1. r \in Roots /\ mods \in [Files -> SUBSET Sources] BY JobProgram DEF CompileJobs
<1>2. MainPkg \in ProgramPkgs(r) /\ ProgramPkgs(r) \in SUBSET Pkgs BY <1>1, ProgramFacts
<1>3. ASSUME NEW q \in ProgramPkgs(r) PROVE ImportsOf(r, mods, q) \subseteq ProgramPkgs(r)
  <2>1. ImportsOf(r, mods, q) = ImportsOf(r, Current, q) BY <1>2, JobImports
  <2>2. QED BY <1>1, <1>2, <2>1, CurrentImports, ProgramFacts
<1>4. {MainPkg} \in SUBSET Pkgs /\ {MainPkg} \subseteq ProgramPkgs(r) BY <1>2, CachesAssumption
<1> HIDE DEF r, mods
<1>5. Visited(r, mods, cached, {MainPkg}) \subseteq ProgramPkgs(r)
  <2> DEFINE P == ProgramPkgs(r)
             S == {MainPkg}
  <2>1. P \in SUBSET Pkgs /\ S \in SUBSET Pkgs /\ S \subseteq P /\ \A q \in P : ImportsOf(r, mods, q) \subseteq P
    BY <1>2, <1>3, <1>4
  <2> HIDE DEF P, S
  <2>2. Visited(r, mods, cached, S) \subseteq P BY <1>1, <2>1, VisitedLeast
  <2>3. QED BY <2>2 DEF P, S
<1>6. QED BY <1>5 DEF r, mods

\* An update changes the links of the updated files only.
LEMMA UpdateChildren ==
    ASSUME NEW old \in Graphs, NEW job \in CompileJobs, NEW S \in SUBSET Files
    PROVE  LET g == Registered(old, job)
               new == UpdateGraph(old, job, S).graph IN
           /\ new \in Graphs /\ new.modules = g.modules
           /\ \A q \in Pkgs : g.children[q] \ S \subseteq new.children[q]
           /\ \A q \in Pkgs : new.children[q] \ S \subseteq g.children[q]
<1> DEFINE g == Registered(old, job)
           new == UpdateGraph(old, job, S).graph
<1>1. /\ new \in Graphs /\ new.modules = g.modules
      /\ \A q \in Pkgs :
            new.children[q] =
                (g.children[q] \ {f \in S : \E u \in g.modules[f] : q \in g.parents[u]})
                \cup {f \in S : g.modules[f] # {} /\ q \in ModImports(job.mods, f) \cap g.nodes}
  BY UpdateGraphFacts
<1> HIDE DEF g, new
<1>2. QED BY <1>1 DEF g, new

\* What was reached from some files is still, or it was invalidated.
LEMMA UpdateReaches ==
    ASSUME Types, NEW job \in CompileJobs, program_root = {job.root}, NEW F \in SUBSET Files
    PROVE  Invalidated(graph, F) \subseteq
               Updated(job).invalid \cup Invalidated(Updated(job).graph, F)
<1> DEFINE S == UpdateFiles(job)
           reg == Registered(graph, job)
           new == Updated(job).graph
           invalid == Updated(job).invalid
           kept == Invalidated(new, F)
<1>1. OldGraph(job) = graph /\ graph \in Graphs BY DEF OldGraph, Types, ScopeTypes
<1>2. /\ S \in SUBSET Files /\ new = UpdateGraph(graph, job, S).graph
      /\ invalid = Invalidated(reg, S)
  BY <1>1, UpdatedFacts DEF Types
<1>3. /\ reg \in Graphs
      /\ \A f \in Files : graph.modules[f] \subseteq reg.modules[f]
      /\ \A q \in Pkgs : graph.children[q] \subseteq reg.children[q]
  BY <1>1, RegisteredFacts
<1>4. /\ new \in Graphs /\ new.modules = reg.modules
      /\ \A q \in Pkgs : reg.children[q] \ S \subseteq new.children[q]
  BY <1>1, <1>2, UpdateChildren
<1> HIDE DEF S, reg, new, invalid
<1>5. /\ invalid \in SUBSET Pkgs /\ \A f \in S : reg.modules[f] \subseteq invalid
      /\ \A q \in invalid : \A f \in reg.children[q] : reg.modules[f] \subseteq invalid
  BY <1>2, <1>3, InvalidatedFacts
<1>6. /\ kept \in SUBSET Pkgs /\ \A f \in F : new.modules[f] \subseteq kept
      /\ \A q \in kept : \A f \in new.children[q] : new.modules[f] \subseteq kept
  BY <1>4, InvalidatedFacts
<1> HIDE DEF kept
<1> DEFINE T == invalid \cup kept
<1>7. T \in SUBSET Pkgs /\ \A f \in F : graph.modules[f] \subseteq T
  BY <1>3, <1>4, <1>5, <1>6
<1>8. ASSUME NEW q \in T, NEW f \in graph.children[q] PROVE graph.modules[f] \subseteq T
  <2>1. q \in Pkgs /\ f \in Files /\ f \in reg.children[q]
    BY <1>1, <1>3, <1>5, <1>6, <1>8 DEF Graphs
  <2>2. graph.modules[f] \subseteq reg.modules[f] BY <1>3, <2>1
  <2>3. CASE f \in S \/ q \in invalid BY <1>5, <2>1, <2>2, <2>3
  <2>4. CASE f \notin S /\ q \notin invalid
    <3>1. q \in kept /\ f \in new.children[q] BY <1>4, <1>8, <2>1, <2>4
    <3>2. new.modules[f] \subseteq kept BY <1>6, <3>1
    <3>3. QED BY <1>4, <2>2, <3>2
  <2>5. QED BY <2>3, <2>4
<1>9. Invalidated(graph, F) \subseteq T
  <2> HIDE DEF T
  <2> QED BY <1>1, <1>7, <1>8, InvalidatedFacts
<1>10. QED BY <1>9 DEF kept, new, invalid

\* The scopes that update keeps are still reached.
LEMMA KeptReached ==
    ASSUME Types, JobsAbout, ScopesReached, NEW job \in CompileJobs,
           NEW p \in Importable, NEW s \in Updated(job).scopes[p]
    PROVE  p \in Invalidated(Updated(job).graph, {s[1]})
<1>1. p \in Pkgs BY DEF Importable
<1>2. program_root = {job.root} /\ p \notin Updated(job).invalid /\ s \in scope_map[p]
  BY <1>1, UpdatedFacts DEF Types
<1>3. {s[1]} \in SUBSET Files BY <1>1, <1>2 DEF Types, ScopeTypes, Scopes, Stamps
<1>4. p \in Invalidated(graph, {s[1]}) BY <1>2 DEF ScopesReached, ReachesAll
<1> DEFINE F == {s[1]}
<1> HIDE DEF F
<1>5. Invalidated(graph, F) \subseteq Updated(job).invalid \cup Invalidated(Updated(job).graph, F)
  BY <1>2, <1>3, UpdateReaches DEF F
<1>6. QED BY <1>2, <1>4, <1>5 DEF F

\* What is computed from what is reached is reached, if every module is linked
\* to what it imports.
LEMMA ComputedReached ==
    ASSUME Types, JobsAbout, ImportsCurrent, ProgramFound,
           NEW w \in Workers, running[w].step \in Parsed,
           NEW g \in Graphs, GraphKnows(g, running[w].root),
           ProgramPkgs(running[w].root) \ {MainPkg} \subseteq g.nodes,
           \A f \in Files : g.modules[f] # {} =>
               \A q \in Existing(running[w].root, text[f].imports) : f \in g.children[q],
           NEW cached \in Scopes, \A q \in Importable : \A u \in cached[q] : q \in Invalidated(g, {u[1]}),
           NEW p \in Importable, p \in ProgramPkgs(running[w].root),
           NEW s \in Computed(running[w].root, running[w].mods, cached, {p})
    PROVE  p \in Invalidated(g, {s[1]})
<1> DEFINE job == running[w]
           r == job.root
           mods == job.mods
           reach(f) == Invalidated(g, {f})
           T == {q \in g.nodes : \A f \in Files : q \in reach(f) => p \in reach(f)}
<1>1. /\ r \in Roots
      /\ \A f \in RootFiles(r) : Existing(r, text[f].imports) \subseteq ProgramPkgs(r)
      /\ mods \in [Files -> SUBSET Sources]
  BY JobProgram DEF CompileJobs
<1>2. p \in Pkgs /\ p \in g.nodes BY DEF Importable
<1>3. \A q \in Pkgs : ImportsOf(r, mods, q) = ImportsOf(r, Current, q) BY JobImports
<1>4. \A f \in Files : \A q \in reach(f) : \A h \in g.children[q] : g.modules[h] \subseteq reach(f)
  BY InvalidatedFacts
<1>5. \A f \in Files : g.modules[f] \subseteq reach(f) BY InvalidatedFacts
<1>6. g.nodes \subseteq Importable BY DEF Graphs
<1>7. \A q \in Importable : \A u \in cached[q] : q \in reach(u[1]) OBVIOUS
<1> HIDE DEF reach
<1>8. p \in T BY <1>2
<1>9. ASSUME NEW q \in T, NEW u \in ImportsOf(r, mods, q) PROVE u \in T
  <2>1. q \in g.nodes /\ q \in Pkgs BY <1>6 DEF Importable
  <2>2. PICK h \in PkgFiles[r][q] : u \in Existing(r, text[h].imports)
    BY <1>1, <1>3, <1>9, <2>1, CurrentImports
  <2>3. h \in Files /\ h \in RootFiles(r) BY <1>1, <2>1, <2>2, PkgFilesType, RootFilesMember
  <2>4. q \in g.modules[h] BY <2>1, <2>2, <2>3 DEF GraphKnows
  <2>5. h \in g.children[u] BY <2>2, <2>3, <2>4
  <2>6. u \in ProgramPkgs(r) /\ u # MainPkg
    <3>1. u \in ProgramPkgs(r) BY <1>1, <2>2, <2>3
    <3>2. ImportsOf(r, mods, q) \subseteq Importable BY <1>1, <2>1, ImportsOfType
    <3>3. QED BY <1>9, <3>1, <3>2 DEF Importable
  <2>7. u \in g.nodes BY <2>6
  <2>8. ASSUME NEW f \in Files, u \in reach(f) PROVE p \in reach(f)
    <3>1. q \in reach(f) BY <1>4, <2>4, <2>5, <2>8
    <3>2. QED BY <1>9, <3>1
  <2>9. QED BY <2>7, <2>8
<1>10. Visited(r, mods, cached, {p}) \subseteq T
  <2>1. T \in SUBSET Pkgs /\ {p} \in SUBSET Pkgs /\ {p} \subseteq T BY <1>2, <1>6, <1>8 DEF Importable
  <2>2. \A q \in T : cached[q] = {} => ImportsOf(r, mods, q) \subseteq T BY <1>9
  <2> HIDE DEF T, r, mods
  <2>3. QED BY <1>1, <2>1, <2>2, VisitedLeast
<1>11. PICK q \in T : s \in IF cached[q] # {} THEN cached[q] ELSE Own(r, mods, q)
  <2>1. s \in Computed(r, mods, cached, {p}) OBVIOUS
  <2> HIDE DEF T, r, mods
  <2>2. \E q \in Visited(r, mods, cached, {p}) :
           s \in IF cached[q] # {} THEN cached[q] ELSE Own(r, mods, q)
    BY <2>1 DEF Computed
  <2>3. QED BY <1>10, <2>2
<1>12. q \in g.nodes /\ q \in Importable /\ q \in Pkgs BY <1>6, <1>11 DEF Importable
<1>13. CASE cached[q] # {}
  <2>1. s \in cached[q] /\ cached[q] \in SUBSET Stamps BY <1>11, <1>12, <1>13 DEF Scopes
  <2>2. s[1] \in Files BY <2>1 DEF Stamps
  <2>3. q \in reach(s[1]) BY <1>7, <1>12, <2>1
  <2>4. QED BY <1>11, <2>2, <2>3 DEF reach
<1>14. CASE cached[q] = {}
  <2>1. s \in Own(r, mods, q) BY <1>11, <1>14
  <2>2. PICK f \in PkgFiles[r][q] : \E t \in mods[f] : s = <<f, t.edit>>
    BY <1>1, <1>12, <2>1, OwnMember
  <2>3. s[1] = f /\ f \in Files BY <1>1, <1>12, <2>2, PkgFilesType
  <2>4. q \in g.modules[f] BY <1>12, <2>2, <2>3 DEF GraphKnows
  <2>5. q \in reach(f) BY <1>5, <2>3, <2>4
  <2>6. QED BY <1>11, <2>3, <2>5 DEF reach
<1>15. QED BY <1>13, <1>14

\* The scopes that are computed are reached, too.
LEMMA ResolvedReached ==
    ASSUME Types, JobsAbout, ImportsCurrent, ProgramFound, ChangedTold, GraphCurrent, ScopesReached,
           Orderly, NEW w \in Workers, running[w].step = "resolve1",
           NEW p \in Importable, NEW s \in Resolved(running[w], Updated(running[w]).scopes)[p]
    PROVE  p \in Invalidated(Updated(running[w]).graph, {s[1]})
<1> DEFINE job == running[w]
           r == job.root
           cached == Updated(job).scopes
           new == Updated(job).graph
<1>1. /\ job \in CompileJobs /\ job.unimported = {} /\ PkgsOf(job) = ProgramPkgs(r)
  BY JobProgram DEF Parsed
<1>2. /\ new \in Graphs /\ GraphKnows(new, r) /\ ProgramPkgs(r) \ {MainPkg} \subseteq new.nodes
      /\ \A f \in Files : new.modules[f] # {} =>
            \A q \in Existing(r, text[f].imports) : f \in new.children[q]
  BY <1>1, ResolveLinks
<1>3. cached \in Scopes BY <1>1, UpdatedType DEF Types
<1>4. p \in Pkgs BY DEF Importable
<1>5. \A q \in Importable : \A u \in cached[q] : q \in Invalidated(new, {u[1]}) BY <1>1, KeptReached
<1>6. CASE cached[p] # {}
  <2>1. s \in cached[p] BY <1>4, <1>6 DEF Resolved
  <2>2. QED BY <1>5, <2>1
<1>7. CASE cached[p] = {}
  <2>1. /\ p \in Visited(r, job.mods, cached, {MainPkg})
        /\ s \in Computed(r, job.mods, cached, {p})
    BY <1>1, <1>4, <1>7 DEF Resolved
  <2>2. p \in ProgramPkgs(r) BY <1>3, <2>1, VisitedProgram DEF Parsed
  <2> HIDE DEF cached, new
  <2>3. p \in Invalidated(new, {s[1]}) BY <1>2, <1>3, <1>5, <2>1, <2>2, ComputedReached DEF Parsed
  <2>4. QED BY <2>3 DEF new
<1>8. QED BY <1>6, <1>7

LEMMA ReachedStep ==
    ASSUME Types, JobsAbout, ImportsCurrent, ProgramFound, ChangedTold, GraphCurrent, ScopesReached,
           Orderly, [CachesNext]_cacheVars
    PROVE  ScopesReached'
<1>1. ASSUME graph' = graph, scope_map' = scope_map,
             \A w \in Workers : running'[w].step \in Checked => running'[w] = running[w]
      PROVE  ScopesReached'
  BY <1>1 DEF ScopesReached, ReachesAll
<1>2. ASSUME \/ \E r \in Roots : OpenRoot(r)
             \/ \E f \in Files : Edit(f)
             \/ UNCHANGED cacheVars
      PROVE  ScopesReached'
  BY <1>1, <1>2 DEF OpenRoot, Edit, cacheVars, poolVars, scopeVars
<1>3. ASSUME NEW w \in Workers, StartJob(w) PROVE ScopesReached'
  <2>1. graph' = graph /\ scope_map' = scope_map BY <1>3 DEF StartJob, scopeVars
  <2>2. \A v \in Workers : running'[v].step \notin Checked BY <1>3, StartedJob, TheWorker DEF Checked
  <2>3. QED BY <1>1, <2>1, <2>2
<1>4. ASSUME NEW w \in Workers, EarlyStep(w) \/ MarkChanged(w) \/ FindSymbols(w) PROVE ScopesReached'
  <2>1. graph' = graph /\ scope_map' = scope_map
    BY <1>4, EarlyEffect, MarkEffect, SymbolsEffect DEF scopeVars
  <2>2. running'[w].step \notin Checked
    <3>1. CASE EarlyStep(w) BY <3>1, EarlyEffect DEF Checked, Parsing, Idle
    <3>2. CASE MarkChanged(w) BY <3>2, MarkEffect DEF Checked
    <3>3. CASE FindSymbols(w)
      <4>1. running'[w] = Idle BY <3>3, SymbolsEffect
      <4>2. QED BY <4>1 DEF Checked, Idle
    <3>4. QED BY <1>4, <3>1, <3>2, <3>3
  <2>3. QED BY <1>1, <2>1, <2>2, TheWorker
<1>5. ASSUME NEW w \in Workers, Resolve(w) PROVE ScopesReached'
  <2>1. /\ running[w].step = "resolve1" /\ running[w] \in CompileJobs
        /\ running'[w].scopes = Resolved(running[w], Updated(running[w]).scopes)
        /\ graph' = Updated(running[w]).graph /\ scope_map' = Updated(running[w]).scopes
    BY <1>5, ResolveEffect DEF SameProgram
  <2>2. ReachesAll(scope_map)' BY <2>1, KeptReached DEF ReachesAll
  <2>3. ReachesAll(running[w].scopes)' BY <2>1, ResolvedReached DEF ReachesAll
  <2>4. QED BY <2>2, <2>3, TheWorker DEF ScopesReached
<1>6. ASSUME NEW w \in Workers, StoreScopes(w) PROVE ScopesReached'
  <2> DEFINE job == running[w]
             new == Updated(job).graph
  <2>1. /\ job.step = "resolve2" /\ running'[w].scopes = job.scopes
        /\ graph' = new /\ scope_map' = Kept(job.scopes)
    BY <1>6, StoreEffect
  <2>2. /\ job \in CompileJobs /\ new \in Graphs /\ new.modules = graph.modules
        /\ \A q \in Pkgs : graph.children[q] \subseteq new.children[q]
    BY <2>1, StoreLinks
  <2>3. graph \in Graphs /\ job.scopes \in Scopes BY <2>2 DEF Types, ScopeTypes, CompileJobs
  <2> HIDE DEF new
  <2>4. \A f \in Files : Invalidated(graph, {f}) \subseteq Invalidated(new, {f})
    BY <2>2, <2>3, InvalidatedGrows
  <2>5. ReachesAll(job.scopes) BY <2>1 DEF ScopesReached, Checked
  <2>6. \A p \in Importable : \A s \in job.scopes[p] : s[1] \in Files
    BY <2>3 DEF Scopes, Stamps, Importable
  <2>7. \A p \in Importable : \A s \in job.scopes[p] : p \in Invalidated(new, {s[1]})
    BY <2>4, <2>5, <2>6 DEF ReachesAll
  <2>8. \A p \in Importable : Kept(job.scopes)[p] = job.scopes[p]
    BY <2>3 DEF Kept, Scopes, Importable
  <2>9. ReachesAll(scope_map)' BY <2>1, <2>7, <2>8 DEF ReachesAll
  <2>10. ReachesAll(running[w].scopes)' BY <2>1, <2>7 DEF ReachesAll
  <2>11. QED BY <2>9, <2>10, TheWorker DEF ScopesReached
<1>7. QED BY <1>2, <1>3, <1>4, <1>5, <1>6, NextCases, WorkCases

-----------------------------------------------------------------------------
(* Scopes that are up to date are complete. *)

LEMMA FullSame ==
    ASSUME text' = text, edits' = edits
    PROVE  /\ \A s : Newer(s)' <=> Newer(s)
           /\ \A r, p, S : FullAt(r, p, S)' <=> FullAt(r, p, S)
           /\ \A r, S : OfRootAt(r, S)' <=> OfRootAt(r, S)
<1>1. Current' = Current BY DEF Current
<1>2. \A s : Newer(s)' <=> Newer(s) BY DEF Newer
<1>3. \A r, p, S : FullAt(r, p, S)' <=> FullAt(r, p, S) BY <1>1, <1>2 DEF FullAt
<1>4. \A r, S : OfRootAt(r, S)' <=> OfRootAt(r, S) BY DEF OfRootAt
<1>5. QED BY <1>2, <1>3, <1>4

\* The stamps of the newest texts of a package.
LEMMA OwnCurrent ==
    ASSUME Types, NEW r \in Roots, NEW p \in Pkgs
    PROVE  /\ \A f \in PkgFiles[r][p] : <<f, text[f].edit>> \in Own(r, Current, p)
           /\ \A s \in Own(r, Current, p) : \E f \in PkgFiles[r][p] : s = <<f, text[f].edit>>
           /\ \A s \in Own(r, Current, p) : Newer(s)
<1>1. PkgFiles[r][p] \in SUBSET Files BY PkgFilesType
<1>2. Current \in [Files -> SUBSET Sources] BY CurrentType
<1>3. \A f \in PkgFiles[r][p] : Current[f] = {text[f]} BY <1>1 DEF Current
<1>4. /\ \A f \in PkgFiles[r][p] : \A t \in Current[f] : <<f, t.edit>> \in Own(r, Current, p)
      /\ \A s \in Own(r, Current, p) :
            \E f \in PkgFiles[r][p] : \E t \in Current[f] : s = <<f, t.edit>>
  BY <1>2, OwnMember
<1>5. /\ \A f \in PkgFiles[r][p] : <<f, text[f].edit>> \in Own(r, Current, p)
      /\ \A s \in Own(r, Current, p) : \E f \in PkgFiles[r][p] : s = <<f, text[f].edit>>
  BY <1>3, <1>4
<1>6. QED BY <1>5 DEF Newer

\* An edit of a file that scope was computed from outdates it; that of another
\* file leaves what the package sees as it was.
LEMMA FullEdit ==
    ASSUME Types, Types', NEW f \in Files, Edit(f), NEW r \in Roots, NEW p \in Pkgs,
           NEW S \in SUBSET Stamps, OfRootAt(r, S), FullAt(r, p, S)
    PROVE  OfRootAt(r, S)' /\ FullAt(r, p, S)'
<1>1. /\ text'[f].edit = edits + 1 /\ \A h \in Files \ {f} : text'[h] = text[h]
      /\ edits' = edits + 1 /\ edits \in Nat
  BY EditTexts
<1>2. \A s \in S : s[1] \in Files /\ s[2] \in Nat BY CachesAssumption DEF Stamps
<1>3. OfRootAt(r, S)' BY <1>1, <1>2 DEF OfRootAt
<1>4. ASSUME S # {}, \A s \in S : Newer(s)',
             NEW q \in Visited(r, Current', NoScopes, {p})
      PROVE  Own(r, Current', q) \subseteq S
  <2> DEFINE C == Current
             D == Current'
             V == Visited(r, C, NoScopes, {p})
  <2>0. C \in [Files -> SUBSET Sources] /\ D \in [Files -> SUBSET Sources] /\ NoScopes \in Scopes
    BY DEF Current, Types, TextTypes, NoScopes, Scopes
  <2>1. \A s \in S : s[1] # f
    <3>1. ASSUME NEW s \in S, s[1] = f PROVE FALSE
      <4>1. s[2] = edits + 1 BY <1>1, <1>4, <3>1 DEF Newer
      <4>2. s[2] <= edits BY DEF OfRootAt
      <4>3. QED BY <1>1, <4>1, <4>2
    <3>2. QED BY <3>1
  <2>2. \A s \in S : Newer(s) BY <1>1, <1>2, <1>4, <2>1 DEF Newer
  <2>3. \A u \in V : Own(r, C, u) \subseteq S BY <1>4, <2>2 DEF FullAt
  <2> HIDE DEF C, D, V
  <2>4. /\ {p} \subseteq V /\ V \in SUBSET Pkgs
        /\ \A u \in V : NoScopes[u] = {} => ImportsOf(r, C, u) \subseteq V
    BY <2>0, VisitedOne DEF V
  <2>5. \A u \in Pkgs : NoScopes[u] = {} BY DEF NoScopes
  <2>6. ASSUME NEW u \in V, NEW h \in PkgFiles[r][u] PROVE h \in Files /\ D[h] = C[h]
    <3>1. h \in Files /\ u \in Pkgs BY <2>4, PkgFilesType
    <3>2. <<h, text[h].edit>> \in S BY <2>3, <2>6, <3>1, OwnCurrent DEF C
    <3>3. h # f BY <2>1, <3>2
    <3>4. QED BY <1>1, <3>1, <3>3 DEF C, D, Current
  <2>7. ASSUME NEW u \in V PROVE ImportsOf(r, D, u) = ImportsOf(r, C, u) /\ Own(r, D, u) = Own(r, C, u)
    <3>1. \A h \in PkgFiles[r][u] : D[h] = C[h] BY <2>6
    <3>2. ImportsOf(r, D, u) = ImportsOf(r, C, u) BY <3>1 DEF ImportsOf
    <3>3. Own(r, D, u) = Own(r, C, u) BY <3>1 DEF Own
    <3>4. QED BY <3>2, <3>3
  <2>8. \A u \in V : NoScopes[u] = {} => ImportsOf(r, D, u) \subseteq V BY <2>4, <2>5, <2>7
  <2>9. {p} \in SUBSET Pkgs OBVIOUS
  <2>10. Visited(r, D, NoScopes, {p}) \subseteq V BY <2>0, <2>4, <2>8, <2>9, VisitedLeast
  <2>11. q \in V BY <1>4, <2>10 DEF D
  <2>12. Own(r, D, q) \subseteq S BY <2>3, <2>7, <2>11
  <2>13. QED BY <2>12 DEF D
<1>5. FullAt(r, p, S)' BY <1>4 DEF FullAt
<1>6. QED BY <1>3, <1>5

\* What a job computes from complete scopes is complete.
LEMMA ComputedFull ==
    ASSUME Types, JobsAbout, TextsKnown, ImportsCurrent, ProgramFound,
           NEW w \in Workers, running[w].step \in Parsed,
           NEW cached \in Scopes, OfRoot(running[w].root, cached), Full(running[w].root, cached),
           NEW p \in Pkgs
    PROVE  LET S == Computed(running[w].root, running[w].mods, cached, {p}) IN
           OfRootAt(running[w].root, S) /\ FullAt(running[w].root, p, S)
<1> DEFINE job == running[w]
           r == job.root
           mods == job.mods
           S == Computed(r, mods, cached, {p})
           V == Visited(r, mods, cached, {p})
           reach(u) == Visited(r, Current, NoScopes, {u})
<1>1. /\ job \in CompileJobs /\ r \in Roots /\ Busy(w)
      /\ \A f \in RootFiles(r) : mods[f] # {}
      /\ mods \in [Files -> SUBSET Sources]
  BY JobProgram DEF CompileJobs
<1>2. {p} \in SUBSET Pkgs OBVIOUS
<1>3. /\ V \in SUBSET Pkgs /\ p \in V
      /\ \A q \in V : cached[q] = {} => ImportsOf(r, mods, q) \subseteq V
  BY <1>1, VisitedOne
<1>4. /\ \A q \in V : IF cached[q] # {} THEN cached[q] \subseteq S ELSE Own(r, mods, q) \subseteq S
      /\ \A s \in S : \E q \in V : s \in IF cached[q] # {} THEN cached[q] ELSE Own(r, mods, q)
  BY ComputedMember
<1>5. \A q \in Pkgs : ImportsOf(r, mods, q) = ImportsOf(r, Current, q) BY JobImports
<1> HIDE DEF S, V
<1>6. OfRootAt(r, S)
  <2>1. ASSUME NEW s \in S PROVE s[1] \in RootFiles(r) /\ s[2] <= edits
    <3>1. PICK q \in V : s \in IF cached[q] # {} THEN cached[q] ELSE Own(r, mods, q) BY <1>4
    <3>2. CASE cached[q] # {} BY <1>3, <3>1, <3>2 DEF OfRoot, OfRootAt
    <3>3. CASE cached[q] = {}
      <4>1. PICK f \in PkgFiles[r][q] : \E t \in mods[f] : s = <<f, t.edit>>
        BY <1>1, <1>3, <3>1, <3>3, OwnMember
      <4>2. PICK t \in mods[f] : s = <<f, t.edit>> BY <4>1
      <4>3. f \in RootFiles(r) /\ f \in Files BY <1>1, <1>3, <4>1, RootFilesMember, PkgFilesType
      <4>4. t \in LocalTexts(job, f) BY <1>1, <4>2, <4>3, LocalTextsMember
      <4>5. t.edit <= edits BY <1>1, <4>3, <4>4 DEF TextsKnown, Older
      <4>6. QED BY <4>2, <4>3, <4>5
    <3>4. QED BY <3>2, <3>3
  <2>2. QED BY <2>1 DEF OfRootAt
<1>7. ASSUME \A s \in S : Newer(s), NEW q \in reach(p) PROVE Own(r, Current, q) \subseteq S
  <2>1. \A u \in Pkgs : /\ u \in reach(u) /\ reach(u) \in SUBSET Pkgs
                        /\ \A v \in reach(u) : ImportsOf(r, Current, v) \subseteq reach(u)
    <3>1. ASSUME NEW u \in Pkgs
          PROVE  /\ u \in reach(u) /\ reach(u) \in SUBSET Pkgs
                 /\ \A v \in reach(u) : ImportsOf(r, Current, v) \subseteq reach(u)
      <4>1. {u} \in SUBSET Pkgs /\ \A v \in Pkgs : NoScopes[v] = {} BY DEF NoScopes
      <4>2. /\ {u} \subseteq reach(u) /\ reach(u) \subseteq Pkgs
            /\ \A v \in reach(u) : NoScopes[v] = {} => ImportsOf(r, Current, v) \subseteq reach(u)
        BY <1>1, <4>1, VisitedFacts, CurrentType
      <4> HIDE DEF reach
      <4>3. QED BY <4>1, <4>2
    <3>2. QED BY <3>1
  <2> HIDE DEF reach, r, mods
  <2> DEFINE fresh == {u \in V : cached[u] = {}}
             T == fresh \cup UNION {reach(u) : u \in V \ fresh}
  <2>2. \A u \in V : u \in T BY <1>3, <2>1
  <2>3. ASSUME NEW u \in T PROVE ImportsOf(r, Current, u) \subseteq T
    <3>1. CASE u \in fresh
      <4>1. ImportsOf(r, Current, u) \subseteq V BY <1>3, <1>5, <3>1
      <4>2. QED BY <2>2, <4>1
    <3>2. CASE u \notin fresh
      <4>1. PICK v \in V \ fresh : u \in reach(v) BY <2>3, <3>2
      <4>2. ImportsOf(r, Current, u) \subseteq reach(v) BY <1>3, <2>1, <4>1
      <4>3. QED BY <4>1, <4>2
    <3>3. QED BY <3>1, <3>2
  <2>4. T \in SUBSET Pkgs BY <1>3, <2>1
  <2>5. reach(p) \subseteq T
    <3>1. {p} \subseteq T BY <1>3, <2>2
    <3>2. \A u \in T : NoScopes[u] = {} => ImportsOf(r, Current, u) \subseteq T BY <2>3
    <3> HIDE DEF T
    <3>3. Visited(r, Current, NoScopes, {p}) \subseteq T
      BY <1>1, <1>2, <2>4, <3>1, <3>2, CurrentType, VisitedLeast
    <3>4. QED BY <3>3 DEF reach
  <2>6. CASE q \in fresh
    <3>1. Own(r, mods, q) \subseteq S /\ q \in Pkgs BY <1>3, <1>4, <2>6
    <3>2. ASSUME NEW s \in Own(r, Current, q) PROVE s \in S
      <4>1. PICK f \in PkgFiles[r][q] : s = <<f, text[f].edit>> BY <1>1, <3>1, OwnCurrent
      <4>2. f \in RootFiles(r) BY <1>1, <3>1, <4>1, RootFilesMember
      <4>3. PICK t : t \in mods[f] BY <1>1, <4>2
      <4>4. <<f, t.edit>> \in S BY <1>1, <3>1, <4>1, <4>3, OwnMember
      <4>5. t.edit = text[f].edit BY <1>7, <4>4 DEF Newer
      <4>6. QED BY <4>1, <4>4, <4>5
    <3>3. QED BY <3>2
  <2>7. CASE q \notin fresh
    <3>1. PICK v \in V \ fresh : q \in reach(v) BY <1>7, <2>5, <2>7
    <3>2. v \in Pkgs /\ cached[v] # {} /\ cached[v] \subseteq S BY <1>3, <1>4, <3>1
    <3>3. \A s \in cached[v] : Newer(s) BY <1>7, <3>2
    <3>4. FullAt(r, v, cached[v]) BY <3>2 DEF Full, r
    <3>5. Own(r, Current, q) \subseteq cached[v] BY <3>1, <3>2, <3>3, <3>4 DEF FullAt, reach
    <3>6. QED BY <3>2, <3>5
  <2>8. QED BY <2>6, <2>7
<1>8. FullAt(r, p, S) BY <1>7 DEF FullAt
<1>9. QED BY <1>6, <1>8 DEF S

\* The scopes of a program that is resolved.
LEMMA ResolvedFull ==
    ASSUME Types, JobsAbout, TextsKnown, ImportsCurrent, ProgramFound, ScopesFull,
           NEW w \in Workers, running[w].step = "resolve1"
    PROVE  LET job == running[w]
               cached == Updated(job).scopes
               scopes == Resolved(job, cached) IN
           /\ OfRoot(job.root, cached) /\ Full(job.root, cached)
           /\ OfRoot(job.root, scopes) /\ Full(job.root, scopes)
           /\ scopes[MainPkg] # {}
<1> DEFINE job == running[w]
           r == job.root
           cached == Updated(job).scopes
           scopes == Resolved(job, cached)
<1>1. /\ job \in CompileJobs /\ r \in Roots /\ job.unimported = {}
      /\ \A f \in RootFiles(r) : job.mods[f] # {}
      /\ job.mods \in [Files -> SUBSET Sources]
  BY JobProgram DEF Parsed, CompileJobs
<1>2. cached \in Scopes BY <1>1, UpdatedType DEF Types
<1>3. \A p \in Pkgs : cached[p] = {} \/ (program_root = {r} /\ cached[p] = scope_map[p])
  BY <1>1, UpdatedFacts DEF Types
<1> HIDE DEF cached
<1>4. \A p, u : OfRootAt(u, {}) /\ FullAt(u, p, {}) BY DEF OfRootAt, FullAt
<1>5. OfRoot(r, cached) /\ Full(r, cached)
  BY <1>3, <1>4 DEF ScopesFull, OfRoot, Full
<1>6. ASSUME NEW p \in Pkgs
      PROVE  \/ scopes[p] = {} \/ scopes[p] = cached[p]
             \/ scopes[p] = Computed(r, job.mods, cached, {p})
  BY <1>1 DEF Resolved
<1>7. \A p \in Pkgs : LET S == Computed(r, job.mods, cached, {p}) IN OfRootAt(r, S) /\ FullAt(r, p, S)
  BY <1>2, <1>5, ComputedFull DEF Parsed
<1>8. OfRoot(r, scopes) /\ Full(r, scopes)
  <2> HIDE DEF scopes, r
  <2>1. ASSUME NEW p \in Pkgs PROVE OfRootAt(r, scopes[p]) /\ FullAt(r, p, scopes[p])
    BY <1>4, <1>5, <1>6, <1>7 DEF OfRoot, Full
  <2>2. QED BY <2>1 DEF OfRoot, Full
<1>9. scopes[MainPkg] # {}
  <2>1. cached[MainPkg] = {} BY <1>3, CachesAssumption DEF Types, ScopeTypes
  <2>2. MainPkg \in Pkgs BY CachesAssumption
  <2>3. /\ MainPkg \in Visited(r, job.mods, cached, {MainPkg})
        /\ scopes[MainPkg] = Computed(r, job.mods, cached, {MainPkg})
    BY <1>1, <1>2, <2>1, <2>2, VisitedOne DEF Resolved
  <2>4. Own(r, job.mods, MainPkg) \subseteq scopes[MainPkg] BY <2>1, <2>3, ComputedMember
  <2>5. PICK f : f \in PkgFiles[r][MainPkg] BY <1>1, CachesAssumption
  <2>6. job.mods[f] # {} BY <1>1, <2>2, <2>5, RootFilesMember
  <2>7. Own(r, job.mods, MainPkg) # {} BY <1>1, <2>2, <2>5, <2>6, OwnMember
  <2>8. QED BY <2>4, <2>7
<1>10. QED BY <1>5, <1>8, <1>9 DEF cached

LEMMA FullStep ==
    ASSUME Types, Types', JobsAbout, TextsKnown, ImportsCurrent, ProgramFound, ScopesFull,
           Orderly, [CachesNext]_cacheVars
    PROVE  ScopesFull'
<1>1. ASSUME text' = text, edits' = edits, program_root' = program_root, scope_map' = scope_map,
             \A w \in Workers : running'[w].step \in Checked => running'[w] = running[w]
      PROVE  ScopesFull'
  BY <1>1, FullSame DEF ScopesFull, OfRoot, Full
<1>2. ASSUME \/ \E r \in Roots : OpenRoot(r)
             \/ UNCHANGED cacheVars
      PROVE  ScopesFull'
  BY <1>1, <1>2 DEF OpenRoot, cacheVars, textVars, poolVars, scopeVars
<1>3. ASSUME NEW f \in Files, Edit(f) PROVE ScopesFull'
  <2>1. running' = running /\ program_root' = program_root /\ scope_map' = scope_map
    BY <1>3, EditTexts DEF scopeVars
  <2>2. ASSUME NEW r \in Roots, NEW scopes \in Scopes, OfRoot(r, scopes), Full(r, scopes)
        PROVE  OfRoot(r, scopes)' /\ Full(r, scopes)'
    <3>1. ASSUME NEW p \in Pkgs PROVE OfRootAt(r, scopes[p])' /\ FullAt(r, p, scopes[p])'
      <4>1. OfRootAt(r, scopes[p]) /\ FullAt(r, p, scopes[p]) BY <2>2 DEF OfRoot, Full
      <4>2. scopes[p] \in SUBSET Stamps BY DEF Scopes
      <4> DEFINE S == scopes[p]
      <4> HIDE DEF S
      <4>3. OfRootAt(r, S)' /\ FullAt(r, p, S)' BY <1>3, <4>1, <4>2, FullEdit DEF S
      <4>4. QED BY <4>3 DEF S
    <3>2. QED BY <3>1 DEF OfRoot, Full
  <2>3. \A r \in program_root : OfRoot(r, scope_map)' /\ Full(r, scope_map)'
    <3>1. scope_map \in Scopes /\ program_root \in SUBSET Roots BY DEF Types, ScopeTypes
    <3>2. ASSUME NEW r \in program_root PROVE OfRoot(r, scope_map)' /\ Full(r, scope_map)'
      <4> DEFINE map == scope_map
      <4>1. map \in Scopes /\ OfRoot(r, map) /\ Full(r, map) /\ r \in Roots
        BY <3>1 DEF ScopesFull
      <4>2. \A X \in Scopes : OfRoot(r, X) /\ Full(r, X) => OfRoot(r, X)' /\ Full(r, X)'
        BY <2>2, <4>1
      <4>3. \A X : X = scope_map' /\ OfRoot(r, X)' /\ Full(r, X)' => OfRoot(r, scope_map)' /\ Full(r, scope_map)'
        BY DEF OfRoot, Full
      <4>4. QED BY <2>1, <4>1, <4>2, <4>3
    <3>3. QED BY <3>2
  <2>4. ASSUME NEW w \in Workers, running'[w].step \in Checked
        PROVE  /\ OfRoot(running[w].root, running[w].scopes)'
               /\ Full(running[w].root, running[w].scopes)'
               /\ running'[w].scopes[MainPkg] # {}
    <3>1. running[w].step \in Checked BY <2>1, <2>4
    <3>2. /\ running[w].scopes \in Scopes /\ running[w].root \in Roots
          /\ OfRoot(running[w].root, running[w].scopes) /\ Full(running[w].root, running[w].scopes)
          /\ running[w].scopes[MainPkg] # {}
      BY <3>1, AboutRunning DEF ScopesFull, Steps, Parsed, CompileJobs
    <3>3. \A r \in Roots : \A X \in Scopes :
             OfRoot(r, X) /\ Full(r, X) => OfRoot(r, X)' /\ Full(r, X)'
      BY <2>2
    <3>4. \A r, X : r = running'[w].root /\ X = running'[w].scopes /\ OfRoot(r, X)' /\ Full(r, X)'
             => OfRoot(running[w].root, running[w].scopes)' /\ Full(running[w].root, running[w].scopes)'
      BY DEF OfRoot, Full
    <3>5. QED BY <2>1, <3>2, <3>3, <3>4
  <2>5. QED BY <2>1, <2>3, <2>4 DEF ScopesFull
<1>4. ASSUME NEW w \in Workers, StartJob(w) PROVE ScopesFull'
  <2>1. /\ text' = text /\ edits' = edits /\ program_root' = program_root /\ scope_map' = scope_map
    BY <1>4 DEF StartJob, textVars, scopeVars
  <2>2. \A v \in Workers : running'[v].step \notin Checked BY <1>4, StartedJob, TheWorker DEF Checked
  <2>3. QED BY <1>1, <2>1, <2>2
<1>5. ASSUME NEW w \in Workers, EarlyStep(w) \/ MarkChanged(w) \/ FindSymbols(w) PROVE ScopesFull'
  <2>1. program_root' = program_root /\ scope_map' = scope_map
    BY <1>5, EarlyEffect, MarkEffect, SymbolsEffect DEF scopeVars
  <2>2. text' = text /\ edits' = edits
    BY <1>5, EarlyEffect, MarkEffect, SymbolsEffect DEF Flow, StepFacts, SameProgram
  <2>3. running'[w].step \notin Checked
    <3>1. CASE EarlyStep(w) BY <3>1, EarlyEffect DEF Checked, Parsing, Idle
    <3>2. CASE MarkChanged(w) BY <3>2, MarkEffect DEF Checked
    <3>3. CASE FindSymbols(w)
      <4>1. running'[w] = Idle BY <3>3, SymbolsEffect
      <4>2. QED BY <4>1 DEF Checked, Idle
    <3>4. QED BY <1>5, <3>1, <3>2, <3>3
  <2>4. QED BY <1>1, <2>1, <2>2, <2>3, TheWorker
<1>6. ASSUME NEW w \in Workers, Resolve(w) PROVE ScopesFull'
  <2> DEFINE job == running[w]
             cached == Updated(job).scopes
             scopes == Resolved(job, cached)
  <2>1. /\ job.step = "resolve1" /\ running'[w].root = job.root /\ running'[w].scopes = scopes
        /\ program_root' = {job.root} /\ scope_map' = cached /\ text' = text /\ edits' = edits
    BY <1>6, ResolveEffect DEF SameProgram
  <2>2. /\ OfRoot(job.root, cached) /\ Full(job.root, cached)
        /\ OfRoot(job.root, scopes) /\ Full(job.root, scopes) /\ scopes[MainPkg] # {}
    BY <2>1, ResolvedFull
  <2> HIDE DEF cached, scopes
  <2>3. \A r \in program_root' : OfRoot(r, scope_map)' /\ Full(r, scope_map)'
    BY <2>1, <2>2, FullSame DEF OfRoot, Full
  <2>4. OfRoot(running[w].root, running[w].scopes)' /\ Full(running[w].root, running[w].scopes)'
    BY <2>1, <2>2, FullSame DEF OfRoot, Full
  <2>5. QED BY <2>1, <2>2, <2>3, <2>4, TheWorker DEF ScopesFull
<1>7. ASSUME NEW w \in Workers, StoreScopes(w) PROVE ScopesFull'
  <2> DEFINE job == running[w]
             scopes == job.scopes
  <2>1. /\ job.step = "resolve2" /\ running'[w].root = job.root /\ running'[w].scopes = scopes
        /\ program_root' = {job.root} /\ scope_map' = Kept(scopes) /\ text' = text /\ edits' = edits
        /\ job \in CompileJobs
    BY <1>7, StoreEffect DEF SameProgram
  <2>2. OfRoot(job.root, scopes) /\ Full(job.root, scopes) /\ scopes[MainPkg] # {}
    BY <2>1 DEF ScopesFull, Checked
  <2>3. \A p \in Pkgs : Kept(scopes)[p] \in {{}, scopes[p]}
    BY <2>1 DEF Kept, CompileJobs, Scopes
  <2>4. \A p, u : OfRootAt(u, {}) /\ FullAt(u, p, {}) BY DEF OfRootAt, FullAt
  <2>5. OfRoot(job.root, Kept(scopes)) /\ Full(job.root, Kept(scopes))
    BY <2>2, <2>3, <2>4 DEF OfRoot, Full
  <2>6. \A r \in program_root' : OfRoot(r, scope_map)' /\ Full(r, scope_map)'
    BY <2>1, <2>5, FullSame DEF OfRoot, Full
  <2>7. OfRoot(running[w].root, running[w].scopes)' /\ Full(running[w].root, running[w].scopes)'
    BY <2>1, <2>2, FullSame DEF OfRoot, Full
  <2>8. QED BY <2>1, <2>2, <2>6, <2>7, TheWorker DEF ScopesFull
<1>8. QED BY <1>2, <1>3, <1>4, <1>5, <1>6, <1>7, NextCases, WorkCases

-----------------------------------------------------------------------------
(* Scopes are up to date, or the job that invalidates them waits. *)

\* A job before the check stays one.
LEMMA JobGoesOn ==
    ASSUME Types, Types', JobsAbout, ImportsCurrent, ProgramFound, Orderly,
           NEW w \in Workers, EarlyStep(w) \/ MarkChanged(w)
    PROVE  /\ running[w] \in CompileJobs /\ running[w] # Idle /\ running[w].step \in Steps \ Checked
           /\ running'[w] \in CompileJobs /\ running'[w] # Idle /\ running'[w].step \in Steps \ Checked
           /\ running'[w].root = running[w].root /\ running'[w].file = running[w].file
           /\ jobs' = jobs /\ text' = text /\ edits' = edits /\ opened' = opened
           /\ program_root' = program_root /\ graph' = graph /\ scope_map' = scope_map
           /\ invalidate_pkgs' = invalidate_pkgs /\ gs' = gs /\ compiled' = compiled
<1>1. WorkStep(w) BY DEF EarlyStep, WorkStep
<1>2. Flow(w) BY <1>1, WorkFlow
<1>3. jobs' = jobs /\ text' = text /\ edits' = edits /\ opened' = opened /\ running[w] \in CompileJobs
  BY <1>2 DEF Flow, StepFacts
<1>4. /\ program_root' = program_root /\ graph' = graph /\ scope_map' = scope_map
      /\ invalidate_pkgs' = invalidate_pkgs /\ gs' = gs /\ compiled' = compiled
      /\ running[w].step \notin Checked
  BY EarlyEffect, MarkEffect DEF scopeVars, Early, Parsing, Checked
<1>5. running'[w] # Idle
  <2>1. ~FindSymbols(w) BY <1>4 DEF FindSymbols, At, Checked
  <2>2. QED BY <1>1, <2>1, WorkFound
<1>6. JobFacts(w) BY <1>2, <1>5 DEF Flow, Ends
<1>7. running'[w].step \notin Checked BY <1>5, EarlyEffect, MarkEffect DEF Parsing, Checked
<1>8. /\ running'[w] \in CompileJobs /\ running'[w].root = running[w].root
      /\ running'[w].file = running[w].file
  BY <1>6 DEF JobFacts
<1>9. running[w] # Idle BY <1>3, TheWorker DEF CompileJobs
<1>10. running[w].step \in Steps /\ running'[w].step \in Steps BY <1>3, <1>8 DEF CompileJobs
<1>11. QED BY <1>3, <1>4, <1>5, <1>7, <1>8, <1>9, <1>10

\* What is computed is up to date, or the job that changes it waits.
CurrentAt(r, S) == \A s \in S : Newer(s) \/ Due(r, s[1])
LEMMA ComputedCurrent ==
    ASSUME Types, JobsAbout, ImportsCurrent, ProgramFound, TextsCurrent,
           NEW w \in Workers, running[w].step \in Parsed,
           NEW cached \in Scopes, \A q \in Pkgs : CurrentAt(running[w].root, cached[q]),
           NEW p \in Pkgs
    PROVE  CurrentAt(running[w].root, Computed(running[w].root, running[w].mods, cached, {p}))
<1> DEFINE job == running[w]
           r == job.root
           mods == job.mods
           V == Visited(r, mods, cached, {p})
<1>1. job \in CompileJobs /\ r \in Roots /\ Busy(w) /\ mods \in [Files -> SUBSET Sources]
  BY JobProgram DEF CompileJobs
<1>2. V \in SUBSET Pkgs BY <1>1, VisitedOne
<1>3. \A s \in Computed(r, mods, cached, {p}) :
         \E q \in V : s \in IF cached[q] # {} THEN cached[q] ELSE Own(r, mods, q)
  BY ComputedMember
<1> HIDE DEF V
<1>4. ASSUME NEW s \in Computed(r, mods, cached, {p}) PROVE Newer(s) \/ Due(r, s[1])
  <2>1. PICK q \in V : s \in IF cached[q] # {} THEN cached[q] ELSE Own(r, mods, q) BY <1>3
  <2>2. CASE cached[q] # {} BY <1>2, <2>1, <2>2 DEF CurrentAt
  <2>3. CASE cached[q] = {}
    <3>1. PICK f \in PkgFiles[r][q] : \E t \in mods[f] : s = <<f, t.edit>>
      BY <1>1, <1>2, <2>1, <2>3, OwnMember
    <3>2. PICK t \in mods[f] : s = <<f, t.edit>> BY <3>1
    <3>3. f \in RootFiles(r) /\ f \in Files BY <1>1, <1>2, <3>1, RootFilesMember, PkgFilesType
    <3>4. t \in LocalTexts(job, f) BY <1>1, <3>2, <3>3, LocalTextsMember
    <3>5. t = text[f] \/ Awaited(f) BY <1>1, <3>3, <3>4 DEF TextsCurrent
    <3>6. Awaited(f) => Due(r, f) BY <1>1, <3>3 DEF Awaited
    <3>7. s[1] = f /\ s[2] = t.edit BY <3>2
    <3>8. QED BY <3>5, <3>6, <3>7 DEF Newer
  <2>4. QED BY <2>2, <2>3
<1>5. QED BY <1>4 DEF CurrentAt

\* What update keeps is up to date, because the rest was reached from the
\* changed file.
LEMMA KeptCurrent ==
    ASSUME Types, JobsAbout, ChangedTold, ScopesReached, ScopesCurrent, Orderly,
           NEW w \in Workers, running[w].step = "resolve1", NEW p \in Pkgs
    PROVE  CurrentAt(running[w].root, Updated(running[w]).scopes[p])
<1> DEFINE job == running[w]
           r == job.root
           reg == Registered(graph, job)
<1>1. job \in CompileJobs BY AboutRunning, StepsAre
<1>2. ASSUME NEW s \in Updated(job).scopes[p] PROVE Newer(s) \/ Due(r, s[1])
  <2>1. program_root = {r} /\ p \notin Updated(job).invalid /\ s \in scope_map[p]
    BY <1>1, UpdatedFacts DEF Types
  <2>2. \/ Newer(s) \/ Due(r, s[1])
        \/ \E v \in Workers : /\ running[v].step \in Steps \ Checked
                              /\ running[v].root = r /\ running[v].file = {s[1]}
    BY <2>1 DEF ScopesCurrent
  <2>3. ASSUME job.file = {s[1]} PROVE FALSE
    <3> DEFINE F == {s[1]}
    <3>1. changed = F BY <2>3 DEF ChangedTold
    <3>2. UpdateFiles(job) = F /\ OldGraph(job) = graph
      BY <2>1, <3>1 DEF UpdateFiles, Marked, OldGraph
    <3>3. graph \in Graphs /\ p # MainPkg /\ F \in SUBSET Files
      BY <2>1 DEF Types, ScopeTypes, Scopes, Stamps
    <3>4. p \in Importable BY <3>3 DEF Importable
    <3>5. Updated(job).invalid = Invalidated(reg, F) BY <1>1, <3>2, UpdatedFacts DEF Types
    <3>6. p \in Invalidated(graph, F) BY <2>1, <3>4 DEF ScopesReached, ReachesAll
    <3>7. /\ reg \in Graphs
          /\ \A f \in Files : graph.modules[f] \subseteq reg.modules[f]
          /\ \A q \in Pkgs : graph.children[q] \subseteq reg.children[q]
      BY <1>1, <3>3, RegisteredFacts
    <3> HIDE DEF F, reg
    <3>8. Invalidated(graph, F) \subseteq Invalidated(reg, F) BY <3>3, <3>7, InvalidatedGrows
    <3>9. QED BY <2>1, <3>5, <3>6, <3>8
  <2>4. QED BY <2>2, <2>3, TheWorker
<1>3. QED BY <1>2 DEF CurrentAt

LEMMA CurrentStep ==
    ASSUME Types, Types', JobsAbout, ImportsCurrent, ProgramFound, TextsCurrent, ChangedTold,
           ScopesReached, ScopesFull, ScopesCurrent, Orderly, [CachesNext]_cacheVars
    PROVE  ScopesCurrent'
<1>1. ASSUME \/ \E r \in Roots : OpenRoot(r)
             \/ UNCHANGED cacheVars
      PROVE  ScopesCurrent'
  <2>1. /\ running' = running /\ program_root' = program_root /\ scope_map' = scope_map /\ text' = text
    BY <1>1 DEF OpenRoot, cacheVars, textVars, poolVars, scopeVars
  <2>2. \A r, f : Due(r, f) => Due(r, f)'
    <3>1. CASE \E r \in Roots : OpenRoot(r) BY <3>1, OpenRootGrows, QueueGrows
    <3>2. CASE UNCHANGED cacheVars BY <3>2 DEF cacheVars, poolVars, Due
    <3>3. QED BY <1>1, <3>1, <3>2
  <2>3. \A s : Newer(s)' <=> Newer(s) BY <2>1 DEF Newer
  <2>4. QED BY <2>1, <2>2, <2>3 DEF ScopesCurrent
<1>2. ASSUME NEW f \in Files, Edit(f) PROVE ScopesCurrent'
  <2>1. /\ running' = running /\ program_root' = program_root /\ scope_map' = scope_map
        /\ \A h \in Files \ {f} : text'[h] = text[h]
    BY <1>2, EditTexts DEF scopeVars
  <2>2. \A r, h : Due(r, h) => Due(r, h)' BY <1>2, <2>1, EditQueue, QueueGrows
  <2>3. \A r \in opened : f \in RootFiles(r) => Due(r, f)' BY <1>2, EditQueue DEF Due
  <2>4. ASSUME NEW r \in opened, NEW S \in SUBSET Stamps, OfRootAt(r, S), NEW s \in S
        PROVE  /\ Newer(s) => Newer(s)' \/ Due(r, s[1])'
               /\ Due(r, s[1]) => Due(r, s[1])'
    <3>1. s[1] \in RootFiles(r) /\ s[1] \in Files BY <2>4 DEF OfRootAt, Stamps
    <3>2. QED BY <2>1, <2>2, <2>3, <3>1 DEF Newer
  <2>5. ASSUME NEW r \in program_root', NEW p \in Pkgs, NEW s \in scope_map'[p]
        PROVE  \/ Newer(s)' \/ Due(r, s[1])'
               \/ \E w \in Workers : /\ running'[w].step \in Steps \ Checked
                                     /\ running'[w].root = r /\ running'[w].file = {s[1]}
    <3>1. r \in opened /\ scope_map[p] \in SUBSET Stamps /\ OfRootAt(r, scope_map[p]) /\ s \in scope_map[p]
      BY <2>1, <2>5 DEF JobsAbout, Types, ScopeTypes, Scopes, ScopesFull, OfRoot
    <3>2. \/ Newer(s) \/ Due(r, s[1])
          \/ \E w \in Workers : /\ running[w].step \in Steps \ Checked
                                /\ running[w].root = r /\ running[w].file = {s[1]}
      BY <2>1, <2>5 DEF ScopesCurrent
    <3>3. QED BY <2>1, <2>4, <3>1, <3>2
  <2>6. ASSUME NEW w \in Workers, NEW p \in Pkgs, running'[w].step \in Checked,
               NEW s \in running'[w].scopes[p]
        PROVE  Newer(s)' \/ Due(running[w].root, s[1])'
    <3>1. running[w].step \in Checked BY <2>1, <2>6
    <3>2. running[w] \in CompileJobs /\ running[w].root \in opened
      BY <3>1, AboutRunning DEF Steps, Parsed
    <3>3. running[w].scopes[p] \in SUBSET Stamps /\ OfRootAt(running[w].root, running[w].scopes[p])
      BY <3>1, <3>2 DEF CompileJobs, Scopes, ScopesFull, OfRoot
    <3>4. Newer(s) \/ Due(running[w].root, s[1]) BY <2>1, <2>6, <3>1 DEF ScopesCurrent
    <3>5. \A r : r = running'[w].root /\ Due(r, s[1])' => Due(running[w].root, s[1])' BY DEF Due
    <3>6. QED BY <2>1, <2>4, <2>6, <3>2, <3>3, <3>4, <3>5
  <2>7. QED BY <2>5, <2>6 DEF ScopesCurrent
<1>3. ASSUME NEW w \in Workers, StartJob(w) PROVE ScopesCurrent'
  <2>1. /\ text' = text /\ program_root' = program_root /\ scope_map' = scope_map
    BY <1>3 DEF StartJob, textVars, scopeVars
  <2>2. /\ running'[w].step = "start" /\ running'[w].root = jobs[1].root /\ running'[w].file = jobs[1].file
    BY <1>3, StartedJob
  <2>3. running[w] = Idle BY <1>3, StartJobQueue
  <2>4. \A v \in Workers : running[v].step \notin Steps /\ running'[v].step \notin Checked
    BY <2>2, <2>3, TheWorker DEF Checked
  <2>5. ASSUME NEW r, NEW f, Due(r, f) PROVE Due(r, f)' \/ (running'[w].root = r /\ running'[w].file = {f})
    <3>1. PICK i \in DOMAIN jobs : jobs[i].root = r /\ jobs[i].file = {f} BY <2>5 DEF Due
    <3>2. CASE i = 1 BY <2>2, <3>1, <3>2
    <3>3. CASE i # 1
      <4>1. i - 1 \in DOMAIN jobs' /\ jobs'[i - 1] = jobs[i] BY <1>3, <3>3, StartJobQueue
      <4>2. QED BY <3>1, <4>1 DEF Due
    <3>4. QED BY <3>2, <3>3
  <2>6. \A s : Newer(s)' <=> Newer(s) BY <2>1 DEF Newer
  <2>7. running'[w].step \in Steps \ Checked BY <2>2 DEF Steps, Early, Checked
  <2>8. ASSUME NEW r \in program_root, NEW p \in Pkgs, NEW s \in scope_map[p]
        PROVE  \/ Newer(s)' \/ Due(r, s[1])'
               \/ \E v \in Workers : /\ running'[v].step \in Steps \ Checked
                                     /\ running'[v].root = r /\ running'[v].file = {s[1]}
    <3>1. Newer(s) \/ Due(r, s[1]) BY <2>4 DEF ScopesCurrent
    <3>2. QED BY <2>5, <2>6, <2>7, <3>1
  <2>9. QED BY <2>1, <2>4, <2>8 DEF ScopesCurrent
<1>4. ASSUME NEW w \in Workers, EarlyStep(w) \/ MarkChanged(w) PROVE ScopesCurrent'
  <2>1. /\ running'[w].step \in Steps \ Checked
        /\ running'[w].root = running[w].root /\ running'[w].file = running[w].file
        /\ jobs' = jobs /\ text' = text /\ program_root' = program_root /\ scope_map' = scope_map
    BY <1>4, JobGoesOn
  <2>2. \A r, f : Due(r, f)' <=> Due(r, f) BY <2>1 DEF Due
  <2>3. \A s : Newer(s)' <=> Newer(s) BY <2>1 DEF Newer
  <2>4. ASSUME NEW r \in program_root', NEW p \in Pkgs, NEW s \in scope_map'[p]
        PROVE  \/ Newer(s)' \/ Due(r, s[1])'
               \/ \E v \in Workers : /\ running'[v].step \in Steps \ Checked
                                     /\ running'[v].root = r /\ running'[v].file = {s[1]}
    <3>1. \/ Newer(s) \/ Due(r, s[1])
          \/ \E v \in Workers : /\ running[v].step \in Steps \ Checked
                                /\ running[v].root = r /\ running[v].file = {s[1]}
      BY <2>1, <2>4 DEF ScopesCurrent
    <3>2. \A v \in Workers : v = w BY TheWorker
    <3>3. QED BY <2>1, <2>2, <2>3, <3>1, <3>2
  <2>5. \A v \in Workers : running'[v].step \notin Checked BY <2>1, TheWorker
  <2>6. QED BY <2>4, <2>5 DEF ScopesCurrent
<1>5. ASSUME NEW w \in Workers, Resolve(w) PROVE ScopesCurrent'
  <2> DEFINE job == running[w]
             cached == Updated(job).scopes
             scopes == Resolved(job, cached)
  <2>1. /\ job.step = "resolve1" /\ running'[w].root = job.root /\ running'[w].scopes = scopes
        /\ program_root' = {job.root} /\ scope_map' = cached /\ text' = text /\ jobs' = jobs
        /\ job \in CompileJobs
    BY <1>5, ResolveEffect DEF SameProgram
  <2>2. \A p \in Pkgs : CurrentAt(job.root, cached[p]) BY <2>1, KeptCurrent
  <2>3. cached \in Scopes BY <2>1, UpdatedType DEF Types
  <2>4. job.unimported = {} BY <2>1, JobProgram DEF Parsed
  <2> HIDE DEF cached
  <2>5. \A p \in Pkgs : CurrentAt(job.root, Computed(job.root, job.mods, cached, {p}))
    BY <2>1, <2>2, <2>3, ComputedCurrent DEF Parsed
  <2>6. \A p \in Pkgs : \/ scopes[p] = {} \/ scopes[p] = cached[p]
                        \/ scopes[p] = Computed(job.root, job.mods, cached, {p})
    BY <2>4 DEF Resolved
  <2> HIDE DEF scopes
  <2>7. \A p \in Pkgs : CurrentAt(job.root, scopes[p]) BY <2>2, <2>5, <2>6 DEF CurrentAt
  <2>8. \A r, f : Due(r, f)' <=> Due(r, f) BY <2>1 DEF Due
  <2>9. \A s : Newer(s)' <=> Newer(s) BY <2>1 DEF Newer
  <2>10. \A r \in program_root', p \in Pkgs : \A s \in scope_map'[p] : Newer(s)' \/ Due(r, s[1])'
    BY <2>1, <2>2, <2>8, <2>9 DEF CurrentAt
  <2>11. \A p \in Pkgs : \A s \in running'[w].scopes[p] : Newer(s)' \/ Due(running[w].root, s[1])'
    <3>1. \A f : Due(job.root, f) => Due(running[w].root, f)' BY <2>1 DEF Due
    <3>2. QED BY <2>1, <2>7, <2>9, <3>1 DEF CurrentAt
  <2>12. QED BY <2>10, <2>11, TheWorker DEF ScopesCurrent
<1>6. ASSUME NEW w \in Workers, StoreScopes(w) PROVE ScopesCurrent'
  <2> DEFINE job == running[w]
  <2>1. /\ job.step = "resolve2" /\ running'[w].root = job.root /\ running'[w].scopes = job.scopes
        /\ program_root' = {job.root} /\ scope_map' = Kept(job.scopes) /\ text' = text /\ jobs' = jobs
        /\ job \in CompileJobs
    BY <1>6, StoreEffect DEF SameProgram
  <2>2. \A p \in Pkgs : \A s \in job.scopes[p] : Newer(s) \/ Due(job.root, s[1])
    BY <2>1 DEF ScopesCurrent, Checked
  <2>3. \A p \in Pkgs : Kept(job.scopes)[p] \in {{}, job.scopes[p]}
    BY <2>1 DEF Kept, CompileJobs, Scopes
  <2>4. \A r, f : Due(r, f)' <=> Due(r, f) BY <2>1 DEF Due
  <2>5. \A s : Newer(s)' <=> Newer(s) BY <2>1 DEF Newer
  <2>6. \A r \in program_root', p \in Pkgs : \A s \in scope_map'[p] : Newer(s)' \/ Due(r, s[1])'
    BY <2>1, <2>2, <2>3, <2>4, <2>5
  <2>7. \A p \in Pkgs : \A s \in running'[w].scopes[p] : Newer(s)' \/ Due(running[w].root, s[1])'
    <3>1. \A f : Due(job.root, f) => Due(running[w].root, f)' BY <2>1 DEF Due
    <3>2. QED BY <2>1, <2>2, <2>5, <3>1
  <2>8. QED BY <2>6, <2>7, TheWorker DEF ScopesCurrent
<1>7. ASSUME NEW w \in Workers, FindSymbols(w) PROVE ScopesCurrent'
  <2>1. /\ running[w].step = "symbols" /\ running'[w] = Idle /\ text' = text /\ jobs' = jobs
        /\ program_root' = program_root /\ scope_map' = scope_map
    BY <1>7, SymbolsEffect DEF scopeVars
  <2>2. \A v \in Workers : running[v].step \notin Steps \ Checked /\ running'[v].step \notin Checked
    BY <2>1, TheWorker DEF Checked, Idle
  <2>3. \A r, f : Due(r, f)' <=> Due(r, f) BY <2>1 DEF Due
  <2>4. \A s : Newer(s)' <=> Newer(s) BY <2>1 DEF Newer
  <2>5. QED BY <2>1, <2>2, <2>3, <2>4 DEF ScopesCurrent
<1>8. QED BY <1>1, <1>2, <1>3, <1>4, <1>5, <1>6, <1>7, NextCases, WorkCases

-----------------------------------------------------------------------------
(* Results are up to date, or a job is under way. *)

\* The newest stamps of the program are those of the files below its root.
LEMMA NewestMember ==
    ASSUME Types, InOrder, NEW r \in Roots
    PROVE  /\ \A f \in RootFiles(r) : <<f, text[f].edit>> \in Newest(r)
           /\ \A s \in Newest(r) : \E f \in RootFiles(r) : s = <<f, text[f].edit>>
           /\ \A s \in Newest(r) : \E p \in ProgramPkgs(r) : s \in Own(r, Current, p)
<1>1. RootFiles(r) = ProgramFiles(r) BY DEF InOrder
<1>2. /\ \A f \in RootFiles(r) : <<f, text[f].edit>> \in Newest(r)
      /\ \A s \in Newest(r) : \E f \in RootFiles(r) : s = <<f, text[f].edit>>
  BY <1>1 DEF Newest, Stamp
<1>3. ASSUME NEW s \in Newest(r) PROVE \E p \in ProgramPkgs(r) : s \in Own(r, Current, p)
  <2>1. PICK f \in RootFiles(r) : s = <<f, text[f].edit>> BY <1>2
  <2>2. PICK p \in ProgramPkgs(r) : f \in PkgFiles[r][p] BY <1>1, <2>1 DEF ProgramFiles
  <2>3. p \in Pkgs BY ProgramFacts
  <2>4. QED BY <2>1, <2>2, <2>3, OwnCurrent
<1>4. QED BY <1>2, <1>3

\* Stamps of the newest texts of all files of the program are the newest.
LEMMA NewestAre ==
    ASSUME Types, InOrder, NEW r \in Roots, NEW S \in SUBSET Stamps, OfRootAt(r, S),
           \A s \in S : Newer(s), \A p \in ProgramPkgs(r) : Own(r, Current, p) \subseteq S
    PROVE  S = Newest(r)
<1>1. Newest(r) \subseteq S BY NewestMember
<1>2. ASSUME NEW s \in S PROVE s \in Newest(r)
  <2>1. s = <<s[1], s[2]>> BY DEF Stamps
  <2>2. s[1] \in RootFiles(r) /\ s[2] = text[s[1]].edit BY DEF OfRootAt, Newer
  <2>3. QED BY <2>1, <2>2, NewestMember
<1>3. QED BY <1>1, <1>2

LEMMA NewestSame ==
    ASSUME Types, Types', InOrder, InOrder', NEW r \in Roots,
           \A f \in RootFiles(r) : text'[f] = text[f]
    PROVE  Newest(r)' = Newest(r)
<1>1. RootFiles(r) = ProgramFiles(r) /\ RootFiles(r) = ProgramFiles(r)' BY DEF InOrder
<1>2. Newest(r) = {Stamp(f, text[f]) : f \in RootFiles(r)} BY <1>1 DEF Newest
<1>3. Newest(r)' = {Stamp(f, text'[f]) : f \in RootFiles(r)} BY <1>1 DEF Newest
<1>4. QED BY <1>2, <1>3

\* Whether a job for a root is under way.
LEMMA UnderWaySteps ==
    ASSUME Types, Types', JobsAbout, ImportsCurrent, ProgramFound, Orderly, [CachesNext]_cacheVars,
           NEW r, UnderWay(r)
    PROVE  UnderWay(r)' \/ \E w \in Workers : FindSymbols(w) /\ running[w].root = r
<1>1. ASSUME running' = running, DOMAIN jobs \subseteq DOMAIN jobs',
             \A i \in DOMAIN jobs : jobs'[i] = jobs[i]
      PROVE  UnderWay(r)'
  BY <1>1 DEF UnderWay, Busy
<1>2. ASSUME \/ \E u \in Roots : OpenRoot(u)
             \/ \E f \in Files : Edit(f)
             \/ UNCHANGED cacheVars
      PROVE  UnderWay(r)'
  <2>1. CASE \E u \in Roots : OpenRoot(u) BY <1>1, <2>1, OpenRootGrows
  <2>2. CASE \E f \in Files : Edit(f) BY <1>1, <2>2, EditQueue, EditTexts
  <2>3. CASE UNCHANGED cacheVars BY <1>1, <2>3 DEF cacheVars, poolVars
  <2>4. QED BY <1>2, <2>1, <2>2, <2>3
<1>3. ASSUME NEW w \in Workers, StartJob(w) PROVE UnderWay(r)'
  <2>1. running[w] = Idle /\ running'[w] = jobs[1] BY <1>3, StartJobQueue
  <2>2. running'[w] # Idle BY <1>3, StartedJob DEF Idle
  <2>3. PICK i \in DOMAIN jobs : jobs[i].root = r BY <2>1, TheWorker DEF UnderWay, Busy
  <2>4. CASE i = 1 BY <2>1, <2>2, <2>3, <2>4 DEF UnderWay, Busy
  <2>5. CASE i # 1
    <3>1. i - 1 \in DOMAIN jobs' /\ jobs'[i - 1] = jobs[i] BY <1>3, <2>5, StartJobQueue
    <3>2. QED BY <2>3, <3>1 DEF UnderWay
  <2>6. QED BY <2>4, <2>5
<1>4. ASSUME NEW w \in Workers, WorkStep(w), ~(FindSymbols(w) /\ running[w].root = r) PROVE UnderWay(r)'
  <2>1. Flow(w) BY <1>4, WorkFlow
  <2>2. jobs' = jobs BY <2>1 DEF Flow, StepFacts
  <2>3. CASE \E i \in DOMAIN jobs : jobs[i].root = r BY <2>2, <2>3 DEF UnderWay
  <2>4. CASE running[w].root = r
    <3>1. running'[w] # Idle BY <1>4, <2>4, WorkFound
    <3>2. running'[w].root = r BY <2>1, <2>4, <3>1 DEF Flow, Ends, JobFacts
    <3>3. QED BY <3>1, <3>2 DEF UnderWay, Busy
  <2>5. QED BY <2>3, <2>4, TheWorker DEF UnderWay
<1>5. QED BY <1>2, <1>3, <1>4, NextCases

\* What an orderly edit leaves in order.
LEMMA InOrderEdit ==
    ASSUME Orderly, NEW f \in Files, Edit(f) PROVE InOrder'
  BY DEF Orderly, Edit

\* A root is under way after an edit of one of its files.
LEMMA UnderWayEdit ==
    ASSUME Types, NEW f \in Files, Edit(f), NEW r \in opened, f \in RootFiles(r)
    PROVE  UnderWay(r)'
  BY EditQueue DEF UnderWay

LEMMA ResultsStep ==
    ASSUME Types, Types', JobsAbout, ImportsCurrent, ProgramFound, ScopesFull, ScopesCurrent,
           ResultsCurrent, Orderly, [CachesNext]_cacheVars
    PROVE  ResultsCurrent'
<1> SUFFICES ASSUME NEW r \in opened' PROVE UnderWay(r)' \/ compiled'[r].scopes = Newest(r)'
  BY DEF ResultsCurrent
<1>0. r \in Roots /\ InOrder BY DEF Types, TextTypes, ImportsCurrent
<1>1. CASE r \notin opened
  <2>1. OpenRoot(r)
    <3>1. PICK u \in Roots : OpenRoot(u)
      <4>1. \A w \in Workers : WorkStep(w) => opened' = opened BY WorkFlow DEF Flow, StepFacts
      <4>2. QED BY <1>1, <4>1, NextCases DEF Edit, StartJob, cacheVars, textVars
    <3>2. u = r BY <1>1, <3>1 DEF OpenRoot
    <3>3. QED BY <3>1, <3>2
  <2>2. PICK file : jobs'[Len(jobs) + 1] = Job(r, file) /\ Len(jobs) + 1 \in DOMAIN jobs'
    BY <1>0, <2>1, OpenRootQueue
  <2>3. QED BY <2>2 DEF UnderWay, Job
<1>2. CASE r \in opened /\ UnderWay(r)
  <2>1. CASE UnderWay(r)' BY <2>1
  <2>2. CASE \E w \in Workers : FindSymbols(w) /\ running[w].root = r
    <3>1. PICK w \in Workers : FindSymbols(w) /\ running[w].root = r BY <2>2
    <3> DEFINE S == running[w].scopes[MainPkg]
    <3>2. /\ running[w] \in CompileJobs /\ running[w].step \in Checked
          /\ compiled'[r].scopes = S /\ text' = text /\ jobs' = jobs
      <4>1. /\ running[w] \in CompileJobs /\ running[w].step = "symbols" /\ text' = text /\ jobs' = jobs
            /\ compiled' = [compiled EXCEPT ![r] =
                  [scopes |-> S,
                   symbols |-> ProgramSymbols(running[w], SymbolsOf(running[w], gs, invalidate_pkgs))]]
        BY <3>1, SymbolsEffect
      <4>2. compiled'[r].scopes = S BY <1>0, <4>1 DEF Types, ResultTypes
      <4>3. QED BY <4>1, <4>2 DEF Checked
    <3>3. CASE \E i \in DOMAIN jobs : jobs[i].root = r BY <3>2, <3>3 DEF UnderWay
    <3>4. CASE ~\E i \in DOMAIN jobs : jobs[i].root = r
      <4>1. MainPkg \in Pkgs BY CachesAssumption
      <4>2. \A s \in S : Newer(s) BY <3>1, <3>2, <3>4, <4>1 DEF ScopesCurrent, Due
      <4>3. S \in SUBSET Stamps BY <3>2, <4>1 DEF CompileJobs, Scopes
      <4>4. OfRootAt(r, S) /\ FullAt(r, MainPkg, S) /\ S # {}
        BY <3>1, <3>2, <4>1 DEF ScopesFull, OfRoot, Full
      <4>5. \A p \in ProgramPkgs(r) : Own(r, Current, p) \subseteq S
        BY <4>2, <4>4 DEF FullAt, ProgramPkgs
      <4>6. S = Newest(r)
        <5> HIDE DEF S
        <5> QED BY <1>0, <4>2, <4>3, <4>4, <4>5, NewestAre
      <4>7. InOrder' BY <1>0, <3>2, InOrderSame
      <4>8. Newest(r)' = Newest(r) BY <1>0, <3>2, <4>7, NewestSame
      <4>9. QED BY <3>2, <4>6, <4>8
    <3>5. QED BY <3>3, <3>4
  <2>3. QED BY <1>2, <2>1, <2>2, UnderWaySteps
<1>3. CASE r \in opened /\ ~UnderWay(r)
  <2>1. compiled[r].scopes = Newest(r) BY <1>3 DEF ResultsCurrent
  <2>2. CASE \E f \in Files : Edit(f)
    <3>1. PICK f \in Files : Edit(f) BY <2>2
    <3>2. CASE f \in RootFiles(r) BY <1>3, <3>1, <3>2, UnderWayEdit
    <3>3. CASE f \notin RootFiles(r)
      <4>1. compiled' = compiled /\ \A h \in Files \ {f} : text'[h] = text[h] BY <3>1, EditTexts
      <4>2. \A h \in RootFiles(r) : text'[h] = text[h] BY <1>0, <3>3, <4>1, PkgFilesType
      <4>3. Newest(r)' = Newest(r) BY <1>0, <3>1, <4>2, InOrderEdit, NewestSame
      <4>4. QED BY <2>1, <4>1, <4>3
    <3>4. QED BY <3>2, <3>3
  <2>3. CASE ~\E f \in Files : Edit(f)
    <3>1. text' = text
      <4>1. \A w \in Workers : WorkStep(w) => text' = text BY WorkFlow DEF Flow, StepFacts
      <4>2. QED BY <2>3, <4>1, NextCases DEF OpenRoot, StartJob, cacheVars, textVars
    <3>2. Newest(r)' = Newest(r) BY <1>0, <3>1, InOrderSame, NewestSame
    <3>3. compiled'[r] = compiled[r]
      <4>1. ASSUME NEW w \in Workers, FindSymbols(w) PROVE compiled'[r] = compiled[r]
        <5>1. /\ running[w] \in CompileJobs /\ running[w].step = "symbols"
              /\ \E x : compiled' = [compiled EXCEPT ![running[w].root] = x]
          BY <4>1, SymbolsEffect
        <5>2. Busy(w) BY <5>1 DEF Busy, Idle
        <5>3. running[w].root # r BY <1>3, <5>2 DEF UnderWay
        <5>4. QED BY <1>0, <5>1, <5>3 DEF Types, ResultTypes
      <4>2. ASSUME NEW w \in Workers, WorkStep(w), ~FindSymbols(w) PROVE compiled' = compiled
        BY <4>2, WorkCases, EarlyEffect, MarkEffect, ResolveEffect, StoreEffect
      <4>3. ASSUME ~\E w \in Workers : WorkStep(w) PROVE compiled' = compiled
        BY <2>3, <4>3, NextCases DEF OpenRoot, StartJob, cacheVars
      <4>4. QED BY <4>1, <4>2, <4>3
    <3>4. QED BY <2>1, <3>2, <3>3
  <2>4. QED BY <2>2, <2>3
<1>4. QED BY <1>1, <1>2, <1>3

-----------------------------------------------------------------------------
(* The symbols, as long as one root is open. *)

\* What update invalidates is what the files it links again reach afterwards.
LEMMA UpdatedInvalid ==
    ASSUME Types, NEW job \in CompileJobs
    PROVE  /\ Updated(job).invalid \subseteq Invalidated(Updated(job).graph, UpdateFiles(job))
           /\ \A F \in SUBSET UpdateFiles(job) :
                 Invalidated(Updated(job).graph, F) \subseteq Updated(job).invalid
<1> DEFINE S == UpdateFiles(job)
           reg == Registered(OldGraph(job), job)
           new == Updated(job).graph
           invalid == Updated(job).invalid
<1>1. /\ OldGraph(job) \in Graphs /\ S \in SUBSET Files
      /\ new = UpdateGraph(OldGraph(job), job, S).graph /\ invalid = Invalidated(reg, S)
  BY UpdatedFacts DEF Types
<1>2. reg \in Graphs BY <1>1, UpdateGraphType
<1>3. /\ new \in Graphs /\ new.modules = reg.modules
      /\ \A q \in Pkgs : reg.children[q] \ S \subseteq new.children[q]
      /\ \A q \in Pkgs : new.children[q] \ S \subseteq reg.children[q]
  BY <1>1, UpdateChildren
<1> HIDE DEF S, reg, new
<1>4. /\ invalid \in SUBSET Pkgs /\ \A f \in S : reg.modules[f] \subseteq invalid
      /\ \A q \in invalid : \A f \in reg.children[q] : reg.modules[f] \subseteq invalid
      /\ \A T \in SUBSET Pkgs :
            /\ \A f \in S : reg.modules[f] \subseteq T
            /\ \A q \in T : \A f \in reg.children[q] : reg.modules[f] \subseteq T
            => invalid \subseteq T
  BY <1>1, <1>2, InvalidatedFacts
<1> HIDE DEF invalid
<1>5. invalid \subseteq Invalidated(new, S)
  <2> DEFINE T == Invalidated(new, S)
  <2>1. /\ T \in SUBSET Pkgs /\ \A f \in S : new.modules[f] \subseteq T
        /\ \A q \in T : \A f \in new.children[q] : new.modules[f] \subseteq T
    BY <1>1, <1>3, InvalidatedFacts
  <2> HIDE DEF T
  <2>2. ASSUME NEW q \in T, NEW f \in reg.children[q] PROVE reg.modules[f] \subseteq T
    <3>1. CASE f \in S BY <1>3, <2>1, <3>1
    <3>2. CASE f \notin S
      <4>1. f \in new.children[q] BY <1>3, <2>1, <2>2, <3>2
      <4>2. QED BY <1>3, <2>1, <4>1
    <3>3. QED BY <3>1, <3>2
  <2>3. QED BY <1>3, <1>4, <2>1, <2>2 DEF T
<1>6. ASSUME NEW F \in SUBSET S PROVE Invalidated(new, F) \subseteq invalid
  <2>1. F \in SUBSET Files BY <1>1, <1>6
  <2>2. \A f \in F : new.modules[f] \subseteq invalid BY <1>3, <1>4
  <2>3. ASSUME NEW q \in invalid, NEW f \in new.children[q] PROVE new.modules[f] \subseteq invalid
    <3>1. CASE f \in S BY <1>3, <1>4, <3>1
    <3>2. CASE f \notin S
      <4>1. f \in reg.children[q] BY <1>3, <1>4, <2>3, <3>2
      <4>2. QED BY <1>3, <1>4, <4>1
    <3>3. QED BY <3>1, <3>2
  <2>4. QED BY <1>3, <1>4, <2>1, <2>2, <2>3, InvalidatedFacts
<1>7. QED BY <1>5, <1>6 DEF S, new, invalid

\* The symbols that a job clears and those it has in the end.
ClearedSymbols == ClearSymbols(gs, invalidate_pkgs)
FoundSymbols(job) == SymbolsOf(job, gs, invalidate_pkgs)

LEMMA SymbolsFacts ==
    ASSUME Types, JobsAbout, ImportsCurrent, ProgramFound, NEW w \in Workers, running[w].step = "symbols"
    PROVE  LET job == running[w]
               r == job.root IN
           /\ ClearedSymbols \in Scopes /\ FoundSymbols(job) \in Scopes
           /\ \A p \in Pkgs : ClearedSymbols[p] = IF p \in invalidate_pkgs THEN {} ELSE gs[p]
           /\ \A p \in Pkgs : FoundSymbols(job)[p] =
                 IF ClearedSymbols[p] = {} /\ p \in ProgramPkgs(r)
                 THEN Computed(r, job.mods, ClearedSymbols, {p}) ELSE ClearedSymbols[p]
           /\ ProgramSymbols(job, FoundSymbols(job)) = UNION {FoundSymbols(job)[p] : p \in ProgramPkgs(r)}
<1> DEFINE job == running[w]
           r == job.root
<1>1. job \in CompileJobs /\ job.unimported = {} /\ PkgsOf(job) = ProgramPkgs(r)
  BY JobProgram DEF Parsed, Checked
<1>2. gs \in Scopes /\ invalidate_pkgs \in SUBSET Pkgs BY DEF Types, ResultTypes, ScopeTypes
<1>3. FoundSymbols(job) \in Scopes BY <1>1, <1>2, SymbolsOfType DEF FoundSymbols
<1>4. \A p \in Pkgs : ClearedSymbols[p] = IF p \in invalidate_pkgs THEN {} ELSE gs[p]
  BY DEF ClearedSymbols, ClearSymbols
<1>5. ClearedSymbols \in Scopes
  <2>1. \A p \in Pkgs : gs[p] \in SUBSET Stamps BY <1>2 DEF Scopes
  <2>2. QED BY <2>1 DEF ClearedSymbols, ClearSymbols, Scopes
<1>6. ClearSymbols(gs, invalidate_pkgs \cup job.unimported) = ClearedSymbols
  <2>1. invalidate_pkgs \cup job.unimported = invalidate_pkgs BY <1>1
  <2>2. QED BY <2>1 DEF ClearedSymbols
<1>7. \A p \in Pkgs : FoundSymbols(job)[p] =
         IF ClearedSymbols[p] = {} /\ p \in ProgramPkgs(r)
         THEN Computed(r, job.mods, ClearedSymbols, {p}) ELSE ClearedSymbols[p]
  BY <1>1, <1>6 DEF FoundSymbols, SymbolsOf
<1>8. ProgramSymbols(job, FoundSymbols(job)) = UNION {FoundSymbols(job)[p] : p \in ProgramPkgs(r)}
  BY <1>1 DEF ProgramSymbols
<1>9. QED BY <1>3, <1>4, <1>5, <1>7, <1>8

\* A job leaves every package of its program with symbols, and with all of them.
LEMMA SymbolsFull ==
    ASSUME Types, JobsAbout, TextsKnown, ImportsCurrent, ProgramFound,
           NEW w \in Workers, running[w].step = "symbols",
           OfRoot(running[w].root, gs), Full(running[w].root, gs)
    PROVE  LET job == running[w] IN
           /\ OfRoot(job.root, FoundSymbols(job)) /\ Full(job.root, FoundSymbols(job))
           /\ \A p \in ProgramPkgs(job.root) : FoundSymbols(job)[p] # {}
<1> DEFINE job == running[w]
           r == job.root
           mods == job.mods
<1>1. /\ r \in Roots /\ mods \in [Files -> SUBSET Sources]
      /\ \A f \in RootFiles(r) : mods[f] # {}
  BY JobProgram DEF Parsed, Checked, CompileJobs
<1>2. /\ ClearedSymbols \in Scopes
      /\ \A p \in Pkgs : ClearedSymbols[p] \in {{}, gs[p]}
      /\ \A p \in Pkgs : FoundSymbols(job)[p] =
            IF ClearedSymbols[p] = {} /\ p \in ProgramPkgs(r)
            THEN Computed(r, mods, ClearedSymbols, {p}) ELSE ClearedSymbols[p]
  BY SymbolsFacts
<1>3. \A p, u : OfRootAt(u, {}) /\ FullAt(u, p, {}) BY DEF OfRootAt, FullAt
<1>4. OfRoot(r, ClearedSymbols) /\ Full(r, ClearedSymbols) BY <1>2, <1>3 DEF OfRoot, Full
<1>5. \A p \in Pkgs : LET S == Computed(r, mods, ClearedSymbols, {p}) IN
         OfRootAt(r, S) /\ FullAt(r, p, S)
  BY <1>2, <1>4, ComputedFull DEF Parsed, Checked
<1>6. OfRoot(r, FoundSymbols(job)) /\ Full(r, FoundSymbols(job))
  BY <1>2, <1>4, <1>5 DEF OfRoot, Full
<1>7. ASSUME NEW p \in ProgramPkgs(r) PROVE FoundSymbols(job)[p] # {}
  <2>1. p \in Pkgs /\ PkgFiles[r][p] # {} BY <1>1, ProgramFacts
  <2>2. CASE ClearedSymbols[p] # {} BY <1>2, <2>1, <2>2
  <2>3. CASE ClearedSymbols[p] = {}
    <3> DEFINE S == {p}
    <3>1. p \in Visited(r, mods, ClearedSymbols, S) BY <1>1, <1>2, <2>1, VisitedOne
    <3>2. PICK f \in PkgFiles[r][p] : f \in RootFiles(r) BY <1>1, <2>1, RootFilesMember
    <3>3. PICK t \in mods[f] : TRUE BY <1>1, <3>2
    <3>4. <<f, t.edit>> \in Own(r, mods, p) BY <1>1, <2>1, <3>2, <3>3, OwnMember
    <3> HIDE DEF S
    <3>5. Own(r, mods, p) \subseteq Computed(r, mods, ClearedSymbols, S)
      BY <2>3, <3>1, ComputedMember
    <3>6. Computed(r, mods, ClearedSymbols, S) # {} BY <3>4, <3>5
    <3>7. QED BY <1>2, <1>7, <2>1, <2>3, <3>6 DEF S
  <2>4. QED BY <2>2, <2>3
<1>8. QED BY <1>6, <1>7

\* Only FindSymbols changes the symbols, and only an edit the texts.
LEMMA SymbolsKept ==
    ASSUME Types, JobsAbout, Orderly, [CachesNext]_cacheVars, ~\E w \in Workers : FindSymbols(w)
    PROVE  /\ gs' = gs
           /\ (~\E f \in Files : Edit(f)) => text' = text /\ edits' = edits
<1>1. ASSUME NEW w \in Workers, WorkStep(w) PROVE gs' = gs /\ text' = text /\ edits' = edits
  <2>1. gs' = gs BY <1>1, WorkCases, EarlyEffect, MarkEffect, ResolveEffect, StoreEffect
  <2>2. text' = text /\ edits' = edits BY <1>1, WorkFlow DEF Flow, StepFacts
  <2>3. QED BY <2>1, <2>2
<1>2. ASSUME NEW f \in Files, Edit(f) PROVE gs' = gs BY <1>2, EditTexts
<1>3. QED BY <1>1, <1>2, NextCases DEF OpenRoot, StartJob, cacheVars, textVars

LEMMA SymbolsFullStep ==
    ASSUME Types, Types', JobsAbout, TextsKnown, ImportsCurrent, ProgramFound, Orderly,
           [CachesNext]_cacheVars, NEW r \in opened, Alone, OfRoot(r, gs), Full(r, gs)
    PROVE  OfRoot(r, gs)' /\ Full(r, gs)'
<1>1. r \in Roots /\ gs \in Scopes BY DEF Types, TextTypes, ResultTypes
<1>2. CASE \E w \in Workers : FindSymbols(w)
  <2>1. PICK w \in Workers : FindSymbols(w) BY <1>2
  <2>2. /\ running[w].step = "symbols" /\ gs' = FoundSymbols(running[w])
        /\ text' = text /\ edits' = edits
    BY <2>1, SymbolsEffect DEF FoundSymbols
  <2>3. running[w].root = r BY <2>2, AboutRunning, StepsAre DEF Alone
  <2>4. OfRoot(r, FoundSymbols(running[w])) /\ Full(r, FoundSymbols(running[w]))
    BY <2>2, <2>3, SymbolsFull
  <2>5. QED BY <2>2, <2>4, FullSame DEF OfRoot, Full
<1>3. CASE \E f \in Files : Edit(f)
  <2>1. PICK f \in Files : Edit(f) BY <1>3
  <2>2. gs' = gs BY <2>1, EditTexts
  <2>3. ASSUME NEW p \in Pkgs PROVE OfRootAt(r, gs[p])' /\ FullAt(r, p, gs[p])'
    <3> DEFINE S == gs[p]
    <3>1. S \in SUBSET Stamps /\ OfRootAt(r, S) /\ FullAt(r, p, S) /\ S = gs'[p]
      BY <1>1, <2>2 DEF OfRoot, Full, Scopes
    <3>2. \A X \in SUBSET Stamps : OfRootAt(r, X) /\ FullAt(r, p, X) => OfRootAt(r, X)' /\ FullAt(r, p, X)'
      BY <1>1, <2>1, FullEdit
    <3> HIDE DEF S
    <3>3. QED BY <3>1, <3>2
  <2>4. QED BY <2>3 DEF OfRoot, Full
<1>4. CASE ~(\E w \in Workers : FindSymbols(w)) /\ ~(\E f \in Files : Edit(f))
  <2>1. gs' = gs /\ text' = text /\ edits' = edits BY <1>4, SymbolsKept
  <2>2. QED BY <2>1, FullSame DEF OfRoot, Full
<1>5. QED BY <1>2, <1>3, <1>4

LEMMA SymbolsSame ==
    ASSUME gs' = gs, program_root' = program_root, graph' = graph, invalidate_pkgs' = invalidate_pkgs,
           \A w \in Workers : running[w].step \in Checked \/ running'[w].step \in Checked =>
               running'[w] = running[w] /\ changed' = changed,
           NEW r, SymbolsLinked(r)
    PROVE  SymbolsLinked(r)'
<1> SUFFICES ASSUME gs # NoScopes PROVE program_root' = {r} /\ SymbolsReached' /\ SymbolsInvalid'
  BY DEF SymbolsLinked
<1>1. program_root = {r} /\ SymbolsReached /\ SymbolsInvalid BY DEF SymbolsLinked
<1>2. SymbolsReached' BY <1>1 DEF SymbolsReached
<1>3. SymbolsInvalid'
  <2>1. ASSUME NEW w \in Workers, running'[w].step \in Checked
        PROVE  MainPkg \in invalidate_pkgs' /\ Invalidated(graph', running'[w].file) \subseteq invalidate_pkgs'
    BY <1>1, <2>1 DEF SymbolsInvalid
  <2>2. ASSUME NEW w \in Workers, running'[w].step = "resolve2"
        PROVE  /\ changed' = running'[w].file
               /\ invalidate_pkgs' \subseteq Invalidated(graph', ChangedFiles(running[w])') \cup {MainPkg}
    <3>1. running'[w] = running[w] /\ changed' = changed BY <2>2 DEF Checked
    <3>2. ChangedFiles(running[w])' = ChangedFiles(running[w]) BY <3>1 DEF ChangedFiles
    <3>3. QED BY <1>1, <2>2, <3>1, <3>2 DEF SymbolsInvalid
  <2>3. QED BY <2>1, <2>2 DEF SymbolsInvalid
<1>4. QED BY <1>1, <1>2, <1>3

LEMMA SymbolsResolve ==
    ASSUME Types, JobsAbout, ChangedTold, Orderly, NEW r \in opened, Alone, SymbolsLinked(r),
           NEW w \in Workers, Resolve(w)
    PROVE  SymbolsLinked(r)'
<1> DEFINE job == running[w]
           new == Updated(job).graph
           invalid == Updated(job).invalid
<1>1. /\ job.step = "resolve1" /\ running'[w].step = "resolve2" /\ job \in CompileJobs
      /\ running'[w].root = job.root /\ running'[w].file = job.file
      /\ program_root' = {job.root} /\ graph' = new
      /\ changed' = Updated(job).changed /\ invalidate_pkgs' = invalid \cup {MainPkg} /\ gs' = gs
  BY ResolveEffect DEF SameProgram
<1>2. job.root = r BY <1>1, AboutRunning, StepsAre DEF Alone
<1> SUFFICES ASSUME gs # NoScopes PROVE program_root' = {r} /\ SymbolsReached' /\ SymbolsInvalid'
  BY <1>1 DEF SymbolsLinked
<1>3. program_root = {r} /\ SymbolsReached BY DEF SymbolsLinked
<1>4. changed = job.file /\ Marked(job) = job.file /\ job.file \in SUBSET Files
  BY <1>1, <1>2, <1>3 DEF ChangedTold, Marked, CompileJobs
<1>5. changed' = job.file BY <1>1, <1>4, UpdatedFacts DEF Types
<1>6. job.file \in SUBSET UpdateFiles(job) /\ ChangedFiles(running[w])' = UpdateFiles(job)
  BY <1>1, <1>4, <1>5 DEF UpdateFiles, ChangedFiles
<1>7. /\ invalid \subseteq Invalidated(new, UpdateFiles(job))
      /\ Invalidated(new, job.file) \subseteq invalid
  BY <1>1, <1>6, UpdatedInvalid
<1> HIDE DEF new, invalid
<1>8. SymbolsReached'
  <2>1. ASSUME NEW p \in Importable, NEW s \in gs[p] PROVE p \in invalid \cup Invalidated(new, {s[1]})
    <3> DEFINE F == {s[1]}
    <3>1. F \in SUBSET Files BY DEF Types, ResultTypes, Scopes, Stamps, Importable
    <3>2. p \in Invalidated(graph, F)
      <4>1. \A v \in Workers : running[v].step \notin Checked BY <1>1, TheWorker DEF Checked
      <4>2. QED BY <1>3, <4>1 DEF SymbolsReached
    <3> HIDE DEF F
    <3>3. Invalidated(graph, F) \subseteq invalid \cup Invalidated(new, F)
      BY <1>1, <1>2, <1>3, <3>1, UpdateReaches DEF invalid, new
    <3>4. QED BY <3>2, <3>3 DEF F
  <2>2. running'[w].step \in Checked BY <1>1 DEF Checked
  <2>3. QED BY <1>1, <2>1, <2>2 DEF SymbolsReached
<1>9. SymbolsInvalid' BY <1>1, <1>5, <1>6, <1>7, TheWorker DEF SymbolsInvalid
<1>10. QED BY <1>1, <1>2, <1>8, <1>9

LEMMA SymbolsStore ==
    ASSUME Types, JobsAbout, GraphCurrent, Orderly, NEW r \in opened, Alone, SymbolsLinked(r),
           NEW w \in Workers, StoreScopes(w)
    PROVE  SymbolsLinked(r)'
<1> DEFINE job == running[w]
           new == Updated(job).graph
           invalid == Updated(job).invalid
<1>1. /\ job.step = "resolve2" /\ running'[w].step = "symbols" /\ job \in CompileJobs
      /\ running'[w].file = job.file
      /\ program_root' = {job.root} /\ graph' = new
      /\ invalidate_pkgs' = invalid \cup {MainPkg} /\ gs' = gs
  BY StoreEffect DEF SameProgram
<1>2. job.root = r BY <1>1, AboutRunning, StepsAre DEF Alone
<1> SUFFICES ASSUME gs # NoScopes PROVE program_root' = {r} /\ SymbolsReached' /\ SymbolsInvalid'
  BY <1>1 DEF SymbolsLinked
<1>3. /\ program_root = {r} /\ SymbolsReached /\ changed = job.file
      /\ invalidate_pkgs \subseteq Invalidated(graph, ChangedFiles(job)) \cup {MainPkg}
  BY <1>1 DEF SymbolsLinked, SymbolsInvalid
<1>4. /\ invalid = Invalidated(graph, ChangedFiles(job)) /\ new \in Graphs /\ graph \in Graphs
      /\ new.modules = graph.modules /\ \A q \in Pkgs : graph.children[q] \subseteq new.children[q]
  BY <1>1, StoreLinks DEF Types, ScopeTypes
<1>5. job.file \in SUBSET UpdateFiles(job) BY <1>2, <1>3 DEF UpdateFiles, Marked
<1>6. Invalidated(new, job.file) \subseteq invalid BY <1>1, <1>5, UpdatedInvalid
<1> HIDE DEF new, invalid
<1>7. invalidate_pkgs \subseteq invalidate_pkgs' BY <1>1, <1>3, <1>4
<1>8. SymbolsReached'
  <2>1. running'[w].step \in Checked BY <1>1 DEF Checked
  <2>2. ASSUME NEW p \in Importable, NEW s \in gs[p]
        PROVE  p \in Invalidated(new, {s[1]}) \/ p \in invalidate_pkgs'
    <3> DEFINE F == {s[1]}
    <3>1. F \in SUBSET Files BY DEF Types, ResultTypes, Scopes, Stamps, Importable
    <3>2. p \in Invalidated(graph, F) \/ p \in invalidate_pkgs BY <1>3 DEF SymbolsReached
    <3> HIDE DEF F
    <3>3. Invalidated(graph, F) \subseteq Invalidated(new, F) BY <1>4, <3>1, InvalidatedGrows
    <3>4. QED BY <1>7, <3>2, <3>3 DEF F
  <2>3. QED BY <1>1, <2>1, <2>2 DEF SymbolsReached
<1>9. SymbolsInvalid' BY <1>1, <1>6, TheWorker DEF SymbolsInvalid
<1>10. QED BY <1>1, <1>2, <1>8, <1>9

\* The symbols that a job has in the end are reached, and those it did not
\* clear do not depend on the file that changed.
LEMMA SymbolsFind ==
    ASSUME Types, JobsAbout, ImportsCurrent, ProgramFound, GraphCurrent, Orderly,
           NEW r \in opened, Alone, SymbolsLinked(r), NEW w \in Workers, FindSymbols(w)
    PROVE  SymbolsLinked(r)'
<1> DEFINE job == running[w]
<1>1. /\ job.step = "symbols" /\ job.step \in Checked /\ job.step \in Parsed /\ running'[w] = Idle
      /\ gs' = FoundSymbols(job) /\ program_root' = program_root /\ graph' = graph
  BY SymbolsEffect DEF FoundSymbols, Checked, Parsed, scopeVars
<1>2. job.root = r /\ r \in Roots BY <1>1, AboutRunning, StepsAre DEF Alone
<1>3. \A v \in Workers : running'[v].step \notin Checked BY <1>1, TheWorker DEF Checked, Idle
<1>4. program_root = {r} /\ GraphOf(r) /\ PkgsOf(job) \ {MainPkg} \subseteq graph.nodes
  BY <1>1, <1>2 DEF GraphCurrent
<1>5. PkgsOf(job) = ProgramPkgs(r) BY <1>1, <1>2, JobProgram
<1>6. /\ graph \in Graphs /\ GraphKnows(graph, r)
      /\ \A f \in Files : graph.modules[f] # {} =>
            \A q \in Existing(r, text[f].imports) : f \in graph.children[q]
  <2>1. \A f : ~Relinking(f)
    <3>1. \A v \in Workers : v = w BY TheWorker
    <3>2. running[w].step \notin Steps \ Checked /\ running[w] # Idle BY <1>1 DEF Idle
    <3>3. QED BY <3>1, <3>2 DEF Relinking, NextClears
  <2>2. QED BY <1>4, <2>1 DEF GraphOf, Linked, Types, ScopeTypes
<1>7. /\ ClearedSymbols \in Scopes
      /\ \A p \in Pkgs : ClearedSymbols[p] = IF p \in invalidate_pkgs THEN {} ELSE gs[p]
      /\ \A p \in Pkgs : FoundSymbols(job)[p] =
            IF ClearedSymbols[p] = {} /\ p \in ProgramPkgs(r)
            THEN Computed(r, job.mods, ClearedSymbols, {p}) ELSE ClearedSymbols[p]
  BY <1>1, <1>2, SymbolsFacts
<1>8. ASSUME NEW q \in Importable, NEW u \in ClearedSymbols[q] PROVE q \in Invalidated(graph, {u[1]})
  <2>1. q \in Pkgs /\ q \notin invalidate_pkgs /\ u \in gs[q] BY <1>7, <1>8 DEF Importable
  <2>2. gs # NoScopes BY <2>1 DEF NoScopes
  <2>3. QED BY <2>1, <2>2 DEF SymbolsLinked, SymbolsReached
<1>9. ASSUME NEW p \in Importable, NEW s \in FoundSymbols(job)[p] PROVE p \in Invalidated(graph, {s[1]})
  <2>1. p \in Pkgs BY DEF Importable
  <2>2. CASE ClearedSymbols[p] = {} /\ p \in ProgramPkgs(r)
    <3>1. s \in Computed(r, job.mods, ClearedSymbols, {p}) BY <1>7, <2>1, <2>2
    <3>2. QED BY <1>1, <1>2, <1>4, <1>5, <1>6, <1>7, <1>8, <2>2, <3>1, ComputedReached
  <2>3. CASE ~(ClearedSymbols[p] = {} /\ p \in ProgramPkgs(r)) BY <1>7, <1>8, <2>1, <2>3
  <2>4. QED BY <2>2, <2>3
<1>10. SymbolsReached' BY <1>1, <1>9 DEF SymbolsReached
<1>11. SymbolsInvalid' BY <1>3 DEF SymbolsInvalid, Checked
<1>12. QED BY <1>1, <1>4, <1>10, <1>11 DEF SymbolsLinked

LEMMA SymbolsLinkedStep ==
    ASSUME Types, Types', JobsAbout, ImportsCurrent, ProgramFound, ChangedTold, GraphCurrent, Orderly,
           [CachesNext]_cacheVars, NEW r \in opened, Alone, SymbolsLinked(r)
    PROVE  SymbolsLinked(r)'
<1>1. ASSUME NEW w \in Workers, EarlyStep(w) \/ MarkChanged(w) PROVE SymbolsLinked(r)'
  <2>1. /\ running[w].step \notin Checked /\ running'[w].step \notin Checked
        /\ program_root' = program_root /\ graph' = graph
        /\ invalidate_pkgs' = invalidate_pkgs /\ gs' = gs
    BY <1>1, JobGoesOn
  <2>2. \A v \in Workers : v = w BY TheWorker
  <2>3. QED BY <2>1, <2>2, SymbolsSame
<1>2. ASSUME NEW w \in Workers, StartJob(w) PROVE SymbolsLinked(r)'
  <2>1. /\ running[w].step \notin Checked /\ running'[w].step \notin Checked
    BY <1>2, StartJobQueue, StartedJob DEF Checked, Idle
  <2>2. \A v \in Workers : v = w BY TheWorker
  <2>3. QED BY <1>2, <2>1, <2>2, SymbolsSame DEF StartJob, scopeVars
<1>3. ASSUME NEW f \in Files, Edit(f) PROVE SymbolsLinked(r)'
  BY <1>3, EditTexts, SymbolsSame DEF scopeVars
<1>4. ASSUME \/ \E u \in Roots : OpenRoot(u)
             \/ UNCHANGED cacheVars
      PROVE  SymbolsLinked(r)'
  <2>1. gs' = gs /\ running' = running /\ UNCHANGED scopeVars
    BY <1>4 DEF OpenRoot, cacheVars, poolVars
  <2>2. QED BY <2>1, SymbolsSame DEF scopeVars
<1>5. QED BY <1>1, <1>2, <1>3, <1>4, NextCases, WorkCases, SymbolsResolve, SymbolsStore, SymbolsFind

\* Symbols that were computed from an older text wait for the job of the file.
LEMMA SymbolsDueStep ==
    ASSUME Types, Types', JobsAbout, ImportsCurrent, ProgramFound, TextsCurrent, Orderly,
           [CachesNext]_cacheVars, NEW r \in opened, Alone, SymbolsLinked(r), OfRoot(r, gs), SymbolsDue(r)
    PROVE  SymbolsDue(r)'
<1>1. CASE \E f \in Files : Edit(f)
  <2>1. PICK f \in Files : Edit(f) BY <1>1
  <2>2. gs' = gs /\ running' = running /\ \A h \in Files \ {f} : text'[h] = text[h]
    BY <2>1, EditTexts
  <2>3. \A h : Due(r, h) => Due(r, h)' BY <2>1, <2>2, EditQueue, QueueGrows
  <2>4. f \in RootFiles(r) => Due(r, f)' BY <2>1, EditQueue DEF Due
  <2>5. ASSUME NEW p \in Pkgs, NEW s \in gs'[p]
        PROVE  \/ Newer(s)' \/ Due(r, s[1])'
               \/ \E w \in Workers : Busy(w)' /\ running'[w].file = {s[1]}
    <3>1. s[1] \in RootFiles(r) /\ s[1] \in Files
      BY <2>2, <2>5 DEF OfRoot, OfRootAt, Types, ResultTypes, Scopes, Stamps
    <3>2. \/ Newer(s) \/ Due(r, s[1])
          \/ \E w \in Workers : Busy(w) /\ running[w].file = {s[1]}
      BY <2>2, <2>5 DEF SymbolsDue
    <3>3. CASE s[1] = f BY <2>4, <3>1, <3>3
    <3>4. CASE s[1] # f
      <4>1. Newer(s)' <=> Newer(s) BY <2>2, <3>1, <3>4 DEF Newer
      <4>2. QED BY <2>2, <2>3, <3>2, <4>1 DEF Busy
    <3>5. QED BY <3>3, <3>4
  <2>6. QED BY <2>5 DEF SymbolsDue
<1>2. ASSUME NEW w \in Workers, StartJob(w) PROVE SymbolsDue(r)'
  <2>1. text' = text /\ gs' = gs BY <1>2 DEF StartJob, textVars
  <2>2. /\ running'[w].file = jobs[1].file /\ running'[w] # Idle /\ running[w] = Idle
    BY <1>2, StartedJob, StartJobQueue DEF Idle
  <2>3. ASSUME NEW f, Due(r, f) PROVE Due(r, f)' \/ running'[w].file = {f}
    <3>1. PICK i \in DOMAIN jobs : jobs[i].root = r /\ jobs[i].file = {f} BY <2>3 DEF Due
    <3>2. CASE i = 1 BY <2>2, <3>1, <3>2
    <3>3. CASE i # 1
      <4>1. i - 1 \in DOMAIN jobs' /\ jobs'[i - 1] = jobs[i] BY <1>2, <3>3, StartJobQueue
      <4>2. QED BY <3>1, <4>1 DEF Due
    <3>4. QED BY <3>2, <3>3
  <2>4. \A s : Newer(s)' <=> Newer(s) BY <2>1 DEF Newer
  <2>5. \A v \in Workers : v = w BY TheWorker
  <2>6. ASSUME NEW p \in Pkgs, NEW s \in gs[p]
        PROVE  \/ Newer(s)' \/ Due(r, s[1])'
               \/ \E v \in Workers : Busy(v)' /\ running'[v].file = {s[1]}
    <3>1. Newer(s) \/ Due(r, s[1]) BY <2>2, <2>5 DEF SymbolsDue, Busy
    <3>2. QED BY <2>2, <2>3, <2>4, <3>1 DEF Busy
  <2>7. QED BY <2>1, <2>6 DEF SymbolsDue
<1>3. ASSUME NEW w \in Workers, WorkStep(w), ~FindSymbols(w) PROVE SymbolsDue(r)'
  <2>1. /\ running'[w] # Idle /\ running'[w].file = running[w].file
        /\ text' = text /\ jobs' = jobs /\ gs' = gs
    <3>1. CASE EarlyStep(w) \/ MarkChanged(w) BY <3>1, JobGoesOn
    <3>2. CASE Resolve(w) BY <3>2, ResolveEffect DEF SameProgram, Idle
    <3>3. CASE StoreScopes(w) BY <3>3, StoreEffect DEF SameProgram, Idle
    <3>4. QED BY <1>3, <3>1, <3>2, <3>3, WorkCases
  <2>2. \A v \in Workers : v = w BY TheWorker
  <2>3. \A f : Due(r, f)' <=> Due(r, f) BY <2>1 DEF Due
  <2>4. \A s : Newer(s)' <=> Newer(s) BY <2>1 DEF Newer
  <2>5. QED BY <2>1, <2>2, <2>3, <2>4 DEF SymbolsDue, Busy
<1>4. ASSUME \/ \E u \in Roots : OpenRoot(u)
             \/ UNCHANGED cacheVars
      PROVE  SymbolsDue(r)'
  <2>1. gs' = gs /\ running' = running /\ text' = text
    BY <1>4 DEF OpenRoot, cacheVars, poolVars, textVars
  <2>2. \A f : Due(r, f) => Due(r, f)'
    <3>1. CASE \E u \in Roots : OpenRoot(u) BY <3>1, OpenRootGrows, QueueGrows
    <3>2. CASE UNCHANGED cacheVars BY <3>2 DEF cacheVars, poolVars, Due
    <3>3. QED BY <1>4, <3>1, <3>2
  <2>3. \A s : Newer(s)' <=> Newer(s) BY <2>1 DEF Newer
  <2>4. QED BY <2>1, <2>2, <2>3 DEF SymbolsDue, Busy
<1>5. ASSUME NEW w \in Workers, FindSymbols(w) PROVE SymbolsDue(r)'
  <2> DEFINE job == running[w]
  <2>1. /\ job.step = "symbols" /\ job.step \in Checked /\ job.step \in Parsed
        /\ gs' = FoundSymbols(job) /\ text' = text /\ jobs' = jobs
    BY <1>5, SymbolsEffect DEF FoundSymbols, Checked, Parsed
  <2>2. job.root = r BY <2>1, AboutRunning, StepsAre DEF Alone
  <2>3. /\ ClearedSymbols \in Scopes
        /\ \A p \in Pkgs : ClearedSymbols[p] = IF p \in invalidate_pkgs THEN {} ELSE gs[p]
        /\ \A p \in Pkgs : FoundSymbols(job)[p] =
              IF ClearedSymbols[p] = {} /\ p \in ProgramPkgs(r)
              THEN Computed(r, job.mods, ClearedSymbols, {p}) ELSE ClearedSymbols[p]
    BY <2>1, <2>2, SymbolsFacts
  <2>4. ASSUME NEW q \in Pkgs, NEW s \in ClearedSymbols[q] PROVE Newer(s) \/ Due(r, s[1])
    <3>1. q \notin invalidate_pkgs /\ s \in gs[q] BY <2>3, <2>4
    <3>2. gs # NoScopes BY <3>1 DEF NoScopes
    <3>3. SymbolsReached /\ SymbolsInvalid BY <3>2 DEF SymbolsLinked
    <3>4. MainPkg \in invalidate_pkgs /\ Invalidated(graph, job.file) \subseteq invalidate_pkgs
      BY <2>1, <3>3 DEF SymbolsInvalid
    <3>5. q \in Invalidated(graph, {s[1]}) BY <3>1, <3>3, <3>4 DEF SymbolsReached, Importable
    <3>6. job.file # {s[1]} BY <3>1, <3>4, <3>5
    <3>7. \A v \in Workers : v = w BY TheWorker
    <3>8. QED BY <3>1, <3>6, <3>7 DEF SymbolsDue
  <2>5. \A q \in Pkgs : CurrentAt(r, ClearedSymbols[q]) BY <2>4 DEF CurrentAt
  <2>6. \A p \in Pkgs : CurrentAt(r, Computed(r, job.mods, ClearedSymbols, {p}))
    BY <2>1, <2>2, <2>3, <2>5, ComputedCurrent
  <2>7. \A p \in Pkgs : CurrentAt(r, FoundSymbols(job)[p]) BY <2>3, <2>5, <2>6
  <2>8. \A f : Due(r, f)' <=> Due(r, f) BY <2>1 DEF Due
  <2>9. \A s : Newer(s)' <=> Newer(s) BY <2>1 DEF Newer
  <2>10. QED BY <2>1, <2>7, <2>8, <2>9 DEF SymbolsDue, CurrentAt
<1>6. QED BY <1>1, <1>2, <1>3, <1>4, <1>5, NextCases

\* The symbols a job returns are the newest if no other job of its root waits.
LEMMA SymbolsNewest ==
    ASSUME Types, Types', JobsAbout, TextsKnown, ImportsCurrent, ProgramFound, Orderly, NEW r \in opened, Alone,
           OfRoot(r, gs), Full(r, gs), SymbolsDue(r)', NEW w \in Workers, FindSymbols(w),
           ~UnderWay(r)'
    PROVE  compiled'[r].symbols = Newest(r)
<1> DEFINE job == running[w]
           found == FoundSymbols(job)
           S == UNION {found[p] : p \in ProgramPkgs(r)}
<1>1. /\ job \in CompileJobs /\ job.step = "symbols" /\ running'[w] = Idle /\ gs' = found
      /\ text' = text /\ jobs' = jobs
      /\ compiled' = [compiled EXCEPT ![job.root] =
            [scopes |-> job.scopes[MainPkg], symbols |-> ProgramSymbols(job, found)]]
  BY SymbolsEffect DEF FoundSymbols
<1>2. job.root = r /\ r \in Roots /\ InOrder
  BY <1>1, AboutRunning, StepsAre DEF Alone, ImportsCurrent
<1>3. ProgramSymbols(job, found) = S /\ found \in Scopes BY <1>1, <1>2, SymbolsFacts
<1>4. /\ OfRoot(r, found) /\ Full(r, found) /\ \A p \in ProgramPkgs(r) : found[p] # {}
  BY <1>1, <1>2, SymbolsFull
<1> HIDE DEF found, S
<1>5. compiled'[r].symbols = S BY <1>1, <1>2, <1>3 DEF Types, ResultTypes
<1>6. ProgramPkgs(r) \subseteq Pkgs BY <1>2, ProgramFacts
<1>7. ASSUME NEW p \in Pkgs, NEW s \in found[p] PROVE Newer(s)
  <2>1. ~Due(r, s[1])' BY DEF UnderWay, Due
  <2>2. ~\E v \in Workers : Busy(v)' BY <1>1, TheWorker DEF Busy
  <2>3. Newer(s)' BY <1>1, <1>7, <2>1, <2>2 DEF SymbolsDue
  <2>4. QED BY <1>1, <2>3 DEF Newer
<1>8. \A s \in S : Newer(s) BY <1>6, <1>7 DEF S
<1>9. S \in SUBSET Stamps /\ OfRootAt(r, S) BY <1>3, <1>4, <1>6 DEF S, Scopes, OfRoot, OfRootAt
<1>10. ASSUME NEW p \in ProgramPkgs(r) PROVE Own(r, Current, p) \subseteq S
  <2>1. p \in Pkgs /\ FullAt(r, p, found[p]) /\ found[p] # {} BY <1>4, <1>6 DEF Full
  <2>2. \A q \in Visited(r, Current, NoScopes, {p}) : Own(r, Current, q) \subseteq found[p]
    BY <1>7, <2>1 DEF FullAt
  <2>3. p \in Visited(r, Current, NoScopes, {p})
    <3>1. Current \in [Files -> SUBSET Sources] /\ NoScopes \in Scopes
      BY DEF Current, NoScopes, Scopes, Types, TextTypes
    <3>2. QED BY <1>2, <2>1, <3>1, VisitedOne
  <2>4. QED BY <2>2, <2>3 DEF S
<1>11. S = Newest(r) BY <1>2, <1>8, <1>9, <1>10, NewestAre
<1>12. QED BY <1>5, <1>11

LEMMA SymbolsResultsStep ==
    ASSUME Types, Types', JobsAbout, TextsKnown, ImportsCurrent, ProgramFound, Orderly,
           [CachesNext]_cacheVars, NEW r \in opened, Alone, OfRoot(r, gs), Full(r, gs), SymbolsDue(r)',
           UnderWay(r) \/ compiled[r].symbols = Newest(r)
    PROVE  UnderWay(r)' \/ compiled'[r].symbols = Newest(r)'
<1> SUFFICES ASSUME ~UnderWay(r)' PROVE compiled'[r].symbols = Newest(r)' OBVIOUS
<1>0. r \in Roots /\ InOrder BY DEF Types, TextTypes, ImportsCurrent
<1>1. ASSUME NEW w \in Workers, FindSymbols(w) PROVE compiled'[r].symbols = Newest(r)'
  <2>1. compiled'[r].symbols = Newest(r) BY <1>1, SymbolsNewest
  <2>2. text' = text BY <1>1, SymbolsEffect
  <2>3. Newest(r)' = Newest(r) BY <1>0, <2>2, InOrderSame, NewestSame
  <2>4. QED BY <2>1, <2>3
<1>2. CASE ~\E w \in Workers : FindSymbols(w)
  <2>1. compiled[r].symbols = Newest(r) BY <1>2, UnderWaySteps
  <2>2. compiled' = compiled
    <3>1. ASSUME NEW w \in Workers, WorkStep(w) PROVE compiled' = compiled
      BY <1>2, <3>1, WorkCases, EarlyEffect, MarkEffect, ResolveEffect, StoreEffect
    <3>2. ASSUME NEW f \in Files, Edit(f) PROVE compiled' = compiled BY <3>2, EditTexts
    <3>3. QED BY <3>1, <3>2, NextCases DEF OpenRoot, StartJob, cacheVars
  <2>3. Newest(r)' = Newest(r)
    <3>1. ASSUME NEW f \in Files, Edit(f) PROVE Newest(r)' = Newest(r)
      <4>1. f \notin RootFiles(r) BY <3>1, UnderWayEdit
      <4>2. \A h \in Files \ {f} : text'[h] = text[h] BY <3>1, EditTexts
      <4>3. \A h \in RootFiles(r) : text'[h] = text[h] BY <1>0, <4>1, <4>2, PkgFilesType
      <4>4. QED BY <1>0, <3>1, <4>3, InOrderEdit, NewestSame
    <3>2. ASSUME text' = text PROVE Newest(r)' = Newest(r) BY <1>0, <3>2, InOrderSame, NewestSame
    <3>3. QED BY <1>2, <3>1, <3>2, SymbolsKept
  <2>4. QED BY <2>1, <2>2, <2>3
<1>3. QED BY <1>1, <1>2

LEMMA AloneStep ==
    ASSUME Types, Types', JobsAbout, TextsKnown, ImportsCurrent, TextsCurrent, ProgramFound, ChangedTold,
           GraphCurrent, AloneCurrent, Orderly, [CachesNext]_cacheVars
    PROVE  AloneCurrent'
<1>1. ASSUME opened' = opened PROVE AloneCurrent'
  <2>1. ASSUME opened = {} PROVE gs' = NoScopes
    <3>1. gs = NoScopes BY <2>1 DEF AloneCurrent
    <3>2. ~\E w \in Workers : FindSymbols(w)
      <4>1. ASSUME NEW w \in Workers, FindSymbols(w) PROVE running[w].root \in opened
        BY <4>1, SymbolsEffect, AboutRunning, StepsAre
      <4>2. QED BY <2>1, <4>1
    <3>3. QED BY <3>1, <3>2, SymbolsKept
  <2>2. ASSUME Alone, NEW r \in opened PROVE SymbolsCurrent(r)'
    <3>1. /\ OfRoot(r, gs) /\ Full(r, gs) /\ SymbolsLinked(r) /\ SymbolsDue(r)
          /\ UnderWay(r) \/ compiled[r].symbols = Newest(r)
      BY <2>2 DEF AloneCurrent, SymbolsCurrent
    <3>2. OfRoot(r, gs)' /\ Full(r, gs)' BY <2>2, <3>1, SymbolsFullStep
    <3>3. SymbolsLinked(r)' BY <2>2, <3>1, SymbolsLinkedStep
    <3>4. SymbolsDue(r)' BY <2>2, <3>1, SymbolsDueStep
    <3>5. UnderWay(r)' \/ compiled'[r].symbols = Newest(r)' BY <2>2, <3>1, <3>4, SymbolsResultsStep
    <3>6. QED BY <3>2, <3>3, <3>4, <3>5 DEF SymbolsCurrent
  <2>3. Alone' => Alone BY <1>1 DEF Alone
  <2>4. QED BY <1>1, <2>1, <2>2, <2>3 DEF AloneCurrent
<1>2. ASSUME NEW r \in Roots, OpenRoot(r) PROVE AloneCurrent'
  <2>1. r \notin opened /\ opened' = opened \cup {r} /\ gs' = gs BY <1>2 DEF OpenRoot
  <2>2. ASSUME Alone', NEW u \in opened' PROVE SymbolsCurrent(u)'
    <3>1. opened = {} /\ u = r BY <2>1, <2>2 DEF Alone
    <3>2. gs' = NoScopes BY <2>1, <3>1 DEF AloneCurrent
    <3>3. \A p \in Pkgs : gs'[p] = {} BY <3>2 DEF NoScopes
    <3>4. OfRoot(u, gs)' /\ Full(u, gs)' /\ SymbolsDue(u)'
      BY <3>3 DEF OfRoot, OfRootAt, Full, FullAt, SymbolsDue
    <3>5. UnderWay(u)'
      <4>1. PICK file : jobs'[Len(jobs) + 1] = Job(r, file) /\ Len(jobs) + 1 \in DOMAIN jobs'
        BY <1>2, OpenRootQueue
      <4>2. QED BY <3>1, <4>1 DEF UnderWay, Job
    <3>6. (gs = NoScopes)' BY <3>2 DEF NoScopes
    <3>7. QED BY <3>4, <3>5, <3>6 DEF SymbolsCurrent, SymbolsLinked
  <2>3. opened' # {} BY <2>1
  <2>4. QED BY <2>2, <2>3 DEF AloneCurrent
<1>3. opened' = opened \/ \E r \in Roots : OpenRoot(r)
  <2>1. \A w \in Workers : WorkStep(w) => opened' = opened BY WorkFlow DEF Flow, StepFacts
  <2>2. QED BY <2>1, NextCases DEF Edit, StartJob, cacheVars, textVars
<1>4. QED BY <1>1, <1>2, <1>3

-----------------------------------------------------------------------------
(* The invariant. *)

CachesInv ==
    /\ Types /\ JobsAbout /\ TextsKnown /\ ImportsCurrent /\ TextsCurrent /\ ProgramFound
    /\ ChangedTold /\ GraphCurrent /\ ScopesReached /\ ScopesFull /\ ScopesCurrent /\ ResultsCurrent

LEMMA CachesInvInit ==
    ASSUME Orderly PROVE CachesStart => CachesInv
<1> SUFFICES ASSUME CachesStart PROVE CachesInv OBVIOUS
<1>1. Types /\ JobsAbout BY TypesInit
<1>2. /\ \A w \in Workers : running[w] = Idle /\ ~Busy(w)
      /\ \A f \in Files : CacheTexts(f) = {} /\ \A p \in Pkgs : dep_cache[f][p] = {}
  BY DEF CachesStart, CacheTexts, Busy
<1>3. Idle.step \notin Steps /\ Idle.step \notin Checked
  BY DEF Idle, Steps, Early, Parsing, Parsed, Checked
<1>4. TextsKnown
  <2>1. \A f \in Files : text[f].edit <= edits
    <3>1. text \in [Files -> {[edit |-> 0, imports |-> I] : I \in UNION {Imports[f] : f \in Files}}]
      BY DEF CachesStart
    <3>2. \A f \in Files : text[f].edit = 0 BY <3>1
    <3>3. QED BY <3>2 DEF CachesStart
  <2>2. QED BY <1>2, <2>1 DEF TextsKnown
<1>5. ImportsCurrent
  <2>1. InOrder BY DEF CachesStart, Orderly
  <2>2. QED BY <1>2, <2>1 DEF ImportsCurrent
<1>6. TextsCurrent BY <1>2 DEF TextsCurrent
<1>7. ProgramFound BY <1>2 DEF ProgramFound, FoundBy, Idle, Steps, Early, Parsing, Parsed, Checked
<1>8. ChangedTold BY <1>2 DEF ChangedTold, CachesStart, Idle
<1>9. program_root = {} /\ scope_map = NoScopes /\ opened = {} BY DEF CachesStart
<1>10. \A w \in Workers : running[w].step \notin Checked BY <1>2, <1>3
<1>11. GraphCurrent BY <1>9, <1>10 DEF GraphCurrent
<1>12. ScopesReached BY <1>9, <1>10 DEF ScopesReached, ReachesAll, NoScopes, Importable
<1>13. ScopesFull /\ ScopesCurrent BY <1>9, <1>10 DEF ScopesFull, ScopesCurrent
<1>14. ResultsCurrent BY <1>9 DEF ResultsCurrent
<1>15. QED BY <1>1, <1>4, <1>5, <1>6, <1>7, <1>8, <1>11, <1>12, <1>13, <1>14 DEF CachesInv

LEMMA CachesInvStep ==
    ASSUME Orderly, CachesInv, [CachesNext]_cacheVars PROVE CachesInv'
<1>1. /\ Types /\ JobsAbout /\ TextsKnown /\ ImportsCurrent /\ TextsCurrent /\ ProgramFound
      /\ ChangedTold /\ GraphCurrent /\ ScopesReached /\ ScopesFull /\ ScopesCurrent /\ ResultsCurrent
  BY DEF CachesInv
<1>2. Types' /\ JobsAbout' BY <1>1, TypesStep, JobsAboutStep
<1>3. TextsKnown' BY <1>1, TextsKnownStep
<1>4. ImportsCurrent' BY <1>1, <1>2, ImportsStep
<1>5. TextsCurrent' BY <1>1, TextsStep
<1>6. ProgramFound' BY <1>1, <1>2, FoundStep
<1>7. ChangedTold' BY <1>1, ToldStep
<1>8. GraphCurrent' BY <1>1, <1>2, GraphStep
<1>9. ScopesReached' BY <1>1, ReachedStep
<1>10. ScopesFull' BY <1>1, <1>2, FullStep
<1>11. ScopesCurrent' BY <1>1, <1>2, CurrentStep
<1>12. ResultsCurrent' BY <1>1, <1>2, ResultsStep
<1>13. QED
  BY <1>2, <1>3, <1>4, <1>5, <1>6, <1>7, <1>8, <1>9, <1>10, <1>11, <1>12 DEF CachesInv

LEMMA CachesInvAlways ==
    ASSUME Orderly PROVE CachesSpec => []CachesInv
<1>1. CachesInv /\ [CachesNext]_cacheVars => CachesInv' BY CachesInvStep
<1>2. QED BY <1>1, CachesInvInit, PTL DEF CachesSpec

\* The cached scopes are invalidated by the files they depend on.
LEMMA InvalidatedByOne ==
    ASSUME Orderly PROVE CachesSpec => []CachedScopesInvalidated
<1>1. CachesInv => CachedScopesInvalidated
  <2> SUFFICES ASSUME CachesInv, NEW p \in Pkgs, NEW s \in scope_map[p]
               PROVE  p \in Invalidated(graph, {s[1]})
    BY DEF CachedScopesInvalidated
  <2>1. p # MainPkg BY DEF CachesInv, Types, ScopeTypes
  <2>2. QED BY <2>1 DEF CachesInv, ScopesReached, ReachesAll, Importable
<1>2. QED BY <1>1, CachesInvAlways, PTL

\* The types the last jobs returned are fresh.
LEMMA ScopesOfOne ==
    ASSUME Orderly PROVE CachesSpec => []ScopesFresh
<1>1. CachesInv => ScopesFresh
  <2> SUFFICES ASSUME CachesInv, Settled, NEW r \in opened PROVE compiled[r].scopes = Newest(r)
    BY DEF ScopesFresh
  <2>1. ~UnderWay(r) BY DEF UnderWay, Settled, Busy
  <2>2. QED BY <2>1 DEF CachesInv, ResultsCurrent
<1>2. QED BY <1>1, CachesInvAlways, PTL

\* So are the symbols, as long as one workspace is open.
LEMMA SymbolsOfOne ==
    ASSUME Orderly PROVE CachesSpec => []SymbolsFreshAlone
<1> DEFINE Inv == CachesInv /\ AloneCurrent
<1>1. CachesStart => Inv
  <2>1. CachesStart => AloneCurrent BY DEF CachesStart, AloneCurrent
  <2>2. QED BY <2>1, CachesInvInit
<1>2. Inv /\ [CachesNext]_cacheVars => Inv'
  <2> SUFFICES ASSUME Inv, [CachesNext]_cacheVars PROVE Inv' OBVIOUS
  <2>1. CachesInv' BY CachesInvStep
  <2>2. AloneCurrent' BY <2>1, AloneStep DEF CachesInv
  <2>3. QED BY <2>1, <2>2
<1>3. Inv => SymbolsFreshAlone
  <2> SUFFICES ASSUME Inv, Cardinality(opened) = 1, Settled, NEW r \in opened
               PROVE  compiled[r].symbols = Newest(r)
    BY DEF SymbolsFreshAlone, SymbolsFresh
  <2>1. IsFiniteSet(opened)
    <3>1. opened \subseteq Roots /\ IsFiniteSet(Roots)
      BY CachesAssumption DEF CachesInv, Types, TextTypes
    <3>2. QED BY <3>1, FS_Subset
  <2>2. \E u : opened = {u} BY <2>1, FS_Singleton
  <2>3. Alone BY <2>2 DEF Alone
  <2>4. ~UnderWay(r) BY DEF UnderWay, Settled, Busy
  <2>5. QED BY <2>3, <2>4 DEF AloneCurrent, SymbolsCurrent
<1>4. QED
  <2> HIDE DEF Inv
  <2> QED BY <1>1, <1>2, <1>3, PTL DEF CachesSpec
=============================================================================
