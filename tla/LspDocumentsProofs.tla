------------------------- MODULE LspDocumentsProofs -------------------------
(***************************************************************************)
(* Theorems about LspDocuments, for every set of files and workspaces, any *)
(* number of workers and any length of the queues.                         *)
(***************************************************************************)
EXTENDS LspDocuments, FiniteSetTheorems, TLAPS

\* The elements of a queue, whatever their order.
Elems(q) == {q[i] : i \in 1..Len(q)}

LEMMA ElemsOfAppend ==
    ASSUME NEW T, NEW q \in Seq(T), NEW r \in Seq(T)
    PROVE  q \o r \in Seq(T) /\ Elems(q \o r) = Elems(q) \cup Elems(r)
<1>1. q \o r \in Seq(T) /\ Len(q \o r) = Len(q) + Len(r) OBVIOUS
<1>2. \A i \in 1..Len(q) : (q \o r)[i] = q[i] /\ i \in 1..Len(q \o r) OBVIOUS
<1>3. \A i \in 1..Len(r) :
          (q \o r)[i + Len(q)] = r[i] /\ i + Len(q) \in 1..Len(q \o r)
  OBVIOUS
<1>4. \A i \in 1..Len(q \o r) : i \in 1..Len(q) \/ i - Len(q) \in 1..Len(r)
  BY <1>1
<1>5. ASSUME NEW i \in 1..Len(q \o r)
      PROVE  (q \o r)[i] \in Elems(q) \cup Elems(r)
  <2>1. CASE i \in 1..Len(q) BY <1>2, <2>1 DEF Elems
  <2>2. CASE i - Len(q) \in 1..Len(r)
    <3>1. (q \o r)[i] = r[i - Len(q)] BY <1>1, <2>2
    <3>2. QED BY <3>1, <2>2 DEF Elems
  <2>3. QED BY <1>4, <2>1, <2>2
<1>6. QED BY <1>1, <1>2, <1>3, <1>5 DEF Elems

LEMMA ElemsOfTail ==
    ASSUME NEW T, NEW q \in Seq(T), q # <<>>
    PROVE  /\ Head(q) \in T /\ Tail(q) \in Seq(T)
           /\ Elems(q) = {Head(q)} \cup Elems(Tail(q))
<1>1. Len(q) \in Nat \ {0} /\ Head(q) = q[1] /\ Tail(q) \in Seq(T)
      /\ Len(Tail(q)) = Len(q) - 1
  OBVIOUS
<1>2. \A i \in 1..Len(Tail(q)) : Tail(q)[i] = q[i + 1] /\ i + 1 \in 1..Len(q)
  BY <1>1
<1>3. \A i \in 1..Len(q) : i = 1 \/ i - 1 \in 1..Len(Tail(q)) BY <1>1
<1>4. ASSUME NEW i \in 1..Len(q) PROVE q[i] \in {Head(q)} \cup Elems(Tail(q))
  <2>1. CASE i = 1 BY <1>1, <2>1
  <2>2. CASE i - 1 \in 1..Len(Tail(q))
    <3>1. Tail(q)[i - 1] = q[(i - 1) + 1] BY <1>2, <2>2
    <3>2. QED BY <3>1, <2>2 DEF Elems
  <2>3. QED BY <1>3, <2>1, <2>2
<1>5. 1 \in 1..Len(q) BY <1>1
<1>6. QED BY <1>1, <1>2, <1>4, <1>5 DEF Elems

LEMMA ElemsOfSeq ==
    ASSUME NEW T, NEW q \in Seq(T) PROVE Elems(q) \subseteq T
  BY DEF Elems

\* HashMap iteration lists every key and nothing else.
LEMMA OrderLists ==
    ASSUME NEW S, IsFiniteSet(S), NEW s \in Orders(S)
    PROVE  /\ s \in Seq(S) /\ DOMAIN s = 1..Len(s)
           /\ \A i \in 1..Len(s) : s[i] \in S
           /\ \A x \in S : \E i \in 1..Len(s) : s[i] = x
<1>1. Cardinality(S) \in Nat BY FS_CardinalityType
<1>2. s \in [1..Cardinality(S) -> S] /\ \A x \in S : \E i \in DOMAIN s : s[i] = x
  BY DEF Orders
<1>3. s \in Seq(S) /\ Len(s) = Cardinality(S) BY <1>1, <1>2
<1>4. QED BY <1>1, <1>2, <1>3

LEMMA MappedOrder ==
    ASSUME NEW S, IsFiniteSet(S), NEW s \in Orders(S), NEW T, NEW g \in [S -> T],
           NEW q, q = [i \in DOMAIN s |-> g[s[i]]]
    PROVE  q \in Seq(T) /\ Elems(q) = {g[x] : x \in S}
<1>1. /\ s \in Seq(S) /\ DOMAIN s = 1..Len(s)
      /\ \A i \in 1..Len(s) : s[i] \in S
      /\ \A x \in S : \E i \in 1..Len(s) : s[i] = x
  BY OrderLists
<1>2. Len(s) \in Nat BY <1>1
<1>3. q \in [1..Len(s) -> T] BY <1>1
<1>4. q \in Seq(T) /\ Len(q) = Len(s) BY <1>2, <1>3
<1>5. QED BY <1>1, <1>4 DEF Elems

LEMMA SubsetsFinite ==
    /\ \A S \in SUBSET WorkSpaces : IsFiniteSet(S)
    /\ \A S \in SUBSET Files : IsFiniteSet(S)
  BY DocumentsAssumption, FS_Subset

-----------------------------------------------------------------------------
LEMMA NewJobTyped ==
    ASSUME NEW w \in WorkSpaces, NEW F \in SUBSET Files, NEW temp \in BOOLEAN
    PROVE  CompileJob(w, F, temp) \in CompileJobs
<1>1. NoDb \in Databases BY DocumentsAssumption DEF NoDb, Databases, Versions
<1>2. QED BY <1>1 DEF CompileJob, CompileJobs, Steps

LEMMA TasksTyped ==
    \A f \in Files :
        /\ ChangedFile(f, "create") \in DocumentTasks
        /\ ChangedFile(f, "modify") \in DocumentTasks
        /\ ReOpenFile(f) \in DocumentTasks
        /\ \A v \in Versions : Notify(f, v) \in DocumentTasks
  BY DEF ChangedFile, ReOpenFile, Notify, DocumentTasks

\* async_compile adds a job for every workspace of ws and nothing else.
LEMMA AsyncCompileEffect ==
    ASSUME DocumentsTypeOK, NEW ws \in SUBSET WorkSpaces, NEW f \in Files,
           NEW temp \in BOOLEAN, AsyncCompile(ws, f, temp)
    PROVE  /\ pool' \in Seq(CompileJobs)
           /\ Elems(pool') = Elems(pool) \cup {CompileJob(w, {f}, temp) : w \in ws}
           /\ configured' = configured \cup ws
<1> DEFINE job == [w \in ws |-> CompileJob(w, {f}, temp)]
<1>1. PICK s \in Orders(ws) :
          pool' = pool \o [i \in DOMAIN s |-> CompileJob(s[i], {f}, temp)]
  BY DEF AsyncCompile
<1>2. job \in [ws -> CompileJobs] BY NewJobTyped
<1>3. IsFiniteSet(ws) BY SubsetsFinite
<1>4. \A i \in DOMAIN s : s[i] \in ws BY <1>3, OrderLists
<1> DEFINE q == [i \in DOMAIN s |-> CompileJob(s[i], {f}, temp)]
<1>5. q = [i \in DOMAIN s |-> job[s[i]]] BY <1>4
<1>6. {job[w] : w \in ws} = {CompileJob(w, {f}, temp) : w \in ws} OBVIOUS
<1> HIDE DEF job, q
<1>7. q \in Seq(CompileJobs) /\ Elems(q) = {job[w] : w \in ws}
  BY <1>2, <1>3, <1>5, MappedOrder
<1>8. pool \in Seq(CompileJobs) BY DEF DocumentsTypeOK
<1>9. pool' \in Seq(CompileJobs) /\ Elems(pool') = Elems(pool) \cup Elems(q)
  BY <1>1, <1>7, <1>8, ElemsOfAppend DEF q
<1>10. QED BY <1>6, <1>7, <1>9 DEF AsyncCompile, Cached

\* What ChangeKind::Create does.
CreateEffect(f, rest, open, rec) ==
    /\ tasks' \in Seq(DocumentTasks)
    /\ Elems(tasks') \subseteq Elems(rest) \cup {ChangedFile(f, "create")}
    /\ pool' \in Seq(CompileJobs)
    /\ Elems(pool) \subseteq Elems(pool')
    /\ Elems(pool') \subseteq
          Elems(pool) \cup
              {CompileJob(w, {f}, TRUE) : w \in Lookup[f] \cap configured'}
    /\ configured \subseteq configured' /\ configured' \subseteq WorkSpaces
    /\ recorded' \in [Files -> SUBSET WorkSpaces]
    /\ \A g \in Files : recorded'[g] \subseteq rec[g] \cup Containing(f)
    /\ temporary' \in [Files -> TemporaryEntries]
    /\ \A g \in Files \ {f} : temporary'[g] = temporary[g]
    /\ \/ temporary'[f] \in {temporary[f], NoEntry}
       \/ /\ temporary'[f] = InCompiling /\ Lookup[f] # {}
          /\ \A w \in Lookup[f] : CompileJob(w, {f}, TRUE) \in Elems(pool')
    /\ main' = main \/ (main' = "panicked" /\ f \notin open)

LEMMA ProcessCreateEffect ==
    ASSUME DocumentsTypeOK, NEW f \in Files,
           NEW rest \in Seq(DocumentTasks), NEW open,
           NEW rec \in [Files -> SUBSET WorkSpaces],
           ProcessCreate(f, rest, open, rec)
    PROVE  CreateEffect(f, rest, open, rec)
<1>1. /\ pool \in Seq(CompileJobs) /\ configured \in SUBSET WorkSpaces
      /\ temporary \in [Files -> TemporaryEntries]
      /\ NoEntry \in TemporaryEntries /\ InCompiling \in TemporaryEntries
  BY DEF DocumentsTypeOK, TemporaryEntries
<1>2. Containing(f) \subseteq WorkSpaces /\ Lookup[f] \in SUBSET WorkSpaces
  BY DocumentsAssumption DEF Containing
<1> DEFINE mayContain == Containing(f) \cup InProgress # {}
           panics == Containing(f) # {} /\ f \notin open
<1>3. CASE /\ panics
           /\ main' = "panicked"
           /\ tasks' = rest
           /\ recorded' = rec
           /\ UNCHANGED <<pool, temporary, configured>>
  BY <1>1, <1>3 DEF CreateEffect
<1>4. CASE /\ ~panics /\ mayContain
           /\ recorded' = [rec EXCEPT ![f] = @ \cup Containing(f)]
           /\ SendAfter(rest, [i \in 1..Cardinality(InProgress) |->
                                  ChangedFile(f, "create")])
           /\ temporary' = [temporary EXCEPT ![f] = NoEntry]
           /\ UNCHANGED <<main, pool, configured>>
  <2> DEFINE new == [i \in 1..Cardinality(InProgress) |-> ChangedFile(f, "create")]
  <2>1. Cardinality(InProgress) \in Nat
    <3>1. InProgress \in SUBSET WorkSpaces BY DEF InProgress
    <3>2. QED BY <3>1, SubsetsFinite, FS_CardinalityType
  <2>2. new \in Seq(DocumentTasks) BY <2>1, TasksTyped
  <2>3. Elems(new) \subseteq {ChangedFile(f, "create")}
    BY <2>1, <2>2 DEF Elems
  <2>4. tasks' = rest \o new BY <1>4 DEF SendAfter
  <2> HIDE DEF new
  <2>5. /\ tasks' \in Seq(DocumentTasks)
        /\ Elems(tasks') \subseteq Elems(rest) \cup {ChangedFile(f, "create")}
    BY <2>2, <2>3, <2>4, ElemsOfAppend
  <2>6. /\ recorded' \in [Files -> SUBSET WorkSpaces]
        /\ \A g \in Files : recorded'[g] \subseteq rec[g] \cup Containing(f)
    BY <1>2, <1>4
  <2>7. /\ temporary' \in [Files -> TemporaryEntries]
        /\ \A g \in Files \ {f} : temporary'[g] = temporary[g]
        /\ temporary'[f] = NoEntry
    BY <1>1, <1>4
  <2>8. QED BY <1>1, <1>4, <2>5, <2>6, <2>7 DEF CreateEffect
<1>5. CASE /\ ~panics /\ ~mayContain
           /\ temporary' = [temporary EXCEPT ![f] =
                               IF Lookup[f] = {} THEN NoEntry ELSE InCompiling]
           /\ AsyncCompile(Lookup[f], f, TRUE)
           /\ recorded' = rec
           /\ tasks' = rest
           /\ UNCHANGED main
  <2>1. /\ pool' \in Seq(CompileJobs)
        /\ Elems(pool') = Elems(pool) \cup
                              {CompileJob(w, {f}, TRUE) : w \in Lookup[f]}
        /\ configured' = configured \cup Lookup[f]
    BY <1>2, <1>5, AsyncCompileEffect
  <2>2. /\ temporary' \in [Files -> TemporaryEntries]
        /\ \A g \in Files \ {f} : temporary'[g] = temporary[g]
        /\ temporary'[f] = IF Lookup[f] = {} THEN NoEntry ELSE InCompiling
    BY <1>1, <1>5
  <2>3. \A w \in Lookup[f] : CompileJob(w, {f}, TRUE) \in Elems(pool')
    BY <2>1
  <2>4. Lookup[f] \cap configured' = Lookup[f] BY <2>1
  <2>5. QED BY <1>1, <1>2, <1>5, <2>1, <2>2, <2>3, <2>4 DEF CreateEffect
<1>6. QED BY <1>3, <1>4, <1>5 DEF ProcessCreate

\* The workspaces ChangeKind::Modify compiles.
ModifyTargets(f) ==
    IF recorded[f] # {} THEN recorded[f]
    ELSE IF temporary[f].entry = "workspace" THEN {temporary[f].ws} ELSE {}

\* What ChangeKind::Modify does.
ModifyEffect(f, rest) ==
    /\ tasks' \in Seq(DocumentTasks)
    /\ Elems(tasks') \subseteq
          Elems(rest) \cup {ChangedFile(f, "modify"), ReOpenFile(f)}
    /\ ModifyTargets(f) # {} => Elems(tasks') \subseteq Elems(rest)
    /\ pool' \in Seq(CompileJobs)
    /\ Elems(pool) \subseteq Elems(pool')
    /\ \A job \in Elems(pool') \ Elems(pool) :
          /\ job.ws \in ModifyTargets(f) \cap configured' /\ job.files = {f}
          /\ job.step = "diags" /\ job.ok /\ job.db = NoDb
          /\ job.temp => temporary[f] = Temporary(job.ws)
    /\ main' # "panicked" =>
          \A w \in ModifyTargets(f) : \E job \in Elems(pool') : job.ws = w
    /\ configured \subseteq configured' /\ configured' \subseteq WorkSpaces
    /\ \/ main' = main
       \/ /\ main' = "panicked"
          /\ f \notin opened \/ ~(ModifyTargets(f) \subseteq configured)

LEMMA ProcessModifyEffect ==
    ASSUME DocumentsTypeOK, NEW f \in Files,
           NEW rest \in Seq(DocumentTasks), ProcessModify(f, rest)
    PROVE  ModifyEffect(f, rest)
<1>1. /\ pool \in Seq(CompileJobs) /\ configured \in SUBSET WorkSpaces
      /\ recorded[f] \in SUBSET WorkSpaces
  BY DEF DocumentsTypeOK
<1>2. \/ temporary[f].entry # "workspace"
      \/ temporary[f].ws \in WorkSpaces /\ temporary[f] = Temporary(temporary[f].ws)
  BY DEF DocumentsTypeOK, TemporaryEntries, NoEntry, InCompiling, Temporary
<1>3. ModifyTargets(f) \in SUBSET WorkSpaces
  BY <1>1, <1>2 DEF ModifyTargets
<1> DEFINE panics == f \notin opened \/ ~(ModifyTargets(f) \subseteq configured)
<1>4. CASE /\ panics
           /\ main' = "panicked"
           /\ tasks' = rest
           /\ UNCHANGED <<pool, configured>>
  BY <1>1, <1>4 DEF ModifyEffect
<1>5. CASE /\ ~panics /\ ModifyTargets(f) # {}
           /\ AsyncCompile(ModifyTargets(f), f, recorded[f] = {})
           /\ tasks' = rest
           /\ UNCHANGED main
  <2>1. PICK ws : ws = ModifyTargets(f) OBVIOUS
  <2>2. ws \in SUBSET WorkSpaces BY <1>3, <2>1
  <2>3. CASE recorded[f] = {}
    <3>1. AsyncCompile(ws, f, TRUE) BY <1>5, <2>1, <2>3 DEF AsyncCompile, Cached
    <3>2. /\ pool' \in Seq(CompileJobs)
          /\ Elems(pool') = Elems(pool) \cup {CompileJob(w, {f}, TRUE) : w \in ws}
          /\ configured' = configured \cup ws
      BY <2>2, <3>1, AsyncCompileEffect
    <3>3. \A w \in ws : temporary[f] = Temporary(w)
      BY <1>2, <2>1, <2>3 DEF ModifyTargets
    <3>4. ASSUME NEW job \in Elems(pool') \ Elems(pool)
          PROVE  /\ job.ws \in ws /\ job.files = {f}
                 /\ job.step = "diags" /\ job.ok /\ job.db = NoDb
                 /\ job.temp => TRUE
      <4>1. PICK w \in ws : job = CompileJob(w, {f}, TRUE) BY <3>2
      <4>2. QED BY <4>1 DEF CompileJob
    <3>5. \A w \in ws : \E job \in Elems(pool') : job.ws = w
      <4>1. \A w : CompileJob(w, {f}, TRUE).ws = w BY DEF CompileJob
      <4>2. QED BY <3>2, <4>1
    <3>6. QED BY <1>1, <1>3, <1>5, <2>1, <3>2, <3>3, <3>4, <3>5 DEF ModifyEffect
  <2>4. CASE recorded[f] # {}
    <3>1. AsyncCompile(ws, f, FALSE) BY <1>5, <2>1, <2>4 DEF AsyncCompile, Cached
    <3>2. /\ pool' \in Seq(CompileJobs)
          /\ Elems(pool') = Elems(pool) \cup {CompileJob(w, {f}, FALSE) : w \in ws}
          /\ configured' = configured \cup ws
      BY <2>2, <3>1, AsyncCompileEffect
    <3>3. ASSUME NEW job \in Elems(pool') \ Elems(pool)
          PROVE  /\ job.ws \in ws /\ job.files = {f}
                 /\ job.step = "diags" /\ job.ok /\ job.db = NoDb
                 /\ job.temp => FALSE
      <4>1. PICK w \in ws : job = CompileJob(w, {f}, FALSE) BY <3>2
      <4>2. QED BY <4>1 DEF CompileJob
    <3>4. \A w \in ws : \E job \in Elems(pool') : job.ws = w
      <4>1. \A w : CompileJob(w, {f}, FALSE).ws = w BY DEF CompileJob
      <4>2. QED BY <3>2, <4>1
    <3>5. QED BY <1>1, <1>3, <1>5, <2>1, <3>2, <3>3, <3>4 DEF ModifyEffect
  <2>5. QED BY <2>3, <2>4
<1>6. CASE /\ ~panics /\ ModifyTargets(f) = {}
           /\ SendAfter(rest, IF temporary[f] = InCompiling
                              THEN <<ChangedFile(f, "modify"), ReOpenFile(f)>>
                              ELSE <<ReOpenFile(f)>>)
           /\ UNCHANGED <<main, pool, configured>>
  <2> DEFINE both == <<ChangedFile(f, "modify"), ReOpenFile(f)>>
             one == <<ReOpenFile(f)>>
  <2>1. both \in Seq(DocumentTasks) /\ one \in Seq(DocumentTasks) BY TasksTyped
  <2>2. /\ Elems(both) \subseteq {ChangedFile(f, "modify"), ReOpenFile(f)}
        /\ Elems(one) \subseteq {ReOpenFile(f)}
    <3>1. 1..Len(both) = {1, 2} /\ 1..Len(one) = {1} BY <2>1
    <3>2. both[1] = ChangedFile(f, "modify") /\ both[2] = ReOpenFile(f)
          /\ one[1] = ReOpenFile(f)
      OBVIOUS
    <3>3. QED BY <3>1, <3>2 DEF Elems
  <2>3. tasks' = rest \o both \/ tasks' = rest \o one BY <1>6 DEF SendAfter
  <2> HIDE DEF both, one
  <2>4. /\ tasks' \in Seq(DocumentTasks)
        /\ Elems(tasks') \subseteq
              Elems(rest) \cup {ChangedFile(f, "modify"), ReOpenFile(f)}
    <3>1. CASE tasks' = rest \o both
      <4>1. tasks' \in Seq(DocumentTasks) /\ Elems(tasks') = Elems(rest) \cup Elems(both)
        BY <2>1, <3>1, ElemsOfAppend
      <4>2. QED BY <4>1, <2>2
    <3>2. CASE tasks' = rest \o one
      <4>1. tasks' \in Seq(DocumentTasks) /\ Elems(tasks') = Elems(rest) \cup Elems(one)
        BY <2>1, <3>2, ElemsOfAppend
      <4>2. QED BY <4>1, <2>2
    <3>3. QED BY <2>3, <3>1, <3>2
  <2>5. QED BY <1>1, <1>6, <2>4 DEF ModifyEffect
<1>7. QED BY <1>4, <1>5, <1>6 DEF ProcessModify, ModifyTargets

-----------------------------------------------------------------------------
LEMMA JobAtStep ==
    ASSUME DocumentsTypeOK, NEW w \in Workers, NEW s, AtStep(w, s)
    PROVE  /\ running[w] \in CompileJobs /\ running[w] # Idle
           /\ running[w].step = s /\ Alive
  BY DEF DocumentsTypeOK, AtStep, Idle

LEMMA DiagnosedTyped == \A db : DiagnosedFiles(db) \in SUBSET Files
  BY DEF DiagnosedFiles

LEMMA ProgramTyped ==
    ASSUME DocumentsTypeOK, NEW ws \in WorkSpaces, NEW ok \in BOOLEAN
    PROVE  Program(ws, ok) \in Databases
<1>1. \A f \in Files : Text(f) \in Versions
  BY DEF DocumentsTypeOK, Text
<1>2. 0 \in Versions BY DocumentsAssumption DEF Versions
<1>3. QED BY <1>1, <1>2 DEF Program, Databases

\* The steps of the closure of async_compile that change nothing else than the
\* local variables of job w: what it works on stays the same.
SameWork(old, new) ==
    /\ new \in CompileJobs
    /\ new.ws = old.ws /\ new.files = old.files /\ new.temp = old.temp

WorkerEffect(w) ==
    /\ running' \in [Workers -> {Idle} \cup CompileJobs]
    /\ \A u \in Workers \ {w} : running'[u] = running[u]
    /\ running'[w] = Idle \/ SameWork(running[w], running'[w])
    /\ tasks' \in Seq(DocumentTasks) /\ Elems(tasks) \subseteq Elems(tasks')
    /\ \A t \in Elems(tasks') \ Elems(tasks) : t.kind = "notify"
    /\ workspaces' \in [WorkSpaces -> DBStates]
    /\ temporary' \in [Files -> TemporaryEntries]
    /\ UNCHANGED <<pool, main, textVars, recorded, configured, shown>>

LEMMA CompileStepEffect ==
    ASSUME DocumentsTypeOK, NEW w \in Workers, CompileStep(w)
    PROVE  WorkerEffect(w)
<1>1. /\ running \in [Workers -> {Idle} \cup CompileJobs]
      /\ tasks \in Seq(DocumentTasks)
      /\ workspaces \in [WorkSpaces -> DBStates]
      /\ temporary \in [Files -> TemporaryEntries]
      /\ pool \in Seq(CompileJobs)
  BY DEF DocumentsTypeOK
<1> DEFINE job == running[w]
<1>2. job \in CompileJobs
  BY JobAtStep DEF CompileStep, ReadOldDiags, MarkCompiling, Compile, CompilePanics,
     PublishDiagnostics, Install, InsertTemporary
<1>3. ASSUME NEW new, SameWork(job, new), running' = [running EXCEPT ![w] = new]
      PROVE  /\ running' \in [Workers -> {Idle} \cup CompileJobs]
             /\ \A u \in Workers \ {w} : running'[u] = running[u]
             /\ running'[w] = Idle \/ SameWork(running[w], running'[w])
  BY <1>1, <1>3 DEF SameWork
<1>4. ASSUME EndJob(w)
      PROVE  /\ running' \in [Workers -> {Idle} \cup CompileJobs]
             /\ \A u \in Workers \ {w} : running'[u] = running[u]
             /\ running'[w] = Idle \/ SameWork(running[w], running'[w])
  BY <1>1, <1>4 DEF EndJob
<1>5. ASSUME NEW s \in Steps PROVE SameWork(job, [job EXCEPT !.step = s])
  BY <1>2, <1>5 DEF SameWork, CompileJobs
<1>6. CASE ReadOldDiags(w)
  <2> DEFINE old == DiagnosedFiles(workspaces[job.ws].db)
             new == [job EXCEPT !.step = "mark", !.old = old]
  <2>1. running' = [running EXCEPT ![w] = new] BY <1>6, <1>1 DEF ReadOldDiags
  <2>2. old \in SUBSET Files BY DiagnosedTyped
  <2> HIDE DEF old
  <2>3. SameWork(job, new) BY <1>2, <2>2 DEF SameWork, CompileJobs, Steps
  <2> HIDE DEF new
  <2>4. QED
    BY <1>1, <1>3, <1>6, <2>1, <2>3
       DEF ReadOldDiags, WorkerEffect, documentVars
<1>7. CASE MarkCompiling(w)
  <2>1. running' = [running EXCEPT ![w] = [job EXCEPT !.step = "load"]]
    BY <1>7, <1>1 DEF MarkCompiling
  <2>2. SameWork(job, [job EXCEPT !.step = "load"]) BY <1>5 DEF Steps
  <2>3. workspaces' \in [WorkSpaces -> DBStates]
    <3>1. job.ws \in WorkSpaces BY <1>2 DEF CompileJobs
    <3>2. workspaces[job.ws] \in DBStates BY <1>1, <3>1
    <3>3. Compiling(workspaces[job.ws].db) \in DBStates /\ Init \in DBStates
      BY <3>2, DocumentsAssumption
         DEF DBStates, Compiling, Init, NoDb, Databases, Versions
    <3>4. QED BY <1>1, <1>7, <3>3 DEF MarkCompiling
  <2>4. QED
    BY <1>1, <1>3, <1>7, <2>1, <2>2, <2>3 DEF MarkCompiling, WorkerEffect
<1>8. CASE Compile(w)
  <2>1. PICK ok, seen \in BOOLEAN :
            running' = [running EXCEPT ![w].step = "publish", ![w].ok = ok,
                                       ![w].db = Program(job.ws, seen)]
    BY <1>8 DEF Compile
  <2> DEFINE new == [job EXCEPT !.step = "publish", !.ok = ok,
                                !.db = Program(job.ws, seen)]
  <2>2. running' = [running EXCEPT ![w] = new] BY <2>1, <1>1
  <2>3. Program(job.ws, seen) \in Databases
    BY <1>2, ProgramTyped DEF CompileJobs
  <2>4. SameWork(job, new) BY <1>2, <2>3 DEF SameWork, CompileJobs, Steps
  <2> HIDE DEF new
  <2>5. QED
    BY <1>1, <1>3, <1>8, <2>2, <2>4 DEF Compile, WorkerEffect, documentVars
<1>9. CASE CompilePanics(w)
  BY <1>1, <1>4, <1>9 DEF CompilePanics, WorkerEffect, documentVars
<1>10. CASE PublishDiagnostics(w)
  <2>1. running' = [running EXCEPT ![w] = [job EXCEPT !.step = "install"]]
    BY <1>10, <1>1 DEF PublishDiagnostics
  <2>2. SameWork(job, [job EXCEPT !.step = "install"]) BY <1>5 DEF Steps
  <2> DEFINE S == ToPublish(job)
             note == [f \in S |-> Notify(f, IF f \in DiagnosedFiles(job.db)
                                             THEN job.db[f] ELSE 0)]
  <2>3. S \in SUBSET Files
    BY <1>2, DiagnosedTyped DEF ToPublish, CompileJobs
  <2>4. IsFiniteSet(S) BY <2>3, SubsetsFinite
  <2>5. note \in [S -> DocumentTasks]
    <3>1. 0 \in Versions BY DocumentsAssumption DEF Versions
    <3>2. \A f \in S : job.db[f] \in Versions
      BY <1>2, <2>3 DEF CompileJobs, Databases
    <3>3. \A f \in S : (IF f \in DiagnosedFiles(job.db)
                        THEN job.db[f] ELSE 0) \in Versions
      BY <3>1, <3>2
    <3>4. QED BY <2>3, <3>3, TasksTyped
  <2>6. PICK s \in Orders(S) :
            tasks' = tasks \o [i \in DOMAIN s |->
                        Notify(s[i], IF s[i] \in DiagnosedFiles(job.db)
                                     THEN job.db[s[i]] ELSE 0)]
    BY <1>10 DEF PublishDiagnostics
  <2>7. \A i \in DOMAIN s : s[i] \in S BY <2>4, OrderLists
  <2> DEFINE q == [i \in DOMAIN s |->
                      Notify(s[i], IF s[i] \in DiagnosedFiles(job.db)
                                   THEN job.db[s[i]] ELSE 0)]
  <2>8. q = [i \in DOMAIN s |-> note[s[i]]] BY <2>7
  <2>9. \A f \in S : note[f].kind = "notify" BY DEF Notify
  <2> HIDE DEF S, note, q
  <2>10. q \in Seq(DocumentTasks) /\ Elems(q) = {note[f] : f \in S}
    <3>1. PICK n : n = note OBVIOUS
    <3>2. PICK T : T = S OBVIOUS
    <3>3. QED BY <3>1, <3>2, <2>4, <2>5, <2>8, MappedOrder
  <2>11. tasks' \in Seq(DocumentTasks) /\ Elems(tasks') = Elems(tasks) \cup Elems(q)
    BY <1>1, <2>6, <2>10, ElemsOfAppend DEF q
  <2>12. QED
    BY <1>1, <1>3, <1>10, <2>1, <2>2, <2>9, <2>10, <2>11
       DEF PublishDiagnostics, WorkerEffect, documentVars
<1>11. CASE Install(w)
  <2>1. job.ws \in WorkSpaces BY <1>2 DEF CompileJobs
  <2>2. Result(job) \in DBStates
    BY <1>2, DocumentsAssumption
       DEF CompileJobs, Result, Ready, Failed, DBStates, NoDb, Databases, Versions
  <2>3. workspaces' \in [WorkSpaces -> DBStates]
    BY <1>1, <1>11, <2>2 DEF Install
  <2>4. CASE job.ok /\ job.temp
    <3>1. running' = [running EXCEPT ![w] = [job EXCEPT !.step = "insert"]]
      BY <1>11, <1>1, <2>4 DEF Install
    <3>2. SameWork(job, [job EXCEPT !.step = "insert"]) BY <1>5 DEF Steps
    <3>3. QED
      BY <1>1, <1>3, <1>11, <2>3, <2>4, <3>1, <3>2 DEF Install, WorkerEffect
  <2>5. CASE ~(job.ok /\ job.temp)
    <3>1. temporary' = EntryRemoved(job) /\ EndJob(w) BY <1>11, <2>5 DEF Install
    <3>2. temporary' \in [Files -> TemporaryEntries]
      BY <1>1, <3>1 DEF EntryRemoved, TemporaryEntries
    <3>3. QED BY <1>1, <1>4, <1>11, <2>3, <3>1, <3>2 DEF Install, WorkerEffect
  <2>6. QED BY <2>4, <2>5
<1>12. CASE InsertTemporary(w)
  <2>1. temporary' = EntryInserted(job) /\ EndJob(w)
    BY <1>12 DEF InsertTemporary
  <2>2. temporary' \in [Files -> TemporaryEntries]
    BY <1>1, <1>2, <2>1 DEF EntryInserted, TemporaryEntries, CompileJobs
  <2>3. QED BY <1>1, <1>4, <1>12, <2>1, <2>2 DEF InsertTemporary, WorkerEffect
<1>13. QED
  BY <1>6, <1>7, <1>8, <1>9, <1>10, <1>11, <1>12 DEF CompileStep

\* The head of the channel is received: the others stay.
LEMMA ReceiveEffect ==
    ASSUME DocumentsTypeOK, NEW t, Receive(t)
    PROVE  /\ t \in Elems(tasks) /\ Tail(tasks) \in Seq(DocumentTasks)
           /\ Elems(Tail(tasks)) \subseteq Elems(tasks) /\ main = "listening"
<1>1. tasks \in Seq(DocumentTasks) /\ tasks # <<>> /\ Head(tasks) = t
  BY DEF DocumentsTypeOK, Receive
<1>2. Elems(tasks) = {Head(tasks)} \cup Elems(Tail(tasks))
      /\ Tail(tasks) \in Seq(DocumentTasks)
  BY <1>1, ElemsOfTail
<1>3. QED BY <1>1, <1>2 DEF Receive, Listening

\* A task is received that makes the main thread process a created file.
Creates(f) ==
    \/ Receive(ChangedFile(f, "create")) \/ Receive(ReOpenFile(f))

LEMMA CreateTaskEffect ==
    ASSUME DocumentsTypeOK, NEW f \in Files, Creates(f),
           ProcessCreate(f, Tail(tasks), opened, recorded)
    PROVE  /\ CreateEffect(f, tasks, opened, recorded)
           /\ main = "listening"
           /\ \E t \in Elems(tasks) : t.kind \in {"changed", "reopen"} /\ t.file = f
<1>1. /\ \E t \in Elems(tasks) : t.kind \in {"changed", "reopen"} /\ t.file = f
      /\ Tail(tasks) \in Seq(DocumentTasks)
      /\ Elems(Tail(tasks)) \subseteq Elems(tasks) /\ main = "listening"
  BY ReceiveEffect DEF Creates, ChangedFile, ReOpenFile
<1>2. PICK rest, open, rec :
          rest = Tail(tasks) /\ open = opened /\ rec = recorded
  OBVIOUS
<1>3. rest \in Seq(DocumentTasks) /\ rec \in [Files -> SUBSET WorkSpaces]
  BY <1>1, <1>2 DEF DocumentsTypeOK
<1>4. ProcessCreate(f, rest, open, rec)
  BY <1>2 DEF ProcessCreate, SendAfter
<1>5. CreateEffect(f, rest, open, rec) BY <1>3, <1>4, ProcessCreateEffect
<1>6. QED BY <1>1, <1>2, <1>5 DEF CreateEffect

LEMMA DidOpenEffect ==
    ASSUME DocumentsTypeOK, NEW f \in Files, DidOpen(f)
    PROVE  CreateEffect(f, tasks, opened \cup {f}, [recorded EXCEPT ![f] = {}])
<1>1. PICK rest, open, rec :
          /\ rest = tasks /\ open = opened \cup {f}
          /\ rec = [recorded EXCEPT ![f] = {}]
  OBVIOUS
<1>2. rest \in Seq(DocumentTasks) /\ rec \in [Files -> SUBSET WorkSpaces]
  BY <1>1 DEF DocumentsTypeOK
<1>3. ProcessCreate(f, rest, open, rec)
  BY <1>1 DEF DidOpen, ProcessCreate, SendAfter
<1>4. CreateEffect(f, rest, open, rec) BY <1>2, <1>3, ProcessCreateEffect
<1>5. QED BY <1>1, <1>4 DEF CreateEffect

LEMMA ModifyTaskEffect ==
    ASSUME DocumentsTypeOK, NEW f \in Files,
           \/ DidChange(f)
           \/ Receive(ChangedFile(f, "modify")) /\ ProcessModify(f, Tail(tasks))
    PROVE  /\ ModifyEffect(f, tasks)
           /\ \/ f \in opened
              \/ \E t \in Elems(tasks) :
                    t.kind \in {"changed", "reopen"} /\ t.file = f
<1>1. CASE DidChange(f)
  <2>1. PICK rest : rest = tasks OBVIOUS
  <2>2. rest \in Seq(DocumentTasks) BY <2>1 DEF DocumentsTypeOK
  <2>3. ProcessModify(f, rest)
    BY <1>1, <2>1 DEF DidChange, ProcessModify, SendAfter, AsyncCompile, Cached
  <2>4. ModifyEffect(f, rest) BY <2>2, <2>3, ProcessModifyEffect
  <2>5. QED BY <1>1, <2>1, <2>4 DEF ModifyEffect, DidChange
<1>2. CASE Receive(ChangedFile(f, "modify")) /\ ProcessModify(f, Tail(tasks))
  <2>1. /\ ChangedFile(f, "modify") \in Elems(tasks)
        /\ Tail(tasks) \in Seq(DocumentTasks)
        /\ Elems(Tail(tasks)) \subseteq Elems(tasks)
    BY <1>2, ReceiveEffect
  <2>2. PICK rest : rest = Tail(tasks) OBVIOUS
  <2>3. rest \in Seq(DocumentTasks) BY <2>1, <2>2
  <2>4. ProcessModify(f, rest)
    BY <1>2, <2>2 DEF ProcessModify, SendAfter, AsyncCompile, Cached
  <2>5. ModifyEffect(f, rest) BY <2>3, <2>4, ProcessModifyEffect
  <2>6. QED BY <2>1, <2>2, <2>5 DEF ModifyEffect, ChangedFile
<1>3. QED BY <1>1, <1>2

LEMMA StartJobEffect ==
    ASSUME DocumentsTypeOK, NEW w \in Workers, StartJob(w)
    PROVE  /\ pool' \in Seq(CompileJobs) /\ running' = [running EXCEPT ![w] = Head(pool)]
           /\ Elems(pool) = {Head(pool)} \cup Elems(pool')
           /\ Head(pool) \in CompileJobs
  BY ElemsOfTail DEF DocumentsTypeOK, StartJob

LEMMA DocumentsTypeStep ==
    ASSUME DocumentsTypeOK, [DocumentsNext]_documentsAll
    PROVE  DocumentsTypeOK'
<1>0. 0 \in Versions /\ edits \in Nat BY DocumentsAssumption DEF Versions, DocumentsTypeOK
<1> USE DEF DocumentsTypeOK
<1>1. ASSUME NEW f \in Files, DidOpen(f) PROVE DocumentsTypeOK'
  <2>1. CreateEffect(f, tasks, opened \cup {f}, [recorded EXCEPT ![f] = {}])
    BY <1>1, DidOpenEffect
  <2>2. opens' \in 0..MaxOpens BY <1>1, DocumentsAssumption DEF DidOpen
  <2>3. vfs' \in [Files -> Versions] BY <1>1 DEF DidOpen
  <2>4. opened' \in SUBSET Files BY <1>1 DEF DidOpen
  <2>5. QED BY <1>1, <2>1, <2>2, <2>3, <2>4 DEF DidOpen, CreateEffect, MainStates
<1>2. ASSUME NEW f \in Files, DidChange(f) PROVE DocumentsTypeOK'
  <2>1. ModifyEffect(f, tasks) BY <1>2, ModifyTaskEffect
  <2>2. edits' \in Versions /\ vfs' \in [Files -> Versions]
    <3>1. edits + 1 \in Versions BY <1>2, <1>0, DocumentsAssumption DEF DidChange, Versions
    <3>2. QED BY <1>2, <3>1 DEF DidChange
  <2>3. QED BY <1>2, <2>1, <2>2 DEF DidChange, ModifyEffect, MainStates
<1>3. ASSUME NEW f \in Files, DidClose(f) PROVE DocumentsTypeOK'
  BY <1>3 DEF DidClose, MainStates
<1>4. ASSUME NEW f \in Files, FinishClose(f) PROVE DocumentsTypeOK'
  <2>1. Absent \in DBStates
    BY <1>0 DEF Absent, DBStates, NoDb, Databases
  <2>2. workspaces' \in [WorkSpaces -> DBStates]
    BY <1>4, <2>1 DEF FinishClose, ProcessDelete
  <2>3. temporary' \in [Files -> TemporaryEntries]
    BY <1>4 DEF FinishClose, ProcessDelete, TemporaryEntries
  <2>4. QED BY <1>0, <1>4, <2>2, <2>3 DEF FinishClose, MainStates
<1>5. ASSUME NEW f \in Files, Creates(f),
             ProcessCreate(f, Tail(tasks), opened, recorded),
             UNCHANGED <<running, textVars, workspaces, shown>>
      PROVE  DocumentsTypeOK'
  <2>1. CreateEffect(f, tasks, opened, recorded) BY <1>5, CreateTaskEffect
  <2>2. QED BY <1>5, <2>1 DEF CreateEffect, textVars, MainStates
<1>6. ASSUME NEW f \in Files, HandleChangedFile(f) PROVE DocumentsTypeOK'
  <2>1. CASE /\ Receive(ChangedFile(f, "create"))
             /\ ProcessCreate(f, Tail(tasks), opened, recorded)
             /\ UNCHANGED <<running, textVars, workspaces, shown>>
    BY <2>1, <1>5 DEF Creates
  <2>2. CASE /\ Receive(ChangedFile(f, "modify"))
             /\ ProcessModify(f, Tail(tasks))
             /\ UNCHANGED <<running, textVars, recorded, temporary, workspaces,
                            shown>>
    <3>1. ModifyEffect(f, tasks) BY <2>2, ModifyTaskEffect
    <3>2. QED BY <2>2, <3>1 DEF ModifyEffect, textVars, MainStates
  <2>3. QED BY <1>6, <2>1, <2>2 DEF HandleChangedFile
<1>7. ASSUME NEW f \in Files, HandleReOpenFile(f) PROVE DocumentsTypeOK'
  BY <1>5, <1>7 DEF HandleReOpenFile, Creates
<1>8. ASSUME NEW f \in Files, HandleNotify(f) PROVE DocumentsTypeOK'
  <2>1. tasks' \in Seq(DocumentTasks)
    <3>1. PICK v \in Versions : Receive(Notify(f, v)) BY <1>8 DEF HandleNotify
    <3>2. Tail(tasks) \in Seq(DocumentTasks) BY <3>1, ReceiveEffect
    <3>3. QED BY <1>8, <3>2 DEF HandleNotify
  <2>2. shown' \in [Files -> Versions] BY <1>8 DEF HandleNotify
  <2>3. QED BY <1>8, <2>1, <2>2 DEF HandleNotify, textVars
<1>9. ASSUME NEW w \in Workers, StartJob(w), UNCHANGED documentVars
      PROVE  DocumentsTypeOK'
  BY <1>9, StartJobEffect DEF StartJob, documentVars, textVars
<1>10. ASSUME NEW w \in Workers, CompileStep(w) PROVE DocumentsTypeOK'
  <2>1. WorkerEffect(w) BY <1>10, CompileStepEffect
  <2>2. QED BY <2>1 DEF WorkerEffect, textVars
<1>11. CASE Exit /\ UNCHANGED documentVars
  BY <1>11 DEF Exit, documentVars, textVars, MainStates
<1>12. CASE UNCHANGED documentsAll
  BY <1>12 DEF documentsAll, runtimeVars, documentVars, textVars
<1>13. QED
  BY <1>1, <1>2, <1>3, <1>4, <1>6, <1>7, <1>8, <1>9, <1>10, <1>11, <1>12
     DEF DocumentsNext, ClientStep, DocumentStep

LEMMA PoolStart ==
    ASSUME PoolAtStart
    PROVE  /\ pool \in Seq(CompileJobs)
           /\ Elems(pool) = {CompileJob(w, {}, FALSE) : w \in InitWorkSpaces}
<1>1. PICK s \in Orders(InitWorkSpaces) :
          pool = [i \in DOMAIN s |-> CompileJob(s[i], {}, FALSE)]
  BY DEF PoolAtStart
<1>2. IsFiniteSet(InitWorkSpaces) /\ InitWorkSpaces \subseteq WorkSpaces
  BY DocumentsAssumption, SubsetsFinite
<1> DEFINE job == [w \in InitWorkSpaces |-> CompileJob(w, {}, FALSE)]
<1>3. \A i \in DOMAIN s : s[i] \in InitWorkSpaces BY <1>2, OrderLists
<1>4. job \in [InitWorkSpaces -> CompileJobs] BY <1>2, NewJobTyped
<1>5. PICK q : q = [i \in DOMAIN s |-> CompileJob(s[i], {}, FALSE)] OBVIOUS
<1>6. q = [i \in DOMAIN s |-> job[s[i]]] BY <1>3, <1>5
<1>7. {job[w] : w \in InitWorkSpaces} =
          {CompileJob(w, {}, FALSE) : w \in InitWorkSpaces}
  OBVIOUS
<1> HIDE DEF job
<1>8. q \in Seq(CompileJobs) /\ Elems(q) = {job[w] : w \in InitWorkSpaces}
  BY <1>2, <1>4, <1>6, MappedOrder
<1>9. QED BY <1>1, <1>5, <1>7, <1>8

LEMMA DocumentsTypeStart == DocumentsStart => DocumentsTypeOK
<1> SUFFICES ASSUME DocumentsStart PROVE DocumentsTypeOK
  OBVIOUS
<1> USE DEF DocumentsStart
<1>1. 0 \in Versions /\ 0 \in 0..MaxOpens BY DocumentsAssumption DEF Versions
<1>2. Absent \in DBStates BY <1>1 DEF Absent, DBStates, NoDb, Databases
<1>3. pool \in Seq(CompileJobs) BY PoolStart
<1>4. QED
  BY <1>1, <1>2, <1>3, DocumentsAssumption
     DEF RuntimeInit, DocumentsInit, DocumentsTypeOK, MainStates, TemporaryEntries

\* The variables of LspDocuments always have their types: the channel holds
\* tasks, the pool and the workers hold compile jobs.
THEOREM DocumentsTypesHold == DocumentsSpec => []DocumentsTypeOK
<1>1. DocumentsTypeOK /\ [DocumentsNext]_documentsAll => DocumentsTypeOK'
  BY DocumentsTypeStep
<1>2. QED BY <1>1, DocumentsTypeStart, PTL DEF DocumentsSpec

-----------------------------------------------------------------------------
\* The compile jobs there are. The next two invariants hold for any client.
AllJobs == Queued \cup Started

\* Whatever workspace the state mentions has its options in
\* workspace_config_cache, where ChangeKind::Modify looks them up.
OptionsKept ==
    /\ \A job \in AllJobs : job.ws \in configured
    /\ \A w \in WorkSpaces : workspaces[w].state # "absent" => w \in configured
    /\ \A f \in Files : recorded[f] \subseteq configured
    /\ \A f \in Files, w \in WorkSpaces :
          temporary[f] = Temporary(w) => w \in configured

\* A temporary workspace of a file is one the driver found for that file.
TemporaryFound ==
    /\ \A job \in AllJobs :
          /\ job.temp => \A f \in job.files : job.ws \in Lookup[f]
          /\ job.step = "insert" => job.temp
    /\ \A f \in Files, w \in WorkSpaces :
          temporary[f] = Temporary(w) => w \in Lookup[f]

JobsAsSets ==
    /\ Queued = Elems(pool)
    /\ Started = {running[w] : w \in Workers} \ {Idle}
    /\ AllJobs \subseteq CompileJobs

LEMMA JobsAreSets == DocumentsTypeOK => JobsAsSets
<1> SUFFICES ASSUME DocumentsTypeOK PROVE JobsAsSets
  OBVIOUS
<1>1. \A i \in 1..Len(pool) : pool[i] \in CompileJobs
  BY DEF DocumentsTypeOK
<1>2. \A job \in CompileJobs : job.kind = "compile" /\ job # Idle
  BY DEF CompileJobs, Idle
<1>3. Queued = Elems(pool) BY <1>1, <1>2 DEF Queued, Elems
<1>4. Started = {running[w] : w \in Workers} \ {Idle}
  BY <1>2 DEF DocumentsTypeOK, Started, Idle
<1>5. AllJobs \subseteq CompileJobs
  BY <1>1, <1>3, <1>4 DEF DocumentsTypeOK, AllJobs, Elems
<1>6. QED BY <1>3, <1>4, <1>5 DEF JobsAsSets

\* Steps of the main thread leave the running jobs alone.
LEMMA MainKeepsJobs ==
    ASSUME DocumentsTypeOK, DocumentsTypeOK', running' = running
    PROVE  /\ AllJobs' = Elems(pool') \cup Started /\ AllJobs = Elems(pool) \cup Started
           /\ AllJobs \subseteq CompileJobs /\ AllJobs' \subseteq CompileJobs
<1>1. JobsAsSets /\ JobsAsSets' BY JobsAreSets, PTL
<1>2. QED BY <1>1 DEF JobsAsSets, AllJobs

LEMMA StartKeepsJobs ==
    ASSUME DocumentsTypeOK, DocumentsTypeOK', NEW w \in Workers, StartJob(w)
    PROVE  AllJobs' = AllJobs
<1>1. JobsAsSets /\ JobsAsSets' BY JobsAreSets, PTL
<1>2. /\ running' = [running EXCEPT ![w] = Head(pool)] /\ running[w] = Idle
      /\ Elems(pool) = {Head(pool)} \cup Elems(pool')
      /\ Head(pool) \in CompileJobs /\ running \in [Workers -> {Idle} \cup CompileJobs]
  BY StartJobEffect DEF StartJob, DocumentsTypeOK
<1>3. Head(pool) # Idle BY <1>2 DEF CompileJobs, Idle
<1>4. Started' = Started \cup {Head(pool)}
  <2>1. running'[w] = Head(pool) /\ \A u \in Workers \ {w} : running'[u] = running[u]
    BY <1>2
  <2>2. QED BY <1>1, <1>2, <1>3, <2>1 DEF JobsAsSets
<1>5. QED BY <1>1, <1>2, <1>4 DEF JobsAsSets, AllJobs

\* A step of a worker changes its own job only, and not what it is about.
LEMMA WorkerChangesOwnJob ==
    ASSUME DocumentsTypeOK, DocumentsTypeOK', NEW w \in Workers, CompileStep(w)
    PROVE  /\ WorkerEffect(w) /\ running[w] \in AllJobs /\ running[w] \in CompileJobs
           /\ \A job \in AllJobs : job \in AllJobs' \/ job = running[w]
           /\ \A job \in AllJobs' : job \in AllJobs \/ job = running'[w]
           /\ running'[w] = Idle \/ (running'[w] \in AllJobs' /\ SameWork(running[w], running'[w]))
<1>1. JobsAsSets /\ JobsAsSets' BY JobsAreSets, PTL
<1>2. WorkerEffect(w) BY CompileStepEffect
<1>3. running[w] \in CompileJobs /\ running[w] # Idle
  BY JobAtStep DEF CompileStep, ReadOldDiags, MarkCompiling, Compile, CompilePanics,
     PublishDiagnostics, Install, InsertTemporary
<1>4. pool' = pool /\ \A u \in Workers \ {w} : running'[u] = running[u]
  BY <1>2 DEF WorkerEffect
<1>5. running'[w] = Idle \/ SameWork(running[w], running'[w])
  BY <1>2 DEF WorkerEffect
<1>6. SameWork(running[w], running'[w]) => running'[w] # Idle
  BY DEF SameWork, CompileJobs, Idle
<1>7. QED BY <1>1, <1>2, <1>3, <1>4, <1>5, <1>6 DEF JobsAsSets, AllJobs

LEMMA EntriesDiffer ==
    \A w : Temporary(w) # NoEntry /\ Temporary(w) # InCompiling
  BY DEF Temporary, NoEntry, InCompiling

-----------------------------------------------------------------------------
\* A message or a task makes the main thread process a created file f ...
CreateStep(f) ==
    \/ DidOpen(f)
    \/ /\ Creates(f) /\ ProcessCreate(f, Tail(tasks), opened, recorded)
       /\ UNCHANGED <<running, textVars, workspaces, shown>>

\* ... or a modified one.
ModifyStep(f) ==
    \/ DidChange(f)
    \/ /\ Receive(ChangedFile(f, "modify")) /\ ProcessModify(f, Tail(tasks))
       /\ UNCHANGED <<running, textVars, recorded, temporary, workspaces, shown>>

LEMMA StepCases ==
    ASSUME [DocumentsNext]_documentsAll
    PROVE  \/ \E f \in Files : \/ CreateStep(f) \/ ModifyStep(f) \/ DidClose(f)
                               \/ FinishClose(f) \/ HandleNotify(f)
           \/ \E w \in Workers : \/ StartJob(w) /\ UNCHANGED documentVars
                                 \/ CompileStep(w)
           \/ Exit /\ UNCHANGED documentVars
           \/ UNCHANGED documentsAll
  BY DEF DocumentsNext, ClientStep, DocumentStep, HandleChangedFile, HandleReOpenFile,
         CreateStep, ModifyStep, Creates

\* There is a task about f.
TaskAbout(f) == \E t \in Elems(tasks) : t.kind \in {"changed", "reopen"} /\ t.file = f

Created(f) ==
    /\ main = "listening"
    /\ opened' = opened \/ opened' = opened \cup {f}
    /\ f \in opened' \/ TaskAbout(f)
    /\ UNCHANGED <<running, workspaces, shown, closing, disk>>
    /\ Elems(tasks') \subseteq Elems(tasks) \cup {ChangedFile(f, "create")}
    /\ Elems(pool) \subseteq Elems(pool')
    /\ \A job \in Elems(pool') \ Elems(pool) :
          /\ job.ws \in Lookup[f] \cap configured' /\ job.files = {f}
          /\ job.step = "diags" /\ job.temp /\ job.ok /\ job.db = NoDb
    /\ configured \subseteq configured'
    /\ \A g \in Files : recorded'[g] \subseteq recorded[g] \cup Containing(f)
    /\ \A g \in Files \ {f} : temporary'[g] = temporary[g]
    /\ \/ temporary'[f] \in {temporary[f], NoEntry}
       \/ /\ temporary'[f] = InCompiling /\ Lookup[f] # {}
          /\ \A w \in Lookup[f] : CompileJob(w, {f}, TRUE) \in Elems(pool')
    /\ main' = main \/ (main' = "panicked" /\ f \notin opened')

LEMMA CreateStepEffect ==
    ASSUME DocumentsTypeOK, NEW f \in Files, CreateStep(f)
    PROVE  Created(f)
<1>0. ASSUME NEW open, NEW rec, CreateEffect(f, tasks, open, rec),
             NEW job \in Elems(pool') \ Elems(pool)
      PROVE  /\ job.ws \in Lookup[f] \cap configured' /\ job.files = {f}
             /\ job.step = "diags" /\ job.temp /\ job.ok /\ job.db = NoDb
  <2>1. PICK w \in Lookup[f] \cap configured' : job = CompileJob(w, {f}, TRUE)
    BY <1>0 DEF CreateEffect
  <2>2. QED BY <2>1 DEF CompileJob
<1>1. CASE DidOpen(f)
  <2>1. CreateEffect(f, tasks, opened \cup {f}, [recorded EXCEPT ![f] = {}])
    BY <1>1, DidOpenEffect
  <2>2. \A g \in Files : [recorded EXCEPT ![f] = {}][g] \subseteq recorded[g]
    BY DEF DocumentsTypeOK
  <2>3. QED
    BY <1>1, <2>1, <2>2, <1>0
       DEF DidOpen, CreateEffect, Created, ClientActs, Listening
<1>2. CASE /\ Creates(f) /\ ProcessCreate(f, Tail(tasks), opened, recorded)
           /\ UNCHANGED <<running, textVars, workspaces, shown>>
  <2>1. CreateEffect(f, tasks, opened, recorded) /\ main = "listening" /\ TaskAbout(f)
    BY <1>2, CreateTaskEffect DEF TaskAbout
  <2>2. QED BY <1>0, <1>2, <2>1 DEF CreateEffect, Created, textVars
<1>3. QED BY <1>1, <1>2 DEF CreateStep

Modified(f) ==
    /\ main = "listening"
    /\ f \in opened \/ TaskAbout(f)
    /\ UNCHANGED <<running, workspaces, shown, closing, disk, opened, recorded,
                   temporary>>
    /\ Elems(tasks') \subseteq
          Elems(tasks) \cup {ChangedFile(f, "modify"), ReOpenFile(f)}
    /\ ModifyTargets(f) # {} => Elems(tasks') \subseteq Elems(tasks)
    /\ Elems(pool) \subseteq Elems(pool')
    /\ \A job \in Elems(pool') \ Elems(pool) :
          /\ job.ws \in ModifyTargets(f) \cap configured' /\ job.files = {f}
          /\ job.step = "diags" /\ job.ok /\ job.db = NoDb
          /\ job.temp => temporary[f] = Temporary(job.ws)
    /\ main' # "panicked" =>
          \A w \in ModifyTargets(f) : \E job \in Elems(pool') : job.ws = w
    /\ configured \subseteq configured'
    /\ \/ main' = main
       \/ /\ main' = "panicked"
          /\ f \notin opened \/ ~(ModifyTargets(f) \subseteq configured)

LEMMA ModifyStepEffect ==
    ASSUME DocumentsTypeOK, NEW f \in Files, ModifyStep(f)
    PROVE  Modified(f)
<1>1. ModifyEffect(f, tasks) /\ (f \in opened \/ TaskAbout(f))
  BY ModifyTaskEffect DEF ModifyStep, TaskAbout
<1>2. main = "listening"
  BY DEF ModifyStep, DidChange, ClientEdits, ClientActs, Receive, Listening
<1>3. UNCHANGED <<running, workspaces, shown, closing, disk, opened, recorded,
                  temporary>>
  BY DEF ModifyStep, DidChange, textVars
<1>4. QED BY <1>1, <1>2, <1>3 DEF ModifyEffect, Modified

-----------------------------------------------------------------------------
LEMMA OptionsKeptStep ==
    ASSUME DocumentsTypeOK, DocumentsTypeOK', OptionsKept,
           [DocumentsNext]_documentsAll
    PROVE  OptionsKept'
<1> USE DEF OptionsKept
<1>a. \A f \in Files : Containing(f) \subseteq configured
  BY DEF Containing
<1>1. ASSUME NEW f \in Files, CreateStep(f) PROVE OptionsKept'
  <2>1. Created(f) BY <1>1, CreateStepEffect
  <2>2. AllJobs' = Elems(pool') \cup Started /\ AllJobs = Elems(pool) \cup Started
    BY <2>1, MainKeepsJobs DEF Created
  <2>3. \A job \in AllJobs' : job.ws \in configured'
    BY <2>1, <2>2 DEF Created
  <2>4. \A g \in Files : recorded'[g] \subseteq configured'
    BY <1>a, <2>1 DEF Created
  <2>5. \A g \in Files, w \in WorkSpaces : temporary'[g] = Temporary(w) => w \in configured'
    BY <2>1, EntriesDiffer DEF Created
  <2>6. QED BY <2>1, <2>3, <2>4, <2>5 DEF Created
<1>2. ASSUME NEW f \in Files, ModifyStep(f) PROVE OptionsKept'
  <2>1. Modified(f) BY <1>2, ModifyStepEffect
  <2>2. AllJobs' = Elems(pool') \cup Started /\ AllJobs = Elems(pool) \cup Started
    BY <2>1, MainKeepsJobs DEF Modified
  <2>3. \A job \in AllJobs' : job.ws \in configured'
    BY <2>1, <2>2 DEF Modified
  <2>4. QED BY <2>1, <2>3 DEF Modified
<1>3. ASSUME NEW f \in Files, DidClose(f) PROVE OptionsKept'
  <2>1. AllJobs' = AllJobs BY <1>3 DEF DidClose, AllJobs, Queued, Started
  <2>2. \A g \in Files : recorded'[g] \subseteq recorded[g]
    BY <1>3 DEF DidClose, DocumentsTypeOK
  <2>3. QED BY <1>3, <2>1, <2>2 DEF DidClose
<1>4. ASSUME NEW f \in Files, FinishClose(f) PROVE OptionsKept'
  <2>1. AllJobs' = AllJobs BY <1>4 DEF FinishClose, AllJobs, Queued, Started
  <2>2. \A w \in WorkSpaces : workspaces'[w] = workspaces[w] \/ workspaces'[w] = Absent
    BY <1>4 DEF FinishClose, ProcessDelete
  <2>3. \A g \in Files : temporary'[g] = temporary[g] \/ temporary'[g] = NoEntry
    BY <1>4 DEF FinishClose, ProcessDelete, DocumentsTypeOK
  <2>4. QED
    BY <1>4, <2>1, <2>2, <2>3 DEF FinishClose, Absent, NoEntry, Temporary
<1>5. ASSUME NEW f \in Files, HandleNotify(f) PROVE OptionsKept'
  BY <1>5 DEF HandleNotify, AllJobs, Queued, Started
<1>6. ASSUME NEW w \in Workers, StartJob(w), UNCHANGED documentVars
      PROVE  OptionsKept'
  <2>1. AllJobs' = AllJobs BY <1>6, StartKeepsJobs
  <2>2. QED BY <1>6, <2>1 DEF documentVars
<1>7. ASSUME NEW w \in Workers, CompileStep(w) PROVE OptionsKept'
  <2>1. /\ WorkerEffect(w) /\ running[w] \in AllJobs /\ running[w] \in CompileJobs
        /\ \A job \in AllJobs' : job \in AllJobs \/ job = running'[w]
        /\ running'[w] = Idle \/ SameWork(running[w], running'[w])
    BY <1>7, WorkerChangesOwnJob
  <2>2. configured' = configured /\ recorded' = recorded
    BY <2>1 DEF WorkerEffect
  <2>3. \A job \in AllJobs' : job.ws \in configured'
    <3>1. JobsAsSets' BY JobsAreSets, PTL
    <3>2. Idle \notin AllJobs'
      BY <3>1 DEF JobsAsSets, CompileJobs, Idle
    <3>3. QED BY <2>1, <2>2, <3>2 DEF SameWork
  <2>4. \A x \in WorkSpaces : workspaces'[x] = workspaces[x] \/ x = running[w].ws
    BY <1>7 DEF CompileStep, ReadOldDiags, MarkCompiling, Compile, CompilePanics,
       PublishDiagnostics, Install, InsertTemporary, documentVars, DocumentsTypeOK
  <2>5. \A g \in Files : \/ temporary'[g] = temporary[g] \/ temporary'[g] = NoEntry
                         \/ temporary'[g] = Temporary(running[w].ws)
    BY <1>7 DEF CompileStep, ReadOldDiags, MarkCompiling, Compile, CompilePanics,
       PublishDiagnostics, Install, InsertTemporary, documentVars, EntryRemoved,
       EntryInserted
  <2>6. \A g \in Files, x \in WorkSpaces : temporary'[g] = Temporary(x) => x \in configured
    BY <2>1, <2>5 DEF NoEntry, Temporary
  <2>7. QED BY <2>1, <2>2, <2>3, <2>4, <2>6
<1>8. CASE Exit /\ UNCHANGED documentVars
  BY <1>8 DEF Exit, documentVars, AllJobs, Queued, Started
<1>9. CASE UNCHANGED documentsAll
  BY <1>9 DEF documentsAll, runtimeVars, documentVars, AllJobs, Queued, Started
<1>10. QED
  BY <1>1, <1>2, <1>3, <1>4, <1>5, <1>6, <1>7, <1>8, <1>9, StepCases

LEMMA TemporaryFoundStep ==
    ASSUME DocumentsTypeOK, DocumentsTypeOK', TemporaryFound,
           [DocumentsNext]_documentsAll
    PROVE  TemporaryFound'
<1> USE DEF TemporaryFound
<1>1. ASSUME NEW f \in Files, CreateStep(f) PROVE TemporaryFound'
  <2>1. Created(f) BY <1>1, CreateStepEffect
  <2>2. AllJobs' = Elems(pool') \cup Started /\ AllJobs = Elems(pool) \cup Started
    BY <2>1, MainKeepsJobs DEF Created
  <2>3. \A job \in AllJobs' :
            /\ job.temp => \A g \in job.files : job.ws \in Lookup[g]
            /\ job.step = "insert" => job.temp
    BY <2>1, <2>2 DEF Created
  <2>4. \A g \in Files, w \in WorkSpaces : temporary'[g] = Temporary(w) => w \in Lookup[g]
    BY <2>1, EntriesDiffer DEF Created
  <2>5. QED BY <2>3, <2>4
<1>2. ASSUME NEW f \in Files, ModifyStep(f) PROVE TemporaryFound'
  <2>1. Modified(f) BY <1>2, ModifyStepEffect
  <2>2. /\ AllJobs' = Elems(pool') \cup Started /\ AllJobs = Elems(pool) \cup Started
        /\ AllJobs' \subseteq CompileJobs
    BY <2>1, MainKeepsJobs DEF Modified
  <2>3. ASSUME NEW job \in Elems(pool') \ Elems(pool)
        PROVE  /\ job.temp => \A g \in job.files : job.ws \in Lookup[g]
               /\ job.step = "insert" => job.temp
    <3>1. job.ws \in WorkSpaces BY <2>2 DEF CompileJobs
    <3>2. QED BY <2>1, <3>1 DEF Modified
  <2>4. QED BY <2>1, <2>2, <2>3 DEF Modified
<1>3. ASSUME NEW f \in Files, DidClose(f) PROVE TemporaryFound'
  BY <1>3 DEF DidClose, AllJobs, Queued, Started
<1>4. ASSUME NEW f \in Files, FinishClose(f) PROVE TemporaryFound'
  <2>1. AllJobs' = AllJobs BY <1>4 DEF FinishClose, AllJobs, Queued, Started
  <2>2. \A g \in Files : temporary'[g] = temporary[g] \/ temporary'[g] = NoEntry
    BY <1>4 DEF FinishClose, ProcessDelete, DocumentsTypeOK
  <2>3. QED BY <2>1, <2>2 DEF NoEntry, Temporary
<1>5. ASSUME NEW f \in Files, HandleNotify(f) PROVE TemporaryFound'
  BY <1>5 DEF HandleNotify, AllJobs, Queued, Started
<1>6. ASSUME NEW w \in Workers, StartJob(w), UNCHANGED documentVars
      PROVE  TemporaryFound'
  <2>1. AllJobs' = AllJobs BY <1>6, StartKeepsJobs
  <2>2. QED BY <1>6, <2>1 DEF documentVars
<1>7. ASSUME NEW w \in Workers, CompileStep(w) PROVE TemporaryFound'
  <2>1. /\ WorkerEffect(w) /\ running[w] \in AllJobs /\ running[w] \in CompileJobs
        /\ \A job \in AllJobs' : job \in AllJobs \/ job = running'[w]
        /\ running'[w] = Idle \/ SameWork(running[w], running'[w])
    BY <1>7, WorkerChangesOwnJob
  <2>2. running'[w] # Idle /\ running'[w].step = "insert" => running[w].temp
    <3>1. CASE ReadOldDiags(w)
      BY <3>1, <2>1 DEF ReadOldDiags, DocumentsTypeOK, CompileJobs
    <3>2. CASE MarkCompiling(w)
      BY <3>2, <2>1 DEF MarkCompiling, DocumentsTypeOK, CompileJobs
    <3>3. CASE Compile(w)
      BY <3>3, <2>1 DEF Compile, DocumentsTypeOK, CompileJobs
    <3>4. CASE PublishDiagnostics(w)
      BY <3>4, <2>1 DEF PublishDiagnostics, DocumentsTypeOK, CompileJobs
    <3>5. CASE Install(w)
      BY <3>5, <2>1 DEF Install, EndJob, DocumentsTypeOK, CompileJobs
    <3>6. CASE CompilePanics(w) \/ InsertTemporary(w)
      BY <3>6 DEF CompilePanics, InsertTemporary, EndJob, DocumentsTypeOK
    <3>7. QED BY <1>7, <3>1, <3>2, <3>3, <3>4, <3>5, <3>6 DEF CompileStep
  <2>3. \A job \in AllJobs' :
            /\ job.temp => \A f \in job.files : job.ws \in Lookup[f]
            /\ job.step = "insert" => job.temp
    <3>1. JobsAsSets' BY JobsAreSets, PTL
    <3>2. Idle \notin AllJobs'
      BY <3>1 DEF JobsAsSets, CompileJobs, Idle
    <3>3. QED BY <2>1, <2>2, <3>2 DEF SameWork
  <2>4. \A g \in Files : \/ temporary'[g] = temporary[g] \/ temporary'[g] = NoEntry
                         \/ /\ temporary'[g] = Temporary(running[w].ws)
                            /\ g \in running[w].files /\ running[w].step = "insert"
    BY <1>7 DEF CompileStep, ReadOldDiags, MarkCompiling, Compile, CompilePanics,
       PublishDiagnostics, Install, InsertTemporary, documentVars, EntryRemoved,
       EntryInserted, AtStep
  <2>5. \A g \in Files, x \in WorkSpaces : temporary'[g] = Temporary(x) => x \in Lookup[g]
    BY <2>1, <2>4 DEF NoEntry, Temporary
  <2>6. QED BY <2>3, <2>5
<1>8. CASE Exit /\ UNCHANGED documentVars
  BY <1>8 DEF Exit, documentVars, AllJobs, Queued, Started
<1>9. CASE UNCHANGED documentsAll
  BY <1>9 DEF documentsAll, runtimeVars, documentVars, AllJobs, Queued, Started
<1>10. QED
  BY <1>1, <1>2, <1>3, <1>4, <1>5, <1>6, <1>7, <1>8, <1>9, StepCases

-----------------------------------------------------------------------------
LEMMA OptionsKeptStart == DocumentsStart => OptionsKept
<1> SUFFICES ASSUME DocumentsStart PROVE OptionsKept
  OBVIOUS
<1>1. DocumentsTypeOK BY DocumentsTypeStart
<1>2. JobsAsSets BY <1>1, JobsAreSets
<1>3. Elems(pool) = {CompileJob(w, {}, FALSE) : w \in InitWorkSpaces}
  BY PoolStart DEF DocumentsStart
<1>4. Started = {} BY <1>2 DEF JobsAsSets, DocumentsStart, RuntimeInit
<1>5. ASSUME NEW job \in AllJobs PROVE job.ws \in configured
  <2>1. PICK w \in InitWorkSpaces : job = CompileJob(w, {}, FALSE)
    BY <1>2, <1>3, <1>4 DEF JobsAsSets, AllJobs
  <2>2. job.ws = w BY <2>1 DEF CompileJob
  <2>3. QED BY <2>2 DEF DocumentsStart, DocumentsInit
<1>6. QED
  BY <1>5, EntriesDiffer DEF OptionsKept, DocumentsStart, DocumentsInit, Absent

LEMMA TemporaryFoundStart == DocumentsStart => TemporaryFound
<1> SUFFICES ASSUME DocumentsStart PROVE TemporaryFound
  OBVIOUS
<1>1. DocumentsTypeOK BY DocumentsTypeStart
<1>2. JobsAsSets BY <1>1, JobsAreSets
<1>3. Elems(pool) = {CompileJob(w, {}, FALSE) : w \in InitWorkSpaces}
  BY PoolStart DEF DocumentsStart
<1>4. Started = {} BY <1>2 DEF JobsAsSets, DocumentsStart, RuntimeInit
<1>5. ASSUME NEW job \in AllJobs PROVE ~job.temp /\ job.step # "insert"
  <2>1. PICK w \in InitWorkSpaces : job = CompileJob(w, {}, FALSE)
    BY <1>2, <1>3, <1>4 DEF JobsAsSets, AllJobs
  <2>2. QED BY <2>1 DEF CompileJob
<1>6. QED
  BY <1>5, EntriesDiffer DEF TemporaryFound, DocumentsStart, DocumentsInit

\* Worker u will install a result for workspace x.
Compiles(u, x) ==
    /\ running[u] # Idle /\ running[u].ws = x
    /\ running[u].step \in {"load", "publish", "install"}

MarkedAreCompiled ==
    Alive => \A x \in InProgress \ MayPanic : \E u \in Workers : Compiles(u, x)

LEMMA MarkedMeansCompiled == DocumentsTypeOK => (MarkedInFlight <=> MarkedAreCompiled)
  BY JobsAreSets DEF JobsAsSets, MarkedInFlight, MarkedAreCompiled, Compiles

LEMMA MarkedInFlightStep ==
    ASSUME DocumentsTypeOK, DocumentsTypeOK', MarkedInFlight,
           [DocumentsNext]_documentsAll
    PROVE  MarkedInFlight'
<1>1. MarkedAreCompiled' => MarkedInFlight' BY MarkedMeansCompiled, PTL
<1> SUFFICES ASSUME Alive', NEW x \in InProgress' \ MayPanic
             PROVE  \E u \in Workers : Compiles(u, x)'
  BY <1>1 DEF MarkedAreCompiled
<1>2. /\ x \in WorkSpaces \ MayPanic
      /\ workspaces'[x].state \in {"init", "compiling"}
  BY DEF InProgress
<1>3. ASSUME Alive, x \in InProgress PROVE \E u \in Workers : Compiles(u, x)
  BY <1>2, <1>3, MarkedMeansCompiled DEF MarkedAreCompiled
<1>4. ASSUME UNCHANGED <<running, workspaces>>, Alive
      PROVE  \E u \in Workers : Compiles(u, x)'
  BY <1>2, <1>3, <1>4 DEF InProgress, Compiles
<1>5. ASSUME NEW f \in Files, CreateStep(f) PROVE \E u \in Workers : Compiles(u, x)'
  BY <1>4, <1>5, CreateStepEffect DEF Created, Alive
<1>6. ASSUME NEW f \in Files, ModifyStep(f) PROVE \E u \in Workers : Compiles(u, x)'
  BY <1>4, <1>6, ModifyStepEffect DEF Modified, Alive
<1>7. ASSUME NEW f \in Files, DidClose(f) PROVE \E u \in Workers : Compiles(u, x)'
  BY <1>4, <1>7 DEF DidClose, ClientActs, Listening, Alive
<1>8. ASSUME NEW f \in Files, FinishClose(f) PROVE \E u \in Workers : Compiles(u, x)'
  <2>1. x \in InProgress /\ running' = running /\ Alive
    BY <1>2, <1>8 DEF FinishClose, ProcessDelete, Absent, InProgress, Alive
  <2>2. QED BY <1>3, <2>1 DEF Compiles
<1>9. ASSUME NEW f \in Files, HandleNotify(f) PROVE \E u \in Workers : Compiles(u, x)'
  BY <1>4, <1>9 DEF HandleNotify, Receive, Listening, Alive
<1>10. ASSUME NEW w \in Workers, StartJob(w), UNCHANGED documentVars
       PROVE  \E u \in Workers : Compiles(u, x)'
  <2>1. PICK u \in Workers : Compiles(u, x)
    BY <1>2, <1>3, <1>10 DEF StartJob, documentVars, InProgress
  <2>2. u # w BY <1>10, <2>1 DEF StartJob, Compiles
  <2>3. running'[u] = running[u] BY <1>10, <2>2 DEF StartJob, DocumentsTypeOK
  <2>4. QED BY <2>1, <2>3 DEF Compiles
<1>11. ASSUME NEW w \in Workers, CompileStep(w)
       PROVE  \E u \in Workers : Compiles(u, x)'
  <2>1. /\ WorkerEffect(w) /\ running[w] \in CompileJobs
        /\ running'[w] = Idle \/ SameWork(running[w], running'[w])
    BY <1>11, WorkerChangesOwnJob
  <2>2. Alive
    BY <1>11 DEF CompileStep, ReadOldDiags, MarkCompiling, Compile, CompilePanics,
       PublishDiagnostics, Install, InsertTemporary, AtStep
  <2>3. ASSUME NEW u \in Workers \ {w}, Compiles(u, x) PROVE Compiles(u, x)'
    BY <2>1, <2>3 DEF WorkerEffect, Compiles
  <2>4. \A job \in CompileJobs : job # Idle BY DEF CompileJobs, Idle
  <2>5. CASE ReadOldDiags(w)
    <3>1. x \in InProgress BY <1>2, <2>5 DEF ReadOldDiags, documentVars, InProgress
    <3>2. ~Compiles(w, x) BY <2>5 DEF ReadOldDiags, AtStep, Compiles
    <3>3. QED BY <1>3, <2>2, <2>3, <3>1, <3>2
  <2>6. CASE MarkCompiling(w)
    <3>1. CASE running[w].ws = x
      <4>1. running'[w] = [running[w] EXCEPT !.step = "load"]
        BY <2>6 DEF MarkCompiling, DocumentsTypeOK
      <4>2. running'[w].ws = x /\ running'[w].step = "load" /\ running'[w] # Idle
        BY <2>1, <3>1, <4>1 DEF CompileJobs, Idle
      <4>3. QED BY <4>2 DEF Compiles
    <3>2. CASE running[w].ws # x
      <4>1. x \in InProgress
        BY <1>2, <2>6, <3>2 DEF MarkCompiling, InProgress, DocumentsTypeOK
      <4>2. QED BY <1>3, <2>2, <2>3, <3>2, <4>1 DEF Compiles
    <3>3. QED BY <3>1, <3>2
  <2>7. CASE Compile(w)
    <3>1. x \in InProgress BY <1>2, <2>7 DEF Compile, documentVars, InProgress
    <3>2. running'[w].ws = running[w].ws /\ running'[w].step = "publish"
          /\ running'[w] # Idle
      <4>1. PICK ok, db : running' = [running EXCEPT ![w].step = "publish",
                                                     ![w].ok = ok, ![w].db = db]
        BY <2>7 DEF Compile
      <4>2. running'[w] = [running[w] EXCEPT !.step = "publish", !.ok = ok, !.db = db]
        BY <4>1 DEF DocumentsTypeOK
      <4>3. running'[w].ws = running[w].ws /\ running'[w].step = "publish"
        BY <2>1, <4>2 DEF CompileJobs
      <4>4. running'[w].kind = "compile" BY <2>1, <4>2 DEF CompileJobs
      <4>5. QED BY <4>3, <4>4 DEF Idle
    <3>3. Compiles(w, x) => Compiles(w, x)' BY <3>2 DEF Compiles
    <3>4. QED BY <1>3, <2>2, <2>3, <3>1, <3>3
  <2>8. CASE CompilePanics(w)
    <3>1. x \in InProgress BY <1>2, <2>8 DEF CompilePanics, documentVars, InProgress
    <3>2. ~Compiles(w, x) BY <1>2, <2>8 DEF CompilePanics, Compiles
    <3>3. QED BY <1>3, <2>2, <2>3, <3>1, <3>2
  <2>9. CASE PublishDiagnostics(w)
    <3>1. x \in InProgress
      BY <1>2, <2>9 DEF PublishDiagnostics, documentVars, InProgress
    <3>2. running'[w].ws = running[w].ws /\ running'[w].step = "install"
          /\ running'[w] # Idle
      BY <2>1, <2>9 DEF PublishDiagnostics, DocumentsTypeOK, CompileJobs, Idle
    <3>3. Compiles(w, x) => Compiles(w, x)' BY <3>2 DEF Compiles
    <3>4. QED BY <1>3, <2>2, <2>3, <3>1, <3>3
  <2>10. CASE Install(w)
    <3>1. running[w].ws # x
      BY <1>2, <2>10 DEF Install, Result, Ready, Failed, DocumentsTypeOK
    <3>2. x \in InProgress
      BY <1>2, <2>10, <3>1 DEF Install, InProgress, DocumentsTypeOK
    <3>3. QED BY <1>3, <2>2, <2>3, <3>1, <3>2 DEF Compiles
  <2>11. CASE InsertTemporary(w)
    <3>1. x \in InProgress BY <1>2, <2>11 DEF InsertTemporary, InProgress
    <3>2. ~Compiles(w, x) BY <2>11 DEF InsertTemporary, AtStep, Compiles
    <3>3. QED BY <1>3, <2>2, <2>3, <3>1, <3>2
  <2>12. QED
    BY <1>11, <2>5, <2>6, <2>7, <2>8, <2>9, <2>10, <2>11 DEF CompileStep
<1>12. CASE Exit /\ UNCHANGED documentVars
  BY <1>12 DEF Exit, Alive
<1>13. CASE UNCHANGED documentsAll
  BY <1>4, <1>13 DEF documentsAll, runtimeVars, documentVars, Alive
<1>14. QED
  BY <1>5, <1>6, <1>7, <1>8, <1>9, <1>10, <1>11, <1>12, <1>13, StepCases

LEMMA TemporaryInFlightStep ==
    ASSUME DocumentsTypeOK, DocumentsTypeOK', TemporaryFound, TemporaryInFlight,
           [DocumentsNext]_documentsAll
    PROVE  TemporaryInFlight'
<1> SUFFICES ASSUME NEW g \in Files, Alive', temporary'[g] = InCompiling,
                    Lookup[g] \cap MayPanic = {}
             PROVE  \E job \in AllJobs' : job.temp /\ g \in job.files
  BY DEF TemporaryInFlight, AllJobs
<1>1. ASSUME Alive, temporary[g] = InCompiling
      PROVE  \E job \in AllJobs : job.temp /\ g \in job.files
  BY <1>1 DEF TemporaryInFlight, AllJobs
<1>2. ASSUME Alive, temporary' = temporary, AllJobs \subseteq AllJobs'
      PROVE  \E job \in AllJobs' : job.temp /\ g \in job.files
  BY <1>1, <1>2
<1>3. ASSUME NEW f \in Files, CreateStep(f)
      PROVE  \E job \in AllJobs' : job.temp /\ g \in job.files
  <2>1. Created(f) BY <1>3, CreateStepEffect
  <2>2. AllJobs' = Elems(pool') \cup Started /\ AllJobs = Elems(pool) \cup Started
    BY <2>1, MainKeepsJobs DEF Created
  <2>3. Alive BY <2>1 DEF Created, Alive
  <2>4. CASE temporary[g] = InCompiling
    BY <1>1, <2>1, <2>2, <2>3, <2>4 DEF Created
  <2>5. CASE temporary[g] # InCompiling
    <3>1. InCompiling # NoEntry BY DEF InCompiling, NoEntry
    <3>2. /\ g = f /\ Lookup[f] # {}
          /\ \A w \in Lookup[f] : CompileJob(w, {f}, TRUE) \in Elems(pool')
      BY <2>1, <2>5, <3>1 DEF Created
    <3>3. PICK w \in Lookup[f] : CompileJob(w, {f}, TRUE) \in AllJobs'
      BY <2>2, <3>2
    <3>4. CompileJob(w, {f}, TRUE).temp /\ f \in CompileJob(w, {f}, TRUE).files
      BY DEF CompileJob
    <3>5. QED BY <3>2, <3>3, <3>4
  <2>6. QED BY <2>4, <2>5
<1>4. ASSUME NEW f \in Files, ModifyStep(f)
      PROVE  \E job \in AllJobs' : job.temp /\ g \in job.files
  <2>1. Modified(f) BY <1>4, ModifyStepEffect
  <2>2. AllJobs' = Elems(pool') \cup Started /\ AllJobs = Elems(pool) \cup Started
    BY <2>1, MainKeepsJobs DEF Modified
  <2>3. QED BY <1>2, <2>1, <2>2 DEF Modified, Alive
<1>5. ASSUME NEW f \in Files, DidClose(f)
      PROVE  \E job \in AllJobs' : job.temp /\ g \in job.files
  BY <1>2, <1>5 DEF DidClose, AllJobs, Queued, Started, ClientActs, Listening, Alive
<1>6. ASSUME NEW f \in Files, FinishClose(f)
      PROVE  \E job \in AllJobs' : job.temp /\ g \in job.files
  <2>1. AllJobs' = AllJobs BY <1>6 DEF FinishClose, AllJobs, Queued, Started
  <2>2. InCompiling # NoEntry BY DEF InCompiling, NoEntry
  <2>3. temporary[g] = InCompiling
    BY <1>6, <2>2 DEF FinishClose, ProcessDelete, DocumentsTypeOK
  <2>4. Alive BY <1>6 DEF FinishClose, Alive
  <2>5. QED BY <1>1, <2>1, <2>3, <2>4
<1>7. ASSUME NEW f \in Files, HandleNotify(f)
      PROVE  \E job \in AllJobs' : job.temp /\ g \in job.files
  BY <1>2, <1>7 DEF HandleNotify, AllJobs, Queued, Started, Receive, Listening, Alive
<1>8. ASSUME NEW w \in Workers, StartJob(w), UNCHANGED documentVars
      PROVE  \E job \in AllJobs' : job.temp /\ g \in job.files
  <2>1. AllJobs' = AllJobs BY <1>8, StartKeepsJobs
  <2>2. QED BY <1>2, <1>8, <2>1 DEF StartJob, documentVars
<1>9. ASSUME NEW w \in Workers, CompileStep(w)
      PROVE  \E job \in AllJobs' : job.temp /\ g \in job.files
  <2>1. /\ WorkerEffect(w) /\ running[w] \in AllJobs /\ running[w] \in CompileJobs
        /\ \A job \in AllJobs : job \in AllJobs' \/ job = running[w]
        /\ \/ running'[w] = Idle
           \/ running'[w] \in AllJobs' /\ SameWork(running[w], running'[w])
    BY <1>9, WorkerChangesOwnJob
  <2>2. Alive
    BY <1>9 DEF CompileStep, ReadOldDiags, MarkCompiling, Compile, CompilePanics,
       PublishDiagnostics, Install, InsertTemporary, AtStep
  <2>3. InCompiling # NoEntry /\ \A x : Temporary(x) # InCompiling
    BY EntriesDiffer DEF InCompiling, NoEntry
  <2>4. temporary[g] = InCompiling
    BY <1>9, <2>3 DEF CompileStep, ReadOldDiags, MarkCompiling, Compile, CompilePanics,
       PublishDiagnostics, Install, InsertTemporary, documentVars, EntryRemoved,
       EntryInserted
  <2>5. PICK job \in AllJobs : job.temp /\ g \in job.files BY <1>1, <2>2, <2>4
  <2>6. CASE job \in AllJobs' BY <2>5, <2>6
  <2>7. CASE job = running[w] /\ SameWork(running[w], running'[w]) /\ running'[w] \in AllJobs'
    BY <2>5, <2>7 DEF SameWork
  <2>8. CASE job = running[w] /\ running'[w] = Idle
    <3>1. \A j \in CompileJobs : j # Idle BY DEF CompileJobs, Idle
    <3>2. CompilePanics(w) \/ Install(w) \/ InsertTemporary(w)
      <4>1. ASSUME ReadOldDiags(w) \/ MarkCompiling(w) \/ Compile(w)
                     \/ PublishDiagnostics(w)
            PROVE  running'[w].kind = "compile"
        <5>1. \A s : [running[w] EXCEPT !.step = s].kind = "compile"
          BY <2>1 DEF CompileJobs
        <5>2. CASE ReadOldDiags(w)
          <6>1. PICK old : running' = [running EXCEPT ![w].step = "mark", ![w].old = old]
            BY <5>2 DEF ReadOldDiags
          <6>2. QED BY <2>1, <6>1 DEF DocumentsTypeOK, CompileJobs
        <5>3. CASE MarkCompiling(w)
          BY <2>1, <5>3 DEF MarkCompiling, DocumentsTypeOK, CompileJobs
        <5>4. CASE Compile(w)
          <6>1. PICK ok, db : running' = [running EXCEPT ![w].step = "publish",
                                                         ![w].ok = ok, ![w].db = db]
            BY <5>4 DEF Compile
          <6>2. running'[w] = [running[w] EXCEPT !.step = "publish", !.ok = ok, !.db = db]
            BY <6>1 DEF DocumentsTypeOK
          <6>3. QED BY <2>1, <6>2 DEF CompileJobs
        <5>5. CASE PublishDiagnostics(w)
          BY <2>1, <5>5 DEF PublishDiagnostics, DocumentsTypeOK, CompileJobs
        <5>6. QED BY <4>1, <5>2, <5>3, <5>4, <5>5
      <4>2. QED BY <1>9, <2>8, <4>1 DEF CompileStep, Idle
    <3>3. CASE CompilePanics(w)
      BY <2>5, <2>8, <3>3 DEF CompilePanics, TemporaryFound
    <3>4. CASE Install(w)
      <4>1. CASE job.ok
        <5>1. running'[w] = [running[w] EXCEPT !.step = "insert"]
          BY <2>5, <2>8, <3>4, <4>1 DEF Install, DocumentsTypeOK
        <5>2. running'[w].kind = "compile" BY <2>1, <5>1 DEF CompileJobs
        <5>3. QED BY <2>8, <5>2 DEF Idle
      <4>2. CASE ~job.ok
        BY <2>3, <2>5, <2>8, <3>4, <4>2 DEF Install, EntryRemoved
      <4>3. QED BY <4>1, <4>2
    <3>5. CASE InsertTemporary(w)
      BY <2>3, <2>5, <2>8, <3>5 DEF InsertTemporary, EntryInserted
    <3>6. QED BY <3>2, <3>3, <3>4, <3>5
  <2>9. QED BY <2>1, <2>6, <2>7, <2>8
<1>10. CASE Exit /\ UNCHANGED documentVars
  BY <1>10 DEF Exit, Alive
<1>11. CASE UNCHANGED documentsAll
  BY <1>2, <1>11
     DEF documentsAll, runtimeVars, documentVars, AllJobs, Queued, Started, Alive
<1>12. QED
  BY <1>3, <1>4, <1>5, <1>6, <1>7, <1>8, <1>9, <1>10, <1>11, StepCases

\* The inductive invariant, whatever the client does.
DocumentsInv ==
    /\ DocumentsTypeOK /\ OptionsKept /\ TemporaryFound
    /\ MarkedInFlight /\ TemporaryInFlight

LEMMA DocumentsInvAlways == DocumentsSpec => []DocumentsInv
<1>1. DocumentsStart => DocumentsInv
  <2> SUFFICES ASSUME DocumentsStart PROVE MarkedInFlight /\ TemporaryInFlight
    BY DocumentsTypeStart, OptionsKeptStart, TemporaryFoundStart DEF DocumentsInv
  <2>1. InProgress = {}
    BY DEF DocumentsStart, DocumentsInit, InProgress, Absent
  <2>2. \A f \in Files : temporary[f] # InCompiling
    BY DEF DocumentsStart, DocumentsInit, NoEntry, InCompiling
  <2>3. QED BY <2>1, <2>2 DEF MarkedInFlight, TemporaryInFlight
<1>2. DocumentsInv /\ [DocumentsNext]_documentsAll => DocumentsInv'
  <2> SUFFICES ASSUME DocumentsInv, [DocumentsNext]_documentsAll
               PROVE  DocumentsInv'
    OBVIOUS
  <2>1. DocumentsTypeOK' BY DocumentsTypeStep DEF DocumentsInv
  <2>2. QED
    BY <2>1, OptionsKeptStep, TemporaryFoundStep, MarkedInFlightStep,
       TemporaryInFlightStep
       DEF DocumentsInv
<1>3. QED BY <1>1, <1>2, PTL DEF DocumentsSpec

\* Nothing is left Compiling or Init for good: whatever the client does, a
\* workspace in that state is being compiled by a job of the pool that will
\* install a result, unless the compiler may panic on it.
THEOREM MarksAreInFlight == DocumentsSpec => []MarkedInFlight
<1>1. DocumentsInv => MarkedInFlight BY DEF DocumentsInv
<1>2. QED BY <1>1, DocumentsInvAlways, PTL

\* A file waiting for its temporary workspace is waited for by a job: the
\* retries of ChangeKind::Modify and of the requests end, whatever the client
\* does, unless the compiler may panic on a workspace of the file.
THEOREM WaitsAreInFlight == DocumentsSpec => []TemporaryInFlight
<1>1. DocumentsInv => TemporaryInFlight BY DEF DocumentsInv
<1>2. QED BY <1>1, DocumentsInvAlways, PTL

-----------------------------------------------------------------------------
\* Whatever ChangeKind::Modify compiles has its options in the cache.
LEMMA TargetsHaveOptions ==
    ASSUME DocumentsTypeOK, OptionsKept, NEW f \in Files
    PROVE  ModifyTargets(f) \subseteq configured
<1>1. \/ temporary[f].entry # "workspace"
      \/ temporary[f].ws \in WorkSpaces /\ temporary[f] = Temporary(temporary[f].ws)
  BY DEF DocumentsTypeOK, TemporaryEntries, NoEntry, InCompiling, Temporary
<1>2. QED BY <1>1 DEF ModifyTargets, OptionsKept

\* A client's notification never makes the main thread panic, and a task of
\* its own only when the file is not open any more.
LEMMA PanicStep ==
    ASSUME DocumentsTypeOK, OptionsKept, [DocumentsNext]_documentsAll,
           Alive, main' = "panicked"
    PROVE  \E f \in Files \ opened : tasks # <<>> /\ Head(tasks) \in ComesBack(f)
<1>1. ASSUME NEW f \in Files, CreateStep(f)
      PROVE  f \notin opened /\ tasks # <<>> /\ Head(tasks) \in ComesBack(f)
  <2>1. main = "listening" /\ f \notin opened'
    BY <1>1, CreateStepEffect DEF Created
  <2>2. ~DidOpen(f) BY <2>1 DEF DidOpen
  <2>3. Creates(f) /\ UNCHANGED textVars BY <1>1, <2>2 DEF CreateStep
  <2>4. QED BY <2>1, <2>3 DEF Creates, Receive, ComesBack, textVars
<1>2. ASSUME NEW f \in Files, ModifyStep(f)
      PROVE  f \notin opened /\ tasks # <<>> /\ Head(tasks) \in ComesBack(f)
  <2>1. main = "listening" /\ f \notin opened
    BY <1>2, ModifyStepEffect, TargetsHaveOptions DEF Modified
  <2>2. ~DidChange(f) BY <2>1 DEF DidChange
  <2>3. Receive(ChangedFile(f, "modify")) BY <1>2, <2>2 DEF ModifyStep
  <2>4. QED BY <2>1, <2>3 DEF Receive, ComesBack
<1>3. ~\E f \in Files : DidClose(f) \/ FinishClose(f) BY DEF DidClose, FinishClose
<1>4. ~\E f \in Files : HandleNotify(f) BY DEF HandleNotify, Alive
<1>5. ~\E w \in Workers : StartJob(w) BY DEF StartJob, Alive
<1>6. ~\E w \in Workers : CompileStep(w) BY CompileStepEffect DEF WorkerEffect, Alive
<1>7. ~Exit BY DEF Exit
<1>8. ~UNCHANGED documentsAll BY DEF documentsAll, runtimeVars, Alive
<1>9. QED BY <1>1, <1>2, <1>3, <1>4, <1>5, <1>6, <1>7, <1>8, StepCases

(***************************************************************************)
(* Whatever the client does and however many workers there are, the main   *)
(* thread hits an unwrap() of process_changed_file only when it comes back *)
(* to a file that was closed while the task waited in the channel. The     *)
(* options of a workspace it compiles are always in                        *)
(* workspace_config_cache (OptionsKept), and no notification of the client *)
(* is answered by a panic.                                                 *)
(***************************************************************************)
THEOREM PanicsOnlyOnClosedFiles == DocumentsSpec => PanicOnlyIfClosed
<1>1. DocumentsInv /\ [DocumentsNext]_documentsAll
      => [Alive /\ main' = "panicked" =>
            \E f \in Files \ opened : tasks # <<>> /\ Head(tasks) \in ComesBack(f)
         ]_documentsAll
  BY PanicStep DEF DocumentsInv
<1>2. QED BY <1>1, DocumentsInvAlways, PTL DEF DocumentsSpec, PanicOnlyIfClosed

-----------------------------------------------------------------------------
(* What a client can rely on once the server has settled. *)

\* didClose takes one file out of opened_files before it takes it out of the
\* Vfs, and nothing else is handled in between.
ClosingApart ==
    /\ main # "closing" => closing = {}
    /\ closing \cap opened = {}
    /\ \A f, g \in closing : f = g

\* A job that is queued has not begun.
QueuedNew == \A job \in Elems(pool) : job.step = "diags"

\* A compilation fails only where it may.
FailsWhereItMay == \A job \in AllJobs : ~job.ok => job.ws \in MayFail

\* The workspaces of opened files have a database.
HasDatabase(w) == workspaces[w].state \in {"ready", "compiling"}

-----------------------------------------------------------------------------
\* What a worker's step does to the shared state.
LEMMA WorkerWrites ==
    ASSUME DocumentsTypeOK, NEW w \in Workers, CompileStep(w)
    PROVE  /\ running[w] \in CompileJobs
           /\ \A x \in WorkSpaces :
                 \/ workspaces'[x] = workspaces[x]
                 \/ /\ x = running[w].ws /\ running[w].step = "mark"
                    /\ workspaces'[x] = IF HasDatabase(x)
                                        THEN Compiling(workspaces[x].db) ELSE Init
                 \/ /\ x = running[w].ws /\ running[w].step = "install"
                    /\ workspaces'[x] = Result(running[w])
           /\ \A g \in Files :
                 \/ temporary'[g] = temporary[g]
                 \/ /\ g \in running[w].files /\ running[w].temp /\ ~running[w].ok
                    /\ temporary'[g] = NoEntry
                 \/ /\ g \in running[w].files /\ running[w].step = "insert"
                    /\ temporary'[g] = Temporary(running[w].ws)
<1>1. running[w] \in CompileJobs
  BY JobAtStep DEF CompileStep, ReadOldDiags, MarkCompiling, Compile, CompilePanics,
     PublishDiagnostics, Install, InsertTemporary
<1>2. CASE ReadOldDiags(w) \/ Compile(w) \/ CompilePanics(w) \/ PublishDiagnostics(w)
  BY <1>1, <1>2 DEF ReadOldDiags, Compile, CompilePanics, PublishDiagnostics,
     documentVars
<1>3. CASE MarkCompiling(w)
  BY <1>1, <1>3 DEF MarkCompiling, AtStep, HasDatabase, DocumentsTypeOK
<1>4. CASE Install(w)
  BY <1>1, <1>4 DEF Install, AtStep, EntryRemoved, DocumentsTypeOK
<1>5. CASE InsertTemporary(w)
  BY <1>1, <1>5 DEF InsertTemporary, AtStep, EntryInserted
<1>6. QED BY <1>2, <1>3, <1>4, <1>5 DEF CompileStep

\* The next local state of the job of w.
LEMMA JobMoves ==
    ASSUME DocumentsTypeOK, NEW w \in Workers, CompileStep(w)
    PROVE  LET job == running[w] next == running'[w] IN
           \/ /\ job.step = "diags"
              /\ next = [job EXCEPT !.step = "mark",
                            !.old = DiagnosedFiles(workspaces[job.ws].db)]
           \/ job.step = "mark" /\ next = [job EXCEPT !.step = "load"]
           \/ /\ job.step = "load"
              /\ \E ok, seen \in BOOLEAN :
                    /\ ok => seen
                    /\ ~ok => job.ws \in MayFail
                    /\ next = [job EXCEPT !.step = "publish", !.ok = ok,
                                          !.db = Program(job.ws, seen)]
           \/ job.step = "load" /\ job.ws \in MayPanic /\ next = Idle
           \/ job.step = "publish" /\ next = [job EXCEPT !.step = "install"]
           \/ /\ job.step = "install" /\ job.ok /\ job.temp
              /\ next = [job EXCEPT !.step = "insert"]
           \/ job.step = "install" /\ ~(job.ok /\ job.temp) /\ next = Idle
           \/ job.step = "insert" /\ next = Idle
<1> USE DEF DocumentsTypeOK, AtStep
<1>1. CASE ReadOldDiags(w) BY <1>1 DEF ReadOldDiags
<1>2. CASE MarkCompiling(w) BY <1>2 DEF MarkCompiling
<1>3. CASE Compile(w)
  <2>1. PICK ok, seen \in BOOLEAN :
          /\ ok => seen
          /\ ok \/ running[w].ws \in MayFail
          /\ running' = [running EXCEPT ![w].step = "publish", ![w].ok = ok,
                                        ![w].db = Program(running[w].ws, seen)]
    BY <1>3 DEF Compile
  <2>2. running'[w] = [running[w] EXCEPT !.step = "publish", !.ok = ok,
                                         !.db = Program(running[w].ws, seen)]
    BY <2>1
  <2>3. running[w].step = "load" BY <1>3 DEF Compile
  <2>4. QED BY <2>1, <2>2, <2>3
<1>4. CASE CompilePanics(w) BY <1>4 DEF CompilePanics, EndJob
<1>5. CASE PublishDiagnostics(w) BY <1>5 DEF PublishDiagnostics
<1>6. CASE Install(w) BY <1>6 DEF Install, EndJob
<1>7. CASE InsertTemporary(w) BY <1>7 DEF InsertTemporary, EndJob
<1>8. QED BY <1>1, <1>2, <1>3, <1>4, <1>5, <1>6, <1>7 DEF CompileStep

-----------------------------------------------------------------------------
LEMMA ClosingStep ==
    ASSUME DocumentsTypeOK, ClosingApart, [DocumentsNext]_documentsAll
    PROVE  ClosingApart'
<1> USE DEF ClosingApart
<1>1. ASSUME NEW f \in Files, CreateStep(f) PROVE ClosingApart'
  <2>1. Created(f) BY <1>1, CreateStepEffect
  <2>2. closing = {} BY <2>1 DEF Created
  <2>3. QED BY <2>1, <2>2 DEF Created
<1>2. ASSUME NEW f \in Files, ModifyStep(f) PROVE ClosingApart'
  <2>1. Modified(f) BY <1>2, ModifyStepEffect
  <2>2. QED BY <2>1 DEF Modified
<1>3. ASSUME NEW f \in Files, DidClose(f) PROVE ClosingApart'
  BY <1>3 DEF DidClose
<1>4. ASSUME NEW f \in Files, FinishClose(f) PROVE ClosingApart'
  BY <1>4 DEF FinishClose
<1>5. ASSUME NEW f \in Files, HandleNotify(f) PROVE ClosingApart'
  BY <1>5 DEF HandleNotify, textVars
<1>6. ASSUME NEW w \in Workers, StartJob(w), UNCHANGED documentVars
      PROVE  ClosingApart'
  BY <1>6 DEF StartJob, documentVars, textVars
<1>7. ASSUME NEW w \in Workers, CompileStep(w) PROVE ClosingApart'
  BY <1>7, CompileStepEffect DEF WorkerEffect, textVars
<1>8. CASE Exit /\ UNCHANGED documentVars
  BY <1>8 DEF Exit, Listening, documentVars, textVars
<1>9. CASE UNCHANGED documentsAll
  BY <1>9 DEF documentsAll, runtimeVars, documentVars, textVars
<1>10. QED
  BY <1>1, <1>2, <1>3, <1>4, <1>5, <1>6, <1>7, <1>8, <1>9, StepCases

LEMMA QueuedNewStep ==
    ASSUME DocumentsTypeOK, QueuedNew, [DocumentsNext]_documentsAll
    PROVE  QueuedNew'
<1> USE DEF QueuedNew
<1>1. CASE UNCHANGED pool BY <1>1
<1>2. ASSUME NEW f \in Files, CreateStep(f) PROVE QueuedNew'
  BY <1>2, CreateStepEffect DEF Created
<1>3. ASSUME NEW f \in Files, ModifyStep(f) PROVE QueuedNew'
  BY <1>3, ModifyStepEffect DEF Modified
<1>4. ASSUME NEW w \in Workers, StartJob(w) PROVE QueuedNew'
  BY <1>4, StartJobEffect
<1>5. ASSUME NEW w \in Workers, CompileStep(w) PROVE UNCHANGED pool
  BY <1>5, CompileStepEffect DEF WorkerEffect
<1>6. QED
  BY <1>1, <1>2, <1>3, <1>4, <1>5, StepCases
     DEF DidClose, FinishClose, HandleNotify, Exit, documentsAll, runtimeVars

LEMMA FailsStep ==
    ASSUME DocumentsTypeOK, DocumentsTypeOK', FailsWhereItMay,
           [DocumentsNext]_documentsAll
    PROVE  FailsWhereItMay'
<1> USE DEF FailsWhereItMay
<1>1. ASSUME NEW f \in Files, CreateStep(f) PROVE FailsWhereItMay'
  <2>1. Created(f) BY <1>1, CreateStepEffect
  <2>2. AllJobs' = Elems(pool') \cup Started /\ AllJobs = Elems(pool) \cup Started
    BY <2>1, MainKeepsJobs DEF Created
  <2>3. QED BY <2>1, <2>2 DEF Created
<1>2. ASSUME NEW f \in Files, ModifyStep(f) PROVE FailsWhereItMay'
  <2>1. Modified(f) BY <1>2, ModifyStepEffect
  <2>2. AllJobs' = Elems(pool') \cup Started /\ AllJobs = Elems(pool) \cup Started
    BY <2>1, MainKeepsJobs DEF Modified
  <2>3. QED BY <2>1, <2>2 DEF Modified
<1>3. ASSUME NEW f \in Files, DidClose(f) \/ FinishClose(f) \/ HandleNotify(f)
      PROVE  AllJobs' = AllJobs
  BY <1>3 DEF DidClose, FinishClose, HandleNotify, AllJobs, Queued, Started
<1>4. ASSUME NEW w \in Workers, StartJob(w) PROVE AllJobs' = AllJobs
  BY <1>4, StartKeepsJobs
<1>5. ASSUME NEW w \in Workers, CompileStep(w) PROVE FailsWhereItMay'
  <2>1. /\ running[w] \in AllJobs /\ running[w] \in CompileJobs
        /\ \A job \in AllJobs' : job \in AllJobs \/ job = running'[w]
    BY <1>5, WorkerChangesOwnJob
  <2>2. running'[w] # Idle /\ ~running'[w].ok => running'[w].ws \in MayFail
    BY <1>5, <2>1, JobMoves DEF CompileJobs
  <2>3. Idle \notin AllJobs'
    <3>1. JobsAsSets' BY JobsAreSets, PTL
    <3>2. QED BY <3>1 DEF JobsAsSets, CompileJobs, Idle
  <2>4. QED BY <2>1, <2>2, <2>3
<1>6. CASE UNCHANGED <<pool, running>>
  BY <1>6 DEF AllJobs, Queued, Started
<1>7. QED
  BY <1>1, <1>2, <1>3, <1>4, <1>5, <1>6, StepCases DEF Exit, documentsAll, runtimeVars

\* The invariant the theorems below share.
SettledInv == DocumentsInv /\ ClosingApart /\ QueuedNew /\ FailsWhereItMay

LEMMA SettledInvAlways == DocumentsSpec => []SettledInv
<1>1. DocumentsStart => ClosingApart /\ QueuedNew /\ FailsWhereItMay
  <2> SUFFICES ASSUME DocumentsStart
               PROVE  ClosingApart /\ QueuedNew /\ FailsWhereItMay
    OBVIOUS
  <2>1. JobsAsSets BY DocumentsTypeStart, JobsAreSets
  <2>2. Elems(pool) = {CompileJob(w, {}, FALSE) : w \in InitWorkSpaces}
    BY PoolStart DEF DocumentsStart
  <2>3. Started = {} BY <2>1 DEF JobsAsSets, DocumentsStart, RuntimeInit
  <2>4. \A job \in AllJobs : job.ok
    BY <2>1, <2>2, <2>3 DEF JobsAsSets, AllJobs, CompileJob
  <2>5. QueuedNew BY <2>2 DEF QueuedNew, CompileJob
  <2>6. QED
    BY <2>4, <2>5
       DEF ClosingApart, FailsWhereItMay, DocumentsStart, RuntimeInit, DocumentsInit
<1>2. /\ DocumentsInv /\ DocumentsInv' /\ ClosingApart /\ QueuedNew
      /\ FailsWhereItMay /\ [DocumentsNext]_documentsAll
      => ClosingApart' /\ QueuedNew' /\ FailsWhereItMay'
  BY ClosingStep, QueuedNewStep, FailsStep DEF DocumentsInv
<1>3. QED BY <1>1, <1>2, DocumentsInvAlways, PTL DEF DocumentsSpec, SettledInv

-----------------------------------------------------------------------------
\* didClose of f takes away a temporary workspace that another opened file is
\* attached to, or will be once a worker has inserted the entry it is about to.
ClosesShared(f) ==
    /\ FinishClose(f)
    /\ \E w \in WorkSpaces :
          /\ temporary[f] = Temporary(w) /\ Unused(w)
          /\ \/ \E g \in opened : temporary[g] = Temporary(w)
             \/ \E u \in Workers : running[u].kind = "compile"
                                   /\ running[u].step = "insert" /\ running[u].ws = w

NoneShared == \A f \in Files : ~ClosesShared(f)

\* What opened files are attached to, or will be, is in the analysis.
Present(w) == workspaces[w].state # "absent"
InsertsPresent(job) == job.step = "insert" => Present(job.ws)
PresentInv ==
    /\ \A f \in opened : \A w \in recorded[f] : Present(w)
    /\ \A f \in opened, w \in WorkSpaces : temporary[f] = Temporary(w) => Present(w)
    /\ \A job \in AllJobs : InsertsPresent(job)

\* didOpen forgets what an earlier life of the file left behind.
LEMMA OpenStartsAfresh ==
    ASSUME DocumentsTypeOK, NEW f \in Files, DidOpen(f)
    PROVE  /\ recorded'[f] \subseteq Containing(f)
           /\ \A g \in Files \ {f} : recorded'[g] \subseteq recorded[g]
           /\ temporary'[f] \in {NoEntry, InCompiling}
<1>1. PICK rec, open, rest : /\ rec = [recorded EXCEPT ![f] = {}]
                             /\ open = opened \cup {f} /\ rest = tasks
  OBVIOUS
<1>2. ProcessCreate(f, rest, open, rec)
  BY <1>1 DEF DidOpen, ProcessCreate, SendAfter, AsyncCompile, Cached
<1>3. /\ rec \in [Files -> SUBSET WorkSpaces] /\ rec[f] = {} /\ f \in open
      /\ \A g \in Files \ {f} : rec[g] = recorded[g]
      /\ temporary \in [Files -> TemporaryEntries]
  BY <1>1 DEF DocumentsTypeOK
<1>4. Containing(f) \subseteq WorkSpaces BY DEF Containing
<1>5. \/ recorded' = rec
      \/ recorded' = [rec EXCEPT ![f] = @ \cup Containing(f)]
  BY <1>2 DEF ProcessCreate
<1>6. \/ temporary' = [temporary EXCEPT ![f] = NoEntry]
      \/ temporary' = [temporary EXCEPT ![f] =
                          IF Lookup[f] = {} THEN NoEntry ELSE InCompiling]
  BY <1>2, <1>3 DEF ProcessCreate
<1>7. temporary'[f] \in {NoEntry, InCompiling} BY <1>3, <1>6
<1>8. QED BY <1>3, <1>4, <1>5, <1>7

LEMMA PresentStep ==
    ASSUME SettledInv, SettledInv', PresentInv, [DocumentsNext]_documentsAll,
           [NoneShared]_documentsAll
    PROVE  PresentInv'
<1> USE DEF Present
<1>0. /\ DocumentsTypeOK /\ DocumentsTypeOK'
      /\ opened \subseteq Files /\ recorded \in [Files -> SUBSET WorkSpaces]
      /\ recorded' \in [Files -> SUBSET WorkSpaces] /\ AllJobs \subseteq CompileJobs
  BY JobsAreSets DEF SettledInv, DocumentsInv, DocumentsTypeOK, JobsAsSets
<1>1. ASSUME NEW f \in Files, CreateStep(f) PROVE PresentInv'
  <2>1. Created(f) BY <1>0, <1>1, CreateStepEffect
  <2>2. workspaces' = workspaces /\ \A w \in Containing(f) : Present(w)
    BY <2>1 DEF Created, Containing
  <2>3. AllJobs' = Elems(pool') \cup Started /\ AllJobs = Elems(pool) \cup Started
    BY <1>0, <2>1, MainKeepsJobs DEF Created
  <2>4. \A job \in AllJobs' : InsertsPresent(job)'
    BY <2>1, <2>2, <2>3 DEF Created, PresentInv, InsertsPresent
  <2>5. CASE DidOpen(f)
    <3>1. opened' = opened \cup {f} BY <2>5 DEF DidOpen
    <3>2. \A g \in opened' : \A w \in recorded'[g] : Present(w)
      BY <1>0, <2>2, <2>5, <3>1, OpenStartsAfresh DEF PresentInv
    <3>3. \A g \in opened', w \in WorkSpaces : temporary'[g] = Temporary(w) => Present(w)
      BY <1>0, <2>1, <2>5, <3>1, OpenStartsAfresh, EntriesDiffer DEF PresentInv, Created
    <3>4. QED BY <2>2, <2>4, <3>2, <3>3 DEF PresentInv
  <2>6. CASE UNCHANGED textVars
    <3>1. opened' = opened BY <2>6 DEF textVars
    <3>2. \A g \in opened' : \A w \in recorded'[g] : Present(w)
      BY <1>0, <2>1, <2>2, <3>1 DEF PresentInv, Created
    <3>3. \A g \in opened', w \in WorkSpaces : temporary'[g] = Temporary(w) => Present(w)
      <4>1. \A g \in Files : temporary'[g] \in {temporary[g], NoEntry, InCompiling}
        BY <2>1 DEF Created
      <4>2. QED BY <1>0, <3>1, <4>1, EntriesDiffer DEF PresentInv
    <3>4. QED BY <2>2, <2>4, <3>2, <3>3 DEF PresentInv
  <2>7. QED BY <1>1, <2>5, <2>6 DEF CreateStep
<1>2. ASSUME NEW f \in Files, ModifyStep(f) PROVE PresentInv'
  <2>1. Modified(f) BY <1>0, <1>2, ModifyStepEffect
  <2>2. AllJobs' = Elems(pool') \cup Started /\ AllJobs = Elems(pool) \cup Started
    BY <1>0, <2>1, MainKeepsJobs DEF Modified
  <2>3. \A job \in AllJobs' : InsertsPresent(job)'
    BY <2>1, <2>2 DEF Modified, PresentInv, InsertsPresent
  <2>4. QED BY <2>1, <2>3 DEF Modified, PresentInv
<1>3. ASSUME NEW f \in Files, DidClose(f) PROVE PresentInv'
  <2>1. /\ opened' = opened \ {f} /\ \A g \in opened' : recorded'[g] = recorded[g]
        /\ UNCHANGED <<workspaces, temporary, pool, running>>
    BY <1>0, <1>3 DEF DidClose
  <2>2. AllJobs' = AllJobs BY <2>1 DEF AllJobs, Queued, Started
  <2>3. QED BY <2>1, <2>2 DEF PresentInv, InsertsPresent
<1>4. ASSUME NEW f \in Files, FinishClose(f) PROVE PresentInv'
  <2>1. /\ opened' = opened /\ UNCHANGED <<recorded, pool, running>>
        /\ \A g \in Files : temporary'[g] \in {temporary[g], NoEntry}
        /\ \A w \in WorkSpaces : Present(w) /\ ~Present(w)' =>
              temporary[f] = Temporary(w) /\ Unused(w)
    BY <1>0, <1>4 DEF FinishClose, ProcessDelete, DocumentsTypeOK
  <2>2. NoneShared
    <3>1. main' # main BY <1>4 DEF FinishClose
    <3>2. QED BY <3>1 DEF documentsAll, runtimeVars
  <2>3. \A w \in WorkSpaces : Present(w) /\ ~Present(w)' =>
            /\ \A g \in opened : temporary[g] # Temporary(w)
            /\ \A u \in Workers : ~(running[u].kind = "compile"
                                    /\ running[u].step = "insert" /\ running[u].ws = w)
    BY <1>4, <2>1, <2>2 DEF NoneShared, ClosesShared
  <2>4. \A g \in opened' : \A w \in recorded'[g] : Present(w)'
    BY <1>0, <2>1 DEF PresentInv, Unused
  <2>5. \A g \in opened', w \in WorkSpaces : temporary'[g] = Temporary(w) => Present(w)'
    BY <1>0, <2>1, <2>3, EntriesDiffer DEF PresentInv
  <2>6. AllJobs' = AllJobs BY <2>1 DEF AllJobs, Queued, Started
  <2>7. ASSUME NEW job \in AllJobs, job.step = "insert" PROVE Present(job.ws)'
    <3>1. job \in Started
      <4>1. job \notin Elems(pool) BY <2>7 DEF SettledInv, QueuedNew
      <4>2. QED BY <1>0, <4>1, JobsAreSets DEF JobsAsSets, AllJobs
    <3>2. PICK u \in Workers : running[u].kind = "compile" /\ running[u] = job
      BY <3>1 DEF Started
    <3>3. Present(job.ws) /\ job.ws \in WorkSpaces
      BY <1>0, <2>7 DEF PresentInv, InsertsPresent, CompileJobs
    <3>4. QED BY <2>3, <2>7, <3>2, <3>3
  <2>8. QED BY <2>4, <2>5, <2>6, <2>7 DEF PresentInv, InsertsPresent
<1>5. ASSUME NEW f \in Files, HandleNotify(f) PROVE PresentInv'
  <2>1. UNCHANGED <<workspaces, temporary, recorded, opened, pool, running>>
    BY <1>5 DEF HandleNotify, textVars
  <2>2. AllJobs' = AllJobs BY <2>1 DEF AllJobs, Queued, Started
  <2>3. QED BY <2>1, <2>2 DEF PresentInv, InsertsPresent
<1>6. ASSUME NEW u \in Workers, StartJob(u), UNCHANGED documentVars PROVE PresentInv'
  <2>1. AllJobs' = AllJobs BY <1>0, <1>6, StartKeepsJobs
  <2>2. QED BY <1>6, <2>1 DEF documentVars, textVars, PresentInv, InsertsPresent
<1>7. ASSUME NEW u \in Workers, CompileStep(u) PROVE PresentInv'
  <2>1. /\ WorkerEffect(u) /\ running[u] \in AllJobs /\ running[u] \in CompileJobs
        /\ \A job \in AllJobs' : job \in AllJobs \/ job = running'[u]
    BY <1>0, <1>7, WorkerChangesOwnJob
  <2>2. \A w \in WorkSpaces : Present(w) => Present(w)'
    <3>1. /\ Init.state # "absent" /\ \A db : Compiling(db).state # "absent"
          /\ Result(running[u]).state # "absent"
      BY DEF Init, Compiling, Result, Ready, Failed
    <3>2. \A w \in WorkSpaces :
             \/ workspaces'[w] = workspaces[w] \/ workspaces'[w] = Init
             \/ workspaces'[w] = Compiling(workspaces[w].db)
             \/ workspaces'[w] = Result(running[u])
      BY <1>0, <1>7, WorkerWrites
    <3>3. QED BY <3>1, <3>2
  <2>3. /\ opened' = opened /\ recorded' = recorded
        /\ \A job \in AllJobs : job.ws \in WorkSpaces
    BY <1>0, <2>1 DEF WorkerEffect, textVars, CompileJobs
  <2>4. \A g \in opened' : \A w \in recorded'[g] : Present(w)'
    BY <1>0, <2>2, <2>3 DEF PresentInv
  <2>5. \A g \in opened', w \in WorkSpaces : temporary'[g] = Temporary(w) => Present(w)'
    <3>1. ASSUME NEW g \in opened, NEW w \in WorkSpaces, temporary'[g] = Temporary(w)
          PROVE  Present(w)
      <4>1. CASE temporary'[g] = temporary[g] BY <3>1, <4>1 DEF PresentInv
      <4>2. CASE running[u].step = "insert" /\ temporary'[g] = Temporary(running[u].ws)
        <5>1. w = running[u].ws BY <3>1, <4>2 DEF Temporary
        <5>2. QED BY <2>1, <4>2, <5>1 DEF PresentInv, InsertsPresent
      <4>3. QED BY <1>0, <1>7, <3>1, <4>1, <4>2, WorkerWrites, EntriesDiffer
    <3>2. QED BY <2>2, <2>3, <3>1
  <2>6. running'[u] # Idle /\ running'[u].step = "insert" => workspaces'[running'[u].ws].state # "absent"
    <3>1. ASSUME running'[u] # Idle, running'[u].step = "insert"
          PROVE  workspaces'[running'[u].ws].state # "absent"
      <4>1. /\ running[u].step = "install" /\ running[u].ok
            /\ running'[u].ws = running[u].ws
        BY <1>0, <1>7, <2>1, <3>1, JobMoves DEF CompileJobs
      <4>2. Install(u)
        BY <1>7, <4>1 DEF CompileStep, ReadOldDiags, MarkCompiling, Compile,
           CompilePanics, PublishDiagnostics, InsertTemporary, AtStep
      <4>3. workspaces'[running[u].ws] = Ready(running[u].db)
        BY <1>0, <2>1, <4>1, <4>2 DEF Install, Result, DocumentsTypeOK, CompileJobs
      <4>4. QED BY <4>1, <4>3 DEF Ready
    <3>2. QED BY <3>1
  <2>7. \A job \in AllJobs' : InsertsPresent(job)'
    <3>1. Idle \notin AllJobs'
      <4>1. JobsAsSets' BY <1>0, JobsAreSets, PTL
      <4>2. QED BY <4>1 DEF JobsAsSets, CompileJobs, Idle
    <3>2. ASSUME NEW job \in AllJobs', job.step = "insert" PROVE Present(job.ws)'
      <4>1. CASE job \in AllJobs
        BY <2>2, <2>3, <3>2, <4>1 DEF PresentInv, InsertsPresent
      <4>2. CASE job = running'[u] BY <2>6, <3>1, <3>2, <4>2
      <4>3. QED BY <2>1, <4>1, <4>2
    <3>3. QED BY <3>2 DEF InsertsPresent
  <2>8. QED BY <2>4, <2>5, <2>7 DEF PresentInv
<1>8. CASE UNCHANGED <<documentVars, pool, running>>
  <2>1. AllJobs' = AllJobs BY <1>8 DEF AllJobs, Queued, Started
  <2>2. QED BY <1>8, <2>1 DEF documentVars, textVars, PresentInv, InsertsPresent
<1>9. QED
  BY <1>1, <1>2, <1>3, <1>4, <1>5, <1>6, <1>7, <1>8, StepCases
     DEF Exit, documentsAll, runtimeVars

(***************************************************************************)
(* There is one way only in which an opened file loses its database, for   *)
(* any client, any number of workers and a compiler that may fail and      *)
(* panic: didClose of another file takes away the temporary workspace the  *)
(* two share. As long as that does not happen, the workspace a request is  *)
(* answered from is found in the analysis.                                 *)
(***************************************************************************)
THEOREM AttachedLostByCloseOnly ==
    DocumentsSpec /\ [][NoneShared]_documentsAll => []AttachedExists
<1>1. DocumentsStart => PresentInv
  <2> SUFFICES ASSUME DocumentsStart PROVE PresentInv
    OBVIOUS
  <2>1. JobsAsSets BY DocumentsTypeStart, JobsAreSets
  <2>2. Elems(pool) = {CompileJob(w, {}, FALSE) : w \in InitWorkSpaces}
    BY PoolStart DEF DocumentsStart
  <2>3. Started = {} BY <2>1 DEF JobsAsSets, DocumentsStart, RuntimeInit
  <2>4. \A job \in AllJobs : InsertsPresent(job)
    BY <2>1, <2>2, <2>3 DEF JobsAsSets, AllJobs, CompileJob, InsertsPresent
  <2>5. QED BY <2>4 DEF PresentInv, DocumentsStart, DocumentsInit
<1>2. /\ SettledInv /\ SettledInv' /\ PresentInv /\ [DocumentsNext]_documentsAll
      /\ [NoneShared]_documentsAll
      => PresentInv'
  BY PresentStep
<1>3. SettledInv /\ PresentInv => AttachedExists
  <2> SUFFICES ASSUME SettledInv, PresentInv, NEW f \in opened, NEW w \in AttachedTo(f)
               PROVE  Present(w)
    BY DEF AttachedExists, Present
  <2>1. f \in Files /\ temporary[f] \in TemporaryEntries
    BY DEF SettledInv, DocumentsInv, DocumentsTypeOK
  <2>2. CASE temporary[f].entry = "workspace"
    <3>1. w \in WorkSpaces /\ temporary[f] = Temporary(w)
      BY <2>1, <2>2 DEF AttachedTo, TemporaryEntries, NoEntry, InCompiling, Temporary
    <3>2. QED BY <3>1 DEF PresentInv
  <2>3. CASE temporary[f].entry # "workspace"
    BY <2>3 DEF AttachedTo, PresentInv
  <2>4. QED BY <2>2, <2>3
<1>4. QED BY <1>1, <1>2, <1>3, SettledInvAlways, PTL DEF DocumentsSpec

-----------------------------------------------------------------------------
\* The main thread will look for a workspace of f again.
Searched(f) ==
    ChangedFile(f, "create") \in Elems(tasks) \/ ReOpenFile(f) \in Elems(tasks)

\* Files whose workspaces the compiler never gives up on.
Sure(f) == Lookup[f] # {} /\ Lookup[f] \cap (MayFail \cup MayPanic) = {}

\* An opened file has a workspace, waits for one or is searched.
Remembered ==
    Alive => \A f \in opened :
        Sure(f) => temporary[f] # NoEntry \/ recorded[f] # {} \/ Searched(f)

LEMMA TaskKindsDiffer ==
    /\ \A f, g : f # g => /\ ChangedFile(f, "create") # ChangedFile(g, "create")
                          /\ ReOpenFile(f) # ReOpenFile(g)
    /\ \A f, g : /\ ChangedFile(f, "create") # ReOpenFile(g)
                 /\ ChangedFile(f, "create") # ChangedFile(g, "modify")
                 /\ ReOpenFile(f) # ChangedFile(g, "modify")
    /\ \A f, g, v : /\ ChangedFile(f, "create") # Notify(g, v)
                    /\ ReOpenFile(f) # Notify(g, v)
  BY DEF ChangedFile, ReOpenFile, Notify

\* process_changed_file, Create: the file is recorded, searched again or has a
\* job.
LEMMA ProcessCreateFinds ==
    ASSUME DocumentsTypeOK, NEW f \in Files,
           NEW rest \in Seq(DocumentTasks), NEW open,
           NEW rec \in [Files -> SUBSET WorkSpaces],
           ProcessCreate(f, rest, open, rec), main' # "panicked"
    PROVE  /\ Elems(rest) \subseteq Elems(tasks')
           /\ \A g \in Files \ {f} : recorded'[g] = rec[g]
           /\ Lookup[f] # {} => \/ recorded'[f] # {} \/ temporary'[f] # NoEntry
                                \/ ChangedFile(f, "create") \in Elems(tasks')
<1>1. temporary \in [Files -> TemporaryEntries] /\ InCompiling # NoEntry
  BY DEF DocumentsTypeOK, InCompiling, NoEntry
<1>2. \/ /\ Containing(f) \cup InProgress # {}
         /\ recorded' = [rec EXCEPT ![f] = @ \cup Containing(f)]
         /\ SendAfter(rest, [i \in 1..Cardinality(InProgress) |->
                                ChangedFile(f, "create")])
      \/ /\ temporary' = [temporary EXCEPT ![f] =
                             IF Lookup[f] = {} THEN NoEntry ELSE InCompiling]
         /\ recorded' = rec /\ tasks' = rest
  BY DEF ProcessCreate
<1>3. CASE /\ Containing(f) \cup InProgress # {}
           /\ recorded' = [rec EXCEPT ![f] = @ \cup Containing(f)]
           /\ SendAfter(rest, [i \in 1..Cardinality(InProgress) |->
                                  ChangedFile(f, "create")])
  <2> DEFINE n == Cardinality(InProgress)
             new == [i \in 1..n |-> ChangedFile(f, "create")]
  <2>1. InProgress \in SUBSET WorkSpaces BY DEF InProgress
  <2>2. IsFiniteSet(InProgress) BY <2>1, SubsetsFinite
  <2>3. n \in Nat /\ (n = 0 => InProgress = {})
    BY <2>2, FS_CardinalityType, FS_EmptySet
  <2>4. new \in Seq(DocumentTasks) BY <2>3, TasksTyped
  <2>5. InProgress # {} => ChangedFile(f, "create") \in Elems(new)
    <3>1. SUFFICES ASSUME InProgress # {} PROVE ChangedFile(f, "create") \in Elems(new)
      OBVIOUS
    <3>2. 1 \in 1..n BY <2>3, <3>1
    <3>3. Len(new) = n BY <2>3
    <3>4. new[1] = ChangedFile(f, "create") BY <3>2
    <3>5. QED BY <3>2, <3>3, <3>4 DEF Elems
  <2>6. tasks' = rest \o new BY <1>3 DEF SendAfter
  <2> HIDE DEF new
  <2>7. Elems(tasks') = Elems(rest) \cup Elems(new) BY <2>4, <2>6, ElemsOfAppend
  <2>8. /\ \A g \in Files \ {f} : recorded'[g] = rec[g]
        /\ Containing(f) \subseteq recorded'[f]
    BY <1>3
  <2>9. QED BY <1>3, <2>5, <2>7, <2>8
<1>4. CASE /\ temporary' = [temporary EXCEPT ![f] =
                               IF Lookup[f] = {} THEN NoEntry ELSE InCompiling]
           /\ recorded' = rec /\ tasks' = rest
  BY <1>1, <1>4
<1>5. QED BY <1>2, <1>3, <1>4

LEMMA CreateFinds ==
    ASSUME DocumentsTypeOK, NEW f \in Files, CreateStep(f), main' # "panicked"
    PROVE  /\ \A t \in Elems(tasks) :
                 t \in Elems(tasks') \/ t \in {ChangedFile(f, "create"), ReOpenFile(f)}
           /\ \A g \in Files \ {f} : recorded'[g] = recorded[g]
           /\ Lookup[f] # {} => \/ recorded'[f] # {} \/ temporary'[f] # NoEntry
                                \/ ChangedFile(f, "create") \in Elems(tasks')
<1>1. CASE DidOpen(f)
  <2>1. PICK rec, open, rest : /\ rec = [recorded EXCEPT ![f] = {}]
                               /\ open = opened \cup {f} /\ rest = tasks
    OBVIOUS
  <2>2. ProcessCreate(f, rest, open, rec)
    BY <1>1, <2>1 DEF DidOpen, ProcessCreate, SendAfter, AsyncCompile, Cached
  <2>3. /\ rec \in [Files -> SUBSET WorkSpaces] /\ rest \in Seq(DocumentTasks)
        /\ \A g \in Files \ {f} : rec[g] = recorded[g]
    BY <2>1 DEF DocumentsTypeOK
  <2>4. /\ Elems(rest) \subseteq Elems(tasks')
        /\ \A g \in Files \ {f} : recorded'[g] = rec[g]
        /\ Lookup[f] # {} => \/ recorded'[f] # {} \/ temporary'[f] # NoEntry
                             \/ ChangedFile(f, "create") \in Elems(tasks')
    BY <2>2, <2>3, ProcessCreateFinds
  <2>5. Elems(tasks) \subseteq Elems(tasks') BY <2>1, <2>4
  <2>6. QED BY <2>3, <2>4, <2>5
<1>2. CASE Creates(f) /\ ProcessCreate(f, Tail(tasks), opened, recorded)
  <2>1. PICK rec, open, rest : rec = recorded /\ open = opened /\ rest = Tail(tasks)
    OBVIOUS
  <2>2. ProcessCreate(f, rest, open, rec)
    BY <1>2, <2>1 DEF ProcessCreate, SendAfter, AsyncCompile, Cached
  <2>3. /\ tasks # <<>> /\ tasks \in Seq(DocumentTasks)
        /\ Head(tasks) \in {ChangedFile(f, "create"), ReOpenFile(f)}
    BY <1>2 DEF Creates, Receive, DocumentsTypeOK
  <2>4. Elems(tasks) = {Head(tasks)} \cup Elems(rest) /\ rest \in Seq(DocumentTasks)
    BY <2>1, <2>3, ElemsOfTail
  <2>5. rec \in [Files -> SUBSET WorkSpaces] BY <2>1 DEF DocumentsTypeOK
  <2>6. Elems(rest) \subseteq Elems(tasks') BY <2>2, <2>4, <2>5, ProcessCreateFinds
  <2>7. QED BY <2>1, <2>2, <2>3, <2>4, <2>5, <2>6, ProcessCreateFinds
<1>3. QED BY <1>1, <1>2 DEF CreateStep

\* process_changed_file, Modify, forgets no other task.
LEMMA ModifyForgets ==
    ASSUME DocumentsTypeOK, NEW f \in Files, ModifyStep(f)
    PROVE  \A t \in Elems(tasks) : t \in Elems(tasks') \/ t = ChangedFile(f, "modify")
<1>1. ASSUME NEW rest \in Seq(DocumentTasks), ProcessModify(f, rest)
      PROVE  Elems(rest) \subseteq Elems(tasks')
  <2> DEFINE both == <<ChangedFile(f, "modify"), ReOpenFile(f)>>
             one == <<ReOpenFile(f)>>
  <2>1. both \in Seq(DocumentTasks) /\ one \in Seq(DocumentTasks) BY TasksTyped
  <2>2. tasks' = rest \/ tasks' = rest \o both \/ tasks' = rest \o one
    BY <1>1 DEF ProcessModify, SendAfter
  <2> HIDE DEF both, one
  <2>3. CASE tasks' = rest \o both BY <1>1, <2>1, <2>3, ElemsOfAppend
  <2>4. CASE tasks' = rest \o one BY <1>1, <2>1, <2>4, ElemsOfAppend
  <2>5. QED BY <2>2, <2>3, <2>4
<1>2. CASE DidChange(f)
  <2>1. PICK rest : rest = tasks OBVIOUS
  <2>2. ProcessModify(f, rest)
    BY <1>2, <2>1 DEF DidChange, ProcessModify, SendAfter, AsyncCompile, Cached
  <2>3. QED BY <1>1, <2>1, <2>2 DEF DocumentsTypeOK
<1>3. CASE Receive(ChangedFile(f, "modify")) /\ ProcessModify(f, Tail(tasks))
  <2>1. PICK rest : rest = Tail(tasks) OBVIOUS
  <2>2. ProcessModify(f, rest)
    BY <1>3, <2>1 DEF ProcessModify, SendAfter, AsyncCompile, Cached
  <2>3. tasks # <<>> /\ tasks \in Seq(DocumentTasks) /\ Head(tasks) = ChangedFile(f, "modify")
    BY <1>3 DEF Receive, DocumentsTypeOK
  <2>4. Elems(tasks) = {Head(tasks)} \cup Elems(rest) /\ rest \in Seq(DocumentTasks)
    BY <2>1, <2>3, ElemsOfTail
  <2>5. QED BY <1>1, <2>2, <2>3, <2>4
<1>4. QED BY <1>2, <1>3 DEF ModifyStep

LEMMA RememberedStep ==
    ASSUME SettledInv, SettledInv', Remembered, [DocumentsNext]_documentsAll
    PROVE  Remembered'
<1> SUFFICES ASSUME Alive', NEW g \in opened', Sure(g)
             PROVE  (temporary[g] # NoEntry \/ recorded[g] # {} \/ Searched(g))'
  BY DEF Remembered, Sure
<1> DEFINE Goal == (temporary[g] # NoEntry \/ recorded[g] # {} \/ Searched(g))'
<1>0. /\ DocumentsTypeOK /\ DocumentsTypeOK' /\ g \in Files /\ main' # "panicked"
      /\ main' # "exited" /\ opened \subseteq Files
  BY DEF SettledInv, DocumentsInv, DocumentsTypeOK, Alive
<1>a. Alive /\ g \in opened => temporary[g] # NoEntry \/ recorded[g] # {} \/ Searched(g)
  BY DEF Remembered
<1>1. ASSUME NEW f \in Files, CreateStep(f) PROVE Goal
  <2>1. Created(f) /\ Alive
    BY <1>0, <1>1, CreateStepEffect DEF Created, Alive
  <2>2. CASE f = g
    BY <1>0, <1>1, <2>2, CreateFinds DEF Sure, Searched
  <2>3. CASE f # g
    <3>1. g \in opened /\ temporary'[g] = temporary[g] BY <1>0, <2>1, <2>3 DEF Created
    <3>2. /\ recorded'[g] = recorded[g]
          /\ \A t \in Elems(tasks) :
                t \in Elems(tasks') \/ t \in {ChangedFile(f, "create"), ReOpenFile(f)}
      BY <1>0, <1>1, <2>3, CreateFinds
    <3>3. Searched(g) => Searched(g)' BY <2>3, <3>2, TaskKindsDiffer DEF Searched
    <3>4. QED BY <1>a, <2>1, <3>1, <3>2, <3>3
  <2>4. QED BY <2>2, <2>3
<1>2. ASSUME NEW f \in Files, ModifyStep(f) PROVE Goal
  <2>1. Modified(f) /\ Alive BY <1>0, <1>2, ModifyStepEffect DEF Modified, Alive
  <2>2. \A t \in Elems(tasks) : t \in Elems(tasks') \/ t = ChangedFile(f, "modify")
    BY <1>0, <1>2, ModifyForgets
  <2>3. Searched(g) => Searched(g)' BY <2>2, TaskKindsDiffer DEF Searched
  <2>4. QED BY <1>a, <2>1, <2>3 DEF Modified
<1>3. ASSUME NEW f \in Files, DidClose(f) PROVE Goal
  <2>1. /\ Alive /\ g \in opened /\ g # f /\ recorded'[g] = recorded[g]
        /\ UNCHANGED <<tasks, temporary>>
    BY <1>0, <1>3 DEF DidClose, ClientActs, Listening, Alive, DocumentsTypeOK
  <2>2. QED BY <1>a, <2>1 DEF Searched
<1>4. ASSUME NEW f \in Files, FinishClose(f) PROVE Goal
  <2>1. /\ Alive /\ g \in opened /\ f \in closing /\ UNCHANGED <<tasks, recorded>>
    BY <1>4 DEF FinishClose, Alive
  <2>2. f # g BY <2>1 DEF SettledInv, ClosingApart
  <2>3. temporary'[g] = temporary[g]
    BY <1>0, <1>4, <2>2 DEF FinishClose, ProcessDelete, DocumentsTypeOK
  <2>4. QED BY <1>a, <2>1, <2>3 DEF Searched
<1>5. ASSUME NEW f \in Files, HandleNotify(f) PROVE Goal
  <2>1. PICK v \in Versions : Receive(Notify(f, v)) BY <1>5 DEF HandleNotify
  <2>2. /\ Alive /\ g \in opened /\ UNCHANGED <<temporary, recorded>>
        /\ tasks' = Tail(tasks) /\ tasks # <<>> /\ Head(tasks) = Notify(f, v)
        /\ tasks \in Seq(DocumentTasks)
    BY <1>0, <1>5, <2>1 DEF HandleNotify, Receive, Listening, Alive, textVars, DocumentsTypeOK
  <2>3. Elems(tasks) = {Head(tasks)} \cup Elems(tasks') BY <2>2, ElemsOfTail
  <2>4. Searched(g) => Searched(g)' BY <2>2, <2>3, TaskKindsDiffer DEF Searched
  <2>5. QED BY <1>a, <2>2, <2>4
<1>6. ASSUME NEW u \in Workers, StartJob(u), UNCHANGED documentVars PROVE Goal
  BY <1>6, <1>a DEF StartJob, documentVars, textVars, Searched
<1>7. ASSUME NEW u \in Workers, CompileStep(u) PROVE Goal
  <2>1. /\ WorkerEffect(u) /\ running[u] \in AllJobs
    BY <1>0, <1>7, WorkerChangesOwnJob
  <2>2. /\ main' = main /\ g \in opened /\ recorded' = recorded
        /\ Elems(tasks) \subseteq Elems(tasks')
    BY <2>1 DEF WorkerEffect, textVars
  <2>3. ~(g \in running[u].files /\ running[u].temp /\ ~running[u].ok)
    <3>1. SUFFICES ASSUME g \in running[u].files, running[u].temp, ~running[u].ok
                   PROVE  FALSE
      OBVIOUS
    <3>2. running[u].ws \in Lookup[g]
      BY <2>1, <3>1 DEF SettledInv, DocumentsInv, TemporaryFound
    <3>3. running[u].ws \in MayFail BY <2>1, <3>1 DEF SettledInv, FailsWhereItMay
    <3>4. QED BY <3>2, <3>3 DEF Sure
  <2>4. temporary[g] # NoEntry => temporary'[g] # NoEntry
    BY <1>0, <1>7, <2>3, WorkerWrites, EntriesDiffer
  <2>5. Searched(g) => Searched(g)' BY <2>2 DEF Searched
  <2>6. QED BY <1>a, <2>2, <2>4, <2>5 DEF Alive
<1>8. CASE Exit BY <1>0, <1>8 DEF Exit
<1>9. CASE UNCHANGED documentsAll
  BY <1>9, <1>a DEF documentsAll, runtimeVars, documentVars, textVars, Searched, Alive
<1>10. QED
  BY <1>1, <1>2, <1>3, <1>4, <1>5, <1>6, <1>7, <1>8, <1>9, StepCases

(***************************************************************************)
(* Once the server has settled, an opened file for which the driver finds  *)
(* workspaces is attached to one: no order of opening, editing before the  *)
(* opening is complete, closing and re-opening, and of the tasks the main  *)
(* thread sends itself about the file, on any number of workers, leaves it *)
(* without. It is the compiler that may: a failure removes the entry, and  *)
(* a panic leaves it waiting.                                              *)
(***************************************************************************)
THEOREM SettledFilesAttached == DocumentsSpec => []SettledAttached
<1>1. DocumentsStart => Remembered
  BY DEF DocumentsStart, DocumentsInit, Remembered
<1>2. SettledInv /\ SettledInv' /\ Remembered /\ [DocumentsNext]_documentsAll
      => Remembered'
  BY RememberedStep
<1>3. SettledInv /\ Remembered => SettledAttached
  <2> SUFFICES ASSUME SettledInv, Remembered, Quiescent, NEW f \in opened, Sure(f)
               PROVE  AttachedTo(f) # {}
    BY DEF SettledAttached, Sure
  <2>1. /\ f \in Files /\ temporary[f] \in TemporaryEntries /\ DocumentsTypeOK /\ Alive
    BY DEF SettledInv, DocumentsInv, DocumentsTypeOK, Quiescent, Listening, Alive
  <2>2. Queued \cup Started = {}
    <3>1. Queued = {} BY DEF Queued, Quiescent
    <3>2. Started = {} BY DEF Started, Quiescent, Idle
    <3>3. QED BY <3>1, <3>2
  <2>3. temporary[f] # InCompiling
    BY <2>1, <2>2 DEF SettledInv, DocumentsInv, TemporaryInFlight, Sure
  <2>4. ~Searched(f) BY DEF Searched, Elems, Quiescent
  <2>5. temporary[f] # NoEntry \/ recorded[f] # {} BY <2>1, <2>4 DEF Remembered
  <2>6. QED
    BY <2>1, <2>3, <2>5 DEF AttachedTo, TemporaryEntries, NoEntry, InCompiling, Temporary
<1>4. QED BY <1>1, <1>2, <1>3, SettledInvAlways, PTL DEF DocumentsSpec

-----------------------------------------------------------------------------
\* No two workers compile the same workspace at the same time: of two jobs of
\* a workspace the older one could install its result last.
OneAtATime ==
    \A u, v \in Workers :
        u # v /\ running[u] # Idle /\ running[v] # Idle => running[u].ws # running[v].ws

\* A job for workspace w is queued.
QueuedFor(w) == \E job \in Elems(pool) : job.ws = w

\* Worker u has a job for w that has still to read the texts ...
WillRead(u, w) ==
    running[u] # Idle /\ running[u].ws = w /\ running[u].step \in {"diags", "mark", "load"}

\* ... or has read them and still to install the result.
HasRead(u, w) ==
    running[u] # Idle /\ running[u].ws = w /\ running[u].step \in {"publish", "install"}

\* ChangeKind::Modify is sent again, because the file waits for its workspace.
Retried(f) == ModifyTargets(f) = {} /\ temporary[f] = InCompiling

\* ChangeKind::Modify compiles every workspace of f that has texts already.
ReachesAll(f) ==
    \A w \in WorkSpaces :
        /\ f \in Members[w]
        /\ workspaces[w].state = "ready" \/ \E u \in Workers : HasRead(u, w)
        => w \in ModifyTargets(f)

\* No edit goes past a workspace that has read the file before, and the client
\* saves what it closes.
EditsReach ==
    \A f \in Files : /\ ModifyStep(f) => Retried(f) \/ ReachesAll(f)
                     /\ DidClose(f) => disk'[f] = vfs[f]

FreshIn(db, w) == \A f \in Members[w] : db[f] = Text(f)
Retries(w) == \E f \in Members[w] : ChangedFile(f, "modify") \in Elems(tasks)

\* The database of w will be made from the current texts or is.
FreshFor(w) ==
    \/ QueuedFor(w) \/ Retries(w)
    \/ \E u \in Workers : WillRead(u, w)
    \/ \E u \in Workers :
          HasRead(u, w) /\ (running[u].ok => FreshIn(running[u].db, w))
    \/ /\ \A u \in Workers : ~HasRead(u, w)
       /\ workspaces[w].state = "ready" => FreshIn(workspaces[w].db, w)
FreshOrPending == Alive => \A w \in WorkSpaces : FreshFor(w)

\* A file that is being closed has been saved.
SavedWhenClosed == \A f \in closing : disk[f] = vfs[f]

\* A workspace is not Ready while its job is between its mark and its result.
MarkedNotReady ==
    \A u \in Workers :
        running[u] # Idle /\ running[u].step \in {"load", "publish", "install"} =>
            workspaces[running[u].ws].state # "ready"

FreshInv == FreshOrPending /\ SavedWhenClosed /\ MarkedNotReady

\* Only didChange changes the text the compiler would read.
LEMMA TextStays ==
    ASSUME SettledInv, SavedWhenClosed, [DocumentsNext]_documentsAll,
           [EditsReach]_documentsAll, NEW g \in Files, ~DidChange(g)
    PROVE  Text(g)' = Text(g)
<1> USE DEF Text, InVfs
<1>0. /\ vfs \in [Files -> Versions] /\ disk \in [Files -> Versions]
      /\ opened \subseteq Files
      /\ main = "listening" => closing = {}
      /\ closing \cap opened = {} /\ \A f, h \in closing : f = h
  BY DEF SettledInv, DocumentsInv, DocumentsTypeOK, ClosingApart
<1>1. CASE UNCHANGED textVars BY <1>1 DEF textVars
<1>2. ASSUME NEW f \in Files, DidOpen(f) PROVE Text(g)' = Text(g)
  BY <1>0, <1>2 DEF DidOpen, ClientActs, Listening
<1>3. ASSUME NEW f \in Files, DidChange(f) PROVE Text(g)' = Text(g)
  <2>1. f # g BY <1>3
  <2>2. QED BY <1>0, <1>3, <2>1 DEF DidChange
<1>4. ASSUME NEW f \in Files, DidClose(f) PROVE Text(g)' = Text(g)
  <2>0. EditsReach
    <3>1. main' # main BY <1>4 DEF DidClose, ClientActs, Listening
    <3>2. QED BY <3>1 DEF documentsAll, runtimeVars
  <2>1. disk'[f] = vfs[f] BY <1>4, <2>0 DEF EditsReach
  <2>2. g # f => disk'[g] = disk[g] BY <1>0, <1>4 DEF DidClose
  <2>3. closing = {} /\ closing' = {f} /\ opened' = opened \ {f} /\ vfs' = vfs /\ f \in opened
    BY <1>0, <1>4 DEF DidClose, ClientActs, Listening
  <2>4. QED BY <2>1, <2>2, <2>3
<1>5. ASSUME NEW f \in Files, FinishClose(f) PROVE Text(g)' = Text(g)
  <2>1. f \in closing /\ \A h \in closing : h = f BY <1>0, <1>5 DEF FinishClose
  <2>2. disk[f] = vfs[f] BY <2>1 DEF SavedWhenClosed
  <2>3. f \notin opened BY <1>0, <2>1
  <2>4. QED BY <1>0, <1>5, <2>1, <2>2, <2>3 DEF FinishClose
<1>6. ASSUME NEW w \in Workers, CompileStep(w) PROVE UNCHANGED textVars
  BY <1>6, CompileStepEffect DEF WorkerEffect, SettledInv, DocumentsInv
<1>7. QED
  BY <1>1, <1>2, <1>3, <1>4, <1>5, <1>6, StepCases
     DEF CreateStep, ModifyStep, HandleNotify, documentsAll, documentVars

LEMMA SavedStep ==
    ASSUME SettledInv, SavedWhenClosed, [DocumentsNext]_documentsAll,
           [EditsReach]_documentsAll
    PROVE  SavedWhenClosed'
<1>0. /\ vfs \in [Files -> Versions] /\ disk \in [Files -> Versions]
      /\ main = "listening" => closing = {}
  BY DEF SettledInv, DocumentsInv, DocumentsTypeOK, ClosingApart
<1>1. CASE UNCHANGED textVars BY <1>1 DEF textVars, SavedWhenClosed
<1>2. ASSUME NEW f \in Files, DidOpen(f) \/ DidChange(f) PROVE SavedWhenClosed'
  BY <1>0, <1>2 DEF DidOpen, DidChange, ClientEdits, ClientActs, Listening, SavedWhenClosed
<1>3. ASSUME NEW f \in Files, DidClose(f) PROVE SavedWhenClosed'
  <2>1. main' # main BY <1>3 DEF DidClose, ClientActs, Listening
  <2>2. EditsReach BY <2>1 DEF documentsAll, runtimeVars
  <2>3. QED BY <1>3, <2>2 DEF DidClose, EditsReach, SavedWhenClosed
<1>4. ASSUME NEW f \in Files, FinishClose(f) PROVE SavedWhenClosed'
  BY <1>4 DEF FinishClose, SavedWhenClosed
<1>5. ASSUME NEW w \in Workers, CompileStep(w) PROVE UNCHANGED textVars
  BY <1>5, CompileStepEffect DEF WorkerEffect, SettledInv, DocumentsInv
<1>6. QED
  BY <1>1, <1>2, <1>3, <1>4, <1>5, StepCases
     DEF CreateStep, ModifyStep, HandleNotify, documentsAll, documentVars

LEMMA MarkedNotReadyStep ==
    ASSUME SettledInv, OneAtATime, MarkedNotReady, [DocumentsNext]_documentsAll
    PROVE  MarkedNotReady'
<1>0. DocumentsTypeOK BY DEF SettledInv, DocumentsInv
<1>1. CASE UNCHANGED <<running, workspaces>> BY <1>1 DEF MarkedNotReady
<1>2. ASSUME NEW f \in Files, FinishClose(f) PROVE MarkedNotReady'
  <2>1. /\ running' = running
        /\ \A w \in WorkSpaces : workspaces'[w] = workspaces[w]
                                 \/ workspaces'[w].state = "absent"
    BY <1>2 DEF FinishClose, ProcessDelete, Absent
  <2>2. \A u \in Workers : running[u] # Idle => running[u].ws \in WorkSpaces
    BY <1>0 DEF DocumentsTypeOK, CompileJobs
  <2>3. QED BY <2>1, <2>2 DEF MarkedNotReady
<1>3. ASSUME NEW u \in Workers, StartJob(u), UNCHANGED documentVars PROVE MarkedNotReady'
  <2>1. /\ running'[u] = Head(pool) /\ \A v \in Workers \ {u} : running'[v] = running[v]
        /\ Head(pool) \in Elems(pool) /\ workspaces' = workspaces
    BY <1>0, <1>3, StartJobEffect DEF DocumentsTypeOK, documentVars
  <2>2. running'[u].step = "diags" BY <2>1 DEF SettledInv, QueuedNew
  <2>3. QED BY <2>1, <2>2 DEF MarkedNotReady
<1>4. ASSUME NEW u \in Workers, CompileStep(u) PROVE MarkedNotReady'
  <2>1. WorkerEffect(u) /\ running[u] \in CompileJobs /\ running[u] # Idle
    BY <1>0, <1>4, CompileStepEffect, WorkerWrites DEF CompileJobs, Idle
  <2>2. ASSUME NEW v \in Workers, v # u, running'[v] # Idle,
               running'[v].step \in {"load", "publish", "install"}
        PROVE  workspaces'[running'[v].ws].state # "ready"
    <3>1. running'[v] = running[v] BY <2>1, <2>2 DEF WorkerEffect
    <3>2. running[v].ws # running[u].ws BY <2>1, <2>2, <3>1 DEF OneAtATime
    <3>3. running[v].ws \in WorkSpaces BY <1>0, <2>2, <3>1 DEF DocumentsTypeOK, CompileJobs
    <3>4. workspaces'[running[v].ws] = workspaces[running[v].ws]
      BY <1>0, <1>4, <3>2, <3>3, WorkerWrites
    <3>5. QED BY <2>2, <3>1, <3>4 DEF MarkedNotReady
  <2>3. ASSUME running'[u] # Idle, running'[u].step \in {"load", "publish", "install"}
        PROVE  workspaces'[running'[u].ws].state # "ready"
    <3>1. running'[u].ws = running[u].ws /\ running[u].ws \in WorkSpaces
      BY <2>1, <2>3 DEF WorkerEffect, SameWork, CompileJobs
    <3>2. running[u].step \in {"mark", "load", "publish"}
      BY <1>0, <1>4, <2>1, <2>3, JobMoves DEF CompileJobs
    <3>3. CASE running[u].step = "mark"
      <4>1. MarkCompiling(u)
        BY <1>4, <3>3 DEF CompileStep, ReadOldDiags, Compile, CompilePanics,
           PublishDiagnostics, Install, InsertTemporary, AtStep
      <4>2. QED
        BY <1>0, <3>1, <4>1 DEF MarkCompiling, Init, Compiling, DocumentsTypeOK
    <3>4. CASE running[u].step \in {"load", "publish"}
      <4>1. workspaces'[running[u].ws] = workspaces[running[u].ws]
        BY <1>0, <1>4, <3>1, <3>4, WorkerWrites
      <4>2. QED BY <2>1, <3>1, <3>4, <4>1 DEF MarkedNotReady
    <3>5. QED BY <3>2, <3>3, <3>4
  <2>4. QED BY <2>2, <2>3 DEF MarkedNotReady
<1>5. ASSUME NEW f \in Files,
             CreateStep(f) \/ ModifyStep(f) \/ DidClose(f) \/ HandleNotify(f)
      PROVE  UNCHANGED <<running, workspaces>>
  BY <1>0, <1>5, CreateStepEffect, ModifyStepEffect
     DEF Created, Modified, DidClose, HandleNotify
<1>6. QED
  BY <1>1, <1>2, <1>3, <1>4, <1>5, StepCases
     DEF Exit, documentVars, documentsAll, runtimeVars

-----------------------------------------------------------------------------
\* Steps that leave the workers, the databases, the texts and the retries alone.
LEMMA FreshStays ==
    ASSUME NEW w \in WorkSpaces, FreshFor(w), running' = running,
           workspaces'[w] = workspaces[w] \/ workspaces'[w].state = "absent",
           Elems(pool) \subseteq Elems(pool'),
           \A g \in Members[w] : Text(g)' = Text(g),
           Retries(w) => Retries(w)'
    PROVE  FreshFor(w)'
<1>1. \A db : FreshIn(db, w) => \A g \in Members[w] : db[g] = Text(g)'
  BY DEF FreshIn
<1>2. CASE QueuedFor(w) \/ Retries(w) BY <1>2 DEF FreshFor, QueuedFor
<1>3. CASE \E u \in Workers : WillRead(u, w) BY <1>3 DEF FreshFor, WillRead
<1>4. CASE \E u \in Workers :
              HasRead(u, w) /\ (running[u].ok => FreshIn(running[u].db, w))
  BY <1>1, <1>4 DEF FreshFor, HasRead, FreshIn
<1>5. CASE /\ \A u \in Workers : ~HasRead(u, w)
           /\ workspaces[w].state = "ready" => FreshIn(workspaces[w].db, w)
  <2>1. \A u \in Workers : ~HasRead(u, w)' BY <1>5 DEF HasRead
  <2>2. workspaces'[w].state = "ready" => FreshIn(workspaces[w].db, w)'
    BY <1>1, <1>5 DEF FreshIn
  <2>3. QED BY <2>1, <2>2 DEF FreshFor
<1>6. QED BY <1>2, <1>3, <1>4, <1>5 DEF FreshFor

\* An edit that is sent again stays in the channel.
LEMMA RetryIsSent ==
    ASSUME DocumentsTypeOK, NEW f \in Files, ModifyStep(f), Retried(f),
           main' # "panicked"
    PROVE  ChangedFile(f, "modify") \in Elems(tasks')
<1>1. ASSUME NEW rest \in Seq(DocumentTasks), ProcessModify(f, rest)
      PROVE  ChangedFile(f, "modify") \in Elems(tasks')
  <2> DEFINE both == <<ChangedFile(f, "modify"), ReOpenFile(f)>>
  <2>1. both \in Seq(DocumentTasks) BY TasksTyped
  <2>2. tasks' = rest \o both
    BY <1>1 DEF ProcessModify, SendAfter, Retried, ModifyTargets
  <2>3. ChangedFile(f, "modify") \in Elems(both)
    <3>1. both[1] = ChangedFile(f, "modify") /\ 1 \in 1..Len(both) OBVIOUS
    <3>2. QED BY <3>1 DEF Elems
  <2> HIDE DEF both
  <2>4. QED BY <1>1, <2>1, <2>2, <2>3, ElemsOfAppend
<1>2. CASE DidChange(f)
  <2>1. PICK rest : rest = tasks OBVIOUS
  <2>2. ProcessModify(f, rest)
    BY <1>2, <2>1 DEF DidChange, ProcessModify, SendAfter, AsyncCompile, Cached
  <2>3. QED BY <1>1, <2>1, <2>2 DEF DocumentsTypeOK
<1>3. CASE Receive(ChangedFile(f, "modify")) /\ ProcessModify(f, Tail(tasks))
  <2>1. PICK rest : rest = Tail(tasks) OBVIOUS
  <2>2. ProcessModify(f, rest)
    BY <1>3, <2>1 DEF ProcessModify, SendAfter, AsyncCompile, Cached
  <2>3. rest \in Seq(DocumentTasks) BY <1>3, <2>1, ReceiveEffect
  <2>4. QED BY <1>1, <2>2, <2>3
<1>4. QED BY <1>2, <1>3 DEF ModifyStep

\* After ChangeKind::Modify, a workspace of the file has a job or a retry
\* before it, or has no text.
LEMMA EditIsCompiled ==
    ASSUME DocumentsTypeOK, NEW f \in Files, ModifyStep(f),
           Retried(f) \/ ReachesAll(f), main' # "panicked",
           NEW w \in WorkSpaces, f \in Members[w]
    PROVE  FreshFor(w)'
<1>1. Modified(f) BY ModifyStepEffect
<1>2. CASE Retried(f) BY <1>2, RetryIsSent DEF FreshFor, Retries
<1>3. CASE w \in ModifyTargets(f)
  <2>1. QueuedFor(w)' BY <1>1, <1>3 DEF Modified, QueuedFor
  <2>2. QED BY <2>1 DEF FreshFor
<1>4. CASE workspaces[w].state # "ready" /\ \A u \in Workers : ~HasRead(u, w)
  <2>1. running' = running /\ workspaces' = workspaces BY <1>1 DEF Modified
  <2>2. QED BY <1>4, <2>1 DEF FreshFor, HasRead
<1>5. QED BY <1>2, <1>3, <1>4 DEF ReachesAll

\* A step of a worker.
LEMMA CompileStepFresh ==
    ASSUME SettledInv, OneAtATime, MarkedNotReady,
           NEW u \in Workers, CompileStep(u), NEW w \in WorkSpaces,
           FreshFor(w), \A g \in Members[w] : Text(g)' = Text(g)
    PROVE  FreshFor(w)'
<1>0. DocumentsTypeOK BY DEF SettledInv, DocumentsInv
<1>1. WorkerEffect(u) /\ running[u] \in CompileJobs /\ running[u] # Idle
  BY <1>0, CompileStepEffect, WorkerWrites DEF CompileJobs, Idle
<1>2. /\ pool' = pool /\ \A v \in Workers \ {u} : running'[v] = running[v]
      /\ Elems(tasks) \subseteq Elems(tasks')
  BY <1>1 DEF WorkerEffect
<1>3. \A db : FreshIn(db, w) => \A g \in Members[w] : db[g] = Text(g)' BY DEF FreshIn
<1>4. CASE QueuedFor(w) \/ Retries(w) BY <1>2, <1>4 DEF QueuedFor, Retries, FreshFor
<1>5. CASE running[u].ws # w /\ ~(QueuedFor(w) \/ Retries(w))
  <2>1. workspaces'[w] = workspaces[w] BY <1>0, <1>5, WorkerWrites
  <2>2. running'[u] = Idle \/ running'[u].ws # w
    BY <1>1, <1>5 DEF WorkerEffect, SameWork
  <2>3. \A v \in Workers : HasRead(v, w)' <=> HasRead(v, w)
    BY <1>2, <1>5, <2>2 DEF HasRead
  <2>4. CASE \E v \in Workers : WillRead(v, w)
    BY <1>2, <1>5, <2>4 DEF WillRead, FreshFor
  <2>5. CASE \E v \in Workers :
                HasRead(v, w) /\ (running[v].ok => FreshIn(running[v].db, w))
    BY <1>2, <1>3, <1>5, <2>5 DEF HasRead, FreshFor, FreshIn
  <2>6. CASE /\ \A v \in Workers : ~HasRead(v, w)
             /\ workspaces[w].state = "ready" => FreshIn(workspaces[w].db, w)
    <3>1. workspaces'[w].state = "ready" => FreshIn(workspaces[w].db, w)'
      BY <1>3, <2>1, <2>6 DEF FreshIn
    <3>2. QED BY <2>3, <2>6, <3>1 DEF FreshFor
  <2>7. QED BY <1>5, <2>4, <2>5, <2>6 DEF FreshFor
<1>6. CASE running[u].ws = w /\ ~(QueuedFor(w) \/ Retries(w))
  <2>0. \A v \in Workers \ {u} :
            /\ ~HasRead(v, w) /\ ~WillRead(v, w) /\ ~HasRead(v, w)' /\ ~WillRead(v, w)'
    BY <1>1, <1>2, <1>6 DEF OneAtATime, HasRead, WillRead
  <2>1. CASE running[u].step \in {"diags", "mark"}
    <3>1. /\ running'[u].ws = w /\ running'[u].step \in {"mark", "load"}
          /\ running'[u].kind = "compile"
      BY <1>0, <1>1, <1>6, <2>1, JobMoves DEF CompileJobs
    <3>2. WillRead(u, w)' BY <3>1 DEF WillRead, Idle
    <3>3. QED BY <3>2 DEF FreshFor
  <2>2. CASE running[u].step = "load" /\ running'[u] = Idle
    <3>1. workspaces'[w] = workspaces[w] BY <1>0, <2>2, WorkerWrites
    <3>2. workspaces'[w].state # "ready" BY <1>1, <1>6, <2>2, <3>1 DEF MarkedNotReady
    <3>3. \A v \in Workers : ~HasRead(v, w)' BY <2>0, <2>2 DEF HasRead
    <3>4. QED BY <3>2, <3>3 DEF FreshFor
  <2>3. CASE running[u].step = "load" /\ running'[u] # Idle
    <3>1. PICK ok, seen \in BOOLEAN :
             /\ ok => seen
             /\ running'[u] = [running[u] EXCEPT !.step = "publish", !.ok = ok,
                                                 !.db = Program(w, seen)]
      BY <1>0, <1>6, <2>3, JobMoves
    <3>2. /\ running'[u].ws = w /\ running'[u].step = "publish"
          /\ running'[u].kind = "compile" /\ running'[u].db = Program(w, seen)
          /\ running'[u].ok = ok
      BY <1>1, <1>6, <3>1 DEF CompileJobs
    <3>3. HasRead(u, w)' BY <3>2 DEF HasRead, Idle
    <3>4. seen => \A g \in Members[w] : Program(w, seen)[g] = Text(g)
      BY DocumentsAssumption DEF Program
    <3>5. (running[u].ok => FreshIn(running[u].db, w))'
      BY <3>1, <3>2, <3>4 DEF FreshIn
    <3>6. QED BY <3>3, <3>5 DEF FreshFor
  <2>4. CASE running[u].step = "publish"
    <3>1. /\ running'[u].ws = w /\ running'[u].step = "install"
          /\ running'[u].kind = "compile" /\ running'[u].db = running[u].db
          /\ running'[u].ok = running[u].ok
      BY <1>0, <1>1, <1>6, <2>4, JobMoves DEF CompileJobs
    <3>2. HasRead(u, w)' BY <3>1 DEF HasRead, Idle
    <3>3. running[u].ok => FreshIn(running[u].db, w)
      BY <1>1, <1>6, <2>0, <2>4 DEF FreshFor, HasRead, WillRead
    <3>4. (running[u].ok => FreshIn(running[u].db, w))' BY <1>3, <3>1, <3>3 DEF FreshIn
    <3>5. QED BY <3>2, <3>4 DEF FreshFor
  <2>5. CASE running[u].step = "install"
    <3>1. running[u].ok => FreshIn(running[u].db, w)
      BY <1>1, <1>6, <2>0, <2>5 DEF FreshFor, HasRead, WillRead
    <3>2. Install(u)
      BY <2>5 DEF CompileStep, ReadOldDiags, MarkCompiling, Compile, CompilePanics,
         PublishDiagnostics, InsertTemporary, AtStep
    <3>3. workspaces'[w] = Result(running[u])
      BY <1>0, <1>6, <3>2 DEF Install, DocumentsTypeOK
    <3>4. workspaces'[w].state = "ready" => FreshIn(workspaces[w].db, w)'
      BY <1>3, <3>1, <3>3 DEF FreshIn, Result, Ready, Failed
    <3>5. running'[u] = Idle \/ running'[u].step = "insert"
      BY <1>0, <1>1, <2>5, JobMoves DEF CompileJobs
    <3>6. \A v \in Workers : ~HasRead(v, w)' BY <2>0, <3>5 DEF HasRead
    <3>7. QED BY <3>4, <3>6 DEF FreshFor
  <2>6. CASE running[u].step = "insert"
    <3>1. workspaces'[w] = workspaces[w] BY <1>0, <2>6, WorkerWrites
    <3>2. running'[u] = Idle BY <1>0, <1>1, <2>6, JobMoves DEF CompileJobs
    <3>3. \A v \in Workers : ~HasRead(v, w)' BY <2>0, <3>2 DEF HasRead
    <3>4. workspaces[w].state = "ready" => FreshIn(workspaces[w].db, w)
      BY <1>6, <2>0, <2>6 DEF FreshFor, HasRead, WillRead
    <3>5. workspaces'[w].state = "ready" => FreshIn(workspaces[w].db, w)'
      BY <1>3, <3>1, <3>4 DEF FreshIn
    <3>6. QED BY <3>3, <3>5 DEF FreshFor
  <2>7. QED BY <1>1, <2>1, <2>2, <2>3, <2>4, <2>5, <2>6 DEF CompileJobs, Steps
<1>7. QED BY <1>4, <1>5, <1>6

\* Only ChangeKind::Modify takes a retry out of the channel.
LEMMA RetriesStay ==
    ASSUME DocumentsTypeOK, [DocumentsNext]_documentsAll, main' # "panicked",
           NEW w \in WorkSpaces, ~\E f \in Members[w] : f \in Files /\ ModifyStep(f),
           Members[w] \subseteq Files, Retries(w)
    PROVE  Retries(w)'
<1>1. PICK g \in Members[w] : ChangedFile(g, "modify") \in Elems(tasks) BY DEF Retries
<1>2. SUFFICES ChangedFile(g, "modify") \in Elems(tasks') BY DEF Retries
<1>3. /\ \A f : ChangedFile(g, "modify") # ReOpenFile(f)
      /\ \A f : ChangedFile(g, "modify") # ChangedFile(f, "create")
      /\ \A f : f # g => ChangedFile(g, "modify") # ChangedFile(f, "modify")
      /\ \A f, v : ChangedFile(g, "modify") # Notify(f, v)
  BY DEF ChangedFile, ReOpenFile, Notify
<1>4. CASE UNCHANGED tasks BY <1>1, <1>4
<1>5. ASSUME NEW f \in Files, CreateStep(f) PROVE ChangedFile(g, "modify") \in Elems(tasks')
  BY <1>1, <1>3, <1>5, CreateFinds
<1>6. ASSUME NEW f \in Files, ModifyStep(f) PROVE ChangedFile(g, "modify") \in Elems(tasks')
  BY <1>1, <1>3, <1>6, ModifyForgets
<1>7. ASSUME NEW f \in Files, HandleNotify(f)
      PROVE  ChangedFile(g, "modify") \in Elems(tasks')
  <2>1. PICK v \in Versions : Receive(Notify(f, v)) BY <1>7 DEF HandleNotify
  <2>2. /\ tasks' = Tail(tasks) /\ tasks # <<>> /\ Head(tasks) = Notify(f, v)
        /\ tasks \in Seq(DocumentTasks)
    BY <1>7, <2>1 DEF HandleNotify, Receive, DocumentsTypeOK
  <2>3. Elems(tasks) = {Head(tasks)} \cup Elems(tasks') BY <2>2, ElemsOfTail
  <2>4. QED BY <1>1, <1>3, <2>2, <2>3
<1>8. ASSUME NEW u \in Workers, CompileStep(u)
      PROVE  ChangedFile(g, "modify") \in Elems(tasks')
  BY <1>1, <1>8, CompileStepEffect DEF WorkerEffect
<1>9. QED
  BY <1>4, <1>5, <1>6, <1>7, <1>8, StepCases
     DEF DidClose, FinishClose, StartJob, Exit, documentsAll, runtimeVars

LEMMA FreshOrPendingStep ==
    ASSUME SettledInv, OneAtATime, FreshInv, [DocumentsNext]_documentsAll,
           [EditsReach]_documentsAll
    PROVE  FreshOrPending'
<1> SUFFICES ASSUME Alive', NEW w \in WorkSpaces PROVE FreshFor(w)'
  BY DEF FreshOrPending
<1>0. /\ DocumentsTypeOK /\ Members[w] \subseteq Files
      /\ SavedWhenClosed /\ QueuedNew /\ MarkedNotReady
      /\ main' # "panicked" /\ main' # "exited"
      /\ Alive => FreshFor(w)
  BY DocumentsAssumption DEF SettledInv, DocumentsInv, FreshInv, FreshOrPending, Alive
<1>a. CASE UNCHANGED documentsAll
  <2>1. Alive => Alive' BY <1>a DEF documentsAll, runtimeVars, Alive
  <2>2. Alive BY <1>a DEF documentsAll, runtimeVars, Alive
  <2>3. \A g \in Members[w] : Text(g)' = Text(g)
    BY <1>a DEF documentsAll, documentVars, textVars, Text, InVfs
  <2>4. /\ running' = running /\ workspaces' = workspaces /\ pool' = pool
        /\ Retries(w)' = Retries(w)
    BY <1>a DEF documentsAll, documentVars, runtimeVars, Retries
  <2>5. QED BY <1>0, <2>2, <2>3, <2>4, FreshStays
<1>b. SUFFICES ASSUME documentsAll' # documentsAll PROVE FreshFor(w)'
  BY <1>a
<1>c. EditsReach BY <1>b
<1>d. FreshFor(w)
  <2>1. Alive
    BY <1>0, <1>b, StepCases, CreateStepEffect, ModifyStepEffect
       DEF Created, Modified, DidClose, FinishClose, HandleNotify, Receive, Listening,
           ClientActs, StartJob, Exit, CompileStep, ReadOldDiags, MarkCompiling, Compile,
           CompilePanics, PublishDiagnostics, Install, InsertTemporary, AtStep, Alive
  <2>2. QED BY <1>0, <2>1
<1>1. CASE \E f \in Members[w] : f \in Files /\ ModifyStep(f)
  <2>1. PICK f \in Members[w] : f \in Files /\ ModifyStep(f) BY <1>1
  <2>2. Retried(f) \/ ReachesAll(f) BY <1>c, <2>1 DEF EditsReach
  <2>3. QED BY <1>0, <2>1, <2>2, EditIsCompiled
<1>2. CASE ~\E f \in Members[w] : f \in Files /\ ModifyStep(f)
  <2>0. /\ \A g \in Members[w] : Text(g)' = Text(g)
        /\ Retries(w) => Retries(w)'
    <3>1. \A g \in Members[w] : g \in Files /\ ~DidChange(g) BY <1>0, <1>2 DEF ModifyStep
    <3>2. QED BY <1>0, <1>2, <3>1, TextStays, RetriesStay
  <2>1. CASE running' = running /\ workspaces' = workspaces /\ Elems(pool) \subseteq Elems(pool')
    BY <1>d, <2>0, <2>1, FreshStays
  <2>2. ASSUME NEW f \in Files, CreateStep(f) PROVE FreshFor(w)'
    BY <1>0, <2>1, <2>2, CreateStepEffect DEF Created
  <2>3. ASSUME NEW f \in Files, ModifyStep(f) PROVE FreshFor(w)'
    BY <1>0, <2>1, <2>3, ModifyStepEffect DEF Modified
  <2>4. ASSUME NEW f \in Files, FinishClose(f) PROVE FreshFor(w)'
    <3>1. running' = running /\ pool' = pool BY <2>4 DEF FinishClose
    <3>2. workspaces'[w] = workspaces[w] \/ workspaces'[w].state = "absent"
      BY <2>4 DEF FinishClose, ProcessDelete, Absent
    <3>3. QED BY <1>d, <2>0, <3>1, <3>2, FreshStays
  <2>5. ASSUME NEW u \in Workers, StartJob(u), UNCHANGED documentVars PROVE FreshFor(w)'
    <3>1. /\ running[u] = Idle /\ running'[u] = Head(pool)
          /\ \A v \in Workers \ {u} : running'[v] = running[v]
          /\ Elems(pool) = {Head(pool)} \cup Elems(pool')
          /\ Head(pool) \in CompileJobs /\ Head(pool).step = "diags"
      BY <1>0, <2>5, StartJobEffect DEF StartJob, DocumentsTypeOK, QueuedNew
    <3>2. workspaces' = workspaces BY <2>5 DEF documentVars
    <3>3. CASE QueuedFor(w)
      <4>1. PICK job \in Elems(pool) : job.ws = w BY <3>3 DEF QueuedFor
      <4>2. CASE job = Head(pool)
        <5>1. WillRead(u, w)' BY <3>1, <4>1, <4>2 DEF WillRead, CompileJobs, Idle
        <5>2. QED BY <5>1 DEF FreshFor
      <4>3. CASE job \in Elems(pool') BY <4>1, <4>3 DEF FreshFor, QueuedFor
      <4>4. QED BY <3>1, <4>2, <4>3
    <3>4. CASE Retries(w) BY <2>0, <3>4 DEF FreshFor
    <3>5. \A v \in Workers : HasRead(v, w)' <=> HasRead(v, w)
      BY <3>1 DEF HasRead
    <3>6. CASE \E v \in Workers : WillRead(v, w)
      BY <3>1, <3>6 DEF WillRead, FreshFor
    <3>7. CASE \E v \in Workers :
                  HasRead(v, w) /\ (running[v].ok => FreshIn(running[v].db, w))
      <4>1. PICK v \in Workers :
               HasRead(v, w) /\ (running[v].ok => FreshIn(running[v].db, w))
        BY <3>7
      <4>2. v # u BY <3>1, <4>1 DEF HasRead
      <4>3. HasRead(v, w)' /\ (running[v].ok => FreshIn(running[v].db, w))'
        BY <2>0, <3>1, <3>5, <4>1, <4>2 DEF FreshIn
      <4>4. QED BY <4>3 DEF FreshFor
    <3>8. CASE /\ \A v \in Workers : ~HasRead(v, w)
               /\ workspaces[w].state = "ready" => FreshIn(workspaces[w].db, w)
      <4>1. workspaces'[w].state = "ready" => FreshIn(workspaces[w].db, w)'
        BY <2>0, <3>2, <3>8 DEF FreshIn
      <4>2. QED BY <3>5, <3>8, <4>1 DEF FreshFor
    <3>9. QED BY <1>d, <3>3, <3>4, <3>6, <3>7, <3>8 DEF FreshFor
  <2>6. ASSUME NEW u \in Workers, CompileStep(u) PROVE FreshFor(w)'
    BY <1>0, <1>d, <2>0, <2>6, CompileStepFresh
  <2>7. QED
    BY <1>b, <2>1, <2>2, <2>3, <2>4, <2>5, <2>6, StepCases
       DEF DidClose, HandleNotify, Exit, documentVars, runtimeVars
<1>3. QED BY <1>1, <1>2

(***************************************************************************)
(* Once the server has settled, the database a request on an opened file   *)
(* is answered from was made from the text the client sees, for any number *)
(* of workers and a compiler that may fail and panic, as long as three     *)
(* things do not happen: two workers compile one workspace at the same     *)
(* time, so that the older result may be installed last; an edit is        *)
(* compiled for other workspaces than those that have read the file, and   *)
(* not sent again; the client closes a file and discards its edits. The    *)
(* edits made while the file waits for its workspace, which are sent again *)
(* until it has one, are not lost.                                         *)
(***************************************************************************)
THEOREM SettledDatabasesFresh ==
    DocumentsSpec /\ []OneAtATime /\ [][EditsReach]_documentsAll => []SettledFresh
<1>1. DocumentsStart => FreshInv
  <2> SUFFICES ASSUME DocumentsStart PROVE FreshInv
    OBVIOUS
  <2>1. \A u \in Workers : running[u] = Idle BY DEF DocumentsStart, RuntimeInit
  <2>2. \A w \in WorkSpaces : FreshFor(w)
    BY <2>1 DEF FreshFor, HasRead, DocumentsStart, DocumentsInit, Absent
  <2>3. QED
    BY <2>1, <2>2
       DEF FreshInv, FreshOrPending, SavedWhenClosed, MarkedNotReady, DocumentsStart,
           DocumentsInit
<1>2. /\ SettledInv /\ OneAtATime /\ FreshInv /\ [DocumentsNext]_documentsAll
      /\ [EditsReach]_documentsAll
      => FreshInv'
  BY SavedStep, MarkedNotReadyStep, FreshOrPendingStep DEF FreshInv
<1>3. SettledInv /\ FreshInv => SettledFresh
  <2> SUFFICES ASSUME SettledInv, FreshInv, Quiescent, NEW f \in opened,
                      NEW w \in AttachedTo(f), workspaces[w].state = "ready",
                      f \in Members[w]
               PROVE  workspaces[w].db[f] = vfs[f]
    BY DEF SettledFresh
  <2>1. w \in WorkSpaces /\ Alive
    BY DEF SettledInv, DocumentsInv, DocumentsTypeOK, AttachedTo, TemporaryEntries,
       NoEntry, InCompiling, Temporary, Quiescent, Listening, Alive
  <2>2. ~QueuedFor(w) /\ ~Retries(w) BY DEF QueuedFor, Retries, Elems, Quiescent
  <2>3. \A u \in Workers : running[u] = Idle BY DEF Quiescent
  <2>4. FreshIn(workspaces[w].db, w)
    BY <2>1, <2>2, <2>3 DEF FreshInv, FreshOrPending, FreshFor, WillRead, HasRead
  <2>5. QED BY <2>4 DEF FreshIn, Text, InVfs
<1>4. QED BY <1>1, <1>2, <1>3, SettledInvAlways, PTL DEF DocumentsSpec

=============================================================================
