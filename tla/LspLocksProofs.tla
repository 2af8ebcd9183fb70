--------------------------- MODULE LspLocksProofs ---------------------------
(***************************************************************************)
(* The one circular wait the locks of the language server allow, for any   *)
(* number of workers. There is no order on the locks that every handler    *)
(* follows: ChangeKind::Create locks the workspaces before the temporary   *)
(* ones and ChangeKind::Delete the other way round. What holds is an order *)
(* on the operations a thread may wait at, together with what it may hold  *)
(* there, with one exception: the failure arm of a compile job.            *)
(***************************************************************************)
EXTENDS LspLocks, TLAPS

Ops == [op : {"read", "write", "try_read", "drop"}, lock : Locks]
Modes == {"read", "write"}

\* Which handlers the main thread runs and which jobs the pool.
RolesAsInCode ==
    /\ MainHandlers \subseteq {"open_recorded", "open_temporary", "change", "close"}
    /\ Jobs \subseteq {"compile", "compile_fails", "request"}

HandlersOf(t) == IF t = Main THEN MainHandlers ELSE Jobs

\* Operation o takes lock x[1] in mode x[2].
Takes(o, x) ==
    /\ o.lock = x[1]
    /\ \/ o.op = "write" /\ x[2] = "write"
       \/ o.op \in {"read", "try_read"} /\ x[2] = "read"

\* The locks that the first i operations of program P take and do not release.
HeldAt(P, i) ==
    {x \in Locks \X Modes :
        \E j \in 1..i : Takes(P[j], x) /\ \A k \in (j + 1)..i : P[k] # Drop(x[1])}

\* The main thread may hold lock x while it waits at operation o.
MainMayHold(o, x) ==
    \/ /\ o = Write("opened_files")
       /\ x \in {<<"vfs", "read">>, <<"vfs", "write">>, <<"workspaces", "read">>}
    \/ /\ o = Read("opened_files")
       /\ x \in {<<"temporary_workspace", "write">>, <<"workspaces", "write">>}
    \/ /\ o = Read("vfs")
       /\ x \in {<<"workspaces", "read">>, <<"opened_files", "read">>}
    \/ o = Write("temporary_workspace") /\ x = <<"workspaces", "read">>
    \/ o = Read("temporary_workspace") /\ x = <<"opened_files", "read">>
    \/ o = Write("workspaces") /\ x = <<"temporary_workspace", "write">>

\* So may a worker with job h.
JobMayHold(h, o, x) ==
    \/ o = Read("opened_files") /\ x = <<"vfs", "read">>
    \/ /\ o = Read("temporary_workspace")
       /\ x \in {<<"vfs", "read">>, <<"opened_files", "read">>}
    \/ /\ o = Write("temporary_workspace") /\ h = "compile_fails"
       /\ x = <<"workspaces", "write">>

\* Handler h of the main thread waits at the operations of Write("workspaces")
\* only in ChangeKind::Delete; no job writes the Vfs or the opened files.
MainWaitsAt(h, o) == o = Write("workspaces") => h = "close"
JobWaitsAt(h, o) == o \notin {Write("vfs"), Write("opened_files")}

\* What the proof uses of a program: everything is released at its end, and
\* where it may wait it holds what the tables say.
MainProgram(h) ==
    LET P == Program(h) IN
    /\ P \in Seq(Ops)
    /\ \A i \in 0..Len(P) : \A x \in HeldAt(P, i) :
          /\ i # Len(P)
          /\ P[i + 1].op \in Modes => MainMayHold(P[i + 1], x)
    /\ \A i \in 1..Len(P) : MainWaitsAt(h, P[i])
JobProgram(h) ==
    LET P == Program(h) IN
    /\ P \in Seq(Ops)
    /\ \A i \in 0..Len(P) : \A x \in HeldAt(P, i) :
          /\ i # Len(P)
          /\ P[i + 1].op \in Modes => JobMayHold(h, P[i + 1], x)
    /\ \A i \in 1..Len(P) : JobWaitsAt(h, P[i])

-----------------------------------------------------------------------------
LEMMA OpsOfLocks ==
    \A l \in Locks : {Read(l), Write(l), TryRead(l), Drop(l)} \subseteq Ops
  BY DEF Ops, Read, Write, Drop, TryRead

LEMMA OpenRecordedProgram == MainProgram("open_recorded")
<1> DEFINE P == Program("open_recorded")
<1>1. P = OpenRecorded
  BY DEF Program
<1> HIDE DEF P
<1>2. OpenRecorded \in Seq(Ops)
  BY OpsOfLocks DEF OpenRecorded, TakeChange, Writing, Reading, Locks
<1>3. P \in Seq(Ops) BY <1>1, <1>2
<1>4. /\ Len(P) = 16 /\ P[1] = Write("vfs")
      /\ P[2] = Write("opened_files") /\ P[3] = Drop("opened_files")
      /\ P[4] = Drop("vfs") /\ P[5] = Write("vfs") /\ P[6] = Drop("vfs")
      /\ P[7] = Read("vfs") /\ P[8] = Drop("vfs")
      /\ P[9] = Read("workspaces")
      /\ P[10] = Write("temporary_workspace")
      /\ P[11] = Drop("temporary_workspace")
      /\ P[12] = Write("opened_files") /\ P[13] = Drop("opened_files")
      /\ P[14] = Write("temporary_workspace")
      /\ P[15] = Drop("temporary_workspace")
      /\ P[16] = Drop("workspaces")
  BY <1>1
     DEF OpenRecorded, TakeChange, Writing, Reading
<1>5. ASSUME NEW i \in 0..16, NEW x \in HeldAt(P, i)
      PROVE  /\ i # 16
             /\ P[i + 1].op \in Modes => MainMayHold(P[i + 1], x)
  <2>1. PICK j \in 1..i :
            Takes(P[j], x) /\ \A k \in (j + 1)..i : P[k] # Drop(x[1])
    BY <1>5 DEF HeldAt
  <2>2. j \in {1, 2, 3, 4, 5, 6, 7, 8, 9, 10, 11, 12, 13, 14, 15, 16} /\ j <= i
    OBVIOUS
  <2>3. x \in Locks \X Modes BY <1>5 DEF HeldAt
  <2>4. QED
    BY <1>4, <2>1, <2>2, <2>3
       DEF Takes, Read, Write, TryRead, Drop, Modes, MainMayHold
<1>6. \A i \in 1..16 : MainWaitsAt("open_recorded", P[i])
  BY <1>4 DEF MainWaitsAt, Read, Write, TryRead, Drop
<1>7. QED BY <1>3, <1>4, <1>5, <1>6 DEF MainProgram, P

LEMMA OpenTemporaryProgram == MainProgram("open_temporary")
<1> DEFINE P == Program("open_temporary")
<1>1. P = OpenTemporary
  BY DEF Program
<1> HIDE DEF P
<1>2. OpenTemporary \in Seq(Ops)
  BY OpsOfLocks DEF OpenTemporary, TakeChange, AsyncCompile, Writing, Reading, Locks
<1>3. P \in Seq(Ops) BY <1>1, <1>2
<1>4. /\ Len(P) = 14 /\ P[1] = Write("vfs")
      /\ P[2] = Write("opened_files") /\ P[3] = Drop("opened_files")
      /\ P[4] = Drop("vfs") /\ P[5] = Write("vfs") /\ P[6] = Drop("vfs")
      /\ P[7] = Read("vfs") /\ P[8] = Drop("vfs")
      /\ P[9] = Read("workspaces")
      /\ P[10] = Write("temporary_workspace")
      /\ P[11] = Drop("temporary_workspace") /\ P[12] = Read("vfs")
      /\ P[13] = Drop("vfs") /\ P[14] = Drop("workspaces")
  BY <1>1
     DEF OpenTemporary, TakeChange, AsyncCompile, Writing, Reading
<1>5. ASSUME NEW i \in 0..14, NEW x \in HeldAt(P, i)
      PROVE  /\ i # 14
             /\ P[i + 1].op \in Modes => MainMayHold(P[i + 1], x)
  <2>1. PICK j \in 1..i :
            Takes(P[j], x) /\ \A k \in (j + 1)..i : P[k] # Drop(x[1])
    BY <1>5 DEF HeldAt
  <2>2. j \in {1, 2, 3, 4, 5, 6, 7, 8, 9, 10, 11, 12, 13, 14} /\ j <= i
    OBVIOUS
  <2>3. x \in Locks \X Modes BY <1>5 DEF HeldAt
  <2>4. QED
    BY <1>4, <2>1, <2>2, <2>3
       DEF Takes, Read, Write, TryRead, Drop, Modes, MainMayHold
<1>6. \A i \in 1..14 : MainWaitsAt("open_temporary", P[i])
  BY <1>4 DEF MainWaitsAt, Read, Write, TryRead, Drop
<1>7. QED BY <1>3, <1>4, <1>5, <1>6 DEF MainProgram, P

LEMMA ChangeProgram == MainProgram("change")
<1> DEFINE P == Program("change")
<1>1. P = Change
  BY DEF Program
<1> HIDE DEF P
<1>2. Change \in Seq(Ops)
  BY OpsOfLocks DEF Change, TakeChange, AsyncCompile, Writing, Reading, Locks
<1>3. P \in Seq(Ops) BY <1>1, <1>2
<1>4. /\ Len(P) = 14 /\ P[1] = Write("vfs")
      /\ P[2] = Write("opened_files") /\ P[3] = Drop("opened_files")
      /\ P[4] = Drop("vfs") /\ P[5] = Write("vfs") /\ P[6] = Drop("vfs")
      /\ P[7] = Read("vfs") /\ P[8] = Drop("vfs")
      /\ P[9] = Read("opened_files")
      /\ P[10] = Read("temporary_workspace")
      /\ P[11] = Drop("temporary_workspace") /\ P[12] = Read("vfs")
      /\ P[13] = Drop("vfs") /\ P[14] = Drop("opened_files")
  BY <1>1
     DEF Change, TakeChange, AsyncCompile, Writing, Reading
<1>5. ASSUME NEW i \in 0..14, NEW x \in HeldAt(P, i)
      PROVE  /\ i # 14
             /\ P[i + 1].op \in Modes => MainMayHold(P[i + 1], x)
  <2>1. PICK j \in 1..i :
            Takes(P[j], x) /\ \A k \in (j + 1)..i : P[k] # Drop(x[1])
    BY <1>5 DEF HeldAt
  <2>2. j \in {1, 2, 3, 4, 5, 6, 7, 8, 9, 10, 11, 12, 13, 14} /\ j <= i
    OBVIOUS
  <2>3. x \in Locks \X Modes BY <1>5 DEF HeldAt
  <2>4. QED
    BY <1>4, <2>1, <2>2, <2>3
       DEF Takes, Read, Write, TryRead, Drop, Modes, MainMayHold
<1>6. \A i \in 1..14 : MainWaitsAt("change", P[i])
  BY <1>4 DEF MainWaitsAt, Read, Write, TryRead, Drop
<1>7. QED BY <1>3, <1>4, <1>5, <1>6 DEF MainProgram, P

LEMMA CloseProgram == MainProgram("close")
<1> DEFINE P == Program("close")
<1>1. P = CloseNotification \o TakeChange \o Delete
  BY DEF Program
<1> HIDE DEF P
<1>2. CloseNotification \o TakeChange \o Delete \in Seq(Ops)
  BY OpsOfLocks DEF CloseNotification, TakeChange, Delete, Writing, Reading, Locks
<1>3. P \in Seq(Ops) BY <1>1, <1>2
<1>4. /\ Len(P) = 16 /\ P[1] = Read("vfs")
      /\ P[2] = Write("opened_files") /\ P[3] = Drop("opened_files")
      /\ P[4] = Drop("vfs") /\ P[5] = Write("vfs") /\ P[6] = Drop("vfs")
      /\ P[7] = Write("vfs") /\ P[8] = Drop("vfs") /\ P[9] = Read("vfs")
      /\ P[10] = Drop("vfs") /\ P[11] = Write("temporary_workspace")
      /\ P[12] = Write("workspaces") /\ P[13] = Read("opened_files")
      /\ P[14] = Drop("opened_files") /\ P[15] = Drop("workspaces")
      /\ P[16] = Drop("temporary_workspace")
  BY <1>1
     DEF CloseNotification, TakeChange, Delete, Writing, Reading
<1>5. ASSUME NEW i \in 0..16, NEW x \in HeldAt(P, i)
      PROVE  /\ i # 16
             /\ P[i + 1].op \in Modes => MainMayHold(P[i + 1], x)
  <2>1. PICK j \in 1..i :
            Takes(P[j], x) /\ \A k \in (j + 1)..i : P[k] # Drop(x[1])
    BY <1>5 DEF HeldAt
  <2>2. j \in {1, 2, 3, 4, 5, 6, 7, 8, 9, 10, 11, 12, 13, 14, 15, 16} /\ j <= i
    OBVIOUS
  <2>3. x \in Locks \X Modes BY <1>5 DEF HeldAt
  <2>4. QED
    BY <1>4, <2>1, <2>2, <2>3
       DEF Takes, Read, Write, TryRead, Drop, Modes, MainMayHold
<1>6. \A i \in 1..16 : MainWaitsAt("close", P[i])
  BY <1>4 DEF MainWaitsAt, Read, Write, TryRead, Drop
<1>7. QED BY <1>3, <1>4, <1>5, <1>6 DEF MainProgram, P

LEMMA CompileProgram == JobProgram("compile")
<1> DEFINE P == Program("compile")
<1>1. P = CompileUntilResult \o InstallReady
  BY DEF Program
<1> HIDE DEF P
<1>2. CompileUntilResult \o InstallReady \in Seq(Ops)
  BY OpsOfLocks DEF CompileUntilResult, InstallReady, Writing, Reading, Locks
<1>3. P \in Seq(Ops) BY <1>1, <1>2
<1>4. /\ Len(P) = 10 /\ P[1] = Read("workspaces")
      /\ P[2] = Drop("workspaces") /\ P[3] = Write("workspaces")
      /\ P[4] = Drop("workspaces") /\ P[5] = Read("vfs")
      /\ P[6] = Drop("vfs") /\ P[7] = Write("workspaces")
      /\ P[8] = Drop("workspaces")
      /\ P[9] = Write("temporary_workspace")
      /\ P[10] = Drop("temporary_workspace")
  BY <1>1
     DEF CompileUntilResult, InstallReady, Writing, Reading
<1>5. ASSUME NEW i \in 0..10, NEW x \in HeldAt(P, i)
      PROVE  /\ i # 10
             /\ P[i + 1].op \in Modes => JobMayHold("compile", P[i + 1], x)
  <2>1. PICK j \in 1..i :
            Takes(P[j], x) /\ \A k \in (j + 1)..i : P[k] # Drop(x[1])
    BY <1>5 DEF HeldAt
  <2>2. j \in {1, 2, 3, 4, 5, 6, 7, 8, 9, 10} /\ j <= i
    OBVIOUS
  <2>3. x \in Locks \X Modes BY <1>5 DEF HeldAt
  <2>4. QED
    BY <1>4, <2>1, <2>2, <2>3
       DEF Takes, Read, Write, TryRead, Drop, Modes, JobMayHold
<1>6. \A i \in 1..10 : JobWaitsAt("compile", P[i])
  BY <1>4 DEF JobWaitsAt, Read, Write, TryRead, Drop
<1>7. QED BY <1>3, <1>4, <1>5, <1>6 DEF JobProgram, P

LEMMA CompileFailsProgram == JobProgram("compile_fails")
<1> DEFINE P == Program("compile_fails")
<1>1. P = CompileUntilResult \o InstallFailed
  BY DEF Program
<1> HIDE DEF P
<1>2. CompileUntilResult \o InstallFailed \in Seq(Ops)
  BY OpsOfLocks DEF CompileUntilResult, InstallFailed, Writing, Reading, Locks
<1>3. P \in Seq(Ops) BY <1>1, <1>2
<1>4. /\ Len(P) = 10 /\ P[1] = Read("workspaces")
      /\ P[2] = Drop("workspaces") /\ P[3] = Write("workspaces")
      /\ P[4] = Drop("workspaces") /\ P[5] = Read("vfs")
      /\ P[6] = Drop("vfs") /\ P[7] = Write("workspaces")
      /\ P[8] = Write("temporary_workspace")
      /\ P[9] = Drop("temporary_workspace")
      /\ P[10] = Drop("workspaces")
  BY <1>1
     DEF CompileUntilResult, InstallFailed, Writing, Reading
<1>5. ASSUME NEW i \in 0..10, NEW x \in HeldAt(P, i)
      PROVE  /\ i # 10
             /\ P[i + 1].op \in Modes => JobMayHold("compile_fails", P[i + 1], x)
  <2>1. PICK j \in 1..i :
            Takes(P[j], x) /\ \A k \in (j + 1)..i : P[k] # Drop(x[1])
    BY <1>5 DEF HeldAt
  <2>2. j \in {1, 2, 3, 4, 5, 6, 7, 8, 9, 10} /\ j <= i
    OBVIOUS
  <2>3. x \in Locks \X Modes BY <1>5 DEF HeldAt
  <2>4. QED
    BY <1>4, <2>1, <2>2, <2>3
       DEF Takes, Read, Write, TryRead, Drop, Modes, JobMayHold
<1>6. \A i \in 1..10 : JobWaitsAt("compile_fails", P[i])
  BY <1>4 DEF JobWaitsAt, Read, Write, TryRead, Drop
<1>7. QED BY <1>3, <1>4, <1>5, <1>6 DEF JobProgram, P

LEMMA RequestProgram == JobProgram("request")
<1> DEFINE P == Program("request")
<1>1. P = Reading("vfs") \o TryGetDbState
  BY DEF Program
<1> HIDE DEF P
<1>2. Reading("vfs") \o TryGetDbState \in Seq(Ops)
  BY OpsOfLocks DEF TryGetDbState, Reading, Locks
<1>3. P \in Seq(Ops) BY <1>1, <1>2
<1>4. /\ Len(P) = 10 /\ P[1] = Read("vfs") /\ P[2] = Drop("vfs")
      /\ P[3] = TryRead("vfs") /\ P[4] = Read("opened_files")
      /\ P[5] = Read("temporary_workspace")
      /\ P[6] = TryRead("workspaces") /\ P[7] = Drop("workspaces")
      /\ P[8] = Drop("temporary_workspace")
      /\ P[9] = Drop("opened_files") /\ P[10] = Drop("vfs")
  BY <1>1
     DEF TryGetDbState, Reading
<1>5. ASSUME NEW i \in 0..10, NEW x \in HeldAt(P, i)
      PROVE  /\ i # 10
             /\ P[i + 1].op \in Modes => JobMayHold("request", P[i + 1], x)
  <2>1. PICK j \in 1..i :
            Takes(P[j], x) /\ \A k \in (j + 1)..i : P[k] # Drop(x[1])
    BY <1>5 DEF HeldAt
  <2>2. j \in {1, 2, 3, 4, 5, 6, 7, 8, 9, 10} /\ j <= i
    OBVIOUS
  <2>3. x \in Locks \X Modes BY <1>5 DEF HeldAt
  <2>4. QED
    BY <1>4, <2>1, <2>2, <2>3
       DEF Takes, Read, Write, TryRead, Drop, Modes, JobMayHold
<1>6. \A i \in 1..10 : JobWaitsAt("request", P[i])
  BY <1>4 DEF JobWaitsAt, Read, Write, TryRead, Drop
<1>7. QED BY <1>3, <1>4, <1>5, <1>6 DEF JobProgram, P

-----------------------------------------------------------------------------
\* Thread t has done the first i operations of handler h.
Placed(t, h, i) ==
    LET P == Program(h) IN
    /\ doing[t] = h /\ i \in 0..Len(P)
    /\ Len(todo[t]) = Len(P) - i
    /\ \A k \in 1..Len(todo[t]) : todo[t][k] = P[k + i]
    /\ held[t] \subseteq HeldAt(P, i)

Resting(t) == todo[t] = <<>> /\ held[t] = {}

\* The inductive invariant: every thread rests or is somewhere in a handler
\* and holds no more than the operations it has done took and did not release.
LocksInv ==
    /\ doing \in [Threads -> Handlers \cup {"none"}]
    /\ todo \in [Threads -> Seq(Ops)]
    /\ held \in [Threads -> SUBSET (Locks \X Modes)]
    /\ \A t \in Threads :
          Resting(t) \/ \E h \in HandlersOf(t), i \in Nat : Placed(t, h, i)

\* What one more operation does to the locks held.
LEMMA HeldNext ==
    ASSUME NEW P \in Seq(Ops), NEW i \in Nat, i < Len(P),
           NEW x \in Locks \X Modes
    PROVE  /\ x \in HeldAt(P, i) /\ P[i + 1] # Drop(x[1]) => x \in HeldAt(P, i + 1)
           /\ Takes(P[i + 1], x) => x \in HeldAt(P, i + 1)
<1>1. ASSUME x \in HeldAt(P, i), P[i + 1] # Drop(x[1])
      PROVE  x \in HeldAt(P, i + 1)
  <2>1. PICK j \in 1..i :
            Takes(P[j], x) /\ \A k \in (j + 1)..i : P[k] # Drop(x[1])
    BY <1>1 DEF HeldAt
  <2>2. \A k \in (j + 1)..(i + 1) : k \in (j + 1)..i \/ k = i + 1
    OBVIOUS
  <2>3. j \in 1..(i + 1) OBVIOUS
  <2>4. QED BY <2>1, <2>2, <2>3, <1>1 DEF HeldAt
<1>2. ASSUME Takes(P[i + 1], x) PROVE x \in HeldAt(P, i + 1)
  <2>1. i + 1 \in 1..(i + 1) /\ ((i + 1) + 1)..(i + 1) = {}
    OBVIOUS
  <2>2. QED BY <2>1, <1>2 DEF HeldAt
<1>3. QED BY <1>1, <1>2

\* The handlers' programs are as the tables say.
LEMMA ProgramsHold ==
    ASSUME RolesAsInCode
    PROVE  /\ \A h \in MainHandlers : MainProgram(h)
           /\ \A h \in Jobs : JobProgram(h)
  BY OpenRecordedProgram, OpenTemporaryProgram, ChangeProgram, CloseProgram,
     CompileProgram, CompileFailsProgram, RequestProgram DEF RolesAsInCode

LEMMA ProgramsTyped ==
    ASSUME RolesAsInCode, NEW t \in Threads, NEW h \in HandlersOf(t)
    PROVE  /\ Program(h) \in Seq(Ops)
           /\ HeldAt(Program(h), Len(Program(h))) = {}
           /\ HeldAt(Program(h), 0) = {}
<1>1. MainProgram(h) \/ JobProgram(h)
  BY ProgramsHold DEF HandlersOf
<1>2. Program(h) \in Seq(Ops)
  BY <1>1 DEF MainProgram, JobProgram
<1>3. Len(Program(h)) \in 0..Len(Program(h)) BY <1>2
<1>4. HeldAt(Program(h), Len(Program(h))) = {}
  BY <1>1, <1>3 DEF MainProgram, JobProgram
<1>5. HeldAt(Program(h), 0) = {} BY DEF HeldAt
<1>6. QED BY <1>2, <1>4, <1>5

\* A thread that has an operation to do is inside a handler.
LEMMA NextOperation ==
    ASSUME RolesAsInCode, LocksInv, NEW t \in Threads, todo[t] # <<>>
    PROVE  \E h \in HandlersOf(t), i \in Nat :
              /\ Placed(t, h, i) /\ i < Len(Program(h))
              /\ Head(todo[t]) = Program(h)[i + 1]
<1>1. PICK h \in HandlersOf(t), i \in Nat : Placed(t, h, i)
  BY DEF LocksInv, Resting
<1>2. Program(h) \in Seq(Ops) BY ProgramsTyped
<1>3. todo[t] \in Seq(Ops) BY DEF LocksInv
<1>4. Len(todo[t]) \in Nat /\ Len(todo[t]) # 0 /\ Head(todo[t]) = todo[t][1]
  BY <1>3
<1>5. i < Len(Program(h)) /\ todo[t][1] = Program(h)[i + 1]
  <2>1. PICK P : P = Program(h) OBVIOUS
  <2>2. /\ i \in 0..Len(P) /\ Len(todo[t]) = Len(P) - i
        /\ \A k \in 1..Len(todo[t]) : todo[t][k] = P[k + i]
    BY <1>1, <2>1 DEF Placed
  <2>3. P \in Seq(Ops) BY <1>2, <2>1
  <2>4. Len(P) \in Nat BY <2>3
  <2>5. i < Len(P) /\ 1 \in 1..Len(todo[t]) BY <1>4, <2>2, <2>4
  <2>6. todo[t][1] = P[1 + i] BY <2>2, <2>5, Zenon
  <2>7. 1 + i = i + 1 OBVIOUS
  <2>8. todo[t][1] = P[i + 1] BY <2>6, <2>7, Zenon
  <2>9. QED BY <2>1, <2>5, <2>8, Zenon
<1>6. QED BY <1>1, <1>4, <1>5

\* A step of thread t to the next operation keeps its place in the handler if
\* what it holds afterwards is what HeldAt says.
LEMMA AdvanceKeepsPlace ==
    ASSUME RolesAsInCode, LocksInv, NEW t \in Threads, NEW H, Advance(t, H),
           NEW h \in HandlersOf(t), NEW i \in Nat, Placed(t, h, i),
           i < Len(Program(h)), H \subseteq HeldAt(Program(h), i + 1)
    PROVE  LocksInv'
<1> DEFINE P == Program(h)
<1>1. P \in Seq(Ops) BY ProgramsTyped
<1> HIDE DEF P
<1>2. /\ todo[t] \in Seq(Ops) /\ todo \in [Threads -> Seq(Ops)]
      /\ held \in [Threads -> SUBSET (Locks \X Modes)]
  BY DEF LocksInv
<1>3. i \in 0..Len(P) /\ i < Len(P) /\ Len(todo[t]) = Len(P) - i
  BY DEF Placed, P
<1>4. Len(P) \in Nat /\ Len(todo[t]) \in Nat \ {0} /\ todo[t] # <<>>
  BY <1>1, <1>2, <1>3
<1>5. Tail(todo[t]) \in Seq(Ops) BY <1>2, <1>4
<1>6. /\ todo' = [todo EXCEPT ![t] = Tail(todo[t])] /\ held' = [held EXCEPT ![t] = H]
      /\ doing' = doing
  BY <1>2 DEF Advance
<1>7. H \subseteq Locks \X Modes BY DEF HeldAt
<1>8. /\ todo' \in [Threads -> Seq(Ops)]
      /\ held' \in [Threads -> SUBSET (Locks \X Modes)]
  BY <1>2, <1>5, <1>6, <1>7
<1>9. Placed(t, h, i + 1)'
  <2>1. todo'[t] = Tail(todo[t]) /\ held'[t] = H BY <1>2, <1>6
  <2>2. i + 1 \in 0..Len(P) BY <1>3, <1>4
  <2>3. Len(todo'[t]) = Len(P) - (i + 1) BY <1>2, <1>3, <1>4, <2>1
  <2>4. \A k \in 1..Len(todo'[t]) : todo'[t][k] = P[k + (i + 1)]
    <3>1. \A k \in 1..Len(todo'[t]) : k + 1 \in 1..Len(todo[t])
      BY <1>2, <1>4, <2>1
    <3>2. \A k \in 1..Len(todo'[t]) : todo'[t][k] = todo[t][k + 1]
      BY <1>2, <1>4, <2>1
    <3>3. \A k \in 1..Len(todo[t]) : todo[t][k] = P[k + i]
      BY DEF Placed, P
    <3>4. \A k \in 1..Len(todo'[t]) : (k + 1) + i = k + (i + 1)
      BY <1>3, <1>4
    <3>5. QED BY <3>1, <3>2, <3>3, <3>4
  <2>5. doing'[t] = h BY <1>6 DEF Placed
  <2>6. QED BY <2>1, <2>2, <2>3, <2>4, <2>5 DEF Placed, P
<1>10. ASSUME NEW u \in Threads \ {t}
       PROVE  Resting(u)' \/ \E g \in HandlersOf(u), j \in Nat : Placed(u, g, j)'
  <2>1. todo'[u] = todo[u] /\ held'[u] = held[u] /\ doing'[u] = doing[u] BY <1>2, <1>6
  <2>2. Resting(u) \/ \E g \in HandlersOf(u), j \in Nat : Placed(u, g, j)
    BY DEF LocksInv
  <2>3. QED BY <2>1, <2>2 DEF Resting, Placed
<1>11. i + 1 \in Nat OBVIOUS
<1>12. doing' \in [Threads -> Handlers \cup {"none"}] BY <1>6 DEF LocksInv
<1>13. \A u \in Threads : Resting(u)' \/ \E g \in HandlersOf(u), j \in Nat : Placed(u, g, j)'
  BY <1>9, <1>10, <1>11
<1>14. QED BY <1>8, <1>12, <1>13 DEF LocksInv, HandlersOf

\* A step of thread t after which it rests or is at the start of a handler.
LEMMA OthersKeepPlace ==
    ASSUME LocksInv, NEW t \in Threads,
           doing' \in [Threads -> Handlers \cup {"none"}],
           todo' \in [Threads -> Seq(Ops)],
           held' \in [Threads -> SUBSET (Locks \X Modes)],
           \A u \in Threads \ {t} :
               todo'[u] = todo[u] /\ held'[u] = held[u] /\ doing'[u] = doing[u],
           Resting(t)' \/ \E h \in HandlersOf(t), i \in Nat : Placed(t, h, i)'
    PROVE  LocksInv'
<1>1. ASSUME NEW u \in Threads \ {t}
      PROVE  Resting(u)' \/ \E g \in HandlersOf(u), j \in Nat : Placed(u, g, j)'
  <2>1. Resting(u) \/ \E g \in HandlersOf(u), j \in Nat : Placed(u, g, j)
    BY DEF LocksInv
  <2>2. QED BY <2>1 DEF Resting, Placed
<1>2. QED BY <1>1 DEF LocksInv, HandlersOf

LEMMA LocksInvStep ==
    ASSUME RolesAsInCode, LocksInv, [LocksNext]_lockVars
    PROVE  LocksInv'
<1>1. ASSUME NEW t \in Threads, NEW g \in Handlers, Begin(t, g)
      PROVE  LocksInv'
  <2>1. g \in HandlersOf(t) BY <1>1 DEF Begin, HandlersOf
  <2>2. Program(g) \in Seq(Ops) BY <2>1, ProgramsTyped
  <2>3. /\ todo \in [Threads -> Seq(Ops)]
        /\ held \in [Threads -> SUBSET (Locks \X Modes)]
    BY DEF LocksInv
  <2>4. /\ todo[t] = <<>> /\ todo' = [todo EXCEPT ![t] = Program(g)] /\ held' = held
        /\ doing' = [doing EXCEPT ![t] = g]
    BY <1>1 DEF Begin
  <2>5. held[t] = {}
    <3>1. CASE Resting(t) BY <3>1 DEF Resting
    <3>2. ASSUME NEW h \in HandlersOf(t), NEW i \in Nat, Placed(t, h, i)
          PROVE  held[t] = {}
      <4>1. Program(h) \in Seq(Ops) /\ HeldAt(Program(h), Len(Program(h))) = {}
        BY ProgramsTyped
      <4>2. i = Len(Program(h)) BY <4>1, <3>2, <2>4 DEF Placed
      <4>3. QED BY <4>1, <4>2, <3>2 DEF Placed
    <3>3. QED BY <3>1, <3>2 DEF LocksInv
  <2>6. Placed(t, g, 0)'
    <3>1. todo'[t] = Program(g) /\ held'[t] = {} /\ doing'[t] = g
      BY <2>3, <2>4, <2>5 DEF LocksInv
    <3>2. 0 \in 0..Len(Program(g)) /\ Len(Program(g)) - 0 = Len(Program(g))
      BY <2>2
    <3>3. \A k \in 1..Len(Program(g)) : k + 0 = k BY <2>2
    <3>4. QED BY <3>1, <3>2, <3>3 DEF Placed
  <2>7. /\ todo' \in [Threads -> Seq(Ops)]
        /\ held' \in [Threads -> SUBSET (Locks \X Modes)]
        /\ doing' \in [Threads -> Handlers \cup {"none"}]
        /\ \A u \in Threads \ {t} :
              todo'[u] = todo[u] /\ held'[u] = held[u] /\ doing'[u] = doing[u]
    BY <2>2, <2>3, <2>4 DEF LocksInv
  <2>8. QED BY <2>1, <2>6, <2>7, OthersKeepPlace
<1>2. ASSUME NEW t \in Threads, NEW l \in Locks, ThreadStep(t)!(l)
      PROVE  LocksInv'
  <2>1. todo[t] # <<>>
    BY <1>2 DEF AcquireRead, AcquireWrite, TryAcquire, Release, At
  <2>2. PICK h \in HandlersOf(t), i \in Nat :
            /\ Placed(t, h, i) /\ i < Len(Program(h))
            /\ Head(todo[t]) = Program(h)[i + 1]
    BY <2>1, NextOperation
  <2>3. Program(h) \in Seq(Ops) BY ProgramsTyped
  <2>4. \A x \in Locks \X Modes :
            /\ x \in HeldAt(Program(h), i) /\ Head(todo[t]) # Drop(x[1])
                   => x \in HeldAt(Program(h), i + 1)
            /\ Takes(Head(todo[t]), x) => x \in HeldAt(Program(h), i + 1)
    BY <2>2, <2>3, HeldNext
  <2>5. held[t] \subseteq HeldAt(Program(h), i) /\ held[t] \subseteq Locks \X Modes
    BY <2>2 DEF Placed, LocksInv
  <2>6. /\ <<l, "read">> \in Locks \X Modes /\ <<l, "write">> \in Locks \X Modes
        /\ <<l, "read">>[1] = l /\ <<l, "write">>[1] = l
    BY DEF Modes
  <2>7. ASSUME NEW m \in Modes, Advance(t, held[t] \cup {<<l, m>>}),
               \/ At(t, "write", l) /\ m = "write"
               \/ (At(t, "read", l) \/ At(t, "try_read", l)) /\ m = "read"
        PROVE  LocksInv'
    <3>1. Takes(Head(todo[t]), <<l, m>>) BY <2>7 DEF Takes, At
    <3>2. \A k : Head(todo[t]) # Drop(k) BY <2>7 DEF At, Drop
    <3>3. held[t] \cup {<<l, m>>} \subseteq HeldAt(Program(h), i + 1)
      BY <2>4, <2>5, <2>6, <2>7, <3>1, <3>2 DEF Modes
    <3>4. QED BY <2>2, <2>7, <3>3, AdvanceKeepsPlace
  <2>8. CASE AcquireRead(t, l) BY <2>7, <2>8 DEF AcquireRead, Modes
  <2>9. CASE AcquireWrite(t, l) BY <2>7, <2>9 DEF AcquireWrite, Modes
  <2>10. CASE TryAcquire(t, l)
    <3>1. CASE Advance(t, held[t] \cup {<<l, "read">>})
      BY <2>7, <2>10, <3>1 DEF TryAcquire, Modes
    <3>2. CASE /\ todo' = [todo EXCEPT ![t] = <<>>] /\ held' = [held EXCEPT ![t] = {}]
               /\ UNCHANGED doing
      <4>1. /\ todo' \in [Threads -> Seq(Ops)]
            /\ held' \in [Threads -> SUBSET (Locks \X Modes)]
            /\ doing' \in [Threads -> Handlers \cup {"none"}]
            /\ \A u \in Threads \ {t} :
                  todo'[u] = todo[u] /\ held'[u] = held[u] /\ doing'[u] = doing[u]
            /\ Resting(t)'
        BY <3>2 DEF LocksInv, Resting
      <4>2. QED BY <4>1, OthersKeepPlace
    <3>3. QED BY <2>10, <3>1, <3>2 DEF TryAcquire
  <2>11. CASE Release(t, l)
    <3>1. Head(todo[t]) = Drop(l) BY <2>11 DEF Release, At, Drop
    <3>2. \A x \in held[t] \ {<<l, "read">>, <<l, "write">>} : x[1] # l
      BY <2>5 DEF Modes
    <3>3. \A x \in held[t] \ {<<l, "read">>, <<l, "write">>} : Drop(l) # Drop(x[1])
      BY <3>2 DEF Drop
    <3>4. held[t] \ {<<l, "read">>, <<l, "write">>} \subseteq HeldAt(Program(h), i + 1)
      BY <2>4, <2>5, <3>1, <3>3
    <3>5. QED BY <2>2, <2>11, <3>4, AdvanceKeepsPlace DEF Release
  <2>12. QED BY <1>2, <2>8, <2>9, <2>10, <2>11
<1>3. CASE UNCHANGED lockVars
  BY <1>3 DEF lockVars, LocksInv, Resting, Placed, HandlersOf
<1>4. QED BY <1>1, <1>2, <1>3 DEF LocksNext, ThreadStep

LEMMA LocksInvAlways == ASSUME RolesAsInCode PROVE LocksSpec => []LocksInv
<1>1. LocksInit => LocksInv
  BY DEF LocksInit, LocksInv, Resting
<1>2. LocksInv /\ [LocksNext]_lockVars => LocksInv'
  BY LocksInvStep
<1>3. QED BY <1>1, <1>2, PTL DEF LocksSpec

-----------------------------------------------------------------------------
\* Where a waiting thread may wait, and what it may hold there.
WaitsAndHolds(t, m, l) ==
    LET o == [op |-> m, lock |-> l] IN
    IF t = Main
    THEN /\ \A x \in held[t] : MainMayHold(o, x)
         /\ o = Write("workspaces") => doing[t] = "close"
    ELSE /\ \A x \in held[t] : JobMayHold(doing[t], o, x)
         /\ o \notin {Write("vfs"), Write("opened_files")}

LEMMA WaiterHolds ==
    ASSUME RolesAsInCode, LocksInv, NEW t \in Threads,
           NEW m \in Modes, NEW l \in Locks, At(t, m, l)
    PROVE  WaitsAndHolds(t, m, l)
<1>1. todo[t] # <<>> /\ Head(todo[t]) = [op |-> m, lock |-> l] BY DEF At
<1>2. PICK h \in HandlersOf(t), i \in Nat :
          /\ Placed(t, h, i) /\ i < Len(Program(h))
          /\ Head(todo[t]) = Program(h)[i + 1]
  BY <1>1, NextOperation
<1>3. Program(h) \in Seq(Ops) BY ProgramsTyped
<1>4. i \in 0..Len(Program(h)) /\ i + 1 \in 1..Len(Program(h))
  BY <1>2, <1>3
<1>5. Program(h)[i + 1] = [op |-> m, lock |-> l] /\ Program(h)[i + 1].op \in Modes
  BY <1>1, <1>2
<1>6. held[t] \subseteq HeldAt(Program(h), i) /\ doing[t] = h BY <1>2 DEF Placed
<1>7. CASE t = Main
  <2>1. h \in MainHandlers BY <1>7 DEF HandlersOf
  <2>2. MainProgram(h) BY <2>1, ProgramsHold
  <2>3. \A x \in held[t] : MainMayHold(Program(h)[i + 1], x)
    BY <2>2, <1>4, <1>5, <1>6 DEF MainProgram
  <2>4. MainWaitsAt(h, Program(h)[i + 1]) BY <2>2, <1>4 DEF MainProgram
  <2>5. QED BY <2>3, <2>4, <1>5, <1>6, <1>7 DEF WaitsAndHolds, MainWaitsAt
<1>8. CASE t # Main
  <2>1. h \in Jobs BY <1>8 DEF HandlersOf
  <2>2. JobProgram(h) BY <2>1, ProgramsHold
  <2>3. \A x \in held[t] : JobMayHold(h, Program(h)[i + 1], x)
    BY <2>2, <1>4, <1>5, <1>6 DEF JobProgram
  <2>4. JobWaitsAt(h, Program(h)[i + 1]) BY <2>2, <1>4 DEF JobProgram
  <2>5. QED BY <2>3, <2>4, <1>5, <1>6, <1>8 DEF WaitsAndHolds, JobWaitsAt
<1>9. QED BY <1>7, <1>8

\* The threads of S wait only for each other.
WaitOnlyForEachOther(S) ==
    S \subseteq Threads /\ \A t \in S : \E u \in S : BlockedBy(t, u)

\* A thread of such a circle waits at m of l: some thread of the circle, which
\* waits somewhere itself, holds l or is a writer a reader waits behind.
LEMMA BlockerWaits ==
    ASSUME NEW S, WaitOnlyForEachOther(S), NEW t \in S,
           NEW m \in Modes, NEW l \in Locks, At(t, m, l)
    PROVE  \E u \in S, m2 \in Modes, l2 \in Locks :
              /\ At(u, m2, l2)
              /\ \/ m = "read" /\ m2 = "write" /\ l2 = l
                 \/ <<l, "write">> \in held[u]
                 \/ m = "write" /\ <<l, "read">> \in held[u]
<1>1. PICK u \in S : BlockedBy(t, u) BY DEF WaitOnlyForEachOther
<1>2. PICK v \in S : BlockedBy(u, v) BY DEF WaitOnlyForEachOther
<1>3. PICK m2 \in Modes, l2 \in Locks : At(u, m2, l2)
  BY <1>2 DEF BlockedBy, Modes
<1>4. u \in Threads BY DEF WaitOnlyForEachOther
<1>5. PICK k \in Locks :
          \/ At(t, "read", k) /\ u \in HeldBy(k, {"write"}) \cup WaitingWriters(k)
          \/ At(t, "write", k) /\ u \in HeldBy(k, {"read", "write"})
  BY <1>1 DEF BlockedBy
<1>6. \A n1, n2, k1, k2 : At(t, n1, k1) /\ At(t, n2, k2) => n1 = n2 /\ k1 = k2
  BY DEF At
<1>7. k = l BY <1>5, <1>6
<1>8. CASE At(t, "read", l) /\ u \in WaitingWriters(l)
  <2>1. At(u, "write", l) BY <1>8 DEF WaitingWriters
  <2>2. m = "read" BY <1>8, <1>6
  <2>3. QED BY <2>1, <2>2 DEF Modes
<1>9. CASE At(t, "read", l) /\ u \in HeldBy(l, {"write"})
  BY <1>3, <1>9 DEF HeldBy
<1>10. CASE At(t, "write", l) /\ u \in HeldBy(l, {"read", "write"})
  <2>1. m = "write" BY <1>10, <1>6
  <2>2. <<l, "read">> \in held[u] \/ <<l, "write">> \in held[u] BY <1>10 DEF HeldBy
  <2>3. QED BY <2>1, <2>2, <1>3
<1>11. QED BY <1>5, <1>7, <1>8, <1>9, <1>10

\* Nobody waits in a circle without the inversion, by the order on the
\* operations a thread may wait at: each of the steps <1>3 to <1>12 shows that
\* no thread of the circle waits at one operation, since whoever it waits for
\* would wait at an earlier one. ChangeKind::Delete (<1>4) is where the
\* inversion comes in.
LEMMA NoOtherCircle ==
    ASSUME RolesAsInCode, LocksInv, NEW S, WaitOnlyForEachOther(S),
           ~(Main \in S /\ DeleteWaits /\ \E w \in S : FailureWaits(w))
    PROVE  S = {}
<1>1. ASSUME NEW t \in S, NEW m \in Modes, NEW l \in Locks, At(t, m, l)
      PROVE  /\ WaitsAndHolds(t, m, l)
             /\ \E u \in S, m2 \in Modes, l2 \in Locks :
                   /\ At(u, m2, l2) /\ WaitsAndHolds(u, m2, l2)
                   /\ \/ m = "read" /\ m2 = "write" /\ l2 = l
                      \/ <<l, "write">> \in held[u]
                      \/ m = "write" /\ <<l, "read">> \in held[u]
  <2>1. S \subseteq Threads BY DEF WaitOnlyForEachOther
  <2>2. \A u \in S, m2 \in Modes, l2 \in Locks :
            At(u, m2, l2) => WaitsAndHolds(u, m2, l2)
    BY <2>1, WaiterHolds
  <2>3. QED BY <1>1, <2>2, BlockerWaits
<1>2. \A t \in S, m1, m2 \in Modes, l1, l2 \in Locks :
          At(t, m1, l1) /\ At(t, m2, l2) => m1 = m2 /\ l1 = l2
  BY DEF At
<1>3. Main \in S => ~At(Main, "read", "opened_files")
  <2> SUFFICES ASSUME NEW t \in S, t = Main, At(t, "read", "opened_files") PROVE FALSE
    OBVIOUS
  <2>1. PICK u \in S, m2 \in Modes, l2 \in Locks :
            /\ At(u, m2, l2) /\ WaitsAndHolds(u, m2, l2)
            /\ \/ m2 = "write" /\ l2 = "opened_files"
               \/ <<"opened_files", "write">> \in held[u]
    BY <1>1 DEF Modes, Locks
  <2>2. WaitsAndHolds(t, "read", "opened_files") BY <1>1 DEF Modes, Locks
  <2>3. QED
    BY <2>1, <2>2, <1>2
       DEF WaitsAndHolds, MainMayHold, JobMayHold, Read, Write, Modes, Locks
<1>4. Main \in S => ~At(Main, "write", "workspaces")
  <2> SUFFICES ASSUME NEW t \in S, t = Main, At(t, "write", "workspaces") PROVE FALSE
    OBVIOUS
  <2>1. PICK u \in S, m2 \in Modes, l2 \in Locks :
            /\ At(u, m2, l2) /\ WaitsAndHolds(u, m2, l2)
            /\ <<"workspaces", "read">> \in held[u] \/ <<"workspaces", "write">> \in held[u]
    BY <1>1 DEF Modes, Locks
  <2>2. WaitsAndHolds(t, "write", "workspaces") BY <1>1 DEF Modes, Locks
  <2>3. u # Main
    BY <2>1, <2>2, <1>2 DEF WaitsAndHolds, MainMayHold, Read, Write, Modes, Locks
  <2>4. FailureWaits(u)
    BY <2>1, <2>3 DEF WaitsAndHolds, JobMayHold, Read, Write, FailureWaits
  <2>5. DeleteWaits BY <2>2 DEF WaitsAndHolds, Write, DeleteWaits
  <2>6. QED BY <2>4, <2>5
<1>5. \A t \in S : ~At(t, "write", "temporary_workspace")
  <2> SUFFICES ASSUME NEW t \in S, At(t, "write", "temporary_workspace") PROVE FALSE
    OBVIOUS
  <2>1. PICK u \in S, m2 \in Modes, l2 \in Locks :
            /\ At(u, m2, l2) /\ WaitsAndHolds(u, m2, l2)
            /\ <<"temporary_workspace", "read">> \in held[u] \/ <<"temporary_workspace", "write">> \in held[u]
    BY <1>1 DEF Modes, Locks
  <2>2. WaitsAndHolds(t, "write", "temporary_workspace") BY <1>1 DEF Modes, Locks
  <2>3. QED
    BY <2>1, <2>2, <1>2, <1>3, <1>4
       DEF WaitsAndHolds, MainMayHold, JobMayHold, Read, Write, Modes, Locks
<1>6. \A t \in S : ~At(t, "read", "temporary_workspace")
  <2> SUFFICES ASSUME NEW t \in S, At(t, "read", "temporary_workspace") PROVE FALSE
    OBVIOUS
  <2>1. PICK u \in S, m2 \in Modes, l2 \in Locks :
            /\ At(u, m2, l2) /\ WaitsAndHolds(u, m2, l2)
            /\ \/ m2 = "write" /\ l2 = "temporary_workspace"
               \/ <<"temporary_workspace", "write">> \in held[u]
    BY <1>1 DEF Modes, Locks
  <2>2. WaitsAndHolds(t, "read", "temporary_workspace") BY <1>1 DEF Modes, Locks
  <2>3. QED
    BY <2>1, <2>2, <1>2, <1>3, <1>4, <1>5
       DEF WaitsAndHolds, MainMayHold, JobMayHold, Read, Write, Modes, Locks
<1>7. \A t \in S : ~At(t, "write", "opened_files")
  <2> SUFFICES ASSUME NEW t \in S, At(t, "write", "opened_files") PROVE FALSE
    OBVIOUS
  <2>1. PICK u \in S, m2 \in Modes, l2 \in Locks :
            /\ At(u, m2, l2) /\ WaitsAndHolds(u, m2, l2)
            /\ <<"opened_files", "read">> \in held[u] \/ <<"opened_files", "write">> \in held[u]
    BY <1>1 DEF Modes, Locks
  <2>2. WaitsAndHolds(t, "write", "opened_files") BY <1>1 DEF Modes, Locks
  <2>3. QED
    BY <2>1, <2>2, <1>2, <1>6
       DEF WaitsAndHolds, MainMayHold, JobMayHold, Read, Write, Modes, Locks
<1>8. \A t \in S : ~At(t, "read", "opened_files")
  <2> SUFFICES ASSUME NEW t \in S, At(t, "read", "opened_files") PROVE FALSE
    OBVIOUS
  <2>1. PICK u \in S, m2 \in Modes, l2 \in Locks :
            /\ At(u, m2, l2) /\ WaitsAndHolds(u, m2, l2)
            /\ \/ m2 = "write" /\ l2 = "opened_files"
               \/ <<"opened_files", "write">> \in held[u]
    BY <1>1 DEF Modes, Locks
  <2>2. WaitsAndHolds(t, "read", "opened_files") BY <1>1 DEF Modes, Locks
  <2>3. QED
    BY <2>1, <2>2, <1>2, <1>7
       DEF WaitsAndHolds, MainMayHold, JobMayHold, Read, Write, Modes, Locks
<1>9. \A t \in S : ~At(t, "write", "vfs")
  <2> SUFFICES ASSUME NEW t \in S, At(t, "write", "vfs") PROVE FALSE
    OBVIOUS
  <2>1. PICK u \in S, m2 \in Modes, l2 \in Locks :
            /\ At(u, m2, l2) /\ WaitsAndHolds(u, m2, l2)
            /\ <<"vfs", "read">> \in held[u] \/ <<"vfs", "write">> \in held[u]
    BY <1>1 DEF Modes, Locks
  <2>2. WaitsAndHolds(t, "write", "vfs") BY <1>1 DEF Modes, Locks
  <2>3. QED
    BY <2>1, <2>2, <1>2, <1>6, <1>7, <1>8
       DEF WaitsAndHolds, MainMayHold, JobMayHold, Read, Write, Modes, Locks
<1>10. \A t \in S : ~At(t, "read", "vfs")
  <2> SUFFICES ASSUME NEW t \in S, At(t, "read", "vfs") PROVE FALSE
    OBVIOUS
  <2>1. PICK u \in S, m2 \in Modes, l2 \in Locks :
            /\ At(u, m2, l2) /\ WaitsAndHolds(u, m2, l2)
            /\ \/ m2 = "write" /\ l2 = "vfs"
               \/ <<"vfs", "write">> \in held[u]
    BY <1>1 DEF Modes, Locks
  <2>2. WaitsAndHolds(t, "read", "vfs") BY <1>1 DEF Modes, Locks
  <2>3. QED
    BY <2>1, <2>2, <1>2, <1>7, <1>9
       DEF WaitsAndHolds, MainMayHold, JobMayHold, Read, Write, Modes, Locks
<1>11. \A t \in S : ~At(t, "write", "workspaces")
  <2> SUFFICES ASSUME NEW t \in S, At(t, "write", "workspaces") PROVE FALSE
    OBVIOUS
  <2>1. PICK u \in S, m2 \in Modes, l2 \in Locks :
            /\ At(u, m2, l2) /\ WaitsAndHolds(u, m2, l2)
            /\ <<"workspaces", "read">> \in held[u] \/ <<"workspaces", "write">> \in held[u]
    BY <1>1 DEF Modes, Locks
  <2>2. WaitsAndHolds(t, "write", "workspaces") BY <1>1 DEF Modes, Locks
  <2>3. QED
    BY <2>1, <2>2, <1>2, <1>5, <1>7, <1>8, <1>10
       DEF WaitsAndHolds, MainMayHold, JobMayHold, Read, Write, Modes, Locks
<1>12. \A t \in S : ~At(t, "read", "workspaces")
  <2> SUFFICES ASSUME NEW t \in S, At(t, "read", "workspaces") PROVE FALSE
    OBVIOUS
  <2>1. PICK u \in S, m2 \in Modes, l2 \in Locks :
            /\ At(u, m2, l2) /\ WaitsAndHolds(u, m2, l2)
            /\ \/ m2 = "write" /\ l2 = "workspaces"
               \/ <<"workspaces", "write">> \in held[u]
    BY <1>1 DEF Modes, Locks
  <2>2. WaitsAndHolds(t, "read", "workspaces") BY <1>1 DEF Modes, Locks
  <2>3. QED
    BY <2>1, <2>2, <1>2, <1>5, <1>7, <1>8, <1>10, <1>11
       DEF WaitsAndHolds, MainMayHold, JobMayHold, Read, Write, Modes, Locks
<1>13. \A t \in S : \E m \in Modes, l \in Locks : At(t, m, l)
  BY DEF WaitOnlyForEachOther, BlockedBy, Modes
<1>14. QED
  BY <1>5, <1>6, <1>7, <1>8, <1>9, <1>10, <1>11, <1>12, <1>13 DEF Modes, Locks

(***************************************************************************)
(* Whatever handlers and jobs run at the same time and however many        *)
(* workers there are, every circle in which threads of the language server *)
(* wait for each other contains the main thread in ChangeKind::Delete and  *)
(* a worker in the failure arm of async_compile: their opposite lock       *)
(* orders are the one deadlock of the design, and making the failure arm   *)
(* release the workspaces first, as the success arm does, leaves none.     *)
(***************************************************************************)
THEOREM LocksHaveOneInversion ==
    ASSUME RolesAsInCode PROVE LocksSpec => []OnlyOneInversion
<1>1. LocksInv => OnlyOneInversion
  <2> SUFFICES ASSUME LocksInv, NEW S \in Circles
               PROVE  Main \in S /\ DeleteWaits /\ \E w \in S : FailureWaits(w)
    BY DEF OnlyOneInversion
  <2>1. WaitOnlyForEachOther(S) /\ S # {} BY DEF Circles, WaitOnlyForEachOther
  <2>2. QED BY <2>1, NoOtherCircle
<1>2. LocksSpec => []LocksInv BY LocksInvAlways
<1>3. QED BY <1>1, <1>2, PTL
=============================================================================
