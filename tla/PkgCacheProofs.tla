-------------------------- MODULE PkgCacheProofs --------------------------
(***************************************************************************)
(* Theorems about PkgCache, for any number of processes, packages and      *)
(* versions, and whichever packages are used in turns.                     *)
(***************************************************************************)
EXTENDS PkgCache, TLAPS

\* A busy process has a package, a version once it needs one, and a digest
\* once it has hashed the source.
Equipped ==
    \A q \in Procs :
        /\ op[q].pc # "idle" => op[q].pkg \in Pkgs
        /\ op[q].pc \in Saving => op[q].ver \in Versions
        /\ op[q].pc \in {"lockInfo", "readInfo", "renameInfo"} => op[q].digest \in Digests

\* Between LockInfo and UnlockInfo a process has the lock of the info file, so
\* what it read there is what is still there.
InfoHeld ==
    \A q \in Procs :
        /\ op[q].pc \in {"readInfo", "renameInfo", "unlockInfo"} => infoLock = q
        /\ op[q].pc = "renameInfo" => op[q].seen = [info EXCEPT ![op[q].pkg] = op[q].digest]

IInv == CacheTypeOK /\ Equipped /\ InfoHeld

-----------------------------------------------------------------------------

\* The digest of a version is a digest.
LEMMA DigestFacts == \A v \in Versions : get_cache_info(v) \in Digests
  BY DEF get_cache_info, Digests

\* The types are inductive.
LEMMA TypeStep ==
    CacheTypeOK /\ Equipped /\ [Next]_vars => (CacheTypeOK /\ Equipped)'
<1> SUFFICES ASSUME CacheTypeOK, Equipped, [Next]_vars
             PROVE  (CacheTypeOK /\ Equipped)'
  OBVIOUS
<1>1. ASSUME NEW p \in Pkgs, Edit(p) PROVE (CacheTypeOK /\ Equipped)'
  BY <1>1, VersionAssumption DEF Edit, Versions, CacheTypeOK, Equipped, Op, Info, Idle, NoInfo, Saving, Loading
<1>2. ASSUME NEW q \in Procs, Fail(q) PROVE (CacheTypeOK /\ Equipped)'
  BY <1>2 DEF Fail, CacheTypeOK, Equipped, Op, Info, Idle, NoInfo, Saving, Loading
<1>3. ASSUME NEW q \in Procs, HashSource(q) PROVE (CacheTypeOK /\ Equipped)'
  <2>1. op[q] \in Op
    BY DEF CacheTypeOK
  <2>2. op'[q] \in Op
    BY <1>3, <2>1, DigestFacts DEF HashSource, CacheTypeOK, Equipped, Op, Info, Idle, NoInfo, Saving, Loading
  <2>3. op' \in [Procs -> Op]
    BY <1>3, <2>2 DEF HashSource, CacheTypeOK
  <2>4. CacheTypeOK'
    BY <1>3, <2>3 DEF HashSource, CacheTypeOK, Info, Equipped, Op, Saving
  <2>5. Equipped'
    BY <1>3, <2>1, <2>3, DigestFacts DEF HashSource, CacheTypeOK, Equipped, Op, Idle, Saving, Loading
  <2>6. QED BY <2>4, <2>5
<1>4. ASSUME NEW q \in Procs, LockInfo(q) PROVE (CacheTypeOK /\ Equipped)'
  BY <1>4 DEF LockInfo, CacheTypeOK, Equipped, Op, Info, Idle, NoInfo, Saving, Loading
<1>5. ASSUME NEW q \in Procs, ReadInfo(q) PROVE (CacheTypeOK /\ Equipped)'
  <2>1. op[q] \in Op
    BY DEF CacheTypeOK
  <2>2. op'[q] \in Op
    BY <1>5, <2>1 DEF ReadInfo, CacheTypeOK, Equipped, Op, Info, Idle, NoInfo, Saving, Loading
  <2>3. op' \in [Procs -> Op]
    BY <1>5, <2>2 DEF ReadInfo, CacheTypeOK
  <2>4. CacheTypeOK'
    BY <1>5, <2>3 DEF ReadInfo, CacheTypeOK, Info, Equipped, Op, Saving
  <2>5. Equipped'
    BY <1>5, <2>1, <2>3 DEF ReadInfo, CacheTypeOK, Equipped, Op, Idle, Saving, Loading
  <2>6. QED BY <2>4, <2>5
<1>6. ASSUME NEW q \in Procs, RenameInfo(q) PROVE (CacheTypeOK /\ Equipped)'
  <2>1. op[q] \in Op
    BY DEF CacheTypeOK
  <2>2. op'[q] \in Op
    BY <1>6, <2>1 DEF RenameInfo, CacheTypeOK, Equipped, Op, Info, Idle, NoInfo, Saving, Loading
  <2>3. op' \in [Procs -> Op]
    BY <1>6, <2>2 DEF RenameInfo, CacheTypeOK
  <2>4. CacheTypeOK'
    BY <1>6, <2>3 DEF RenameInfo, CacheTypeOK, Info, Equipped, Op, Saving
  <2>5. Equipped'
    BY <1>6, <2>1, <2>3 DEF RenameInfo, CacheTypeOK, Equipped, Op, Idle, Saving, Loading
  <2>6. QED BY <2>4, <2>5
<1>7. ASSUME NEW q \in Procs, UnlockInfo(q) PROVE (CacheTypeOK /\ Equipped)'
  BY <1>7 DEF UnlockInfo, CacheTypeOK, Equipped, Op, Info, Idle, NoInfo, Saving, Loading
<1>8. ASSUME NEW q \in Procs, LockData(q) PROVE (CacheTypeOK /\ Equipped)'
  <2>1. op[q] \in Op
    BY DEF CacheTypeOK
  <2>2. op'[q] \in Op
    BY <1>8, <2>1 DEF LockData, CacheTypeOK, Equipped, Op, Info, Idle, NoInfo, Saving, Loading
  <2>3. op' \in [Procs -> Op]
    BY <1>8, <2>2 DEF LockData, CacheTypeOK
  <2>4. CacheTypeOK'
    BY <1>8, <2>3 DEF LockData, CacheTypeOK, Info, Equipped, Op, Saving
  <2>5. Equipped'
    BY <1>8, <2>1, <2>3 DEF LockData, CacheTypeOK, Equipped, Op, Idle, Saving, Loading
  <2>6. QED BY <2>4, <2>5
<1>9. ASSUME NEW q \in Procs, RenameData(q) PROVE (CacheTypeOK /\ Equipped)'
  BY <1>9 DEF RenameData, CacheTypeOK, Equipped, Op, Info, Idle, NoInfo, Saving, Loading
<1>10. ASSUME NEW q \in Procs, UnlockData(q) PROVE (CacheTypeOK /\ Equipped)'
  BY <1>10 DEF UnlockData, CacheTypeOK, Equipped, Op, Info, Idle, NoInfo, Saving, Loading
<1>11. ASSUME NEW q \in Procs, ReadIndex(q) PROVE (CacheTypeOK /\ Equipped)'
  <2>1. op[q] \in Op
    BY DEF CacheTypeOK
  <2>2. op'[q] \in Op
    BY <1>11, <2>1 DEF ReadIndex, CacheTypeOK, Equipped, Op, Info, Idle, NoInfo, Saving, Loading
  <2>3. op' \in [Procs -> Op]
    BY <1>11, <2>2 DEF ReadIndex, CacheTypeOK
  <2>4. CacheTypeOK'
    BY <1>11, <2>3 DEF ReadIndex, CacheTypeOK, Info, Equipped, Op, Saving
  <2>5. Equipped'
    BY <1>11, <2>1, <2>3 DEF ReadIndex, CacheTypeOK, Equipped, Op, Idle, Saving, Loading
  <2>6. QED BY <2>4, <2>5
<1>12. ASSUME NEW q \in Procs, Compare(q) PROVE (CacheTypeOK /\ Equipped)'
  <2>1. op[q] \in Op
    BY DEF CacheTypeOK
  <2>2. op'[q] \in Op
    BY <1>12, <2>1 DEF Compare, CacheTypeOK, Equipped, Op, Info, Idle, NoInfo, Saving, Loading
  <2>3. op' \in [Procs -> Op]
    BY <1>12, <2>2 DEF Compare, CacheTypeOK
  <2>4. CacheTypeOK'
    BY <1>12, <2>3 DEF Compare, CacheTypeOK, Info, Equipped, Op, Saving
  <2>5. Equipped'
    BY <1>12, <2>1, <2>3 DEF Compare, CacheTypeOK, Equipped, Op, Idle, Saving, Loading
  <2>6. QED BY <2>4, <2>5
<1>13. ASSUME NEW q \in Procs, LoadData(q) PROVE (CacheTypeOK /\ Equipped)'
  <2>1. op[q] \in Op
    BY DEF CacheTypeOK
  <2>2. op'[q] \in Op
    BY <1>13, <2>1 DEF LoadData, CacheTypeOK, Equipped, Op, Info, Idle, NoInfo, Saving, Loading
  <2>3. op' \in [Procs -> Op]
    BY <1>13, <2>2 DEF LoadData, CacheTypeOK
  <2>4. CacheTypeOK'
    BY <1>13, <2>3 DEF LoadData, CacheTypeOK, Info, Equipped, Op, Saving
  <2>5. Equipped'
    BY <1>13, <2>1, <2>3 DEF LoadData, CacheTypeOK, Equipped, Op, Idle, Saving, Loading
  <2>6. QED BY <2>4, <2>5
<1>14. ASSUME NEW q \in Procs, Return(q) PROVE (CacheTypeOK /\ Equipped)'
  BY <1>14 DEF Return, CacheTypeOK, Equipped, Op, Info, Idle, NoInfo, Saving, Loading
<1>15. ASSUME NEW q \in Procs, NEW p \in Pkgs, StartSave(q, p) PROVE (CacheTypeOK /\ Equipped)'
  <2>1. op[q] \in Op
    BY DEF CacheTypeOK
  <2>2. op'[q] \in Op
    BY <1>15, <2>1 DEF StartSave, CacheTypeOK, Equipped, Op, Info, Idle, NoInfo, Saving, Loading
  <2>3. op' \in [Procs -> Op]
    BY <1>15, <2>2 DEF StartSave, CacheTypeOK
  <2>4. CacheTypeOK'
    BY <1>15, <2>3 DEF StartSave, CacheTypeOK, Info, Equipped, Op, Saving
  <2>5. Equipped'
    BY <1>15, <2>1, <2>3 DEF StartSave, CacheTypeOK, Equipped, Op, Idle, Saving, Loading
  <2>6. QED BY <2>4, <2>5
<1>16. ASSUME NEW q \in Procs, NEW p \in Pkgs, StartLoad(q, p) PROVE (CacheTypeOK /\ Equipped)'
  <2>1. op[q] \in Op
    BY DEF CacheTypeOK
  <2>2. op'[q] \in Op
    BY <1>16, <2>1 DEF StartLoad, CacheTypeOK, Equipped, Op, Info, Idle, NoInfo, Saving, Loading
  <2>3. op' \in [Procs -> Op]
    BY <1>16, <2>2 DEF StartLoad, CacheTypeOK
  <2>4. CacheTypeOK'
    BY <1>16, <2>3 DEF StartLoad, CacheTypeOK, Info, Equipped, Op, Saving
  <2>5. Equipped'
    BY <1>16, <2>1, <2>3 DEF StartLoad, CacheTypeOK, Equipped, Op, Idle, Saving, Loading
  <2>6. QED BY <2>4, <2>5
<1>17. CASE UNCHANGED vars
  BY <1>17 DEF vars, CacheTypeOK, Equipped, Op, Info, Idle, NoInfo, Saving, Loading
<1>18. QED
  BY <1>1, <1>2, <1>3, <1>4, <1>5, <1>6, <1>7, <1>8, <1>9,
     <1>10, <1>11, <1>12, <1>13, <1>14, <1>15, <1>16, <1>17 DEF Next, Step

\* The lock of the info file does its work.
LEMMA HeldStep ==
    CacheTypeOK /\ Equipped /\ InfoHeld /\ [Next]_vars => InfoHeld'
<1> SUFFICES ASSUME CacheTypeOK, Equipped, InfoHeld, [Next]_vars
             PROVE  InfoHeld'
  OBVIOUS
<1>1. ASSUME NEW p \in Pkgs, Edit(p) PROVE InfoHeld'
  BY <1>1 DEF Edit, InfoHeld, Equipped, CacheTypeOK, Op, Info, Idle, NoInfo, Saving, Loading
<1>2. ASSUME NEW q \in Procs, Fail(q) PROVE InfoHeld'
  BY <1>2 DEF Fail, InfoHeld, Equipped, CacheTypeOK, Op, Info, Idle, NoInfo, Saving, Loading
<1>3. ASSUME NEW q \in Procs, HashSource(q) PROVE InfoHeld'
  BY <1>3 DEF HashSource, InfoHeld, Equipped, CacheTypeOK, Op, Info, Idle, NoInfo, Saving, Loading
<1>4. ASSUME NEW q \in Procs, LockInfo(q) PROVE InfoHeld'
  BY <1>4, NoneAssumption DEF LockInfo, InfoHeld, Equipped, CacheTypeOK, Op, Info, Idle, NoInfo, Saving, Loading
<1>5. ASSUME NEW q \in Procs, ReadInfo(q) PROVE InfoHeld'
  BY <1>5 DEF ReadInfo, InfoHeld, Equipped, CacheTypeOK, Op, Info, Idle, NoInfo, Saving, Loading
<1>6. ASSUME NEW q \in Procs, RenameInfo(q) PROVE InfoHeld'
  <2>1. op[q].pc = "renameInfo" /\ op'[q].pc = "unlockInfo" /\ infoLock' = infoLock
    BY <1>6 DEF RenameInfo, CacheTypeOK, Op
  <2>2. \A r \in Procs \ {q} : op'[r] = op[r] /\ op[r].pc # "renameInfo"
    BY <1>6, <2>1 DEF RenameInfo, CacheTypeOK, InfoHeld
  <2>3. QED BY <2>1, <2>2 DEF InfoHeld
<1>7. ASSUME NEW q \in Procs, UnlockInfo(q) PROVE InfoHeld'
  BY <1>7 DEF UnlockInfo, InfoHeld, Equipped, CacheTypeOK, Op, Info, Idle, NoInfo, Saving, Loading
<1>8. ASSUME NEW q \in Procs, LockData(q) PROVE InfoHeld'
  BY <1>8 DEF LockData, InfoHeld, Equipped, CacheTypeOK, Op, Info, Idle, NoInfo, Saving, Loading
<1>9. ASSUME NEW q \in Procs, RenameData(q) PROVE InfoHeld'
  BY <1>9 DEF RenameData, InfoHeld, Equipped, CacheTypeOK, Op, Info, Idle, NoInfo, Saving, Loading
<1>10. ASSUME NEW q \in Procs, UnlockData(q) PROVE InfoHeld'
  BY <1>10 DEF UnlockData, InfoHeld, Equipped, CacheTypeOK, Op, Info, Idle, NoInfo, Saving, Loading
<1>11. ASSUME NEW q \in Procs, ReadIndex(q) PROVE InfoHeld'
  BY <1>11 DEF ReadIndex, InfoHeld, Equipped, CacheTypeOK, Op, Info, Idle, NoInfo, Saving, Loading
<1>12. ASSUME NEW q \in Procs, Compare(q) PROVE InfoHeld'
  BY <1>12 DEF Compare, InfoHeld, Equipped, CacheTypeOK, Op, Info, Idle, NoInfo, Saving, Loading
<1>13. ASSUME NEW q \in Procs, LoadData(q) PROVE InfoHeld'
  BY <1>13 DEF LoadData, InfoHeld, Equipped, CacheTypeOK, Op, Info, Idle, NoInfo, Saving, Loading
<1>14. ASSUME NEW q \in Procs, Return(q) PROVE InfoHeld'
  BY <1>14 DEF Return, InfoHeld, Equipped, CacheTypeOK, Op, Info, Idle, NoInfo, Saving, Loading
<1>15. ASSUME NEW q \in Procs, NEW p \in Pkgs, StartSave(q, p) PROVE InfoHeld'
  BY <1>15 DEF StartSave, InfoHeld, Equipped, CacheTypeOK, Op, Info, Idle, NoInfo, Saving, Loading
<1>16. ASSUME NEW q \in Procs, NEW p \in Pkgs, StartLoad(q, p) PROVE InfoHeld'
  BY <1>16 DEF StartLoad, InfoHeld, Equipped, CacheTypeOK, Op, Info, Idle, NoInfo, Saving, Loading
<1>17. CASE UNCHANGED vars
  BY <1>17 DEF vars, InfoHeld, Equipped, CacheTypeOK, Op, Info, Idle, NoInfo, Saving, Loading
<1>18. QED
  BY <1>1, <1>2, <1>3, <1>4, <1>5, <1>6, <1>7, <1>8, <1>9,
     <1>10, <1>11, <1>12, <1>13, <1>14, <1>15, <1>16, <1>17 DEF Next, Step

-----------------------------------------------------------------------------

\* The strengthening holds in every reachable state: each conjunct needs the
\* ones before it.
LEMMA IInvHolds == Spec => []IInv
<1>1. Init => IInv
  <2> SUFFICES ASSUME Init PROVE IInv
    OBVIOUS
  <2>1. NoInfo \in Info /\ 0 \in Versions
    BY VersionAssumption DEF NoInfo, Info, Versions
  <2>2. Idle \in Op
    BY <2>1 DEF Idle, Op
  <2>3. \A q \in Procs : op[q] = Idle /\ op[q].pc = "idle"
    BY DEF Init, Idle
  <2>4. CacheTypeOK
    BY <2>1, <2>2 DEF Init, CacheTypeOK
  <2>5. Equipped /\ InfoHeld
    BY <2>3 DEF Equipped, InfoHeld, Saving
  <2>6. QED BY <2>4, <2>5 DEF IInv
<1>2. IInv /\ [Next]_vars => IInv'
  BY TypeStep, HeldStep DEF IInv
<1>3. QED BY <1>1, <1>2, PTL DEF Spec

\* The files, the locks and the processes' records always have their types.
THEOREM CacheTypesHold == Spec => []CacheTypeOK
<1>1. IInv => CacheTypeOK BY DEF IInv
<1>2. QED BY <1>1, IInvHolds, PTL

\* Rewriting the info file never loses the entry of another package: the lock
\* is held from the read to the rename.
THEOREM InfoEntriesAreKept == Spec => OnlyOwnEntry
<1>1. IInv /\ [Next]_vars =>
        [\A p \in Pkgs : info'[p] # info[p] =>
            \E q \in Procs : op[q].pc = "renameInfo" /\ op[q].pkg = p /\ info'[p] = op[q].digest]_vars
  <2> SUFFICES ASSUME IInv, Next, NEW p \in Pkgs, info'[p] # info[p]
               PROVE  \E q \in Procs : op[q].pc = "renameInfo" /\ op[q].pkg = p /\ info'[p] = op[q].digest
    OBVIOUS
  <2>1. PICK q \in Procs : RenameInfo(q)
    BY DEF Next, Step, Edit, Fail, StartSave, StartLoad, HashSource, LockInfo, ReadInfo, UnlockInfo,
           LockData, RenameData, UnlockData, ReadIndex, Compare, LoadData, Return
  <2>2. info' = [info EXCEPT ![op[q].pkg] = op[q].digest] /\ op[q].pc = "renameInfo"
    BY <2>1 DEF RenameInfo, IInv, InfoHeld
  <2>3. op[q].pkg = p /\ info'[p] = op[q].digest
    BY <2>2 DEF IInv, CacheTypeOK, Info
  <2>4. QED BY <2>2, <2>3
<1>2. QED BY <1>1, IInvHolds, PTL DEF Spec, OnlyOwnEntry
=============================================================================
