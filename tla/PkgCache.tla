----------------------------- MODULE PkgCache -----------------------------
(***************************************************************************)
(* The package cache on disk (crates/config/src/cache.rs).  A process that *)
(* has compiled a package saves the result: it writes the md5 of the       *)
(* package's source into the one info file of the cache, then the data     *)
(* into the package's own file.  A process that wants the package compares *)
(* the md5 of the source with the info file and reads the data file.       *)
(* Writers lock a file, write a temporary one and rename it; readers take  *)
(* no lock.  Any number of processes do this at once, and a process may    *)
(* fail, or end, between any two steps: its locks go with it.              *)
(*                                                                         *)
(* The source of a package is its version, the data saved the version it   *)
(* was compiled from.  For the packages in Orderly the callers take turns: *)
(* whoever saves or edits the package has it for itself and does not fail. *)
(***************************************************************************)
EXTENDS Naturals

CONSTANTS
    Procs,        \* processes
    Pkgs,         \* packages
    Orderly,      \* the packages whose users take turns
    MaxVersion,   \* bound: edits of a package's source
    None          \* no lock holder, no entry, no file

ASSUME OrderlyAssumption == Orderly \subseteq Pkgs
ASSUME VersionAssumption == MaxVersion \in Nat

Versions == 0..MaxVersion

\* get_cache_info: the digest tells versions apart (no collision).
get_cache_info(v) == [md5 |-> v]
Digests == [md5 : Versions]
Info == [Pkgs -> Digests \cup {None}]

ASSUME NoneAssumption == None \notin Procs /\ None \notin Digests /\ None \notin Versions

VARIABLES
    src,         \* source version of each package
    info,        \* the info file: package -> digest
    data,        \* the data files: package -> version saved
    infoLock,    \* who holds the info file's lock
    dataLock,    \* who holds the lock of a package's data file
    op           \* what each process is doing

vars == <<src, info, data, infoLock, dataLock, op>>

\* save_pkg_cache and load_pkg_cache, step by step.
Saving == {"hash", "lockInfo", "readInfo", "renameInfo", "unlockInfo",
           "lockData", "renameData", "unlockData"}
Loading == {"readIndex", "compare", "loadData", "loaded"}

\* pkg: the package; ver: the version compiled, or the one compared; digest:
\* of the source, to be saved; seen: the info file as read; got: the data.
Op == [pc : {"idle"} \cup Saving \cup Loading, pkg : Pkgs \cup {None},
       ver : Versions \cup {None}, digest : Digests \cup {None}, seen : Info,
       got : Versions \cup {None}]

NoInfo == [p \in Pkgs |-> None]
Idle == [pc |-> "idle", pkg |-> None, ver |-> None, digest |-> None, seen |-> NoInfo, got |-> None]
Busy(p, stages) == \E q \in Procs : op[q].pc \in stages /\ op[q].pkg = p

Init ==
    /\ src = [p \in Pkgs |-> 0]
    /\ info = NoInfo
    /\ data = [p \in Pkgs |-> None]
    /\ infoLock = None
    /\ dataLock = [p \in Pkgs |-> None]
    /\ op = [q \in Procs |-> Idle]

-----------------------------------------------------------------------------
(* The world. *)

\* Somebody edits the package.
Edit(p) ==
    /\ src[p] < MaxVersion
    /\ p \in Orderly => ~Busy(p, Saving \cup Loading)
    /\ src' = [src EXCEPT ![p] = @ + 1]
    /\ UNCHANGED <<info, data, infoLock, dataLock, op>>

\* Faulty: the locks stay behind.
FailKeepsLocks(q) ==
    /\ op[q].pc \in Saving
    /\ op[q].pkg \notin Orderly
    /\ op' = [op EXCEPT ![q] = Idle]
    /\ UNCHANGED <<src, info, data, infoLock, dataLock>>

\* The process ends, or a step of it returns an error: the temporary file stays
\* behind, the locks are released, whatever was renamed stays renamed.
Fail(q) ==
    /\ op[q].pc \in Saving
    /\ op[q].pkg \notin Orderly
    /\ op' = [op EXCEPT ![q] = Idle]
    /\ infoLock' = IF infoLock = q THEN None ELSE infoLock
    /\ dataLock' = [p \in Pkgs |-> IF dataLock[p] = q THEN None ELSE dataLock[p]]
    /\ UNCHANGED <<src, info, data>>

-----------------------------------------------------------------------------
(* save_pkg_cache. *)

\* The caller has compiled the package as it is now.
StartSave(q, p) ==
    /\ op[q].pc = "idle"
    /\ p \in Orderly => ~Busy(p, Saving \cup Loading)
    /\ op' = [op EXCEPT ![q].pc = "hash", ![q].pkg = p, ![q].ver = src[p]]
    /\ UNCHANGED <<src, info, data, infoLock, dataLock>>

\* write_info_cache hashes the source before it asks for the lock.
HashSource(q) ==
    /\ op[q].pc = "hash"
    /\ op' = [op EXCEPT ![q].pc = "lockInfo", ![q].digest = get_cache_info(src[op[q].pkg])]
    /\ UNCHANGED <<src, info, data, infoLock, dataLock>>

\* Faulty: nobody is asked.
TakeInfo(q) ==
    /\ op[q].pc = "lockInfo"
    /\ infoLock' = q
    /\ op' = [op EXCEPT ![q].pc = "readInfo"]
    /\ UNCHANGED <<src, info, data, dataLock>>

LockInfo(q) ==
    /\ op[q].pc = "lockInfo"
    /\ infoLock = None
    /\ infoLock' = q
    /\ op' = [op EXCEPT ![q].pc = "readInfo"]
    /\ UNCHANGED <<src, info, data, dataLock>>

\* read_info_cache, and the new entry: the temporary file.
ReadInfo(q) ==
    /\ op[q].pc = "readInfo"
    /\ op' = [op EXCEPT ![q].pc = "renameInfo",
                        ![q].seen = [info EXCEPT ![op[q].pkg] = op[q].digest]]
    /\ UNCHANGED <<src, info, data, infoLock, dataLock>>

RenameInfo(q) ==
    /\ op[q].pc = "renameInfo"
    /\ info' = op[q].seen
    /\ op' = [op EXCEPT ![q].pc = "unlockInfo", ![q].digest = None, ![q].seen = NoInfo]
    /\ UNCHANGED <<src, data, infoLock, dataLock>>

UnlockInfo(q) ==
    /\ op[q].pc = "unlockInfo"
    /\ infoLock' = None
    /\ op' = [op EXCEPT ![q].pc = "lockData"]
    /\ UNCHANGED <<src, info, data, dataLock>>

\* save_data_to_file.
LockData(q) ==
    /\ op[q].pc = "lockData"
    /\ dataLock[op[q].pkg] = None
    /\ dataLock' = [dataLock EXCEPT ![op[q].pkg] = q]
    /\ op' = [op EXCEPT ![q].pc = "renameData"]
    /\ UNCHANGED <<src, info, data, infoLock>>

RenameData(q) ==
    /\ op[q].pc = "renameData"
    /\ data' = [data EXCEPT ![op[q].pkg] = op[q].ver]
    /\ op' = [op EXCEPT ![q].pc = "unlockData"]
    /\ UNCHANGED <<src, info, infoLock, dataLock>>

UnlockData(q) ==
    /\ op[q].pc = "unlockData"
    /\ dataLock' = [dataLock EXCEPT ![op[q].pkg] = None]
    /\ op' = [op EXCEPT ![q] = Idle]
    /\ UNCHANGED <<src, info, data, infoLock>>

-----------------------------------------------------------------------------
(* load_pkg_cache. *)

\* The data file must exist.
StartLoad(q, p) ==
    /\ op[q].pc = "idle"
    /\ p \in Orderly => ~Busy(p, Saving)
    /\ data[p] # None
    /\ op' = [op EXCEPT ![q].pc = "readIndex", ![q].pkg = p]
    /\ UNCHANGED <<src, info, data, infoLock, dataLock>>

\* read_info_cache, without the lock.
ReadIndex(q) ==
    /\ op[q].pc = "readIndex"
    /\ op' = [op EXCEPT ![q].pc = "compare", ![q].seen = info]
    /\ UNCHANGED <<src, info, data, infoLock, dataLock>>

\* Faulty: any entry will do.
ComparePresence(q) ==
    /\ op[q].pc = "compare"
    /\ op' = [op EXCEPT ![q] = IF @.seen[@.pkg] = None THEN Idle
                               ELSE [@ EXCEPT !.pc = "loadData", !.ver = src[op[q].pkg], !.seen = NoInfo]]
    /\ UNCHANGED <<src, info, data, infoLock, dataLock>>

\* Another digest, or none: nothing is loaded.
Compare(q) ==
    /\ op[q].pc = "compare"
    /\ op' = [op EXCEPT ![q] = IF @.seen[@.pkg] # get_cache_info(src[@.pkg]) THEN Idle
                               ELSE [@ EXCEPT !.pc = "loadData", !.ver = src[op[q].pkg], !.seen = NoInfo]]
    /\ UNCHANGED <<src, info, data, infoLock, dataLock>>

LoadData(q) ==
    /\ op[q].pc = "loadData"
    /\ op' = [op EXCEPT ![q].pc = "loaded", ![q].got = data[op[q].pkg]]
    /\ UNCHANGED <<src, info, data, infoLock, dataLock>>

Return(q) ==
    /\ op[q].pc = "loaded"
    /\ op' = [op EXCEPT ![q] = Idle]
    /\ UNCHANGED <<src, info, data, infoLock, dataLock>>

-----------------------------------------------------------------------------

Step(q) ==
    \/ HashSource(q) \/ LockInfo(q) \/ ReadInfo(q) \/ RenameInfo(q) \/ UnlockInfo(q)
    \/ LockData(q) \/ RenameData(q) \/ UnlockData(q)
    \/ ReadIndex(q) \/ Compare(q) \/ LoadData(q) \/ Return(q)

Next ==
    \/ \E p \in Pkgs : Edit(p)
    \/ \E q \in Procs : Fail(q) \/ Step(q)
    \/ \E q \in Procs, p \in Pkgs : StartSave(q, p) \/ StartLoad(q, p)

Spec == Init /\ [][Next]_vars

\* A process keeps going; the lock of a file that is free again and again is
\* granted at last.
FairSpec == Spec /\ \A q \in Procs : SF_vars(Step(q))

-----------------------------------------------------------------------------
(* Properties. *)

CacheTypeOK ==
    /\ src \in [Pkgs -> Versions]
    /\ info \in Info
    /\ data \in [Pkgs -> Versions \cup {None}]
    /\ infoLock \in Procs \cup {None}
    /\ dataLock \in [Pkgs -> Procs \cup {None}]
    /\ op \in [Procs -> Op]

\* write_info_cache rewrites the whole info file but changes only the entry of
\* the package it saves: the lock covers its read as well as its rename, so no
\* concurrent save of another package is lost.
OnlyOwnEntry ==
    [][\A p \in Pkgs : info'[p] # info[p] =>
          \E q \in Procs : op[q].pc = "renameInfo" /\ op[q].pkg = p /\ info'[p] = op[q].digest]_vars

\* load_pkg_cache: "If the md5 is the same, load the cache file".  What is
\* loaded was compiled from the source whose md5 was compared, for a package
\* whose users take turns, whatever happens to the other packages meanwhile.
OrderlyLoadFresh ==
    \A q \in Procs : op[q].pc = "loaded" /\ op[q].pkg \in Orderly => op[q].got = op[q].ver

\* No save waits for a lock for ever: the two locks are never held together,
\* and a process that fails gives its lock back.
SaveEnds == \A q \in Procs : op[q].pc \in Saving ~> op[q].pc = "idle"
=============================================================================
