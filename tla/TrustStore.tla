----------------------------- MODULE TrustStore -----------------------------
(***************************************************************************)
(* FileDispatchTrustBundleStore (src/src/dispatch_ticket_trust.ts): the    *)
(* bundle of trusted keys in one file, which several processes install     *)
(* into under an exclusive lock file, and which an operator may recover.   *)
(*                                                                         *)
(* A bundle is its version: one of the version in force is refused whether *)
(* or not its content is the same.  A process may die and a write may fail *)
(* at any step, and the file may be damaged from outside.                  *)
(***************************************************************************)
EXTENDS Integers

CONSTANTS
  DtProcs,    \* processes that use the store
  DtVersions, \* bundle versions offered
  DtFaults    \* bound on deaths, failed writes and damage

DtNobody == "nobody"
DtLeft == "left"

ASSUME DtAssumption ==
  /\ {DtNobody, DtLeft} \cap DtProcs = {}
  /\ DtVersions \subseteq Nat \ {0} /\ DtVersions # {}
  /\ DtFaults \in Nat

VARIABLES
  dtFile,   \* what load reads: nothing, damage, or a bundle and its high water
  dtLock,   \* the lock file: absent, held by a process, or left behind
  dtPc,     \* what each process does
  dtAsk,    \* the install or recovery it was asked for
  dtRead,   \* the file as it loaded it
  dtPeak,   \* highest version committed and not lost to damage (history)
  dtFaults

DtVars == <<dtFile, dtLock, dtPc, dtAsk, dtRead, dtPeak, dtFaults>>

DtNothing == [kind |-> "nothing"]
DtDamaged == [kind |-> "damaged"]
DtStored == [bundle : DtVersions, high : DtVersions]

DtAny == -1   \* no expectedCurrentVersion
DtExpected == DtVersions \cup {DtAny}
DtAsks ==
  [op : {"install"}, bundle : DtVersions, expected : DtExpected]
    \cup [op : {"recover"}, bundle : DtVersions, floor : DtVersions]

DtTypeOK ==
  /\ dtFile \in DtStored \cup {DtNothing, DtDamaged}
  /\ dtLock \in DtProcs \cup {DtNobody, DtLeft}
  /\ dtPc \in [DtProcs -> {"idle", "waiting", "locked", "judged", "writing", "dead"}]
  /\ dtAsk \in [DtProcs -> DtAsks \cup {DtNothing}]
  /\ dtRead \in [DtProcs -> DtStored \cup {DtNothing, DtDamaged}]
  /\ dtPeak \in Nat
  /\ dtFaults \in 0 .. DtFaults

DtInit ==
  /\ dtFile = DtNothing
  /\ dtLock = DtNobody
  /\ dtPc = [p \in DtProcs |-> "idle"]
  /\ dtAsk = [p \in DtProcs |-> DtNothing]
  /\ dtRead = [p \in DtProcs |-> DtNothing]
  /\ dtPeak = 0
  /\ dtFaults = 0

DtHas(file) == file \notin {DtNothing, DtDamaged}
DtHigh(file) == IF DtHas(file) THEN file.high ELSE 0
DtVersion(file) == IF DtHas(file) THEN file.bundle ELSE 0
DtLarger(m, n) == IF m > n THEN m ELSE n

-----------------------------------------------------------------------------
(* install, recover (with a reason): the directory is prepared and the     *)
(* lock waited for.                                                        *)
DtAskFor(p, ask) ==
  /\ dtPc[p] = "idle"
  /\ dtPc' = [dtPc EXCEPT ![p] = "waiting"]
  /\ dtAsk' = [dtAsk EXCEPT ![p] = ask]
  /\ UNCHANGED <<dtFile, dtLock, dtRead, dtPeak, dtFaults>>

\* Slip: a lock file that is there is taken over.
DtAcquireOver(p) ==
  /\ dtPc[p] = "waiting"
  /\ dtLock' = p
  /\ dtPc' = [dtPc EXCEPT ![p] = "locked"]
  /\ UNCHANGED <<dtFile, dtAsk, dtRead, dtPeak, dtFaults>>

(* acquireLock: the lock file is created only if it is not there.          *)
DtAcquire(p) ==
  /\ dtPc[p] = "waiting" /\ dtLock = DtNobody
  /\ dtLock' = p
  /\ dtPc' = [dtPc EXCEPT ![p] = "locked"]
  /\ UNCHANGED <<dtFile, dtAsk, dtRead, dtPeak, dtFaults>>

(* acquireLock: still there at the deadline.                               *)
DtLockedOut(p) ==
  /\ dtPc[p] = "waiting" /\ dtLock # DtNobody
  /\ dtPc' = [dtPc EXCEPT ![p] = "idle"]
  /\ dtAsk' = [dtAsk EXCEPT ![p] = DtNothing]
  /\ UNCHANGED <<dtFile, dtLock, dtRead, dtPeak, dtFaults>>

(* acquireLock: the file is created and writing the pid into it fails; the *)
(* error is thrown before there is anything to release.                    *)
DtLockUnwritten(p) ==
  /\ dtPc[p] = "waiting" /\ dtLock = DtNobody /\ dtFaults < DtFaults
  /\ dtLock' = DtLeft
  /\ dtPc' = [dtPc EXCEPT ![p] = "idle"]
  /\ dtAsk' = [dtAsk EXCEPT ![p] = DtNothing]
  /\ dtFaults' = dtFaults + 1
  /\ UNCHANGED <<dtFile, dtRead, dtPeak>>

(* install: whether the candidate replaces what was loaded.  A damaged     *)
(* file makes load throw.                                                  *)
DtAccepts(ask, file) ==
  /\ file # DtDamaged
  /\ ask.expected \in {DtAny, DtVersion(file)}
  /\ ask.bundle >= DtHigh(file)
  /\ ask.bundle # DtVersion(file)

DtLoad(p) ==
  /\ dtPc[p] = "locked"
  /\ dtRead' = [dtRead EXCEPT ![p] = dtFile]
  /\ dtPc' = [dtPc EXCEPT ![p] = "judged"]
  /\ UNCHANGED <<dtFile, dtLock, dtAsk, dtPeak, dtFaults>>

(* commit up to its rename: the temporary file is written and synced.      *)
DtJudge(p) ==
  /\ dtPc[p] = "judged"
  /\ dtAsk[p].op = "install" => DtAccepts(dtAsk[p], dtRead[p])
  /\ dtPc' = [dtPc EXCEPT ![p] = "writing"]
  /\ UNCHANGED <<dtFile, dtLock, dtAsk, dtRead, dtPeak, dtFaults>>

DtRelease(p) ==
  /\ dtLock' = DtNobody
  /\ dtPc' = [dtPc EXCEPT ![p] = "idle"]
  /\ dtAsk' = [dtAsk EXCEPT ![p] = DtNothing]
  /\ dtRead' = [dtRead EXCEPT ![p] = DtNothing]

(* conflict, stale, unchanged, or load threw: the lock is released.        *)
DtRefuse(p) ==
  /\ dtPc[p] = "judged" /\ dtAsk[p].op = "install"
  /\ ~DtAccepts(dtAsk[p], dtRead[p])
  /\ DtRelease(p)
  /\ UNCHANGED <<dtFile, dtPeak, dtFaults>>

DtNewHigh(p) ==
  LET own == DtLarger(DtHigh(dtRead[p]), dtAsk[p].bundle) IN
  IF dtAsk[p].op = "install" THEN own ELSE DtLarger(own, dtAsk[p].floor)

(* commit: the rename.                                                     *)
DtRename(p) ==
  /\ dtFile' = [bundle |-> dtAsk[p].bundle, high |-> DtNewHigh(p)]
  /\ dtPeak' = IF dtFile = DtDamaged THEN DtNewHigh(p) ELSE DtLarger(dtPeak, DtNewHigh(p))

DtNoRename == UNCHANGED <<dtFile, dtPeak>>

(* commit and releaseLock, which unlinks whatever lock file is there.      *)
DtCommit(p) ==
  /\ dtPc[p] = "writing"
  /\ DtRename(p)
  /\ DtRelease(p)
  /\ UNCHANGED dtFaults

(* A write of the temporary file or the rename fails, or a check of the    *)
(* file after the rename.                                                  *)
DtCommitFails(p) ==
  /\ dtPc[p] = "writing" /\ dtFaults < DtFaults
  /\ DtRename(p) \/ DtNoRename
  /\ DtRelease(p)
  /\ dtFaults' = dtFaults + 1

(* A process dies, in a commit before or after the rename; the lock it     *)
(* holds stays.                                                            *)
DtDies(p) ==
  /\ dtPc[p] \notin {"idle", "dead"} /\ dtFaults < DtFaults
  /\ DtNoRename \/ (dtPc[p] = "writing" /\ DtRename(p))
  /\ dtPc' = [dtPc EXCEPT ![p] = "dead"]
  /\ dtAsk' = [dtAsk EXCEPT ![p] = DtNothing]
  /\ dtRead' = [dtRead EXCEPT ![p] = DtNothing]
  /\ dtLock' = IF dtLock = p THEN DtLeft ELSE dtLock
  /\ dtFaults' = dtFaults + 1

(* The file is damaged, which load tells by its digest, while nobody has   *)
(* read it for an install.                                                 *)
DtDamage ==
  /\ dtFaults < DtFaults /\ DtHas(dtFile) /\ dtLock = DtNobody
  /\ dtFile' = DtDamaged
  /\ dtFaults' = dtFaults + 1
  /\ UNCHANGED <<dtLock, dtPc, dtAsk, dtRead, dtPeak>>

DtNext ==
  \/ \E p \in DtProcs :
       \/ \E ask \in DtAsks : DtAskFor(p, ask)
       \/ DtAcquire(p) \/ DtLockedOut(p) \/ DtLockUnwritten(p)
       \/ DtLoad(p) \/ DtJudge(p) \/ DtRefuse(p)
       \/ DtCommit(p) \/ DtCommitFails(p) \/ DtDies(p)
  \/ DtDamage

DtSpec == DtInit /\ [][DtNext]_DtVars

-----------------------------------------------------------------------------
(* Trust is not set back: whatever installs and recoveries race, fail or   *)
(* die, the stored high water is never below a version that was committed, *)
(* unless the file that held it was damaged, and only a recovery puts a    *)
(* bundle older than that in force.  What an install replaces is what it   *)
(* was judged against.                                                     *)
DtHighWater ==
  /\ DtHas(dtFile) => dtFile.high >= dtPeak /\ dtFile.high >= dtFile.bundle
  /\ \A p \in DtProcs : dtPc[p] = "writing" =>
       /\ dtRead[p] = dtFile
       /\ dtAsk[p].op = "install" => dtAsk[p].bundle >= dtPeak
=============================================================================
