--------------------------- MODULE ProviderProofs ---------------------------
(***************************************************************************)
(* The parts of a provider, each for every value of its constants: the     *)
(* trust file under its lock, tickets redeemed in one database, the record *)
(* of a task, requests to a backend, the drain kept for it, the ladder of  *)
(* reachability, and the commands that replace a key.                      *)
(***************************************************************************)
EXTENDS TrustStore, DispatchAdmission, ServiceLifecycle, BackendCall,
        BackendStream, BackendStability, Reachability, KeyRotation,
        FiniteSetTheorems, WellFoundedInduction, TLAPS

-----------------------------------------------------------------------------
(* TrustStore.                                                             *)

(* Whoever is past acquireLock holds the lock file, so that the file stays *)
(* as it was loaded until the commit.                                      *)
DtHolds ==
  \A p \in DtProcs :
    /\ dtPc[p] \in {"locked", "judged", "writing"} => dtLock = p /\ dtAsk[p] \in DtAsks
    /\ dtPc[p] = "waiting" => dtAsk[p] \in DtAsks
    /\ dtPc[p] \in {"judged", "writing"} => dtRead[p] = dtFile
    /\ dtPc[p] = "writing" /\ dtAsk[p].op = "install" => DtAccepts(dtAsk[p], dtRead[p])

(* The high water in the file covers every commit that was not damaged.    *)
DtCovers ==
  /\ dtFile = DtNothing => dtPeak = 0
  /\ DtHas(dtFile) => dtFile.high >= dtPeak /\ dtFile.high >= dtFile.bundle

DtInv == DtTypeOK /\ DtHolds /\ DtCovers

LEMMA DtFileKinds ==
  /\ \A f \in DtStored : f # DtNothing /\ f # DtDamaged /\ DtHas(f)
  /\ DtNothing # DtDamaged
BY DEF DtStored, DtNothing, DtDamaged, DtHas

LEMMA DtLargerIs ==
  ASSUME NEW m \in Nat, NEW n \in Nat
  PROVE  DtLarger(m, n) \in {m, n} /\ DtLarger(m, n) >= m /\ DtLarger(m, n) >= n
BY DEF DtLarger

(* What a commit writes is a bundle and its high water, which covers both  *)
(* what was in the file and the new bundle.                                *)
LEMMA DtNewHighCovers ==
  ASSUME NEW p \in DtProcs, dtAsk[p] \in DtAsks,
         dtRead[p] \in DtStored \cup {DtNothing, DtDamaged}
  PROVE  /\ DtNewHigh(p) \in DtVersions
         /\ DtNewHigh(p) >= dtAsk[p].bundle
         /\ DtNewHigh(p) >= DtHigh(dtRead[p])
<1>1. dtAsk[p].bundle \in DtVersions /\ \A v \in DtVersions : v \in Nat /\ v # 0
  BY DtAssumption DEF DtAsks
<1>2. dtAsk[p].op # "install" => dtAsk[p].floor \in DtVersions
  BY DEF DtAsks
<1>3. DtHigh(dtRead[p]) \in DtVersions \/ DtHigh(dtRead[p]) = 0
  BY DtFileKinds DEF DtHigh, DtHas, DtStored
<1> DEFINE own == DtLarger(DtHigh(dtRead[p]), dtAsk[p].bundle)
<1>4. own \in DtVersions /\ own >= dtAsk[p].bundle /\ own >= DtHigh(dtRead[p])
  <2>1. DtHigh(dtRead[p]) \in Nat /\ dtAsk[p].bundle \in Nat /\ dtAsk[p].bundle > 0
    BY <1>1, <1>3
  <2>2. own \in {DtHigh(dtRead[p]), dtAsk[p].bundle} /\ own >= dtAsk[p].bundle
          /\ own >= DtHigh(dtRead[p])
    BY <2>1, DtLargerIs
  <2>3. own # 0
    BY <2>1, <2>2
  <2>4. QED
    BY <1>1, <1>3, <2>2, <2>3
<1>5. CASE dtAsk[p].op = "install"
  BY <1>4, <1>5 DEF DtNewHigh
<1>6. CASE dtAsk[p].op # "install"
  <2> HIDE DEF own
  <2>1. DtNewHigh(p) = DtLarger(own, dtAsk[p].floor)
    BY <1>6 DEF DtNewHigh, own
  <2>2. own \in Nat /\ dtAsk[p].floor \in Nat
    BY <1>1, <1>2, <1>4, <1>6
  <2>3. /\ DtNewHigh(p) \in {own, dtAsk[p].floor}
        /\ DtNewHigh(p) >= own
    BY <2>1, <2>2, DtLargerIs
  <2>4. DtHigh(dtRead[p]) \in Nat /\ dtAsk[p].bundle \in Nat
    BY <1>1, <1>3
  <2>5. DtNewHigh(p) \in DtVersions
    BY <1>2, <1>4, <1>6, <2>3
  <2>6. QED
    BY <1>4, <2>2, <2>3, <2>4, <2>5
<1>7. QED
  BY <1>5, <1>6

LEMMA DtTypeInit == DtInit => DtInv
BY DtAssumption, DtFileKinds DEF DtInit, DtInv, DtTypeOK, DtHolds, DtCovers, DtHas

LEMMA DtStep == DtInv /\ [DtNext]_DtVars => DtInv'
<1> SUFFICES ASSUME DtInv, [DtNext]_DtVars PROVE DtInv'
  OBVIOUS
<1> USE DtAssumption DEF DtInv, DtTypeOK, DtHolds
<1>1. ASSUME NEW p \in DtProcs, NEW ask \in DtAsks, DtAskFor(p, ask) PROVE DtInv'
  BY <1>1 DEF DtAskFor, DtCovers
<1>2. ASSUME NEW p \in DtProcs, DtAcquire(p) PROVE DtInv'
  BY <1>2 DEF DtAcquire, DtCovers
<1>3. ASSUME NEW p \in DtProcs, DtLockedOut(p) PROVE DtInv'
  BY <1>3 DEF DtLockedOut, DtCovers
<1>4. ASSUME NEW p \in DtProcs, DtLockUnwritten(p) PROVE DtInv'
  BY <1>4 DEF DtLockUnwritten, DtCovers
<1>5. ASSUME NEW p \in DtProcs, DtLoad(p) PROVE DtInv'
  BY <1>5 DEF DtLoad, DtCovers
<1>6. ASSUME NEW p \in DtProcs, DtJudge(p) PROVE DtInv'
  BY <1>6 DEF DtJudge, DtCovers
<1>7. ASSUME NEW p \in DtProcs, DtRefuse(p) PROVE DtInv'
  BY <1>7 DEF DtRefuse, DtRelease, DtCovers
<1>8. ASSUME NEW p \in DtProcs, dtPc[p] = "writing", DtRename(p)
      PROVE  /\ dtFile' \in DtStored /\ dtPeak' \in Nat
             /\ dtFile'.high >= dtPeak' /\ dtFile'.high >= dtFile'.bundle
             /\ DtHas(dtFile') /\ dtFile' # DtNothing
  <2>1. /\ DtNewHigh(p) \in DtVersions
        /\ DtNewHigh(p) >= dtAsk[p].bundle
        /\ DtNewHigh(p) >= DtHigh(dtFile)
    BY <1>8, DtNewHighCovers
  <2>2. dtAsk[p].bundle \in DtVersions
    BY <1>8 DEF DtAsks
  <2>3. dtFile = DtNothing => dtPeak = 0
    BY DEF DtCovers
  <2>4. dtFile # DtDamaged /\ dtFile # DtNothing => DtHigh(dtFile) >= dtPeak
    BY DtFileKinds DEF DtCovers, DtHigh, DtHas, DtStored
  <2>n. /\ DtNewHigh(p) \in Nat /\ dtAsk[p].bundle \in Nat
        /\ DtHigh(dtFile) \in Nat
    <3>1. DtHas(dtFile) => dtFile.high \in Nat
      BY DtFileKinds DEF DtHas, DtStored
    <3>2. QED
      BY <2>1, <2>2, <3>1 DEF DtHigh
  <2>5. dtFile # DtDamaged => DtNewHigh(p) >= dtPeak
    <3>1. CASE dtFile = DtNothing
      BY <2>3, <2>n, <3>1
    <3>2. CASE dtFile # DtNothing /\ dtFile # DtDamaged
      BY <2>1, <2>4, <2>n, <3>2
    <3>3. QED
      BY <3>1, <3>2
  <2>6. dtFile' = [bundle |-> dtAsk[p].bundle, high |-> DtNewHigh(p)]
    BY <1>8 DEF DtRename
  <2>7. dtPeak' = DtNewHigh(p)
    <3>1. CASE dtFile = DtDamaged
      BY <1>8, <3>1 DEF DtRename
    <3>2. CASE dtFile # DtDamaged
      BY <1>8, <2>5, <2>n, <3>2 DEF DtRename, DtLarger
    <3>3. QED
      BY <3>1, <3>2
  <2>8. dtFile' \in DtStored
    BY <2>1, <2>2, <2>6 DEF DtStored
  <2>9. QED
    BY <2>1, <2>6, <2>7, <2>8, <2>n, DtFileKinds
<1>9. ASSUME NEW p \in DtProcs, DtCommit(p) PROVE DtInv'
  BY <1>9, <1>8 DEF DtCommit, DtRelease, DtCovers
<1>10. ASSUME NEW p \in DtProcs, DtCommitFails(p) PROVE DtInv'
  BY <1>10, <1>8 DEF DtCommitFails, DtNoRename, DtRelease, DtCovers
<1>11. ASSUME NEW p \in DtProcs, DtDies(p) PROVE DtInv'
  BY <1>11, <1>8 DEF DtDies, DtNoRename, DtCovers
<1>12. CASE DtDamage
  BY <1>12, DtFileKinds DEF DtDamage, DtCovers, DtHas
<1>13. CASE UNCHANGED DtVars
  BY <1>13 DEF DtVars, DtCovers
<1>14. QED
  BY <1>1, <1>2, <1>3, <1>4, <1>5, <1>6, <1>7, <1>9, <1>10, <1>11, <1>12, <1>13 DEF DtNext

(* Whatever happens to the file, the store's states are as described.      *)
THEOREM DtTypes == DtSpec => []DtTypeOK
<1>1. DtInv => DtTypeOK
  BY DEF DtInv
<1>2. QED
  BY <1>1, DtTypeInit, DtStep, PTL DEF DtSpec

(* The stored high water covers every version that was committed and not   *)
(* damaged, and whatever is about to be renamed into place was judged      *)
(* against the file it replaces (FileDispatchTrustBundleStore), for any    *)
(* number of processes and versions.                                       *)
THEOREM DtHighWaterHolds == DtSpec => []DtHighWater
<1>1. ASSUME DtInv PROVE DtHighWater
  <2>1. DtHas(dtFile) => dtFile.high >= dtPeak /\ dtFile.high >= dtFile.bundle
    BY <1>1 DEF DtInv, DtCovers
  <2>2. ASSUME NEW p \in DtProcs, dtPc[p] = "writing"
        PROVE  /\ dtRead[p] = dtFile
               /\ dtAsk[p].op = "install" => dtAsk[p].bundle >= dtPeak
    <3>1. dtRead[p] = dtFile
      BY <1>1, <2>2 DEF DtInv, DtHolds
    <3>2. ASSUME dtAsk[p].op = "install" PROVE dtAsk[p].bundle >= dtPeak
      <4>1. DtAccepts(dtAsk[p], dtFile)
        BY <1>1, <2>2, <3>1, <3>2 DEF DtInv, DtHolds
      <4>2. dtAsk[p].bundle \in Nat /\ dtPeak \in Nat
        BY <1>1, <2>2, DtAssumption DEF DtInv, DtHolds, DtTypeOK, DtAsks
      <4>3. CASE dtFile = DtNothing
        BY <1>1, <4>2, <4>3 DEF DtInv, DtCovers
      <4>4. CASE dtFile # DtNothing
        <5>1. DtHas(dtFile) /\ dtFile.high \in Nat
          BY <1>1, <4>1, <4>4, DtAssumption DEF DtInv, DtTypeOK, DtAccepts, DtHas, DtStored
        <5>2. QED
          BY <2>1, <4>1, <4>2, <5>1 DEF DtAccepts, DtHigh
      <4>5. QED
        BY <4>3, <4>4
    <3>3. QED
      BY <3>1, <3>2
  <2>3. QED
    BY <2>1, <2>2 DEF DtHighWater
<1>2. QED
  BY <1>1, DtTypeInit, DtStep, PTL DEF DtSpec

-----------------------------------------------------------------------------
(* DispatchAdmission.                                                      *)

(* A ticket whose row is gone has run out on every clock, skew included.   *)
DaGoneIsPast ==
  \A t \in DaTickets : daWins[t] # 0 /\ daRows[t] = DaNone =>
    \A p \in DaProcs : DaClock(p) - DaSkew >= DaExpires[t]

(* Rows and ends are of tickets that were redeemed.                        *)
DaRowsRedeemed ==
  \A t \in DaTickets :
    /\ daWins[t] <= 1
    /\ daWins[t] = 0 => daRows[t] = DaNone /\ daEnd[t] = DaNone
    /\ daRows[t] = "accepted" => daEnd[t] = DaNone
    /\ daRows[t] \in DaTerminal => daRows[t] = daEnd[t]

DaInv == DaTypeOK /\ DaGoneIsPast /\ DaRowsRedeemed

LEMMA DaInvInit == DaInit => DaInv
<1> SUFFICES ASSUME DaInit PROVE DaInv
  OBVIOUS
<1>1. DaTypeOK
  <2>1. daNow \in 0 .. DaEnd /\ daFaults \in 0 .. DaFaults
    BY DaAssumption DEF DaInit
  <2>2. /\ daCache \in [DaProcs -> SUBSET DaTickets]
        /\ daAt \in [DaProcs -> DaTickets \cup {DaNone}]
        /\ daRows \in [DaTickets -> {DaNone, "accepted"} \cup DaTerminal]
    BY DEF DaInit
  <2>3. /\ daWins \in [DaTickets -> Nat]
        /\ daEnd \in [DaTickets -> {DaNone} \cup DaTerminal]
    BY DEF DaInit
  <2>4. QED
    BY <2>1, <2>2, <2>3 DEF DaInit, DaTypeOK
<1>2. DaGoneIsPast /\ DaRowsRedeemed
  BY DEF DaInit, DaGoneIsPast, DaRowsRedeemed, DaNone, DaTerminal
<1>3. QED
  BY <1>1, <1>2 DEF DaInv

(* What a cleanup takes for due is past on every clock: retention covers   *)
(* what clocks differ by and what they are skewed by.                      *)
LEMMA DaDueIsPast ==
  ASSUME DaTypeOK, NEW p \in DaProcs, NEW q \in DaProcs, NEW t \in DaTickets,
         DaExpires[t] < DaClock(p) - DaRetention
  PROVE  DaClock(q) - DaSkew >= DaExpires[t]
<1>1. /\ daNow \in Nat /\ daAhead[p] \in Nat /\ daAhead[q] \in Nat
      /\ daAhead[p] <= DaDrift /\ DaExpires[t] \in Nat
  BY DaAssumption DEF DaTypeOK
<1>2. QED
  BY <1>1, DaAssumption DEF DaClock

LEMMA DaInvNext == DaInv /\ [DaNext]_DaVars => DaInv'
<1> SUFFICES ASSUME DaInv, [DaNext]_DaVars PROVE DaInv'
  OBVIOUS
<1> USE DaAssumption DEF DaInv, DaTypeOK, DaGoneIsPast, DaRowsRedeemed, DaTerminal,
                         DaNone, DaClock
<1>1. ASSUME NEW p \in DaProcs, NEW t \in DaTickets, DaVerify(p, t) PROVE DaInv'
  BY <1>1 DEF DaVerify
<1>2. ASSUME NEW p \in DaProcs, DaConsume(p) PROVE DaInv'
  BY <1>2 DEF DaConsume
<1>3. ASSUME NEW p \in DaProcs, DaUnavailable(p) PROVE DaInv'
  BY <1>3 DEF DaUnavailable
<1>4. ASSUME NEW p \in DaProcs, DaCleanup(p) PROVE DaInv'
  BY ZenonT(30), <1>4, DaDueIsPast DEF DaCleanup, DaOldest, DaRemove
<1>5. ASSUME NEW p \in DaProcs, DaRestart(p) PROVE DaInv'
  BY <1>5 DEF DaRestart
<1>6. ASSUME NEW t \in DaTickets, NEW s \in DaTerminal, DaTransition(t, s) PROVE DaInv'
  BY <1>6 DEF DaTransition, DaEndWith
<1>7. CASE DaRevoke
  BY <1>7 DEF DaRevoke
<1>8. CASE DaTick
  BY <1>8 DEF DaTick
<1>9. CASE UNCHANGED DaVars
  BY <1>9 DEF DaVars
<1>10. QED
  BY <1>1, <1>2, <1>3, <1>4, <1>5, <1>6, <1>7, <1>8, <1>9 DEF DaNext

(* The ledger's states are as described, for any number of processes.      *)
THEOREM DaTypes == DaSpec => []DaTypeOK
<1>1. DaInv => DaTypeOK
  BY DEF DaInv
<1>2. QED
  BY <1>1, DaInvInit, DaInvNext, PTL DEF DaSpec

(* A ticket is redeemed once and ends one way, for any number of processes *)
(* and restarts, as long as the cleanup keeps rows for longer than skew    *)
(* and drift together (evaluateDispatchAdmission, cleanup).                *)
THEOREM DaOnce == DaSpec => []DaRedeemedOnce
<1>1. DaInv => DaRedeemedOnce
  BY DEF DaInv, DaRowsRedeemed, DaRedeemedOnce
<1>2. QED
  BY <1>1, DaInvInit, DaInvNext, PTL DEF DaSpec

-----------------------------------------------------------------------------
(* ServiceLifecycle.                                                       *)

(* The final event of a kept record is as old as the record; no record, no *)
(* final event that counts.                                                *)
SlEndedAt ==
  \A t \in SlTasks :
    slEnded[t] = IF SlHas(t) /\ SlIsFinal(t) THEN slRecs[t].age ELSE SlLong

(* No two records of a store, or of a snapshot, have one key.              *)
SlKeysApart ==
  \A t, u \in SlTasks : t # u =>
    /\ slRecs[t] # SlNoRecord /\ slRecs[u] # SlNoRecord => slRecs[t].key # slRecs[u].key
    /\ slSnap[t] # SlNoRecord /\ slSnap[u] # SlNoRecord => slSnap[t].key # slSnap[u].key

(* A consumer has heard everything from where it started to where it is.   *)
SlHeardAll ==
  /\ slHeard \in [SlTasks -> SUBSET Nat]
  /\ \A t \in SlTasks :
       /\ slPos[t] >= -1
       /\ slPos[t] = -1 => slHeard[t] = {}
       /\ slPos[t] >= 0 => slPos[t] \in slHeard[t]
       /\ \A n \in slHeard[t] : n <= slPos[t] /\ n .. slPos[t] \subseteq slHeard[t]

SlInv == SlTypeOK /\ ~slTwice /\ SlEndedAt /\ SlKeysApart /\ SlHeardAll

LEMMA SlKinds ==
  /\ \A r \in SlRecord : r # SlNoRecord /\ r.state \in SlStates /\ r.last \in Nat
                          /\ r.first \in Nat /\ r.age \in 0 .. SlLong
  /\ SlNoRecord.state = SlAbsent /\ SlAbsent \notin SlStates
  /\ SlFinal \subseteq SlStates
BY DEF SlRecord, SlNoRecord, SlAbsent, SlStates, SlFinal

(* A limited read takes the earliest of what is left of the window.        *)
LEMMA SlSliceIs ==
  ASSUME NEW a \in Int, NEW b \in Int
  PROVE  SlSlice(a .. b) = {n \in a .. b : n - a < SlLimit}
<1>1. ASSUME NEW n \in a .. b
      PROVE  Cardinality({m \in a .. b : m < n}) = n - a
  <2>1. {m \in a .. b : m < n} = a .. (n - 1)
    BY <1>1
  <2>2. Cardinality(a .. (n - 1)) = n - a
    <3>1. n - 1 \in Int /\ n \in Int /\ n >= a
      BY <1>1
    <3>2. Cardinality(a .. (n - 1)) = IF a > n - 1 THEN 0 ELSE (n - 1) - a + 1
      BY <3>1, FS_Interval
    <3>3. QED
      BY <3>1, <3>2
  <2>3. QED
    BY <2>1, <2>2
<1>2. QED
  BY <1>1 DEF SlSlice

LEMMA SlLastIs ==
  ASSUME NEW a \in Int, NEW b \in Int, a <= b
  PROVE  LET c == SlLast(SlSlice(a .. b)) IN
         c \in a .. b /\ SlSlice(a .. b) = a .. c
<1> DEFINE end == IF b - a < SlLimit THEN b ELSE a + SlLimit - 1
<1>1. SlLimit \in Nat /\ SlLimit > 0
  BY SlAssumption
<1>2. end \in a .. b
  BY <1>1
<1>3. SlSlice(a .. b) = a .. end
  <2>1. \A n \in a .. b : n - a < SlLimit <=> n <= end
    BY <1>1
  <2>2. SlSlice(a .. b) = {n \in a .. b : n <= end}
    BY <2>1, SlSliceIs
  <2> HIDE DEF end
  <2>3. {n \in a .. b : n <= end} = a .. end
    BY <1>2
  <2>4. QED
    BY <2>2, <2>3
<1> HIDE DEF end
<1>4. \A n \in a .. end : n <= end
  BY <1>2
<1>5. end \in a .. end
  BY <1>2
<1>6. /\ SlLast(a .. end) \in a .. end
      /\ \A m \in a .. end : m <= SlLast(a .. end)
  BY <1>4, <1>5 DEF SlLast
<1>7. SlLast(a .. end) = end
  BY <1>2, <1>4, <1>5, <1>6
<1>8. QED
  BY <1>2, <1>3, <1>7

(* What transition makes of a record.                                      *)
LEMMA SlMoved ==
  ASSUME SlTypeOK, NEW t \in SlTasks, NEW s \in SlStates, SlTransition(t, s)
  PROVE  /\ slRecs[t] \in SlRecord /\ slRecs[t].state \notin SlFinal
         /\ slRecs' \in [SlTasks -> SlRecord \cup {SlNoRecord}]
         /\ \A u \in SlTasks \ {t} : slRecs'[u] = slRecs[u]
         /\ slRecs'[t] \in SlRecord
         /\ slRecs'[t].state = s /\ slRecs'[t].age = 0
         /\ slRecs'[t].key = slRecs[t].key /\ slRecs'[t].last = slRecs[t].last + 1
<1>1. slRecs[t] \in SlRecord
  BY DEF SlTransition, SlHas, SlTypeOK
<1>2. slRecs[t].state \notin SlFinal
  BY DEF SlTransition, SlMayFollow, SlFinal
<1> DEFINE from == slRecs[t].last + 1 + 1 - SlWindow
           first == IF from > slRecs[t].first THEN from ELSE slRecs[t].first
           new == [slRecs[t] EXCEPT !.state = s, !.last = slRecs[t].last + 1,
                                    !.age = 0, !.first = first]
<1>3. slRecs' = [slRecs EXCEPT ![t] = new]
  BY DEF SlTransition
<1>4. first \in Nat
  BY <1>1, SlKinds, SlAssumption
<1> HIDE DEF first
<1>5. /\ new \in SlRecord /\ new.state = s /\ new.age = 0
      /\ new.key = slRecs[t].key /\ new.last = slRecs[t].last + 1
  <2>1. slRecs[t].last + 1 \in Nat /\ 0 \in 0 .. SlLong
    BY <1>1, SlKinds, SlAssumption DEF SlLong
  <2>2. QED
    BY <1>1, <1>4, <2>1 DEF SlRecord
<1> HIDE DEF new
<1>6. QED
  BY <1>1, <1>2, <1>3, <1>5 DEF SlTypeOK

(* What a tick makes of a record.                                          *)
LEMMA SlAged ==
  ASSUME NEW r \in SlRecord \cup {SlNoRecord}
  PROVE  /\ SlOlder(r) \in SlRecord \cup {SlNoRecord}
         /\ SlOlder(r) = SlNoRecord <=> r = SlNoRecord
         /\ SlOlder(r).state = r.state
         /\ r # SlNoRecord => /\ SlOlder(r).key = r.key /\ SlOlder(r).last = r.last
                               /\ SlOlder(r).age = IF r.age < SlLong THEN r.age + 1 ELSE SlLong
<1>1. SlLong \in Nat
  BY SlAssumption DEF SlLong
<1>2. CASE r = SlNoRecord
  BY <1>2 DEF SlOlder
<1>3. CASE r \in SlRecord /\ r.age = SlLong
  BY <1>1, <1>3, SlKinds DEF SlOlder
<1>4. CASE r \in SlRecord /\ r.age # SlLong
  <2>1. SlOlder(r) = [r EXCEPT !.age = r.age + 1]
    BY <1>4, SlKinds DEF SlOlder
  <2>2. r.age \in 0 .. SlLong /\ r.age < SlLong
    BY <1>1, <1>4, SlKinds
  <2>3. /\ SlOlder(r) \in SlRecord /\ SlOlder(r).age = r.age + 1
        /\ SlOlder(r).state = r.state /\ SlOlder(r).key = r.key
        /\ SlOlder(r).last = r.last
    BY <1>1, <1>4, <2>1, <2>2 DEF SlRecord
  <2>4. QED
    BY <1>4, <2>2, <2>3, SlKinds
<1>5. QED
  BY <1>2, <1>3, <1>4

LEMMA SlInvInit == SlInit => SlInv
<1> SUFFICES ASSUME SlInit PROVE SlInv
  OBVIOUS
<1>1. SlLong \in Nat
  BY SlAssumption DEF SlLong
<1>2. SlTypeOK /\ ~slTwice
  <2>1. 0 \in 0 .. SlRestarts /\ SlLong \in 0 .. SlLong /\ -1 \in Int
    BY <1>1, SlAssumption
  <2>2. slRecs \in [SlTasks -> SlRecord \cup {SlNoRecord}] /\ slSnap = slRecs
    BY DEF SlInit
  <2>3. slPos \in [SlTasks -> Int] /\ slEnded \in [SlTasks -> 0 .. SlLong]
    BY <2>1 DEF SlInit
  <2>4. QED
    BY <2>1, <2>2, <2>3 DEF SlInit, SlTypeOK
<1>3. SlEndedAt /\ SlKeysApart /\ SlHeardAll
  BY DEF SlInit, SlEndedAt, SlKeysApart, SlHeardAll, SlHas
<1>4. QED
  BY <1>2, <1>3 DEF SlInv

LEMMA SlInvNext == SlInv /\ [SlNext]_SlVars => SlInv'
<1> SUFFICES ASSUME SlInv, [SlNext]_SlVars PROVE SlInv'
  OBVIOUS
<1>a. /\ SlLong \in Nat /\ SlLong > SlTTL /\ SlTTL \in Nat
      /\ SlRestarts \in Nat
  BY SlAssumption DEF SlLong
<1>t. SlTypeOK
  BY DEF SlInv
<1> USE SlKinds DEF SlInv
<1>1. ASSUME NEW t \in SlTasks, NEW k \in SlKeys, SlSubmit(t, k) PROVE SlInv'
  <2> DEFINE new == [state |-> "accepted", key |-> k, first |-> 0, last |-> 0, age |-> 0]
  <2>1. new \in SlRecord /\ new.key = k /\ new.state \notin SlFinal
    BY <1>a DEF SlRecord, SlStates, SlFinal
  <2>2. slRecs' = [slRecs EXCEPT ![t] = new] /\ slRecs[t] = SlNoRecord
    BY <1>1 DEF SlSubmit, SlHas
  <2> HIDE DEF new
  <2>3. slEnded[t] = SlLong
    BY <2>2 DEF SlEndedAt, SlHas
  <2>4. slTwice' = FALSE
    <3>1. ~(slEnded[t] <= SlTTL)
      BY <1>a, <2>3
    <3>2. slTwice' = (slTwice \/ slEnded[t] <= SlTTL)
      BY <1>1 DEF SlSubmit
    <3>3. QED
      BY <3>1, <3>2
  <2>5. UNCHANGED <<slSnap, slPos, slHeard, slEnded, slRestarts>>
    BY <1>1 DEF SlSubmit
  <2>6. SlTypeOK'
    <3>1. slRecs' \in [SlTasks -> SlRecord \cup {SlNoRecord}]
      BY <2>1, <2>2 DEF SlTypeOK
    <3>2. slTwice' \in BOOLEAN
      BY <2>4
    <3>3. QED
      BY <2>5, <3>1, <3>2 DEF SlTypeOK
  <2>7. SlEndedAt' /\ SlHeardAll'
    BY <2>1, <2>2, <2>3, <2>5 DEF SlEndedAt, SlHeardAll, SlHas, SlIsFinal, SlTypeOK
  <2>8. SlKeysApart'
    BY <1>1, <2>1, <2>2, <2>5 DEF SlKeysApart, SlSubmit, SlHas, SlTypeOK
  <2>9. QED
    BY <2>4, <2>6, <2>7, <2>8
<1>2. ASSUME NEW t \in SlTasks, NEW s \in SlStates, SlTransition(t, s) PROVE SlInv'
  <2>1. /\ slRecs[t] \in SlRecord /\ slRecs[t].state \notin SlFinal
        /\ slRecs' \in [SlTasks -> SlRecord \cup {SlNoRecord}]
        /\ \A u \in SlTasks \ {t} : slRecs'[u] = slRecs[u]
        /\ slRecs'[t] \in SlRecord
        /\ slRecs'[t].state = s /\ slRecs'[t].age = 0
        /\ slRecs'[t].key = slRecs[t].key
    BY <1>2, <1>t, SlMoved
  <2>2. /\ slEnded' = IF s \in SlFinal THEN [slEnded EXCEPT ![t] = 0] ELSE slEnded
        /\ UNCHANGED <<slSnap, slPos, slHeard, slTwice, slRestarts>>
    BY <1>2 DEF SlTransition
  <2>3. SlTypeOK'
    BY <1>a, <2>1, <2>2 DEF SlTypeOK
  <2>4. SlEndedAt'
    BY <2>1, <2>2 DEF SlEndedAt, SlHas, SlIsFinal, SlTypeOK
  <2>5. SlKeysApart' /\ SlHeardAll'
    BY <2>1, <2>2 DEF SlKeysApart, SlHeardAll
  <2>6. QED
    BY <2>2, <2>3, <2>4, <2>5
<1>3. ASSUME NEW t \in SlTasks, SlForget(t) PROVE SlInv'
  <2>1. /\ slRecs' = [slRecs EXCEPT ![t] = SlNoRecord]
        /\ UNCHANGED <<slSnap, slPos, slHeard, slEnded, slTwice, slRestarts>>
    BY <1>3 DEF SlForget
  <2>2. slEnded[t] = SlLong
    <3>1. slRecs[t] \in SlRecord /\ slEnded[t] = slRecs[t].age /\ slRecs[t].age > SlTTL
      BY <1>3, <1>t DEF SlForget, SlExpired, SlHas, SlEndedAt, SlTypeOK
    <3>2. slRecs[t].age \in 0 .. (SlTTL + 1)
      BY <3>1 DEF SlLong
    <3>3. QED
      BY <1>a, <3>1, <3>2 DEF SlLong
  <2>3. SlTypeOK'
    BY <2>1 DEF SlTypeOK
  <2>4. SlEndedAt' /\ SlKeysApart' /\ SlHeardAll'
    BY <2>1, <2>2 DEF SlEndedAt, SlKeysApart, SlHeardAll, SlHas, SlIsFinal, SlTypeOK
  <2>5. QED
    BY <2>1, <2>3, <2>4
<1>4. ASSUME NEW t \in SlTasks, SlRead(t) PROVE SlInv'
  <2> DEFINE first == slRecs[t].first
             last == slRecs[t].last
             rest == {n \in first .. last : n > slPos[t]}
             batch == SlSlice(rest)
  <2>1. /\ first \in Nat /\ last \in Nat
        /\ slPos[t] \in Int /\ slPos[t] >= -1
    BY <1>4, <1>t DEF SlRead, SlHas, SlTypeOK, SlHeardAll
  <2>2. UNCHANGED <<slRecs, slSnap, slEnded, slTwice, slRestarts>>
    BY <1>4 DEF SlRead
  <2>3. CASE slPos[t] >= 0 /\ slPos[t] + 1 < first
    <3>1. /\ slPos' = [slPos EXCEPT ![t] = last]
          /\ slHeard' = [slHeard EXCEPT ![t] = {last}]
      BY <1>4, <2>3 DEF SlRead
    <3> HIDE DEF last
    <3>2. last .. last = {last}
      BY <2>1
    <3>3. SlHeardAll'
      BY <2>1, <3>1, <3>2, <1>t DEF SlHeardAll, SlTypeOK
    <3>4. SlTypeOK'
      BY <2>1, <2>2, <3>1, <3>3 DEF SlTypeOK, SlHeardAll
    <3>5. QED
      BY <2>2, <3>3, <3>4 DEF SlEndedAt, SlKeysApart, SlHas, SlIsFinal
  <2>4. CASE ~(slPos[t] >= 0 /\ slPos[t] + 1 < first)
    <3> DEFINE a == IF slPos[t] + 1 < first THEN first ELSE slPos[t] + 1
               c == SlLast(batch)
    <3>1. /\ batch # {}
          /\ slPos' = [slPos EXCEPT ![t] = c]
          /\ slHeard' = [slHeard EXCEPT ![t] = slHeard[t] \cup batch]
      BY <1>4, <2>4 DEF SlRead
    <3>2. rest = a .. last /\ a \in Nat
      BY <2>1
    <3>3. slPos[t] = -1 \/ a = slPos[t] + 1
      BY <2>1, <2>4
    <3> HIDE DEF a, first, last
    <3>4. a <= last
      <4>1. CASE a > last
        <5>1. a .. last = {}
          BY <2>1, <3>2, <4>1
        <5>2. batch = {}
          BY <3>2, <5>1 DEF SlSlice
        <5>3. QED
          BY <3>1, <5>2
      <4>2. QED
        BY <2>1, <3>2, <4>1
    <3> HIDE DEF rest, batch, c
    <3>5. c \in a .. last /\ batch = a .. c
      <4>1. batch = SlSlice(a .. last)
        BY <3>2 DEF batch
      <4>2. c = SlLast(SlSlice(a .. last))
        BY <4>1 DEF c
      <4>3. QED
        BY <2>1, <3>2, <3>4, <4>1, <4>2, SlLastIs
    <3>6. c \in Nat /\ c >= a /\ batch \subseteq Nat
      BY <2>1, <3>2, <3>5
    <3>7. /\ slPos'[t] = c /\ slHeard'[t] = slHeard[t] \cup (a .. c)
          /\ \A u \in SlTasks \ {t} : slPos'[u] = slPos[u] /\ slHeard'[u] = slHeard[u]
          /\ slPos' \in [SlTasks -> Int] /\ slHeard' \in [SlTasks -> SUBSET Nat]
      BY <3>1, <3>5, <3>6, <1>t DEF SlTypeOK, SlHeardAll
    <3>8. ASSUME NEW n \in slHeard'[t]
          PROVE  n <= c /\ n .. c \subseteq slHeard'[t]
      <4>1. n \in Nat
        BY <3>7
      <4>2. CASE n \in a .. c
        BY <3>2, <3>6, <3>7, <4>2
      <4>3. CASE n \in slHeard[t]
        <5>1. n <= slPos[t] /\ n .. slPos[t] \subseteq slHeard[t] /\ slPos[t] # -1
          BY <4>3 DEF SlHeardAll
        <5>2. a = slPos[t] + 1
          BY <3>3, <5>1
        <5>3. n .. c \subseteq (n .. slPos[t]) \cup (a .. c)
          BY <2>1, <3>6, <4>1, <5>2
        <5>4. QED
          BY <2>1, <3>6, <3>7, <4>1, <5>1, <5>2, <5>3
      <4>4. QED
        BY <3>7, <4>2, <4>3
    <3>9. c \in slHeard'[t]
      BY <3>2, <3>6, <3>7
    <3>10. SlHeardAll'
      BY <3>6, <3>7, <3>8, <3>9 DEF SlHeardAll
    <3>11. SlTypeOK'
      BY <2>2, <3>7 DEF SlTypeOK
    <3>12. QED
      BY <2>2, <3>10, <3>11 DEF SlEndedAt, SlKeysApart, SlHas, SlIsFinal
  <2>5. QED
    BY <2>3, <2>4
<1>5. CASE SlSnapshot
  <2>1. slSnap' = slRecs /\ UNCHANGED <<slRecs, slPos, slHeard, slEnded, slTwice, slRestarts>>
    BY <1>5 DEF SlSnapshot
  <2>2. QED
    BY <2>1 DEF SlTypeOK, SlEndedAt, SlKeysApart, SlHeardAll, SlHas, SlIsFinal
<1>6. CASE SlRestart
  <2>1. /\ slRecs' = slSnap /\ slRestarts' \in 0 .. SlRestarts
        /\ slEnded' = [t \in SlTasks |->
             IF slSnap[t].state \in SlFinal THEN slSnap[t].age ELSE SlLong]
        /\ UNCHANGED <<slSnap, slPos, slHeard, slTwice>>
    BY <1>6, <1>a DEF SlRestart, SlTypeOK
  <2>2. \A t \in SlTasks :
          slSnap[t] = SlNoRecord \/ slSnap[t] \in SlRecord
    BY DEF SlTypeOK
  <2>3. slEnded' \in [SlTasks -> 0 .. SlLong]
    BY <1>a, <2>1, <2>2
  <2>4. SlTypeOK'
    BY <2>1, <2>3 DEF SlTypeOK
  <2>5. SlEndedAt'
    BY <2>1, <2>2 DEF SlEndedAt, SlHas, SlIsFinal
  <2>6. SlKeysApart' /\ SlHeardAll'
    BY <2>1 DEF SlKeysApart, SlHeardAll
  <2>7. QED
    BY <2>1, <2>4, <2>5, <2>6
<1>7. CASE SlTick
  <2>1. /\ slRecs' = [t \in SlTasks |-> SlOlder(slRecs[t])]
        /\ slSnap' = [t \in SlTasks |-> SlOlder(slSnap[t])]
        /\ slEnded' = [t \in SlTasks |-> IF slEnded[t] < SlLong THEN slEnded[t] + 1 ELSE SlLong]
        /\ UNCHANGED <<slPos, slHeard, slTwice, slRestarts>>
    BY <1>7 DEF SlTick
  <2>2. \A t \in SlTasks :
          slSnap[t] \in SlRecord \cup {SlNoRecord} /\ slRecs[t] \in SlRecord \cup {SlNoRecord}
    BY DEF SlTypeOK
  <2>3. slEnded' \in [SlTasks -> 0 .. SlLong]
    BY <1>a, <2>1 DEF SlTypeOK
  <2>4. SlTypeOK'
    BY <2>1, <2>2, <2>3, SlAged DEF SlTypeOK
  <2>5. SlEndedAt'
    BY <1>a, <2>1, <2>2, SlAged DEF SlEndedAt, SlHas, SlIsFinal
  <2>6. SlKeysApart'
    BY <2>1, <2>2, SlAged DEF SlKeysApart
  <2>7. QED
    BY <2>1, <2>4, <2>5, <2>6 DEF SlHeardAll
<1>8. CASE UNCHANGED SlVars
  BY <1>8 DEF SlVars, SlTypeOK, SlEndedAt, SlKeysApart, SlHeardAll, SlHas, SlIsFinal
<1>9. QED
  BY <1>1, <1>2, <1>3, <1>4, <1>5, <1>6, <1>7, <1>8 DEF SlNext

(* Records, snapshots and consumers of LifecycleStore are as described.    *)
THEOREM SlTypes == SlSpec => []SlTypeOK
<1>1. SlInv => SlTypeOK
  BY DEF SlInv
<1>2. QED
  BY <1>1, SlInvInit, SlInvNext, PTL DEF SlSpec

(* A task is not run again while its final record is kept, and a consumer  *)
(* never skips an event without being told (submit, eventsAfter), for any  *)
(* number of tasks, window, limit and lifetime.                            *)
THEOREM SlOnce == SlSpec => []SlOnceWithoutGap
<1>1. SlInv => SlRunsOnce
  BY DEF SlInv, SlRunsOnce, SlKeysApart, SlHas
<1>2. ASSUME SlInv PROVE SlNoGap
  <2>1. ASSUME NEW t \in SlTasks, NEW n \in slHeard[t], NEW m \in slHeard[t], n <= m
        PROVE  n .. m \subseteq slHeard[t]
    <3>1. /\ n .. slPos[t] \subseteq slHeard[t] /\ m <= slPos[t]
          /\ n \in Nat /\ m \in Nat /\ slPos[t] \in Int
      BY <1>2, <2>1 DEF SlInv, SlHeardAll, SlTypeOK
    <3>2. n .. m \subseteq n .. slPos[t]
      BY <3>1
    <3>3. QED
      BY <3>1, <3>2
  <2>2. QED
    BY <2>1 DEF SlNoGap
<1>3. QED
  BY <1>1, <1>2, SlInvInit, SlInvNext, PTL DEF SlSpec, SlOnceWithoutGap

(* The store implements TaskLife: it begins, moves and forgets tasks, and  *)
(* saves and restarts, where TaskLife does; every other step stutters.     *)
THEOREM SlImplementsLife == SlSpec => SlKeepsPromise
<1>1. SlInit => Life!Init
  <2> SUFFICES ASSUME SlInit PROVE Life!Init
    OBVIOUS
  <2>1. slRecs = [t \in SlTasks |-> SlNoRecord] /\ slSnap = slRecs
    BY DEF SlInit
  <2>2. /\ SlLives(slRecs) = [t \in SlTasks |-> SlAbsent]
        /\ SlNumbers(slRecs) = [t \in SlTasks |-> 0]
    BY <2>1 DEF SlLives, SlNumbers, SlNoRecord
  <2>3. QED
    BY <2>1, <2>2 DEF Life!Init
<1>2. ASSUME SlInv, [SlNext]_SlVars
      PROVE  [Life!Next]_<<SlLives(slRecs), SlNumbers(slRecs),
                           [life |-> SlLives(slSnap), number |-> SlNumbers(slSnap)]>>
  <2>t. SlTypeOK
    BY <1>2 DEF SlInv
  <2>r. slRecs \in [SlTasks -> SlRecord \cup {SlNoRecord}]
    BY <2>t DEF SlTypeOK
  <2>k. slSnap' = slSnap =>
          UNCHANGED [life |-> SlLives(slSnap), number |-> SlNumbers(slSnap)]
    BY DEF SlLives, SlNumbers
  <2>1. ASSUME NEW t \in SlTasks, NEW k \in SlKeys, SlSubmit(t, k) PROVE Life!Begin(t)
    <3> DEFINE new == [state |-> "accepted", key |-> k, first |-> 0, last |-> 0, age |-> 0]
    <3>1. slRecs' = [slRecs EXCEPT ![t] = new] /\ slRecs[t] = SlNoRecord
            /\ slSnap' = slSnap
      BY <2>1 DEF SlSubmit, SlHas
    <3>2. new.state = "accepted" /\ new.last = 0
      OBVIOUS
    <3> HIDE DEF new
    <3>3. /\ SlLives(slRecs)' = [SlLives(slRecs) EXCEPT ![t] = "accepted"]
          /\ SlNumbers(slRecs)' = [SlNumbers(slRecs) EXCEPT ![t] = 0]
      <4>1. new # SlNoRecord
        BY <3>2, SlKinds DEF SlAbsent
      <4>2. QED
        BY <2>r, <3>1, <3>2, <4>1 DEF SlLives, SlNumbers
    <3>4. SlLives(slRecs)[t] = SlAbsent
      BY <3>1, SlKinds DEF SlLives
    <3>5. "accepted" \in SlStates \ SlFinal
      BY DEF SlStates, SlFinal
    <3>6. QED
      BY <2>k, <3>1, <3>3, <3>4, <3>5 DEF Life!Begin
  <2>2. ASSUME NEW t \in SlTasks, NEW s \in SlStates, SlTransition(t, s) PROVE Life!Move(t)
    <3>1. /\ slRecs[t] \in SlRecord /\ slRecs[t].state \notin SlFinal
          /\ \A u \in SlTasks \ {t} : slRecs'[u] = slRecs[u]
          /\ slRecs'[t] \in SlRecord
          /\ slRecs'[t].state = s /\ slRecs'[t].last = slRecs[t].last + 1
      BY <2>2, <2>t, SlMoved
    <3>2. slSnap' = slSnap
      BY <2>2 DEF SlTransition
    <3>3. SlLives(slRecs)' = [SlLives(slRecs) EXCEPT ![t] = s]
      BY <3>1 DEF SlLives
    <3>4. SlNumbers(slRecs)' = [SlNumbers(slRecs) EXCEPT ![t] = SlNumbers(slRecs)[t] + 1]
      BY <3>1, SlKinds DEF SlNumbers
    <3>5. SlLives(slRecs)[t] \in SlStates \ SlFinal
      BY <3>1, SlKinds DEF SlLives
    <3>6. QED
      BY <2>k, <3>2, <3>3, <3>4, <3>5 DEF Life!Move, Life!Alive
  <2>3. ASSUME NEW t \in SlTasks, SlForget(t) PROVE Life!Forget(t)
    <3>1. /\ slRecs' = [slRecs EXCEPT ![t] = SlNoRecord] /\ slSnap' = slSnap
          /\ slRecs[t].state \in SlFinal
      BY <2>3 DEF SlForget, SlExpired, SlIsFinal
    <3>2. /\ SlLives(slRecs)' = [SlLives(slRecs) EXCEPT ![t] = SlAbsent]
          /\ SlNumbers(slRecs)' = [SlNumbers(slRecs) EXCEPT ![t] = 0]
      BY <2>r, <3>1, SlKinds DEF SlLives, SlNumbers
    <3>3. SlLives(slRecs)[t] \in SlFinal
      BY <3>1 DEF SlLives
    <3>4. QED
      BY <2>k, <3>1, <3>2, <3>3 DEF Life!Forget
  <2>4. CASE SlSnapshot
    <3>1. slSnap' = slRecs /\ slRecs' = slRecs
      BY <2>4 DEF SlSnapshot
    <3>2. Life!Save
      BY <3>1 DEF Life!Save, SlLives, SlNumbers
    <3>3. QED
      BY <3>2 DEF Life!Next
  <2>5. CASE SlRestart
    <3>1. slRecs' = slSnap /\ slSnap' = slSnap
      BY <2>5 DEF SlRestart
    <3>2. Life!Restart
      BY <2>k, <3>1 DEF Life!Restart, SlLives, SlNumbers
    <3>3. QED
      BY <3>2 DEF Life!Next
  <2>6. ASSUME SlTick \/ (\E t \in SlTasks : SlRead(t)) \/ UNCHANGED SlVars
        PROVE  /\ UNCHANGED <<SlLives(slRecs), SlNumbers(slRecs)>>
               /\ UNCHANGED [life |-> SlLives(slSnap), number |-> SlNumbers(slSnap)]
    <3>1. CASE SlTick
      <4>1. /\ slRecs' = [t \in SlTasks |-> SlOlder(slRecs[t])]
            /\ slSnap' = [t \in SlTasks |-> SlOlder(slSnap[t])]
        BY <3>1 DEF SlTick
      <4>2. \A t \in SlTasks :
              slSnap[t] \in SlRecord \cup {SlNoRecord} /\ slRecs[t] \in SlRecord \cup {SlNoRecord}
        BY <2>t DEF SlTypeOK
      <4>3. SlLives(slRecs') = SlLives(slRecs) /\ SlLives(slSnap') = SlLives(slSnap)
        BY <4>1, <4>2, SlAged DEF SlLives
      <4>4. SlNumbers(slRecs') = SlNumbers(slRecs) /\ SlNumbers(slSnap') = SlNumbers(slSnap)
        BY <4>1, <4>2, SlAged DEF SlNumbers
      <4>5. QED
        BY <4>3, <4>4 DEF SlLives, SlNumbers
    <3>2. CASE UNCHANGED <<slRecs, slSnap>>
      BY <3>2 DEF SlLives, SlNumbers
    <3>3. QED
      BY <2>6, <3>1, <3>2 DEF SlRead, SlVars
  <2>7. QED
    BY <1>2, <2>1, <2>2, <2>3, <2>4, <2>5, <2>6 DEF SlNext, Life!Next
<1>3. QED
  BY <1>1, <1>2, SlInvInit, SlInvNext, PTL DEF SlSpec, SlKeepsPromise, Life!Spec

-----------------------------------------------------------------------------
(* BackendCall.                                                            *)

(* An entry of the registry is of a call of its task that is under way,    *)
(* and one that was signalled through it is remembered as such.            *)
BkReaches ==
  \A t \in BkTasks : bkHandlers[t] # BkNobody =>
    LET c == bkHandlers[t] IN
    /\ c.task = t /\ bkAt[c] \in {"headers", "aborting", "body"}
    /\ bkToldAt[c] # "never" => t \in bkSignalled

(* Where a call can be by when it was signalled: a listener aborts it, a   *)
(* handler that is given no signal goes on.                                *)
BkFollows ==
  \A c \in BkCalls :
    /\ bkAt[c] = "idle" => bkToldAt[c] = "never" /\ bkCode[c] = "none"
    /\ bkAt[c] = "aborting" => bkToldAt[c] = "headers"
    /\ bkAt[c] \in {"headers", "body"} /\ bkToldAt[c] = "headers" =>
         c.engine = "anthropic"
    /\ bkCode[c] = "499" => bkToldAt[c] = "headers" /\ bkAt[c] = "done"
    /\ bkAt[c] = "done" /\ bkToldAt[c] = "headers" /\ c.engine # "anthropic" =>
         bkCode[c] = "499"

BkInv == BkTypeOK /\ BkReaches /\ BkFollows

LEMMA BkInvInit == BkInit => BkInv
BY DEF BkInit, BkInv, BkTypeOK, BkReaches, BkFollows, BkCodes, BkNoEvidence

LEMMA BkTaskIn == ASSUME NEW c \in BkCalls PROVE c.task \in BkTasks
BY DEF BkTasks

(* complete() keeps the types, and leaves no entry.                        *)
LEMMA BkCompletes ==
  ASSUME BkTypeOK, NEW t \in BkTasks,
         NEW outcome \in {"none", "transport_aborted", "cancel_unsupported", "already_terminal"},
         BkComplete(t, outcome)
  PROVE  /\ bkHandlers' = [bkHandlers EXCEPT ![t] = BkNobody]
         /\ bkSignalled' = bkSignalled \ {t}
         /\ bkEvidence' \in [BkTasks ->
              [outcome : {"none", "cancel_requested", "transport_aborted",
                          "cancel_unsupported", "already_terminal"},
               clean : BOOLEAN]]
BY DEF BkComplete, BkTypeOK

LEMMA BkInvNext == BkInv /\ [BkNext]_BkVars => BkInv'
<1> SUFFICES ASSUME BkInv, [BkNext]_BkVars PROVE BkInv'
  OBVIOUS
<1> USE BkAssumption, BkTaskIn DEF BkInv, BkTypeOK, BkReaches, BkFollows
<1>1. ASSUME NEW c \in BkCalls, NEW code \in BkCodes, BkEnd(c, code),
             code = "499" => bkAt[c] = "aborting",
             bkToldAt[c] = "headers" /\ c.engine # "anthropic" => code = "499"
      PROVE  BkInv'
  <2> DEFINE outcome == IF code = "499" THEN "transport_aborted" ELSE "none"
  <2>1. BkComplete(c.task, outcome)
    BY <1>1 DEF BkEnd
  <2>2. /\ bkHandlers' = [bkHandlers EXCEPT ![c.task] = BkNobody]
        /\ bkSignalled' = bkSignalled \ {c.task}
        /\ bkEvidence' \in [BkTasks ->
             [outcome : {"none", "cancel_requested", "transport_aborted",
                         "cancel_unsupported", "already_terminal"},
              clean : BOOLEAN]]
    BY <2>1, BkCompletes
  <2>3. QED
    BY <1>1, <2>2 DEF BkEnd
<1>2. ASSUME NEW c \in BkCalls, BkStart(c) PROVE BkInv'
  <2>1. CASE BkEnd(c, "400")
    BY <1>1, <1>2, <2>1 DEF BkStart, BkCodes
  <2>2. CASE ~BkEnd(c, "400")
    BY <1>2, <2>2 DEF BkStart
  <2>3. QED
    BY <2>1, <2>2
<1>3. ASSUME NEW c \in BkCalls,
             BkAborted(c) \/ BkTimeout(c) \/ BkTransportFails(c) \/ BkBody(c)
      PROVE  BkInv'
  BY <1>1, <1>3 DEF BkAborted, BkTimeout, BkTransportFails, BkBody, BkCodes
<1>4. ASSUME NEW c \in BkCalls, BkHeaders(c) PROVE BkInv'
  BY <1>4 DEF BkHeaders
<1>5. ASSUME NEW t \in BkTasks, NEW terminal \in BOOLEAN, BkRequest(t, terminal)
      PROVE  BkInv'
  <2>1. ASSUME NEW outcome \in {"cancel_unsupported", "already_terminal"},
               BkComplete(t, outcome), UNCHANGED <<bkAt, bkCode, bkToldAt>>
        PROVE  BkInv'
    BY <2>1, BkCompletes
  <2>2. ASSUME NEW c \in BkCalls, c = bkHandlers[t], t \notin bkSignalled,
               BkSignal(c), bkSignalled' = bkSignalled \cup {t},
               bkEvidence' = [bkEvidence EXCEPT ![t].outcome = "cancel_requested"],
               bkToldAt' = [bkToldAt EXCEPT ![c] = bkAt[c]],
               UNCHANGED <<bkCode, bkHandlers>>
        PROVE  BkInv'
    BY <2>2 DEF BkSignal, BkListens
  <2>3. QED
    BY <1>5, <2>1, <2>2 DEF BkRequest
<1>6. CASE UNCHANGED BkVars
  BY <1>6 DEF BkVars
<1>7. QED
  BY <1>2, <1>3, <1>4, <1>5, <1>6 DEF BkNext, BkRuns

(* Both follow from the invariant, whoever is scheduled when.              *)
LEMMA BkKept == BkInit /\ [][BkNext]_BkVars => [](BkTypeOK /\ BkCancelHonest)
<1>1. BkInv => BkTypeOK
  BY DEF BkInv
<1>2. BkInv => BkCancelHonest
  BY DEF BkInv, BkReaches, BkFollows, BkCancelHonest, BkTypeOK
<1>3. QED
  BY <1>1, <1>2, BkInvInit, BkInvNext, PTL

(* The registry of cancellations is as described, for any calls.           *)
THEOREM BkTypes == BkSpec => []BkTypeOK
BY BkKept, PTL DEF BkSpec

(* A call that was cancelled while it awaited its headers ends as          *)
(* cancelled, and no entry outlives its call (withBackendCancellation),    *)
(* for any number of calls that share task ids in any way.                 *)
THEOREM BkCancels == BkSpec => []BkCancelHonest
BY BkKept, PTL DEF BkSpec

-----------------------------------------------------------------------------
(* Induction over the numbers, for the loop over the lines of a batch.     *)
Smaller == {pair \in Nat \X Nat : pair[1] < pair[2]}

LEMMA LeastOf ==
  ASSUME NEW T \in SUBSET Nat, T # {}
  PROVE  \E x \in T : \A y \in T : x <= y
<1>1. IsWellFoundedOn(Smaller, Nat)
  BY NatLessThanWellFounded DEF OpToRel, Smaller
<1>2. PICK x \in T : \A y \in T : ~ (<<y, x>> \in Smaller)
  BY <1>1, WFMin
<1>3. ASSUME NEW y \in T PROVE x <= y
  <2>1. x \in Nat /\ y \in Nat /\ <<y, x>> \notin Smaller
    BY <1>2
  <2>2. QED
    BY <2>1 DEF Smaller
<1>4. QED
  BY <1>3

LEMMA ByInduction ==
  ASSUME NEW S, 0 \in S, \A n \in Nat : n \in S => n + 1 \in S
  PROVE  \A n \in Nat : n \in S
<1> SUFFICES ASSUME Nat \ S # {} PROVE FALSE
  OBVIOUS
<1>1. PICK x \in Nat \ S : \A y \in Nat \ S : x <= y
  BY LeastOf
<1>2. x # 0 /\ x - 1 \in Nat /\ x - 1 \notin Nat \ S
  BY <1>1
<1>3. QED
  BY <1>1, <1>2

-----------------------------------------------------------------------------
(* BackendStream.                                                          *)
BsLineKinds == {"text", "done", "other", "bad"}
BsScanned == [out : 0 .. BsFull - 1, sent : Nat, got : Nat,
              final : {"none", "success", "error"}]

(* What one line does.                                                     *)
LEMMA BsLineIs ==
  ASSUME NEW s \in BsScanned, NEW line \in BsLineKinds
  PROVE  LET t == BsLine(s, line) IN
         /\ t \in BsScanned
         /\ s.got = s.sent + s.out => t.got = t.sent + t.out
         /\ (s.final = "success" => s.out = 0) => (t.final = "success" => t.out = 0)
         /\ t.got = s.got + (IF s.final = "none" /\ line = "text" THEN 1 ELSE 0)
         /\ t.final = "none" <=> s.final = "none" /\ line \notin {"done", "bad"}
<1> DEFINE t == BsLine(s, line)
<1>1. BsFull \in Nat \ {0}
  BY BsAssumption
<1>2. /\ s.out \in 0 .. BsFull - 1 /\ s.sent \in Nat /\ s.got \in Nat
      /\ s.final \in {"none", "success", "error"}
      /\ s = [out |-> s.out, sent |-> s.sent, got |-> s.got, final |-> s.final]
  BY DEF BsScanned
<1>3. CASE s.final # "none" \/ line = "other"
  <2>1. t = s
    BY <1>3 DEF BsLine
  <2>2. QED
    BY <1>2, <1>3, <2>1
<1>4. CASE s.final = "none" /\ line = "bad"
  <2>1. t = [s EXCEPT !.final = "error"]
    BY <1>4 DEF BsLine
  <2>2. t = [out |-> s.out, sent |-> s.sent, got |-> s.got, final |-> "error"]
    BY <1>2, <2>1
  <2>3. QED
    BY <1>2, <1>4, <2>2 DEF BsScanned
<1>5. CASE s.final = "none" /\ line = "done"
  <2>1. t = [s EXCEPT !.final = "success", !.sent = s.sent + s.out, !.out = 0]
    BY <1>5 DEF BsLine
  <2>2. t = [out |-> 0, sent |-> s.sent + s.out, got |-> s.got, final |-> "success"]
    BY <1>2, <2>1
  <2>3. QED
    BY <1>1, <1>2, <1>5, <2>2 DEF BsScanned
<1>6. CASE s.final = "none" /\ line = "text"
  <2>1. CASE s.out + 1 >= BsFull
    <3>1. t = [s EXCEPT !.got = s.got + 1, !.sent = s.sent + s.out + 1, !.out = 0]
      BY <1>6, <2>1 DEF BsLine
    <3>2. t = [out |-> 0, sent |-> s.sent + s.out + 1, got |-> s.got + 1, final |-> "none"]
      BY <1>2, <1>6, <3>1
    <3>3. QED
      BY <1>1, <1>2, <1>6, <3>2 DEF BsScanned
  <2>2. CASE ~ (s.out + 1 >= BsFull)
    <3>1. t = [s EXCEPT !.got = s.got + 1, !.out = s.out + 1]
      BY <1>6, <2>2 DEF BsLine
    <3>2. t = [out |-> s.out + 1, sent |-> s.sent, got |-> s.got + 1, final |-> "none"]
      BY <1>2, <1>6, <3>1
    <3>3. QED
      BY <1>1, <1>2, <1>6, <2>2, <3>2 DEF BsScanned
  <2>3. QED
    BY <2>1, <2>2
<1>7. QED
  BY <1>3, <1>4, <1>5, <1>6 DEF BsLineKinds

(* The states between the lines: the loop is total.                        *)
BsLoop(g, s, lines, n) ==
  /\ g \in [0 .. n -> BsScanned]
  /\ g[0] = s
  /\ \A i \in 1 .. n : g[i] = BsLine(g[i - 1], lines[i])

LEMMA BsLoopIs ==
  ASSUME NEW s \in BsScanned, NEW lines \in Seq(BsLineKinds)
  PROVE  \E g : BsLoop(g, s, lines, Len(lines))
<1> DEFINE Does(n) == \E g \in [0 .. n -> BsScanned] : BsLoop(g, s, lines, n)
           S == {n \in Nat : n <= Len(lines) => Does(n)}
<1>1. 0 \in S
  <2>1. BsLoop([i \in 0 .. 0 |-> s], s, lines, 0)
    BY DEF BsLoop
  <2>2. [i \in 0 .. 0 |-> s] \in [0 .. 0 -> BsScanned]
    OBVIOUS
  <2>3. QED
    BY <2>1, <2>2
<1>2. ASSUME NEW n \in Nat, n \in S PROVE n + 1 \in S
  <2> SUFFICES ASSUME n + 1 <= Len(lines) PROVE Does(n + 1)
    OBVIOUS
  <2>1. Len(lines) \in Nat /\ n <= Len(lines)
    OBVIOUS
  <2>2. PICK g \in [0 .. n -> BsScanned] : BsLoop(g, s, lines, n)
    BY <1>2, <2>1
  <2>3. lines[n + 1] \in BsLineKinds
    BY <2>1
  <2> DEFINE h == [i \in 0 .. n + 1 |-> IF i = n + 1 THEN BsLine(g[n], lines[n + 1]) ELSE g[i]]
  <2>4. BsLine(g[n], lines[n + 1]) \in BsScanned
    BY <2>2, <2>3, BsLineIs
  <2>5. h \in [0 .. n + 1 -> BsScanned]
    BY <2>2, <2>4
  <2>6. h[0] = s
    BY <2>2 DEF BsLoop
  <2>7. ASSUME NEW i \in 1 .. n + 1 PROVE h[i] = BsLine(h[i - 1], lines[i])
    <3>1. CASE i = n + 1
      BY <3>1
    <3>2. CASE i # n + 1
      BY <2>2, <3>2 DEF BsLoop
    <3>3. QED
      BY <3>1, <3>2
  <2>8. QED
    BY <2>5, <2>6, <2>7 DEF BsLoop
<1>3. Len(lines) \in Nat
  OBVIOUS
<1> HIDE DEF S
<1>4. Len(lines) \in S
  BY <1>1, <1>2, <1>3, ByInduction
<1>5. QED
  BY <1>3, <1>4 DEF S

LEMMA BsScanIs ==
  ASSUME NEW s \in BsScanned, NEW lines \in Seq(BsLineKinds)
  PROVE  \E g : BsLoop(g, s, lines, Len(lines)) /\ BsScan(s, lines) = g[Len(lines)]
<1> DEFINE Body(g) == [i \in 0 .. Len(lines) |->
                         IF i = 0 THEN s ELSE BsLine(g[i - 1], lines[i])]
           after == CHOOSE g : g = Body(g)
<1>1. Len(lines) \in Nat
  OBVIOUS
<1>2. PICK g : BsLoop(g, s, lines, Len(lines))
  BY BsLoopIs
<1>3. g = Body(g)
  BY <1>1, <1>2 DEF BsLoop
<1>4. after = Body(after)
  BY <1>3
<1>5. BsScan(s, lines) = after[Len(lines)]
  BY DEF BsScan
<1> HIDE DEF after
<1>6. after[0] = s /\ \A i \in 1 .. Len(lines) : after[i] = BsLine(after[i - 1], lines[i])
  BY <1>1, <1>4
<1> DEFINE S == {n \in Nat : n <= Len(lines) => after[n] = g[n]}
<1>7. 0 \in S
  BY <1>2, <1>6 DEF BsLoop
<1>8. ASSUME NEW n \in Nat, n \in S PROVE n + 1 \in S
  BY <1>1, <1>2, <1>6, <1>8 DEF BsLoop
<1> HIDE DEF S
<1>9. Len(lines) \in S
  BY <1>1, <1>7, <1>8, ByInduction
<1>10. after[Len(lines)] = g[Len(lines)]
  BY <1>1, <1>9 DEF S
<1>11. QED
  BY <1>2, <1>5, <1>10

(* The lines with text among the first n, up to the one that ends it.      *)
BsTextsTo(lines, n) ==
  {i \in 1 .. n : /\ lines[i] = "text"
                  /\ \A j \in 1 .. i : lines[j] \notin {"done", "bad"}}

LEMMA BsTextsAre ==
  ASSUME NEW lines \in Seq(BsLineKinds)
  PROVE  /\ BsTexts(lines) = BsTextsTo(lines, Len(lines))
         /\ IsFiniteSet(BsTexts(lines)) /\ Cardinality(BsTexts(lines)) \in Nat
<1>1. BsTexts(lines) = BsTextsTo(lines, Len(lines))
  BY DEF BsTexts, BsTextsTo
<1>2. BsTexts(lines) \subseteq 1 .. Len(lines) /\ IsFiniteSet(1 .. Len(lines))
  BY FS_Interval DEF BsTexts
<1>3. IsFiniteSet(BsTexts(lines))
  BY <1>2, FS_Subset
<1>4. QED
  BY <1>1, <1>3, FS_CardinalityType

(* A batch: its text up to the line that ends the stream is got, and all   *)
(* of it is passed on when that line says success.                         *)
LEMMA BsBatchIs ==
  ASSUME NEW lines \in Seq(BsLineKinds), NEW s \in BsScanned,
         s.final = "none", s.got = s.sent + s.out
  PROVE  LET t == BsScan(s, lines) IN
         /\ t \in BsScanned
         /\ t.got = t.sent + t.out
         /\ t.final = "success" => t.out = 0
         /\ Cardinality(BsTexts(lines)) \in Nat
         /\ t.got = s.got + Cardinality(BsTexts(lines))
<1>1. Len(lines) \in Nat /\ DOMAIN lines = 1 .. Len(lines)
      /\ \A i \in 1 .. Len(lines) : lines[i] \in BsLineKinds
  OBVIOUS
<1>2. PICK g : BsLoop(g, s, lines, Len(lines)) /\ BsScan(s, lines) = g[Len(lines)]
  BY BsScanIs
<1> DEFINE Texts(n) == BsTextsTo(lines, n)
           Holds(n) == /\ g[n].got = g[n].sent + g[n].out
                       /\ g[n].final = "success" => g[n].out = 0
                       /\ IsFiniteSet(Texts(n))
                       /\ g[n].got = s.got + Cardinality(Texts(n))
                       /\ g[n].final = "none" <=>
                            \A j \in 1 .. n : lines[j] \notin {"done", "bad"}
           S == {n \in Nat : n <= Len(lines) => Holds(n)}
<1>3. s.got \in Nat
  BY DEF BsScanned
<1>4. 0 \in S
  <2>1. g[0] = s
    BY <1>2 DEF BsLoop
  <2>2. Texts(0) = {}
    BY DEF BsTextsTo
  <2>3. IsFiniteSet(Texts(0)) /\ Cardinality(Texts(0)) = 0
    BY <2>2, FS_EmptySet
  <2>4. Holds(0)
    BY <1>3, <2>1, <2>3
  <2>5. QED
    BY <2>4
<1>5. ASSUME NEW n \in Nat, n \in S, n + 1 <= Len(lines) PROVE Holds(n + 1)
  <2>1. Holds(n) /\ n + 1 \in 1 .. Len(lines) /\ n \in 0 .. Len(lines)
    BY <1>1, <1>5
  <2>2. lines[n + 1] \in BsLineKinds
    BY <1>1, <2>1
  <2>3. g[n] \in BsScanned /\ g[n + 1] = BsLine(g[n], lines[n + 1])
    BY <1>1, <1>2, <2>1 DEF BsLoop
  <2>4. /\ g[n + 1].got = g[n + 1].sent + g[n + 1].out
        /\ g[n + 1].final = "success" => g[n + 1].out = 0
        /\ g[n + 1].got = g[n].got
             + (IF g[n].final = "none" /\ lines[n + 1] = "text" THEN 1 ELSE 0)
        /\ g[n + 1].final = "none" <=>
             g[n].final = "none" /\ lines[n + 1] \notin {"done", "bad"}
    <3> DEFINE t == BsLine(g[n], lines[n + 1])
    <3>1. /\ g[n].got = g[n].sent + g[n].out => t.got = t.sent + t.out
          /\ (g[n].final = "success" => g[n].out = 0) =>
               (t.final = "success" => t.out = 0)
          /\ t.got = g[n].got
               + (IF g[n].final = "none" /\ lines[n + 1] = "text" THEN 1 ELSE 0)
          /\ t.final = "none" <=>
               g[n].final = "none" /\ lines[n + 1] \notin {"done", "bad"}
      BY <2>2, <2>3, BsLineIs
    <3> HIDE DEF t
    <3>2. g[n + 1] = t
      BY <2>3 DEF t
    <3>3. QED
      BY <2>1, <3>1, <3>2
  <2>5. Cardinality(Texts(n)) \in Nat
    BY <2>1, FS_CardinalityType
  <2>6. 1 .. n + 1 = (1 .. n) \cup {n + 1}
    OBVIOUS
  <2>7. g[n + 1].final = "none" <=> \A j \in 1 .. n + 1 : lines[j] \notin {"done", "bad"}
    <3>1. g[n].final = "none" <=> \A j \in 1 .. n : lines[j] \notin {"done", "bad"}
      BY <2>1
    <3>2. QED
      BY <2>4, <2>6, <3>1
  <2>8. CASE g[n].final = "none" /\ lines[n + 1] = "text"
    <3>1. Texts(n + 1) = Texts(n) \cup {n + 1} /\ n + 1 \notin Texts(n)
      <4>1. \A j \in 1 .. n + 1 : lines[j] \notin {"done", "bad"}
        BY <2>1, <2>6, <2>8
      <4>2. QED
        BY <2>6, <2>8, <4>1 DEF BsTextsTo
    <3>2. IsFiniteSet(Texts(n + 1)) /\ Cardinality(Texts(n + 1)) = Cardinality(Texts(n)) + 1
      BY <2>1, <3>1, FS_AddElement
    <3>3. g[n + 1].got = g[n].got + 1
      BY <2>4, <2>8
    <3>4. g[n + 1].got = s.got + Cardinality(Texts(n + 1))
      BY <1>3, <2>1, <2>5, <3>2, <3>3
    <3>5. QED
      BY <2>4, <2>7, <3>2, <3>4
  <2>9. CASE ~ (g[n].final = "none" /\ lines[n + 1] = "text")
    <3>1. Texts(n + 1) = Texts(n)
      <4>1. n + 1 \notin Texts(n + 1)
        <5>1. CASE g[n].final # "none"
          BY <2>1, <5>1 DEF BsTextsTo
        <5>2. CASE lines[n + 1] # "text"
          BY <5>2 DEF BsTextsTo
        <5>3. QED
          BY <2>9, <5>1, <5>2
      <4>2. QED
        BY <2>6, <4>1 DEF BsTextsTo
    <3>2. g[n + 1].got = g[n].got
      <4>1. g[n].got \in Nat
        BY <2>3 DEF BsScanned
      <4>2. QED
        BY <2>4, <2>9, <4>1
    <3>3. QED
      BY <2>1, <2>4, <2>7, <3>1, <3>2
  <2>10. QED
    BY <2>8, <2>9
<1> HIDE DEF Holds
<1>6. \A n \in Nat : n \in S => n + 1 \in S
  BY <1>5
<1> HIDE DEF S
<1>7. Len(lines) \in S
  BY <1>1, <1>4, <1>6, ByInduction
<1>8. Holds(Len(lines))
  BY <1>1, <1>7 DEF S
<1>9. BsTexts(lines) = Texts(Len(lines)) /\ Cardinality(BsTexts(lines)) \in Nat
  BY BsTextsAre
<1>10. g[Len(lines)] \in BsScanned
  BY <1>1, <1>2 DEF BsLoop
<1>11. QED
  BY <1>2, <1>8, <1>9, <1>10 DEF Holds

-----------------------------------------------------------------------------
(* What has come is what was got and what the batch in hand has.           *)
BsInv ==
  /\ BsTypeOK
  /\ bsGot = bsSent + bsOut
  /\ bsAt # "ended" => bsFinal = <<>>
  /\ bsAt = "headers" => bsGot = 0 /\ bsCame = 0 /\ bsRead = BsOpen
  /\ bsAt = "reading" =>
       bsCame = bsGot + (IF bsRead.state = "lines"
                           THEN Cardinality(BsTexts(bsRead.lines)) ELSE 0)
  /\ bsAt = "ended" =>
       /\ Len(bsFinal) = 1
       /\ bsFinal \in {<<"success">>, <<"incomplete">>} => bsSent = bsCame

LEMMA BsReadKinds ==
  /\ BsOpen.state = "open" /\ BsClosed.state = "end"
  /\ \A r \in [state : {"lines"}, lines : BsBatches] :
       r.state = "lines" /\ r.lines \in BsBatches
  /\ \A b \in BsBatches : b \in Seq(BsLineKinds)
BY BsAssumption DEF BsOpen, BsClosed, BsLineKinds

LEMMA BsFinishes ==
  ASSUME BsInv, bsAt # "ended",
         NEW kind \in {"success", "error", "incomplete", "timeout"}, BsFinish(kind)
  PROVE  /\ bsAt' = "ended" /\ bsFinal' = <<kind>>
         /\ bsFinal' \in Seq({"success", "error", "incomplete", "timeout"})
         /\ Len(bsFinal') = 1
<1>1. bsAt' = "ended" /\ bsFinal' = Append(<<>>, kind)
  BY DEF BsInv, BsFinish
<1>2. bsFinal' = <<kind>>
  BY <1>1
<1>3. QED
  BY <1>1, <1>2

LEMMA BsInvInit == BsInit => BsInv
<1>1. BsFull \in Nat \ {0} /\ BsReads \in Nat \ {0}
  BY BsAssumption
<1>2. QED
  BY <1>1 DEF BsInit, BsInv, BsTypeOK

LEMMA BsInvStep == BsInv /\ [BsNext]_BsVars => BsInv'
<1> SUFFICES ASSUME BsInv, [BsNext]_BsVars PROVE BsInv'
  OBVIOUS
<1>1. /\ BsFull \in Nat \ {0} /\ BsReads \in Nat \ {0}
      /\ bsRead \in {BsOpen, BsClosed} \cup [state : {"lines"}, lines : BsBatches]
      /\ bsCount \in 0 .. BsReads /\ bsOut \in 0 .. BsFull - 1
      /\ bsSent \in Nat /\ bsGot \in Nat /\ bsCame \in Nat
      /\ bsGot = bsSent + bsOut
  BY BsAssumption DEF BsInv, BsTypeOK
<1>2. CASE UNCHANGED BsVars
  BY <1>2 DEF BsInv, BsTypeOK, BsVars
<1>3. CASE BsHeaders
  <2>1. CASE bsAt' = "reading" /\ bsCount' = 1 /\ UNCHANGED bsFinal
    BY <1>1, <1>3, <2>1, BsReadKinds DEF BsHeaders, BsInv, BsTypeOK
  <2>2. CASE BsFinish("error") /\ UNCHANGED bsCount
    BY <1>1, <1>3, <2>2, BsFinishes DEF BsHeaders, BsInv, BsTypeOK
  <2>3. QED
    BY <1>3, <2>1, <2>2 DEF BsHeaders
<1>4. CASE BsArrives
  <2>1. ASSUME NEW lines \in BsBatches, bsRead' = [state |-> "lines", lines |-> lines],
               bsCame' = bsCame + Cardinality(BsTexts(lines))
        PROVE  BsInv'
    <3>1. lines \in Seq(BsLineKinds)
      BY BsReadKinds
    <3>2. Cardinality(BsTexts(lines)) \in Nat
      BY <3>1, BsTextsAre
    <3>3. bsCame = bsGot
      BY <1>1, <1>4, BsReadKinds DEF BsArrives, BsInv
    <3>4. /\ bsRead' \in [state : {"lines"}, lines : BsBatches]
          /\ bsRead'.state = "lines" /\ bsRead'.lines = lines
      BY <2>1
    <3>5. BsTypeOK'
      BY <1>1, <1>4, <2>1, <3>2, <3>4 DEF BsArrives, BsInv, BsTypeOK
    <3>6. QED
      BY <1>1, <1>4, <2>1, <3>3, <3>4, <3>5 DEF BsArrives, BsInv
  <2>2. CASE bsRead' = BsClosed /\ UNCHANGED bsCame
    BY <1>1, <1>4, <2>2, BsReadKinds DEF BsArrives, BsInv, BsTypeOK
  <2>3. QED
    BY <1>4, <2>1, <2>2 DEF BsArrives
<1>5. CASE BsFlush
  <2>1. bsSent' \in Nat /\ bsOut' = 0 /\ bsSent' + bsOut' = bsGot
    BY <1>1, <1>5 DEF BsFlush
  <2>2. QED
    BY <1>1, <1>5, <2>1 DEF BsFlush, BsInv, BsTypeOK
<1>6. CASE BsLines
  <2> DEFINE s == BsScan(BsGathered, bsRead.lines)
  <2>1. bsRead.state = "lines" /\ bsRead.lines \in Seq(BsLineKinds)
    BY <1>1, <1>6, BsReadKinds DEF BsLines
  <2>2. /\ BsGathered \in BsScanned /\ BsGathered.final = "none"
        /\ BsGathered.got = bsGot /\ BsGathered.got = BsGathered.sent + BsGathered.out
    BY <1>1 DEF BsGathered, BsScanned
  <2>3. /\ s \in BsScanned /\ s.got = s.sent + s.out
        /\ s.final = "success" => s.out = 0
        /\ s.got = bsGot + Cardinality(BsTexts(bsRead.lines))
    BY <2>1, <2>2, BsBatchIs
  <2>4. bsCame = s.got
    BY <1>6, <2>1, <2>3 DEF BsLines, BsInv
  <2> HIDE DEF s
  <2>5. /\ bsAt = "reading" /\ bsRead' = BsOpen
        /\ bsCount' = IF bsCount < BsReads THEN bsCount + 1 ELSE bsCount
        /\ bsOut' = s.out /\ bsSent' = s.sent /\ bsGot' = s.got
        /\ \/ s.final = "none" /\ UNCHANGED <<bsAt, bsFinal>>
           \/ s.final # "none" /\ BsFinish(s.final)
        /\ UNCHANGED bsCame
    BY <1>6 DEF BsLines, s
  <2>6. /\ s.out \in 0 .. BsFull - 1 /\ s.sent \in Nat /\ s.got \in Nat
        /\ s.final \in {"none", "success", "error"}
    BY <2>3 DEF BsScanned
  <2>7. bsCount' \in 0 .. BsReads
    BY <1>1, <2>5
  <2>8. CASE s.final = "none" /\ UNCHANGED <<bsAt, bsFinal>>
    BY <2>3, <2>4, <2>5, <2>6, <2>7, <2>8, BsReadKinds DEF BsInv, BsTypeOK
  <2>9. CASE s.final # "none" /\ BsFinish(s.final)
    <3>1. /\ bsAt' = "ended" /\ bsFinal' = <<s.final>> /\ Len(bsFinal') = 1
          /\ bsFinal' \in Seq({"success", "error", "incomplete", "timeout"})
      BY <2>5, <2>6, <2>9, BsFinishes
    <3>2. BsTypeOK'
      BY <2>5, <2>6, <2>7, <3>1 DEF BsInv, BsTypeOK
    <3>3. bsFinal' \in {<<"success">>, <<"incomplete">>} => bsSent' = bsCame'
      BY <2>3, <2>4, <2>5, <2>6, <3>1
    <3>4. QED
      BY <2>3, <2>5, <3>1, <3>2, <3>3 DEF BsInv
  <2>10. QED
    BY <2>5, <2>8, <2>9
<1>7. CASE BsEnds
  <2>1. /\ bsAt' = "ended" /\ bsFinal' = <<"incomplete">> /\ Len(bsFinal') = 1
        /\ bsFinal' \in Seq({"success", "error", "incomplete", "timeout"})
    BY <1>7, BsFinishes DEF BsEnds
  <2>2. bsCame = bsGot
    BY <1>1, <1>7 DEF BsEnds, BsInv
  <2>3. bsSent' = bsGot /\ bsOut' = 0
    BY <1>1, <1>7 DEF BsEnds
  <2>4. QED
    BY <1>1, <1>7, <2>1, <2>2, <2>3 DEF BsEnds, BsInv, BsTypeOK
<1>8. CASE BsAborts \/ BsFails
  <2>1. PICK kind \in {"timeout", "error"} : BsFinish(kind)
    BY <1>8 DEF BsAborts, BsFails
  <2>2. /\ bsAt' = "ended" /\ bsFinal' = <<kind>> /\ Len(bsFinal') = 1
        /\ bsFinal' \in Seq({"success", "error", "incomplete", "timeout"})
    BY <1>8, <2>1, BsFinishes DEF BsAborts, BsFails
  <2>3. bsFinal' \notin {<<"success">>, <<"incomplete">>}
    BY <2>2
  <2>4. UNCHANGED <<bsRead, bsCount, bsOut, bsSent, bsGot, bsCame>>
    BY <1>8 DEF BsAborts, BsFails
  <2>5. QED
    BY <1>1, <2>2, <2>3, <2>4 DEF BsInv, BsTypeOK
<1>9. QED
  BY <1>2, <1>3, <1>4, <1>5, <1>6, <1>7, <1>8 DEF BsNext

(* A backend stream keeps its types.                                       *)
THEOREM BsTypes == BsSpec => []BsTypeOK
<1>1. BsInv => BsTypeOK
  BY DEF BsInv
<1>2. QED
  BY <1>1, BsInvInit, BsInvStep, PTL DEF BsSpec

(* No text of a stream is lost or doubled between a read and a flush, and  *)
(* a stream that ends by itself has passed on all that came before its     *)
(* end, for any batches and any size of what is gathered.                  *)
THEOREM BsNothingGetsLost == BsSpec => []BsNothingLost
<1>1. BsInv => BsNothingLost
  <2> SUFFICES ASSUME BsInv PROVE BsNothingLost
    OBVIOUS
  <2>1. CASE bsAt = "ended"
    <3>1. Len(bsFinal) = 1 /\ bsGot = bsSent + bsOut
      BY <2>1 DEF BsInv
    <3>2. bsFinal \in {<<"success">>, <<"incomplete">>} => bsSent = bsCame
      BY <2>1 DEF BsInv
    <3>3. Len(bsFinal) <= 1
      BY <3>1
    <3>4. QED
      BY <3>1, <3>2, <3>3 DEF BsNothingLost
  <2>2. CASE bsAt # "ended"
    <3>1. bsFinal = <<>> /\ Len(bsFinal) = 0
      BY <2>2 DEF BsInv
    <3>2. bsFinal \notin {<<"success">>, <<"incomplete">>}
      BY <3>1
    <3>3. QED
      <4>1. bsGot = bsSent + bsOut /\ Len(bsFinal) <= 1
        BY <3>1 DEF BsInv
      <4>2. QED
        BY <3>2, <4>1 DEF BsNothingLost
  <2>3. QED
    BY <2>1, <2>2
<1>2. QED
  BY <1>1, BsInvInit, BsInvStep, PTL DEF BsSpec

-----------------------------------------------------------------------------
(* BackendStability.                                                       *)

LEMMA StJudgedIs ==
  ASSUME NEW saw \in StLooks PROVE StJudged(saw) \in StObservations
<1>1. StOk \in StObservations /\ StDegraded \in StObservations
  BY DEF StOk, StDegraded, StObservations
<1>2. StDrainFor(1) \in StObservations /\ StDrainFor(2) \in StObservations
  BY DEF StDrainFor, StObservations
<1>3. StOllama(saw) \in StObservations /\ StMesh(saw) \in StObservations
  BY <1>1, <1>2 DEF StOllama, StMesh
<1>4. StLmStudio(saw) \in StObservations
  BY <1>1, <1>2 DEF StLmStudio
<1>5. QED
  BY <1>1, <1>2, <1>3, <1>4 DEF StJudged

LEMMA StTypeInit == StInit => StTypeOK
BY DEF StInit, StTypeOK, StLooks, StObservations, StOk, StIdle

LEMMA StTypeNext == StTypeOK /\ [StNext]_StVars => StTypeOK'
<1> SUFFICES ASSUME StTypeOK, [StNext]_StVars PROVE StTypeOK'
  OBVIOUS
<1> USE DEF StTypeOK
<1>1. StOk \in StObservations /\ StDegraded \in StObservations /\ "ready" \in StLooks
  BY DEF StOk, StDegraded, StObservations, StLooks
<1>2. ASSUME NEW b \in StBeats, NEW obs \in StObservations, StObserved(b, obs)
      PROVE  StTypeOK'
  BY <1>1, <1>2 DEF StObserved, StKept, StIdle
<1>3. CASE StBackendTurns
  BY <1>3 DEF StBackendTurns
<1>4. CASE StTick
  <2> DEFINE later(obs) == [obs EXCEPT !.left = IF @ = 0 THEN 0 ELSE @ - 1]
  <2>1. ASSUME NEW obs \in StObservations PROVE later(obs) \in StObservations
    BY DEF StObservations
  <2>2. /\ stHeld' = later(stHeld) /\ stDirectory' = later(stDirectory)
        /\ stBeat' = [b \in StBeats |-> [stBeat[b] EXCEPT !.says = later(stBeat[b].says)]]
        /\ UNCHANGED <<stConfig, stBackend>>
    BY <1>4 DEF StTick
  <2> HIDE DEF later
  <2>3. QED
    BY <2>1, <2>2
<1>5. ASSUME NEW b \in StBeats, StAnswers(b) PROVE StTypeOK'
  BY <1>1, <1>5 DEF StAnswers, StIdle
<1>6. ASSUME NEW b \in StBeats, StProbed(b) \/ StProbeFails(b) PROVE StTypeOK'
  BY <1>1, <1>2, <1>6, StJudgedIs DEF StProbed, StProbeFails
<1>7. ASSUME NEW b \in StBeats, StReported(b) \/ StUnreported(b) PROVE StTypeOK'
  BY <1>1, <1>7 DEF StReported, StUnreported, StIdle
<1>8. CASE UNCHANGED StVars
  BY <1>8 DEF StVars
<1>9. QED
  BY <1>3, <1>4, <1>5, <1>6, <1>7, <1>8 DEF StNext

(* What heartbeats carry and admission keeps is as described.              *)
THEOREM StTypes == StSpec => []StTypeOK
BY StTypeInit, StTypeNext, PTL DEF StSpec

(* No probe, late, lost or overtaken by another, ends a drain; only time   *)
(* does (_setBackendStability), for any number of overlapping heartbeats.  *)
THEOREM StDrainHeld == StSpec => StHoldsDrain
<1>1. ASSUME StTypeOK, [StNext]_StVars, StDraining(stHeld), ~StDraining(stHeld')
      PROVE  stHeld' = [stHeld EXCEPT !.left = 0]
  <2>1. ASSUME NEW b \in StBeats, NEW obs, StObserved(b, obs) PROVE FALSE
    BY <1>1, <2>1 DEF StObserved, StKept
  <2>2. CASE StTick
    <3>1. stHeld' = [stHeld EXCEPT !.left = IF stHeld.left = 0 THEN 0 ELSE stHeld.left - 1]
      BY <2>2 DEF StTick
    <3>2. stHeld.left \in 0 .. 2 /\ stHeld.state = "draining"
      BY <1>1 DEF StTypeOK, StObservations, StDraining
    <3>3. stHeld'.state = "draining"
            /\ stHeld'.left = IF stHeld.left = 0 THEN 0 ELSE stHeld.left - 1
      BY <1>1, <3>1, <3>2 DEF StTypeOK, StObservations
    <3>4. stHeld.left <= 1
      BY <1>1, <3>2, <3>3 DEF StDraining
    <3>5. QED
      BY <3>1, <3>2, <3>4
  <2>3. stHeld' # stHeld
    BY <1>1
  <2>4. QED
    BY <1>1, <2>1, <2>2, <2>3
       DEF StNext, StVars, StBackendTurns, StAnswers, StProbed, StProbeFails,
           StReported, StUnreported
<1>2. QED
  BY <1>1, StTypes, PTL DEF StSpec, StHoldsDrain

-----------------------------------------------------------------------------
(* Reachability.                                                           *)

RcEarly == {"start", "pinhole", "detect", "upnp", "ipv6", "carrier"}
RcReached == {"direct", "mapped", "external"}

(* Nothing is opened or elected before the ladder.                         *)
RcFresh ==
  rcStage \in RcEarly =>
    /\ rcTunnel = FALSE /\ rcTries = 0
    /\ rcRelay = rcOpts.relay
    /\ rcPlan = RcNoPlan /\ rcProfile = RcNoProfile

(* How often a tunnel may have been asked for, and how often a             *)
(* registration may still be tried, by the stage.                          *)
RcCounted ==
  /\ rcTunnel => rcTries > 0
  /\ rcStage = "ladder" => rcTries <= 1
  /\ rcPlan = RcTunnelPlan => rcStage = "ladder" /\ rcTries = 0
  /\ rcStage = "forced" => rcTries <= 1
  /\ rcStage = "fallback" => rcTries <= 2
  /\ rcStage = "fallbackRelay" => rcTries > 0 /\ ~rcTunnel
  /\ rcStage = "register" => rcAttempts > 0

(* A tunnel is what is advertised once there is one; without one, what     *)
(* was detected is.                                                        *)
RcAdvertised ==
  /\ rcTunnel => rcEndpoint = "name"
  /\ rcProfile \in RcReached =>
       /\ rcFound \in RcKinds \ {"local"}
       /\ ~rcTunnel => rcEndpoint = rcFound
  /\ rcStage \in {"guard", "register"} => rcNode = RcApplied
  /\ rcStage = "register" => rcRelay \/ rcEndpoint # "local"

(* The tunnel comes before the relay.                                      *)
RcTunnelFirst ==
  /\ rcPlan = RcRelayPlan => rcTries > 0 \/ ~RcTunnelAllowed
  /\ rcRelay /\ ~rcOpts.relay =>
       ~rcOpts.capable /\ (rcTries > 0 \/ ~RcTunnelAllowed)

(* Who is past the fallback with a reason for it has tried.                *)
RcTried ==
  rcStage \in {"build", "guard", "register"} =>
    \/ rcTunnel \/ rcRelay \/ ~RcTunnelAllowed \/ rcOpts.skip \/ ~RcReason
    \/ rcTries > 0 /\ ~(rcOpts.capable /\ rcOpts.supervised)

RcUnskipped == rcStage = "register" => ~rcOpts.skip

(* RcTypeOK in two parts, one of which needs arithmetic.                   *)
RcNumbers == rcTries \in 0 .. 3 /\ rcAttempts \in 0 .. 3

RcShapes ==
  /\ rcOpts \in RcOptions
  /\ rcStage \in RcStages
  /\ rcEndpoint \in RcKinds
  /\ rcFound \in RcKinds \cup {RcNoRoute} /\ rcNode \in RcKinds \cup {RcNoRoute}
  /\ rcProfile \in RcProfiles
  /\ rcPinhole \in {"none", "operator's", "detected"}
  /\ rcTunnel \in BOOLEAN /\ rcRelay \in BOOLEAN
  /\ rcPlan \in {RcNoPlan, RcRelayPlan, RcTunnelPlan}

RcInv ==
  /\ RcNumbers /\ RcShapes /\ RcFresh /\ RcCounted /\ RcAdvertised /\ RcTunnelFirst
  /\ RcTried /\ RcUnskipped

LEMMA RcPlansDiffer ==
  RcNoPlan # RcRelayPlan /\ RcNoPlan # RcTunnelPlan /\ RcRelayPlan # RcTunnelPlan
BY DEF RcNoPlan, RcRelayPlan, RcTunnelPlan

LEMMA RcElected ==
  RcElectRelay => rcRelay' = rcRelay \/ (rcRelay' = TRUE /\ ~rcOpts.capable)
BY DEF RcElectRelay, RcMayRelay

LEMMA RcInvInit == RcInit => RcInv
<1> SUFFICES ASSUME RcInit PROVE RcInv
  OBVIOUS
<1> USE RcPlansDiffer DEF RcInit
<1>1. RcNumbers
  BY DEF RcNumbers
<1>2. RcShapes
  BY DEF RcShapes, RcOptions, RcStages, RcProfiles
<1>3. RcFresh /\ RcCounted /\ RcTunnelFirst
  BY DEF RcFresh, RcCounted, RcTunnelFirst
<1>4. RcAdvertised /\ RcTried /\ RcUnskipped
  BY DEF RcAdvertised, RcTried, RcUnskipped, RcReached, RcNoProfile
<1>5. QED
  BY <1>1, <1>2, <1>3, <1>4 DEF RcInv

(* Every step keeps each part.                                             *)
LEMMA RcShapesKept == RcInv /\ [RcNext]_RcVars => RcShapes'
<1> SUFFICES ASSUME RcInv, [RcNext]_RcVars PROVE RcShapes'
  OBVIOUS
<1> USE RcPlansDiffer
    DEF RcInv, RcShapes, RcStages, RcDone, RcProfiles, RcNoProfile, RcNoRoute,
        RcKinds, RcEarly, RcFinding, RcAids, RcGoto
<1>1. CASE RcStart \/ RcNotDirect \/ RcNotMapped \/ RcCarrierGrade \/ RcDetectionThrows
  BY <1>1 DEF RcStart, RcNotDirect, RcNotMapped, RcCarrierGrade, RcDetectionThrows
<1>2. CASE RcOperatorPinhole
  BY <1>2 DEF RcOperatorPinhole
<1>3. CASE RcGiven
  BY <1>3 DEF RcOptions, RcGiven, RcLooksRoutable, RcDetected, RcPlanFor
<1>4. CASE RcPublicV4 \/ RcGlobalV6
  BY <1>4 DEF RcPublicV4, RcGlobalV6, RcOwn, RcDetected, RcPlanFor
<1>5. CASE RcMapped \/ RcExternal
  BY <1>5 DEF RcMapped, RcExternal, RcDetected, RcPlanFor
<1>6. CASE RcMappedBlind \/ RcUnreachable
  BY <1>6 DEF RcMappedBlind, RcUnreachable, RcDetected, RcPlanFor
<1>7. CASE RcIpv6
  BY <1>7 DEF RcIpv6, RcDetected, RcPlanFor
<1>8. CASE RcLadder
  <2>1. CASE rcPlan = RcNoPlan
    BY <1>8, <2>1 DEF RcLadder
  <2>2. CASE rcPlan = RcTunnelPlan
    BY ZenonT(30), <1>8, <2>2 DEF RcLadder, RcOpenTunnel
  <2>3. CASE rcPlan = RcRelayPlan
    BY ZenonT(30), <1>8, <2>3, RcElected DEF RcLadder
  <2>4. QED
    BY <1>8, <2>1, <2>2, <2>3 DEF RcLadder
<1>9. CASE RcForced
  BY ZenonT(30), <1>9 DEF RcForced, RcOpenTunnel
<1>10. CASE RcFallback
  BY ZenonT(30), <1>10 DEF RcFallback, RcOpenTunnel
<1>11. CASE RcFallbackRelay
  <2>1. /\ rcStage = "fallbackRelay" /\ rcStage' \in {"exited", "build"}
        /\ rcStage' = "build" => ~(rcOpts.capable /\ rcOpts.supervised)
    BY <1>11 DEF RcFallbackRelay, RcMayRelay
  <2>2. UNCHANGED <<rcOpts, RcFinding, rcTunnel, rcTries, rcPlan, rcAttempts>>
    BY <1>11 DEF RcFallbackRelay
  <2>3. rcRelay' = rcRelay \/ (rcRelay' = TRUE /\ ~rcOpts.capable)
    BY <1>11, RcElected DEF RcFallbackRelay
  <2>4. rcRelay' \in BOOLEAN
    BY <2>3 DEF RcShapes
  <2>5. QED
    BY <2>1, <2>2, <2>3, <2>4
<1>12. CASE RcBuild
  BY <1>12 DEF RcAdvertised, RcReached, RcApplied, RcBuild
<1>13. CASE RcGuard
  BY <1>13 DEF RcGuard
<1>14. CASE RcRegister
  BY <1>14 DEF RcRegister
<1>15. CASE UNCHANGED RcVars
  BY <1>15 DEF RcVars
<1>16. QED
  BY <1>1, <1>2, <1>3, <1>4, <1>5, <1>6, <1>7, <1>8, <1>9, <1>10, <1>11, <1>12,
     <1>13, <1>14, <1>15 DEF RcNext

LEMMA RcCountsKept == RcInv /\ [RcNext]_RcVars => (RcNumbers /\ RcCounted)'
<1> SUFFICES ASSUME RcInv, [RcNext]_RcVars PROVE (RcNumbers /\ RcCounted)'
  OBVIOUS
<1> USE RcPlansDiffer DEF RcInv, RcNumbers, RcCounted, RcEarly, RcFinding, RcAids, RcGoto
<1>1. CASE RcStart \/ RcNotDirect \/ RcNotMapped \/ RcCarrierGrade \/ RcDetectionThrows
  BY <1>1 DEF RcFresh, RcStart, RcNotDirect, RcNotMapped, RcCarrierGrade, RcDetectionThrows
<1>2. CASE RcOperatorPinhole
  BY <1>2 DEF RcFresh, RcOperatorPinhole
<1>3. CASE RcGiven
  BY <1>3 DEF RcFresh, RcGiven, RcLooksRoutable, RcDetected, RcPlanFor
<1>4. CASE RcPublicV4 \/ RcGlobalV6
  BY <1>4 DEF RcFresh, RcPublicV4, RcGlobalV6, RcOwn, RcDetected, RcPlanFor
<1>5. CASE RcMapped \/ RcExternal
  BY <1>5 DEF RcFresh, RcMapped, RcExternal, RcDetected, RcPlanFor
<1>6. CASE RcMappedBlind \/ RcUnreachable
  BY <1>6 DEF RcFresh, RcMappedBlind, RcUnreachable, RcDetected, RcPlanFor
<1>7. CASE RcIpv6
  BY <1>7 DEF RcFresh, RcIpv6, RcDetected, RcPlanFor
<1>8. CASE RcLadder
  <2>1. CASE rcPlan = RcNoPlan
    BY <1>8, <2>1 DEF RcLadder
  <2>2. CASE rcPlan = RcTunnelPlan
    BY <1>8, <2>2 DEF RcLadder, RcOpenTunnel
  <2>3. CASE rcPlan = RcRelayPlan
    BY <1>8, <2>3, RcElected DEF RcLadder
  <2>4. QED
    BY <1>8, <2>1, <2>2, <2>3 DEF RcLadder
<1>9. CASE RcForced
  BY <1>9 DEF RcForced, RcOpenTunnel
<1>10. CASE RcFallback
  BY <1>10 DEF RcFallback, RcOpenTunnel
<1>11. CASE RcFallbackRelay
  <2>1. /\ rcStage = "fallbackRelay" /\ rcStage' \in {"exited", "build"}
        /\ rcStage' = "build" => ~(rcOpts.capable /\ rcOpts.supervised)
    BY <1>11 DEF RcFallbackRelay, RcMayRelay
  <2>2. UNCHANGED <<rcOpts, RcFinding, rcTunnel, rcTries, rcPlan, rcAttempts>>
    BY <1>11 DEF RcFallbackRelay
  <2>3. rcRelay' = rcRelay \/ (rcRelay' = TRUE /\ ~rcOpts.capable)
    BY <1>11, RcElected DEF RcFallbackRelay
  <2>4. rcRelay' \in BOOLEAN
    BY <2>3 DEF RcShapes
  <2>5. QED
    BY <2>1, <2>2, <2>3, <2>4
<1>12. CASE RcBuild
  BY <1>12 DEF RcBuild
<1>13. CASE RcGuard
  BY <1>13 DEF RcGuard
<1>14. CASE RcRegister
  BY <1>14 DEF RcRegister
<1>15. CASE UNCHANGED RcVars
  BY <1>15 DEF RcVars
<1>16. QED
  BY <1>1, <1>2, <1>3, <1>4, <1>5, <1>6, <1>7, <1>8, <1>9, <1>10, <1>11, <1>12,
     <1>13, <1>14, <1>15 DEF RcNext

LEMMA RcRungsKept == RcInv /\ [RcNext]_RcVars => (RcFresh /\ RcTunnelFirst)'
<1> SUFFICES ASSUME RcInv, [RcNext]_RcVars PROVE (RcFresh /\ RcTunnelFirst)'
  OBVIOUS
<1> USE RcPlansDiffer
    DEF RcInv, RcNumbers, RcShapes, RcFresh, RcCounted, RcTunnelFirst,
        RcTunnelAllowed, RcEarly, RcFinding, RcAids, RcGoto
<1>1. CASE RcStart \/ RcNotDirect \/ RcNotMapped \/ RcCarrierGrade \/ RcDetectionThrows
  BY <1>1 DEF RcStart, RcNotDirect, RcNotMapped, RcCarrierGrade, RcDetectionThrows
<1>2. CASE RcOperatorPinhole
  BY <1>2 DEF RcOperatorPinhole
<1>3. CASE RcGiven
  BY <1>3 DEF RcGiven, RcLooksRoutable, RcDetected, RcPlanFor
<1>4. CASE RcPublicV4 \/ RcGlobalV6
  BY <1>4 DEF RcPublicV4, RcGlobalV6, RcOwn, RcDetected, RcPlanFor
<1>5. CASE RcMapped \/ RcExternal
  BY <1>5 DEF RcMapped, RcExternal, RcDetected, RcPlanFor
<1>6. CASE RcMappedBlind \/ RcUnreachable
  BY <1>6 DEF RcMappedBlind, RcUnreachable, RcDetected, RcPlanFor
<1>7. CASE RcIpv6
  BY <1>7 DEF RcIpv6, RcDetected, RcPlanFor
<1>8. CASE RcLadder
  <2>1. CASE rcPlan = RcNoPlan
    BY <1>8, <2>1 DEF RcLadder
  <2>2. CASE rcPlan = RcTunnelPlan
    BY <1>8, <2>2 DEF RcLadder, RcOpenTunnel
  <2>3. CASE rcPlan = RcRelayPlan
    BY <1>8, <2>3, RcElected DEF RcLadder
  <2>4. QED
    BY <1>8, <2>1, <2>2, <2>3 DEF RcLadder
<1>9. CASE RcForced
  BY <1>9 DEF RcForced, RcOpenTunnel
<1>10. CASE RcFallback
  BY <1>10 DEF RcFallback, RcOpenTunnel
<1>11. CASE RcFallbackRelay
  <2>1. /\ rcStage = "fallbackRelay" /\ rcStage' \in {"exited", "build"}
        /\ rcStage' = "build" => ~(rcOpts.capable /\ rcOpts.supervised)
    BY <1>11 DEF RcFallbackRelay, RcMayRelay
  <2>2. UNCHANGED <<rcOpts, RcFinding, rcTunnel, rcTries, rcPlan, rcAttempts>>
    BY <1>11 DEF RcFallbackRelay
  <2>3. rcRelay' = rcRelay \/ (rcRelay' = TRUE /\ ~rcOpts.capable)
    BY <1>11, RcElected DEF RcFallbackRelay
  <2>4. rcRelay' \in BOOLEAN
    BY <2>3 DEF RcShapes
  <2>5. QED
    BY <2>1, <2>2, <2>3, <2>4
<1>12. CASE RcBuild
  BY <1>12 DEF RcBuild
<1>13. CASE RcGuard
  BY <1>13 DEF RcGuard
<1>14. CASE RcRegister
  BY <1>14 DEF RcRegister
<1>15. CASE UNCHANGED RcVars
  BY <1>15 DEF RcVars
<1>16. QED
  BY <1>1, <1>2, <1>3, <1>4, <1>5, <1>6, <1>7, <1>8, <1>9, <1>10, <1>11, <1>12,
     <1>13, <1>14, <1>15 DEF RcNext

LEMMA RcRoutesKept == RcInv /\ [RcNext]_RcVars => (RcAdvertised /\ RcTried /\ RcUnskipped)'
<1> SUFFICES ASSUME RcInv, [RcNext]_RcVars PROVE (RcAdvertised /\ RcTried /\ RcUnskipped)'
  OBVIOUS
<1> USE RcPlansDiffer
    DEF RcInv, RcNumbers, RcFresh, RcCounted, RcAdvertised, RcTried, RcUnskipped,
        RcTunnelAllowed, RcNoProfile, RcNoRoute, RcReached, RcKinds, RcReason,
        RcApplied, RcEarly, RcFinding, RcAids, RcGoto
<1>1. CASE RcStart \/ RcNotDirect \/ RcNotMapped \/ RcCarrierGrade \/ RcDetectionThrows
  BY <1>1 DEF RcStart, RcNotDirect, RcNotMapped, RcCarrierGrade, RcDetectionThrows
<1>2. CASE RcOperatorPinhole
  BY <1>2 DEF RcOperatorPinhole
<1>3. CASE RcGiven
  BY <1>3 DEF RcGiven, RcLooksRoutable, RcDetected, RcPlanFor
<1>4. CASE RcPublicV4 \/ RcGlobalV6
  BY <1>4 DEF RcPublicV4, RcGlobalV6, RcOwn, RcDetected, RcPlanFor
<1>5. CASE RcMapped \/ RcExternal
  BY <1>5 DEF RcMapped, RcExternal, RcDetected, RcPlanFor
<1>6. CASE RcMappedBlind \/ RcUnreachable
  BY <1>6 DEF RcMappedBlind, RcUnreachable, RcDetected, RcPlanFor
<1>7. CASE RcIpv6
  BY <1>7 DEF RcIpv6, RcDetected, RcPlanFor
<1>8. CASE RcLadder
  <2>1. CASE rcPlan = RcNoPlan
    BY <1>8, <2>1 DEF RcLadder
  <2>2. CASE rcPlan = RcTunnelPlan
    BY <1>8, <2>2 DEF RcLadder, RcOpenTunnel
  <2>3. CASE rcPlan = RcRelayPlan
    BY <1>8, <2>3, RcElected DEF RcLadder
  <2>4. QED
    BY <1>8, <2>1, <2>2, <2>3 DEF RcLadder
<1>9. CASE RcForced
  BY <1>9 DEF RcForced, RcOpenTunnel
<1>10. CASE RcFallback
  BY <1>10 DEF RcFallback, RcOpenTunnel
<1>11. CASE RcFallbackRelay
  <2>1. /\ rcStage = "fallbackRelay" /\ rcStage' \in {"exited", "build"}
        /\ rcStage' = "build" => ~(rcOpts.capable /\ rcOpts.supervised)
    BY <1>11 DEF RcFallbackRelay, RcMayRelay
  <2>2. UNCHANGED <<rcOpts, RcFinding, rcTunnel, rcTries, rcPlan, rcAttempts>>
    BY <1>11 DEF RcFallbackRelay
  <2>3. rcRelay' = rcRelay \/ (rcRelay' = TRUE /\ ~rcOpts.capable)
    BY <1>11, RcElected DEF RcFallbackRelay
  <2>4. rcRelay' \in BOOLEAN
    BY <2>3 DEF RcShapes
  <2>5. QED
    BY <2>1, <2>2, <2>3, <2>4
<1>12. CASE RcBuild
  BY <1>12 DEF RcBuild
<1>13. CASE RcGuard
  BY <1>13 DEF RcGuard
<1>14. CASE RcRegister
  BY <1>14 DEF RcRegister
<1>15. CASE UNCHANGED RcVars
  BY <1>15 DEF RcVars
<1>16. QED
  BY <1>1, <1>2, <1>3, <1>4, <1>5, <1>6, <1>7, <1>8, <1>9, <1>10, <1>11, <1>12,
     <1>13, <1>14, <1>15 DEF RcNext

(* runServe is at one of its stages with no more than three tunnels asked  *)
(* for and three registrations to try.                                     *)
THEOREM RcTypes == RcSpec => []RcTypeOK
<1>1. RcInv => RcTypeOK
  BY DEF RcInv, RcNumbers, RcShapes, RcTypeOK
<1>2. RcInv /\ [RcNext]_RcVars => RcInv'
  BY RcShapesKept, RcCountsKept, RcRungsKept, RcRoutesKept DEF RcInv
<1>3. QED
  BY <1>1, <1>2, RcInvInit, PTL DEF RcSpec

(* An unproven route is registered as a last resort only, a relay is       *)
(* elected where no tunnel could be had, and a tunnel, once there, is what *)
(* is registered (runServe), for every combination of options and answers. *)
THEOREM RcLastResortHolds == RcSpec => []RcLastResort
<1>1. RcInv => RcLastResort
  BY DEF RcInv, RcShapes, RcNumbers, RcAdvertised, RcTunnelFirst, RcTried, RcUnskipped,
         RcLastResort, RcUnproven, RcApplied, RcReason, RcReached, RcKinds, RcProfiles
<1>2. RcInv /\ [RcNext]_RcVars => RcInv'
  BY RcShapesKept, RcCountsKept, RcRungsKept, RcRoutesKept DEF RcInv
<1>3. QED
  BY <1>1, <1>2, RcInvInit, PTL DEF RcSpec

-----------------------------------------------------------------------------
(* KeyRotation.                                                            *)

KrUnsaved == {"loaded", "asked", "answered", "receipted", "truncated"}

(* The directory has accepted the request of p, which goes on to save.     *)
KrHasAccepted(p) ==
  \/ krAt[p] = "asked" /\ krSays[p] = "accepted"
  \/ krAt[p] \in {"answered", "receipted", "truncated"}

(* Keys are used in the order they are generated.                          *)
KrNumbered ==
  /\ krFile <= krLast
  /\ \A p \in KrCmds :
       /\ krOld[p] <= krLast /\ krNew[p] <= krLast
       /\ krAt[p] \in KrRunning => krOld[p] # KrNone
       /\ krAt[p] = "loaded" => krSays[p] = "nothing"
  /\ \A r \in krAsked : r.old <= krLast /\ r.new <= krLast /\ r.old # KrNone

(* A successor that is not saved yet is known to its command alone.        *)
KrSecret ==
  \A p \in KrCmds : krAt[p] \in KrUnsaved /\ krNew[p] # KrNone =>
    /\ krFile # krNew[p]
    /\ \A q \in KrCmds : krOld[q] # krNew[p]
    /\ \A q \in KrCmds \ {p} : krAt[q] \in KrUnsaved => krNew[q] # krNew[p]
    /\ \A r \in krAsked : r.old # krNew[p]
    /\ krAt[p] = "loaded" => \A r \in krAsked : r.new # krNew[p]

(* A request that is on its way is of a command that still waits for its   *)
(* answer, or its successor is an orphan.                                  *)
KrAwaited ==
  /\ \A r \in krAsked :
       \/ r.new = KrNone \/ r.new \in krOrphans
       \/ /\ krAt[r.by] = "asked" /\ krSays[r.by] = "nothing"
          /\ krOld[r.by] = r.old /\ krNew[r.by] = r.new
  /\ \A r, s \in krAsked : r.new = s.new /\ r.new # KrNone => r = s

(* What the directory has is what the command it has accepted will save.   *)
KrFollows ==
  /\ \A p \in KrCmds : KrHasAccepted(p) => krDirectory = krNew[p]
  /\ \/ krDirectory = krFile \/ krDirectory = KrNone \/ krDirectory \in krOrphans
     \/ \E p \in KrCmds : KrHasAccepted(p) /\ krDirectory = krNew[p]

KrInv == KrTypeOK /\ KrNumbered /\ KrSecret /\ KrAwaited /\ KrFollows

LEMMA KrInvInit == KrInit => KrInv
BY KrAssumption
   DEF KrInit, KrInv, KrTypeOK, KrNumbered, KrSecret, KrAwaited, KrFollows, KrAnyKey,
       KrNone, KrRunning, KrUnsaved, KrHasAccepted, KrRequests

LEMMA KrTypesKept == KrInv /\ [KrNext]_KrVars => KrTypeOK'
<1> SUFFICES ASSUME KrInv, [KrNext]_KrVars PROVE KrTypeOK'
  OBVIOUS
<1> USE KrAssumption DEF KrInv, KrGo, KrTypeOK, KrNumbered, KrAnyKey, KrNone,
                         KrRunning, KrRequests
<1>f. KrFault => krFaults' \in 0 .. KrFaults
  BY DEF KrFault
<1>1. ASSUME NEW p \in KrCmds, KrRotate(p) PROVE KrTypeOK'
  BY <1>1 DEF KrRotate, KrBegin
<1>2. ASSUME NEW p \in KrCmds, KrRevoke(p) PROVE KrTypeOK'
  BY <1>2 DEF KrRevoke, KrBegin
<1>3. ASSUME NEW p \in KrCmds, KrAsk(p) PROVE KrTypeOK'
  BY <1>3 DEF KrAsk
<1>4. ASSUME NEW p \in KrCmds, KrNoChallenge(p) PROVE KrTypeOK'
  BY <1>4 DEF KrNoChallenge, KrAbandon, KrEnd
<1>5. ASSUME NEW p \in KrCmds, KrAccepted(p) PROVE KrTypeOK'
  BY <1>5 DEF KrAccepted
<1>6. ASSUME NEW p \in KrCmds, KrRefused(p) PROVE KrTypeOK'
  BY <1>6 DEF KrRefused, KrAbandon, KrEnd
<1>7. ASSUME NEW p \in KrCmds, KrUnanswered(p) PROVE KrTypeOK'
  BY <1>7, <1>f DEF KrUnanswered, KrAbandon, KrEnd
<1>8. ASSUME NEW p \in KrCmds, KrReceipt(p) PROVE KrTypeOK'
  BY <1>8 DEF KrReceipt, KrEnd
<1>9. ASSUME NEW p \in KrCmds, KrTruncate(p) PROVE KrTypeOK'
  BY <1>9 DEF KrTruncate
<1>10. ASSUME NEW p \in KrCmds, KrFill(p) PROVE KrTypeOK'
  BY <1>10 DEF KrFill
<1>11. ASSUME NEW p \in KrCmds, KrMigrated(p) PROVE KrTypeOK'
  BY <1>11 DEF KrMigrated, KrEnd
<1>12. ASSUME NEW p \in KrCmds, KrWriteFails(p) PROVE KrTypeOK'
  BY <1>12, <1>f DEF KrWriteFails, KrAbandon, KrEnd
<1>13. ASSUME NEW p \in KrCmds, KrKilled(p) PROVE KrTypeOK'
  BY <1>13, <1>f DEF KrKilled, KrEnd
<1>14. ASSUME NEW r \in krAsked, KrDecide(r) PROVE KrTypeOK'
  BY <1>14 DEF KrDecide
<1>15. CASE UNCHANGED KrVars
  BY <1>15 DEF KrVars
<1>16. QED
  BY <1>1, <1>2, <1>3, <1>4, <1>5, <1>6, <1>7, <1>8, <1>9, <1>10, <1>11, <1>12,
     <1>13, <1>14, <1>15 DEF KrNext

LEMMA KrNumberedKept == KrInv /\ [KrNext]_KrVars => KrNumbered'
<1> SUFFICES ASSUME KrInv, [KrNext]_KrVars PROVE KrNumbered'
  OBVIOUS
<1> USE KrAssumption DEF KrInv, KrGo, KrTypeOK, KrNumbered, KrAnyKey, KrNone,
                         KrRunning, KrRequests
<1>1. ASSUME NEW p \in KrCmds, KrRotate(p) PROVE KrNumbered'
  BY <1>1 DEF KrRotate, KrBegin
<1>2. ASSUME NEW p \in KrCmds, KrRevoke(p) PROVE KrNumbered'
  BY <1>2 DEF KrRevoke, KrBegin
<1>3. ASSUME NEW p \in KrCmds, KrAsk(p) PROVE KrNumbered'
  BY <1>3 DEF KrAsk
<1>4. ASSUME NEW p \in KrCmds, KrNoChallenge(p) PROVE KrNumbered'
  BY <1>4 DEF KrNoChallenge, KrAbandon, KrEnd
<1>5. ASSUME NEW p \in KrCmds, KrAccepted(p) PROVE KrNumbered'
  BY <1>5 DEF KrAccepted
<1>6. ASSUME NEW p \in KrCmds, KrRefused(p) PROVE KrNumbered'
  BY <1>6 DEF KrRefused, KrAbandon, KrEnd
<1>7. ASSUME NEW p \in KrCmds, KrUnanswered(p) PROVE KrNumbered'
  BY <1>7 DEF KrUnanswered, KrAbandon, KrEnd, KrFault
<1>8. ASSUME NEW p \in KrCmds, KrReceipt(p) PROVE KrNumbered'
  BY <1>8 DEF KrReceipt, KrEnd
<1>9. ASSUME NEW p \in KrCmds, KrTruncate(p) PROVE KrNumbered'
  BY <1>9 DEF KrTruncate
<1>10. ASSUME NEW p \in KrCmds, KrFill(p) PROVE KrNumbered'
  BY <1>10 DEF KrFill
<1>11. ASSUME NEW p \in KrCmds, KrMigrated(p) PROVE KrNumbered'
  BY <1>11 DEF KrMigrated, KrEnd
<1>12. ASSUME NEW p \in KrCmds, KrWriteFails(p) PROVE KrNumbered'
  BY <1>12 DEF KrWriteFails, KrAbandon, KrEnd, KrFault
<1>13. ASSUME NEW p \in KrCmds, KrKilled(p) PROVE KrNumbered'
  BY <1>13 DEF KrKilled, KrEnd, KrFault
<1>14. ASSUME NEW r \in krAsked, KrDecide(r) PROVE KrNumbered'
  BY <1>14 DEF KrDecide
<1>15. CASE UNCHANGED KrVars
  BY <1>15 DEF KrVars
<1>16. QED
  BY <1>1, <1>2, <1>3, <1>4, <1>5, <1>6, <1>7, <1>8, <1>9, <1>10, <1>11, <1>12,
     <1>13, <1>14, <1>15 DEF KrNext

LEMMA KrSecretKept == KrInv /\ [KrNext]_KrVars => KrSecret'
<1> SUFFICES ASSUME KrInv, [KrNext]_KrVars PROVE KrSecret'
  OBVIOUS
<1> USE KrAssumption DEF KrInv, KrGo, KrTypeOK, KrNumbered, KrSecret, KrAnyKey,
                         KrNone, KrUnsaved, KrRequests, KrRunning
<1>1. ASSUME NEW p \in KrCmds, KrRotate(p) PROVE KrSecret'
  BY <1>1 DEF KrRotate, KrBegin
<1>2. ASSUME NEW p \in KrCmds, KrRevoke(p) PROVE KrSecret'
  BY <1>2 DEF KrRevoke, KrBegin
<1>3. ASSUME NEW p \in KrCmds, KrAsk(p) PROVE KrSecret'
  BY <1>3 DEF KrAsk
<1>4. ASSUME NEW p \in KrCmds, KrNoChallenge(p) PROVE KrSecret'
  BY <1>4 DEF KrNoChallenge, KrAbandon, KrEnd
<1>5. ASSUME NEW p \in KrCmds, KrAccepted(p) PROVE KrSecret'
  BY <1>5 DEF KrAccepted
<1>6. ASSUME NEW p \in KrCmds, KrRefused(p) PROVE KrSecret'
  BY <1>6 DEF KrRefused, KrAbandon, KrEnd
<1>7. ASSUME NEW p \in KrCmds, KrUnanswered(p) PROVE KrSecret'
  BY <1>7 DEF KrUnanswered, KrAbandon, KrEnd, KrFault
<1>8. ASSUME NEW p \in KrCmds, KrReceipt(p) PROVE KrSecret'
  BY <1>8 DEF KrReceipt, KrEnd
<1>9. ASSUME NEW p \in KrCmds, KrTruncate(p) PROVE KrSecret'
  BY <1>9 DEF KrTruncate
<1>10. ASSUME NEW p \in KrCmds, KrFill(p) PROVE KrSecret'
  BY <1>10 DEF KrFill
<1>11. ASSUME NEW p \in KrCmds, KrMigrated(p) PROVE KrSecret'
  BY <1>11 DEF KrMigrated, KrEnd
<1>12. ASSUME NEW p \in KrCmds, KrWriteFails(p) PROVE KrSecret'
  BY <1>12 DEF KrWriteFails, KrAbandon, KrEnd, KrFault
<1>13. ASSUME NEW p \in KrCmds, KrKilled(p) PROVE KrSecret'
  BY <1>13 DEF KrKilled, KrEnd, KrFault
<1>14. ASSUME NEW r \in krAsked, KrDecide(r) PROVE KrSecret'
  BY <1>14 DEF KrDecide
<1>15. CASE UNCHANGED KrVars
  BY <1>15 DEF KrVars
<1>16. QED
  BY <1>1, <1>2, <1>3, <1>4, <1>5, <1>6, <1>7, <1>8, <1>9, <1>10, <1>11, <1>12,
     <1>13, <1>14, <1>15 DEF KrNext

LEMMA KrAwaitedKept == KrInv /\ [KrNext]_KrVars => KrAwaited'
<1> SUFFICES ASSUME KrInv, [KrNext]_KrVars PROVE KrAwaited'
  OBVIOUS
<1> USE KrAssumption DEF KrInv, KrGo, KrTypeOK, KrSecret, KrAwaited, KrNone,
                         KrUnsaved, KrRequests, KrRunning
<1>1. ASSUME NEW p \in KrCmds, KrRotate(p) PROVE KrAwaited'
  BY <1>1 DEF KrRotate, KrBegin
<1>2. ASSUME NEW p \in KrCmds, KrRevoke(p) PROVE KrAwaited'
  BY <1>2 DEF KrRevoke, KrBegin
<1>3. ASSUME NEW p \in KrCmds, KrAsk(p) PROVE KrAwaited'
  BY <1>3 DEF KrAsk, KrNumbered
<1>4. ASSUME NEW p \in KrCmds, KrNoChallenge(p) PROVE KrAwaited'
  BY <1>4 DEF KrNoChallenge, KrAbandon, KrEnd
<1>5. ASSUME NEW p \in KrCmds, KrAccepted(p) PROVE KrAwaited'
  BY <1>5 DEF KrAccepted
<1>6. ASSUME NEW p \in KrCmds, KrRefused(p) PROVE KrAwaited'
  BY <1>6 DEF KrRefused, KrAbandon, KrEnd
<1>7. ASSUME NEW p \in KrCmds, KrUnanswered(p) PROVE KrAwaited'
  BY <1>7 DEF KrUnanswered, KrAbandon, KrEnd, KrFault
<1>8. ASSUME NEW p \in KrCmds, KrReceipt(p) PROVE KrAwaited'
  BY <1>8 DEF KrReceipt, KrEnd
<1>9. ASSUME NEW p \in KrCmds, KrTruncate(p) PROVE KrAwaited'
  BY <1>9 DEF KrTruncate
<1>10. ASSUME NEW p \in KrCmds, KrFill(p) PROVE KrAwaited'
  BY <1>10 DEF KrFill
<1>11. ASSUME NEW p \in KrCmds, KrMigrated(p) PROVE KrAwaited'
  BY <1>11 DEF KrMigrated, KrEnd
<1>12. ASSUME NEW p \in KrCmds, KrWriteFails(p) PROVE KrAwaited'
  BY <1>12 DEF KrWriteFails, KrAbandon, KrEnd, KrFault
<1>13. ASSUME NEW p \in KrCmds, KrKilled(p) PROVE KrAwaited'
  BY <1>13 DEF KrKilled, KrEnd, KrFault
<1>14. ASSUME NEW r \in krAsked, KrDecide(r) PROVE KrAwaited'
  BY <1>14 DEF KrDecide
<1>15. CASE UNCHANGED KrVars
  BY <1>15 DEF KrVars
<1>16. QED
  BY <1>1, <1>2, <1>3, <1>4, <1>5, <1>6, <1>7, <1>8, <1>9, <1>10, <1>11, <1>12,
     <1>13, <1>14, <1>15 DEF KrNext

LEMMA KrFollowsKept == KrInv /\ [KrNext]_KrVars => KrFollows'
<1> SUFFICES ASSUME KrInv, [KrNext]_KrVars PROVE KrFollows'
  OBVIOUS
<1> USE KrAssumption DEF KrInv, KrGo, KrTypeOK, KrNumbered, KrSecret, KrAwaited,
                         KrFollows, KrHasAccepted, KrNone, KrUnsaved, KrRequests,
                         KrRunning
<1>1. ASSUME NEW p \in KrCmds, KrRotate(p) PROVE KrFollows'
  BY <1>1 DEF KrRotate, KrBegin
<1>2. ASSUME NEW p \in KrCmds, KrRevoke(p) PROVE KrFollows'
  BY <1>2 DEF KrRevoke, KrBegin
<1>3. ASSUME NEW p \in KrCmds, KrAsk(p) PROVE KrFollows'
  BY <1>3 DEF KrAsk
<1>4. ASSUME NEW p \in KrCmds, KrNoChallenge(p) PROVE KrFollows'
  BY <1>4 DEF KrNoChallenge, KrAbandon, KrEnd
<1>5. ASSUME NEW p \in KrCmds, KrAccepted(p) PROVE KrFollows'
  BY <1>5 DEF KrAccepted
<1>6. ASSUME NEW p \in KrCmds, KrRefused(p) PROVE KrFollows'
  BY <1>6 DEF KrRefused, KrAbandon, KrEnd
<1>7. ASSUME NEW p \in KrCmds, KrUnanswered(p) PROVE KrFollows'
  BY <1>7 DEF KrUnanswered, KrAbandon, KrEnd, KrFault
<1>8. ASSUME NEW p \in KrCmds, KrReceipt(p) PROVE KrFollows'
  BY <1>8 DEF KrReceipt, KrEnd
<1>9. ASSUME NEW p \in KrCmds, KrTruncate(p) PROVE KrFollows'
  BY <1>9 DEF KrTruncate
<1>10. ASSUME NEW p \in KrCmds, KrFill(p) PROVE KrFollows'
  BY <1>10 DEF KrFill
<1>11. ASSUME NEW p \in KrCmds, KrMigrated(p) PROVE KrFollows'
  BY <1>11 DEF KrMigrated, KrEnd
<1>12. ASSUME NEW p \in KrCmds, KrWriteFails(p) PROVE KrFollows'
  BY <1>12 DEF KrWriteFails, KrAbandon, KrEnd, KrFault
<1>13. ASSUME NEW p \in KrCmds, KrKilled(p) PROVE KrFollows'
  BY <1>13 DEF KrKilled, KrEnd, KrFault
<1>14. ASSUME NEW r \in krAsked, KrDecide(r) PROVE KrFollows'
  BY <1>14 DEF KrDecide
<1>15. CASE UNCHANGED KrVars
  BY <1>15 DEF KrVars
<1>16. QED
  BY <1>1, <1>2, <1>3, <1>4, <1>5, <1>6, <1>7, <1>8, <1>9, <1>10, <1>11, <1>12,
     <1>13, <1>14, <1>15 DEF KrNext

LEMMA KrInvNext == KrInv /\ [KrNext]_KrVars => KrInv'
BY KrTypesKept, KrNumberedKept, KrSecretKept, KrAwaitedKept, KrFollowsKept DEF KrInv

(* Keys, commands and backups are as described, within the bounds.         *)
THEOREM KrTypes == KrSpec => []KrTypeOK
<1>1. KrInv => KrTypeOK
  BY DEF KrInv
<1>2. QED
  BY <1>1, KrInvInit, KrInvNext, PTL DEF KrSpec

(* Between commands the file holds the key the directory knows the         *)
(* operator by, unless it was revoked or its command did not live to save  *)
(* it (runOperatorKey), for any number of terminals, keys and faults.      *)
THEOREM KrKeysInStep == KrSpec => []KrInStep
<1>1. KrInv => KrInStep
  BY DEF KrInv, KrFollows, KrHasAccepted, KrInStep
<1>2. QED
  BY <1>1, KrInvInit, KrInvNext, PTL DEF KrSpec
=============================================================================
