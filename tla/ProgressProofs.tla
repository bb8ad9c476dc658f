--------------------------- MODULE ProgressProofs ---------------------------
(***************************************************************************)
(* The parts that must get somewhere, each for every value of its          *)
(* constants: the process of a node, the gate and the watch of its tunnel, *)
(* the lease of its pinhole, its relay worker, the peers it meets and its  *)
(* registration.  The last section projects their composition on each      *)
(* part.                                                                   *)
(***************************************************************************)
EXTENDS MCProgress, Registration, MetricsBatchProofs, ProviderProofs,
        FiniteSetTheorems, TLAPS

-----------------------------------------------------------------------------
(* OperatorHandoff: the marker of a handoff is erased only when every      *)
(* affected node runs the successor identity, for any number of nodes,     *)
(* crashes and failed registrations, although claims and completions get   *)
(* lost.                                                                   *)

(* What a process learns from the file is never ahead of what happened:    *)
(* a node named as requested has exited or is its own successor, a node    *)
(* named as completed is its own successor.                                *)
Truthful(says) ==
  /\ \A n \in says.requested : hoAt[n] = "down" \/ key[n] = "successor"
  /\ \A n \in says.completed : key[n] = "successor"

FileTruthful == Truthful(marker.says)
SeenTruthful == \A m \in Nodes : Truthful(hoSeen[m])

(* A process that completes its part is a successor.                       *)
CompletesAsSuccessor ==
  \A n \in Nodes : hoAt[n] \in {"completing", "completed"} => key[n] = "successor"

(* Before the rotation nobody has heard of a handoff.                      *)
NothingBefore ==
  rotation = "none" => /\ \A n \in Nodes : hoSeen[n] = Nothing
                       /\ \A n \in Nodes : hoAt[n] \in {"down", "registering", "serving"}
                       /\ marker = Absent

HoInv ==
  /\ HoTypeOK
  /\ FileTruthful
  /\ SeenTruthful
  /\ CompletesAsSuccessor
  /\ NothingBefore
  /\ ErasedWhenDone

-----------------------------------------------------------------------------
(* What the actions are built from.                                        *)

LEMMA TypeFill ==
  ASSUME marker \in {Absent, Torn} \cup {Written(c) : c \in Contents},
         NEW says \in Contents, Fill(says)
  PROVE  marker' \in {Absent, Torn} \cup {Written(c) : c \in Contents}
BY DEF Fill

(* What was true of the nodes a text names stays true while no node loses  *)
(* the successor identity and none that is down comes back without it.     *)
LEMMA TruthStays ==
  ASSUME NEW says \in Contents, Truthful(says),
         \A n \in Nodes : key[n] = "successor" => key'[n] = "successor",
         \A n \in Nodes : hoAt[n] = "down" => hoAt'[n] = "down" \/ key'[n] = "successor"
  PROVE  /\ \A n \in says.requested : hoAt'[n] = "down" \/ key'[n] = "successor"
         /\ \A n \in says.completed : key'[n] = "successor"
BY DEF Truthful, Contents

(* A marker in the file is readable text or says nothing.                  *)
LEMMA MarkerSays ==
  ASSUME HoTypeOK
  PROVE  /\ marker.says \in Contents
         /\ marker.state # "written" => marker.says = Nothing
<1>1. CASE marker = Absent
  BY <1>1 DEF Absent, Contents, Nothing
<1>2. CASE marker = Torn
  BY <1>2 DEF Torn, Contents, Nothing
<1>3. ASSUME NEW c \in Contents, marker = Written(c)
      PROVE  marker.says \in Contents /\ marker.state = "written"
  BY <1>3 DEF Written
<1>4. QED
  BY <1>1, <1>2, <1>3 DEF HoTypeOK

-----------------------------------------------------------------------------
(* Types.                                                                  *)

LEMMA TypeInit == HoInit => HoTypeOK
BY HandoffAssumption DEF HoInit, HoTypeOK, Nothing, Contents

LEMMA TypeNext == HoTypeOK /\ [HoNext]_HoVars => HoTypeOK'
<1> SUFFICES ASSUME HoTypeOK, [HoNext]_HoVars PROVE HoTypeOK'
  OBVIOUS
<1> USE DEF Goto
<1> DEFINE Markers == {Absent, Torn} \cup {Written(c) : c \in Contents}
<1>m. marker \in Markers /\ Absent \in Markers /\ Torn \in Markers
      /\ Written(Nothing) \in Markers
  BY DEF HoTypeOK, Contents, Nothing
<1>s. marker.says \in Contents
  BY MarkerSays
<1>1. CASE SaveSuccessor
  BY <1>1 DEF HoTypeOK, SaveSuccessor
<1>2. CASE WriteMarker
  BY <1>2, <1>m DEF HoTypeOK, WriteMarker
<1>3. CASE GraceEnds
  BY <1>3 DEF HoTypeOK, GraceEnds
<1>4. ASSUME NEW n \in Nodes, Start(n) PROVE HoTypeOK'
  BY <1>4 DEF HoTypeOK, Start
<1>5. ASSUME NEW n \in Nodes, Registered(n) PROVE HoTypeOK'
  BY <1>5, <1>s DEF HoTypeOK, Registered, MayComplete
<1>6. ASSUME NEW n \in Nodes, RegistrationFails(n) PROVE HoTypeOK'
  BY <1>6, HandoffAssumption DEF HoTypeOK, RegistrationFails, HoSpend
<1>7. ASSUME NEW n \in Nodes, Complete(n) PROVE HoTypeOK'
  BY <1>7, <1>m DEF HoTypeOK, Complete, Truncate
<1>8. ASSUME NEW n \in Nodes, FillCompleted(n) PROVE HoTypeOK'
  <2>1. WithCompletion(n) \in Contents
    BY DEF HoTypeOK, WithCompletion, Contents
  <2>2. marker' \in Markers
    BY <1>8, <1>m, <2>1, TypeFill DEF FillCompleted
  <2>3. QED
    BY <1>8, <2>2 DEF HoTypeOK, FillCompleted
<1>9. ASSUME NEW n \in Nodes, Check(n) PROVE HoTypeOK'
  BY <1>9, <1>s DEF HoTypeOK, Check
<1>10. ASSUME NEW n \in Nodes, Claim(n) PROVE HoTypeOK'
  BY <1>10, <1>m DEF HoTypeOK, Claim, Truncate
<1>11. ASSUME NEW n \in Nodes, Exit(n) PROVE HoTypeOK'
  <2>1. [hoSeen[n] EXCEPT !.requested = @ \cup {n}] \in Contents
    BY DEF HoTypeOK, Contents
  <2>2. marker' \in Markers
    BY <1>11, <1>m, <2>1, TypeFill DEF Exit
  <2>3. QED
    BY <1>11, <2>2 DEF HoTypeOK, Exit
<1>12. ASSUME NEW n \in Nodes, ProcessCrashes(n) PROVE HoTypeOK'
  BY <1>12, HandoffAssumption DEF HoTypeOK, ProcessCrashes, HoSpend
<1>13. CASE UNCHANGED HoVars
  BY <1>13 DEF HoTypeOK, HoVars
<1>14. QED
  BY <1>1, <1>2, <1>3, <1>4, <1>5, <1>6, <1>7, <1>8, <1>9, <1>10, <1>11,
     <1>12, <1>13 DEF HoNext

(* Every variable keeps its type, for any number of nodes.                 *)
THEOREM HoTypes == HoSpec => []HoTypeOK
BY TypeInit, TypeNext, PTL DEF HoSpec

-----------------------------------------------------------------------------
(* Truth of the texts.                                                     *)

(* The texts that are around before a step stay true after it.             *)
LEMMA OldTextsStayTrue ==
  ASSUME HoTypeOK, NothingBefore, [HoNext]_HoVars,
         NEW says \in Contents, Truthful(says),
         rotation = "none" => says = Nothing
  PROVE  /\ \A n \in says.requested : hoAt'[n] = "down" \/ key'[n] = "successor"
         /\ \A n \in says.completed : key'[n] = "successor"
<1>1. CASE rotation = "none"
  BY <1>1 DEF Nothing
<1>2. CASE rotation # "none"
  <2>1. \A n \in Nodes : key[n] = "successor" => key'[n] = "successor"
    BY <1>2 DEF HoTypeOK, HoNext, HoVars, SaveSuccessor, WriteMarker, GraceEnds, Start,
                Registered, RegistrationFails, Complete, FillCompleted, Check,
                Claim, Exit, ProcessCrashes
  <2>2. \A n \in Nodes : hoAt[n] = "down" => hoAt'[n] = "down" \/ key'[n] = "successor"
    BY <1>2 DEF HoTypeOK, Goto, HoNext, HoVars, SaveSuccessor, WriteMarker, GraceEnds,
                Start, Registered, RegistrationFails, Complete, FillCompleted,
                Check, Claim, Exit, ProcessCrashes
  <2>3. QED
    BY <2>1, <2>2, TruthStays
<1>3. QED
  BY <1>1, <1>2

LEMMA FileNext == HoInv /\ [HoNext]_HoVars => FileTruthful'
<1> SUFFICES ASSUME HoInv, [HoNext]_HoVars PROVE FileTruthful'
  OBVIOUS
<1> USE DEF HoInv
<1>1. marker.says \in Contents /\ \A m \in Nodes : hoSeen[m] \in Contents
  BY MarkerSays DEF HoTypeOK
<1>2. ASSUME marker'.says = marker.says PROVE FileTruthful'
  BY <1>1, <1>2, OldTextsStayTrue DEF FileTruthful, Truthful, NothingBefore, Absent
<1>3. ASSUME marker'.says = Nothing PROVE FileTruthful'
  BY <1>3 DEF FileTruthful, Truthful, Nothing
<1>4. ASSUME NEW says \in Contents, Fill(says),
             \A m \in says.requested : hoAt'[m] = "down" \/ key'[m] = "successor",
             \A m \in says.completed : key'[m] = "successor"
      PROVE  FileTruthful'
  <2>1. CASE UNCHANGED marker
    BY <2>1, <1>2
  <2>2. CASE marker' = Torn
    BY <2>2, <1>3 DEF Torn
  <2>3. CASE marker' = Written(says)
    BY <2>3, <1>4 DEF Written, FileTruthful, Truthful
  <2>4. QED
    BY <1>4, <2>1, <2>2, <2>3 DEF Fill
<1>5. ASSUME NEW n \in Nodes, FillCompleted(n) PROVE FileTruthful'
  <2>1. WithCompletion(n) \in Contents
    BY <1>1 DEF WithCompletion, Contents
  <2>2. \A m \in hoSeen[n].requested : hoAt'[m] = "down" \/ key'[m] = "successor"
    BY <1>1, OldTextsStayTrue DEF SeenTruthful, NothingBefore
  <2>3. \A m \in hoSeen[n].completed : key'[m] = "successor"
    BY <1>1, OldTextsStayTrue DEF SeenTruthful, NothingBefore
  <2>4. key'[n] = "successor"
    BY <1>5 DEF FillCompleted, CompletesAsSuccessor
  <2>5. /\ WithCompletion(n).requested = hoSeen[n].requested
        /\ WithCompletion(n).completed = hoSeen[n].completed \cup {n}
    BY <1>1 DEF WithCompletion, Contents
  <2>6. QED
    BY <1>4, <1>5, <2>1, <2>2, <2>3, <2>4, <2>5 DEF FillCompleted
<1>6. ASSUME NEW n \in Nodes, Exit(n) PROVE FileTruthful'
  <2> DEFINE claim == [hoSeen[n] EXCEPT !.requested = @ \cup {n}]
  <2>1. claim \in Contents
    BY <1>1 DEF Contents
  <2>2. \A m \in hoSeen[n].requested : hoAt'[m] = "down" \/ key'[m] = "successor"
    BY <1>1, OldTextsStayTrue DEF SeenTruthful, NothingBefore
  <2>3. \A m \in hoSeen[n].completed : key'[m] = "successor"
    BY <1>1, OldTextsStayTrue DEF SeenTruthful, NothingBefore
  <2>4. hoAt'[n] = "down"
    BY <1>6 DEF Exit, Goto, HoTypeOK
  <2>5. /\ claim.requested = hoSeen[n].requested \cup {n}
        /\ claim.completed = hoSeen[n].completed
    BY <1>1 DEF Contents
  <2>6. QED
    BY <1>4, <1>6, <2>1, <2>2, <2>3, <2>4, <2>5 DEF Exit
<1>7. ASSUME NEW n \in Nodes, Complete(n) \/ Claim(n) PROVE FileTruthful'
  BY <1>7, <1>3 DEF Complete, Claim, Truncate, Torn, Absent
<1>8. CASE WriteMarker
  BY <1>8, <1>3 DEF WriteMarker, Written
<1>9. CASE UNCHANGED marker
  BY <1>9, <1>2
<1>10. QED
  BY <1>5, <1>6, <1>7, <1>8, <1>9
  DEF HoNext, HoVars, SaveSuccessor, GraceEnds, Start, Registered, RegistrationFails,
      Check, ProcessCrashes

LEMMA SeenNext == HoInv /\ [HoNext]_HoVars => SeenTruthful'
<1> SUFFICES ASSUME HoInv, [HoNext]_HoVars, NEW m \in Nodes PROVE Truthful(hoSeen[m])'
  BY DEF SeenTruthful
<1> USE DEF HoInv
<1>1. marker.says \in Contents /\ hoSeen[m] \in Contents
  BY MarkerSays DEF HoTypeOK
<1>2. hoSeen'[m] = hoSeen[m] \/ hoSeen'[m] = marker.says
  BY DEF HoTypeOK, HoNext, HoVars, SaveSuccessor, WriteMarker, GraceEnds, Start,
         Registered, RegistrationFails, Complete, FillCompleted, Check, Claim,
         Exit, ProcessCrashes
<1>3. CASE hoSeen'[m] = hoSeen[m]
  BY <1>1, <1>3, OldTextsStayTrue DEF SeenTruthful, Truthful, NothingBefore
<1>4. CASE hoSeen'[m] = marker.says
  BY <1>1, <1>4, OldTextsStayTrue DEF FileTruthful, Truthful, NothingBefore, Absent
<1>5. QED
  BY <1>2, <1>3, <1>4

-----------------------------------------------------------------------------
(* The rest of the invariant.                                              *)

LEMMA CompletesNext == HoInv /\ [HoNext]_HoVars => CompletesAsSuccessor'
<1> SUFFICES ASSUME HoInv, [HoNext]_HoVars, NEW m \in Nodes,
                    hoAt'[m] \in {"completing", "completed"}
             PROVE  key'[m] = "successor"
  BY DEF CompletesAsSuccessor
<1> USE DEF HoInv, Goto
<1>1. ASSUME NEW n \in Nodes, Registered(n) PROVE key'[m] = "successor"
  <2>1. CASE m = n
    BY <1>1, <2>1 DEF Registered, MayComplete, FileTruthful, Truthful, HoTypeOK
  <2>2. CASE m # n
    BY <1>1, <2>2 DEF Registered, CompletesAsSuccessor, HoTypeOK
  <2>3. QED
    BY <2>1, <2>2
<1>2. ASSUME NEW n \in Nodes,
             \/ Start(n) \/ RegistrationFails(n) \/ Complete(n)
             \/ FillCompleted(n) \/ Check(n) \/ Claim(n) \/ Exit(n) \/ ProcessCrashes(n)
      PROVE  key'[m] = "successor"
  BY <1>2 DEF CompletesAsSuccessor, HoTypeOK, Start, RegistrationFails, Complete,
              FillCompleted, Check, Claim, Exit, ProcessCrashes
<1>3. CASE UNCHANGED <<hoAt, key>>
  BY <1>3 DEF CompletesAsSuccessor
<1>4. QED
  BY <1>1, <1>2, <1>3 DEF HoNext, HoVars, SaveSuccessor, WriteMarker, GraceEnds

LEMMA NothingNext == HoInv /\ [HoNext]_HoVars => NothingBefore'
<1> SUFFICES ASSUME HoInv, [HoNext]_HoVars, rotation' = "none" PROVE NothingBefore'
  BY DEF NothingBefore
<1>1. rotation = "none"
  BY DEF HoInv, HoTypeOK, HoNext, HoVars, SaveSuccessor, WriteMarker, GraceEnds, Start,
         Registered, RegistrationFails, Complete, FillCompleted, Check, Claim,
         Exit, ProcessCrashes
<1>2. /\ \A n \in Nodes : hoSeen[n] = Nothing
      /\ \A n \in Nodes : hoAt[n] \in {"down", "registering", "serving"}
      /\ marker = Absent /\ marker.state # "written"
  BY <1>1 DEF HoInv, NothingBefore, Absent
<1> USE DEF HoInv, HoTypeOK, NothingBefore, Goto
<1>3. ASSUME NEW n \in Nodes,
             \/ Start(n) \/ Registered(n) \/ RegistrationFails(n) \/ ProcessCrashes(n)
      PROVE  NothingBefore'
  BY <1>2, <1>3 DEF Start, Registered, MayComplete, RegistrationFails, ProcessCrashes
<1>4. ASSUME NEW n \in Nodes,
             Complete(n) \/ FillCompleted(n) \/ Check(n) \/ Claim(n) \/ Exit(n)
      PROVE  FALSE
  BY <1>2, <1>4 DEF Complete, FillCompleted, Check, Due, Claim, Exit
<1>5. CASE UNCHANGED HoVars
  BY <1>2, <1>5 DEF HoVars
<1>6. QED
  BY <1>1, <1>3, <1>4, <1>5 DEF HoNext, SaveSuccessor, WriteMarker, GraceEnds

LEMMA ErasedNext == HoInv /\ [HoNext]_HoVars => ErasedWhenDone'
<1> SUFFICES ASSUME HoInv, [HoNext]_HoVars, rotation' \in {"marked", "due"},
                    marker' = Absent, NEW m \in Nodes
             PROVE  key'[m] = "successor"
  BY DEF ErasedWhenDone
<1> USE DEF HoInv
<1>d. Absent # Torn /\ \A says : Absent # Written(says)
  BY DEF Absent, Torn, Written
<1>1. ASSUME NEW n \in Nodes, Complete(n) PROVE key'[m] = "successor"
  BY <1>1, <1>d DEF Complete, Truncate, WithCompletion, SeenTruthful, Truthful,
                    CompletesAsSuccessor, HoTypeOK, Contents
<1>2. CASE marker = Absent /\ rotation \in {"marked", "due"}
  BY <1>2 DEF ErasedWhenDone, HoTypeOK, HoNext, HoVars, SaveSuccessor, WriteMarker,
              GraceEnds, Start, Registered, RegistrationFails, Complete,
              FillCompleted, Check, Claim, Exit, ProcessCrashes
<1>3. ASSUME ~ (marker = Absent /\ rotation \in {"marked", "due"}),
             \A n \in Nodes : ~ Complete(n)
      PROVE  FALSE
  BY <1>3, <1>d DEF HoNext, HoVars, SaveSuccessor, WriteMarker, GraceEnds, Start,
                    Registered, RegistrationFails, FillCompleted, Fill, Check,
                    Claim, Exit, ProcessCrashes, Truncate
<1>4. QED
  BY <1>1, <1>2, <1>3

-----------------------------------------------------------------------------
(* The theorem.                                                            *)

LEMMA InvInit == HoInit => HoInv
<1> SUFFICES ASSUME HoInit PROVE HoInv
  OBVIOUS
<1>1. HoTypeOK
  BY TypeInit
<1>2. FileTruthful /\ SeenTruthful
  BY DEF HoInit, FileTruthful, SeenTruthful, Truthful, Absent, Nothing
<1>3. CompletesAsSuccessor /\ NothingBefore /\ ErasedWhenDone
  BY DEF HoInit, CompletesAsSuccessor, NothingBefore, ErasedWhenDone
<1>4. QED
  BY <1>1, <1>2, <1>3 DEF HoInv

(* The marker is erased only after every affected node runs the successor  *)
(* identity, whatever claims, completions and processes get lost on the    *)
(* way: only a successor whose claim was written completes its part.       *)
THEOREM ErasedOnlyWhenDone == HoSpec => []ErasedWhenDone
<1>1. HoInv /\ [HoNext]_HoVars => HoInv'
  BY TypeNext, FileNext, SeenNext, CompletesNext, NothingNext, ErasedNext DEF HoInv
<1>2. HoInv => ErasedWhenDone
  BY DEF HoInv
<1>3. QED
  BY InvInit, <1>1, <1>2, PTL DEF HoSpec

-----------------------------------------------------------------------------
(* HostProcess.                                                            *)

(* As long as the lock was neither forced, missed nor raced: a process     *)
(* that serves is the one in the file, and whoever has judged the file and *)
(* is about to write it is alone.                                          *)
HpHolds ==
  hpExcused \/ \A p \in HpProcs :
    /\ HpServes(p) => hpFile = p
    /\ hpAt[p] = "checked" =>
         \A q \in HpProcs : ~HpServes(q) /\ (hpAt[q] = "checked" => q = p)

HpInv == HpTypeOK /\ HpHolds

LEMMA HpInitInv == HpInit => HpInv
<1> SUFFICES ASSUME HpInit PROVE HpInv
  OBVIOUS
<1>1. \A p \in HpProcs : hpAt[p] = "off"
  BY DEF HpInit
<1>2. HpHolds
  BY <1>1 DEF HpHolds, HpServes
<1>3. 0 \in 0 .. HpReleases /\ 0 \in 0 .. HpBackoff /\ 0 \in 0 .. HpFaults
  BY HpAssumption
<1>4. HpTypeOK
  BY <1>3 DEF HpInit, HpTypeOK
<1> QED
  BY <1>2, <1>4 DEF HpInv

LEMMA HpTypesStep == HpTypeOK /\ [HpNext]_HpVars => HpTypeOK'
<1> SUFFICES ASSUME HpTypeOK, [HpNext]_HpVars PROVE HpTypeOK'
  OBVIOUS
<1> USE HpAssumption DEF HpTypeOK, HpGo, HpFault, HpPidDies
<1>1. CASE UNCHANGED HpVars
  BY <1>1 DEF HpVars
<1>2. CASE HpPublish
  BY <1>2 DEF HpPublish
<1>3. CASE HpTick
  BY <1>3 DEF HpTick
<1>4. ASSUME NEW p \in HpProcs,
             \/ HpStart(p) \/ HpRefused(p) \/ HpHold(p)
             \/ \E force \in BOOLEAN : HpCheck(p, force)
      PROVE  HpTypeOK'
  <2>1. CASE HpStart(p)
    BY <2>1 DEF HpStart
  <2>2. CASE HpRefused(p)
    BY <2>2 DEF HpRefused
  <2>3. CASE HpHold(p)
    BY <2>3 DEF HpHold
  <2>4. ASSUME NEW force \in BOOLEAN, HpCheck(p, force) PROVE HpTypeOK'
    BY <2>4 DEF HpCheck
  <2> QED
    BY <1>4, <2>1, <2>2, <2>3, <2>4
<1>5. ASSUME NEW p \in HpProcs,
             \/ HpHoldFails(p) \/ HpUpdate(p)
      PROVE  HpTypeOK'
  <2>1. CASE HpHoldFails(p)
    BY <2>1 DEF HpHoldFails
  <2>2. CASE HpUpdate(p)
    BY <2>2 DEF HpUpdate
  <2> QED
    BY <1>5, <2>1, <2>2
<1>6. ASSUME NEW p \in HpProcs, HpStop(p) \/ HpDies(p) PROVE HpTypeOK'
  BY <1>6 DEF HpStop, HpDies, HpLeaveInstall
<1>7. ASSUME NEW p \in HpProcs, HpUpdated(p) PROVE HpTypeOK'
  BY <1>7 DEF HpUpdated, HpRecord
<1>8. ASSUME NEW p \in HpProcs, HpUpdateFails(p) PROVE HpTypeOK'
  <2> DEFINE again == IF hpTried.release = hpGoal[p] THEN hpTried.failures + 1 ELSE 1
             wait == 2 ^ (again - 1)
             left == IF wait \in 0 .. HpBackoff THEN wait ELSE HpBackoff
  <2>1. again \in Nat /\ left \in 0 .. HpBackoff
    BY SMT
  <2>2. hpTried' = [release |-> hpGoal[p], failures |-> again, wait |-> left]
    BY <1>8 DEF HpUpdateFails, HpRecord
  <2> HIDE DEF again, wait, left
  <2> QED
    BY <1>8, <2>1, <2>2 DEF HpUpdateFails, HpRecord
<1> QED
  BY <1>1, <1>2, <1>3, <1>4, <1>5, <1>6, <1>7, <1>8 DEF HpNext

(* The lock's invariant across one step of a process.                      *)
LEMMA HpHoldsStep == HpInv /\ [HpNext]_HpVars => HpHolds'
<1> SUFFICES ASSUME HpInv, [HpNext]_HpVars, ~hpExcused' PROVE HpHolds'
  BY DEF HpHolds
<1> USE HpAssumption DEF HpInv, HpTypeOK, HpGo, HpHolds, HpServes, HpPidDies
<1>1. CASE UNCHANGED HpVars
  BY <1>1 DEF HpVars
<1>2. CASE HpPublish \/ HpTick
  BY <1>2 DEF HpPublish, HpTick
<1>3. ASSUME NEW p \in HpProcs, HpStart(p) \/ HpRefused(p) \/ HpHold(p) \/ HpHoldFails(p)
      PROVE  HpHolds'
  <2>1. CASE HpStart(p)
    BY <2>1 DEF HpStart
  <2>2. CASE HpRefused(p)
    BY <2>2 DEF HpRefused
  <2>3. CASE HpHold(p)
    BY <2>3 DEF HpHold
  <2>4. CASE HpHoldFails(p)
    BY <2>4 DEF HpHoldFails
  <2> QED
    BY <1>3, <2>1, <2>2, <2>3, <2>4
<1>4. ASSUME NEW p \in HpProcs, NEW force \in BOOLEAN, HpCheck(p, force)
      PROVE  HpHolds'
  BY <1>4 DEF HpCheck, HpTaken, HpOthers
<1>5. ASSUME NEW p \in HpProcs, HpStop(p) PROVE HpHolds'
  BY <1>5 DEF HpStop
<1>6. ASSUME NEW p \in HpProcs, HpDies(p) \/ HpUpdate(p) \/ HpUpdated(p) \/ HpUpdateFails(p)
      PROVE  HpHolds'
  <2>1. CASE HpDies(p)
    BY <2>1 DEF HpDies
  <2>2. CASE HpUpdate(p)
    BY <2>2 DEF HpUpdate, HpOutdated
  <2>3. CASE HpUpdated(p)
    BY <2>3 DEF HpUpdated
  <2>4. CASE HpUpdateFails(p)
    BY <2>4 DEF HpUpdateFails
  <2> QED
    BY <1>6, <2>1, <2>2, <2>3, <2>4
<1> QED
  BY <1>1, <1>2, <1>3, <1>4, <1>5, <1>6 DEF HpNext

LEMMA HpInvariant == HpInit /\ [][HpNext]_HpVars => []HpInv
<1>1. HpInv /\ [HpNext]_HpVars => HpInv'
  BY HpTypesStep, HpHoldsStep DEF HpInv
<1> QED
  BY HpInitInv, <1>1, PTL

LEMMA HpInvServesOne == HpInv => HpOneServing
<1> SUFFICES ASSUME HpInv, ~hpExcused
             PROVE  Cardinality({p \in HpProcs : HpServes(p)}) <= 1
  BY DEF HpOneServing
<1> DEFINE S == {p \in HpProcs : HpServes(p)}
<1>1. S \subseteq {hpFile}
  BY DEF HpInv, HpHolds
<1>2. IsFiniteSet({hpFile}) /\ Cardinality({hpFile}) = 1
  BY FS_Singleton
<1>3. Cardinality(S) <= Cardinality({hpFile})
  BY <1>1, <1>2, FS_Subset
<1> QED
  BY <1>2, <1>3

(* The states of the processes of a node are as described.                 *)
THEOREM HpTypes == HpSpec => []HpTypeOK
BY HpInvariant, PTL DEF HpInv, HpSpec

(* One process serves the node, through restarts, deaths and updates, as   *)
(* long as the lock was not forced, missed or raced (acquireInstanceLock), *)
(* for any number of processes and releases.                               *)
THEOREM HpOne == HpSpec => []HpOneServing
BY HpInvariant, HpInvServesOne, PTL DEF HpSpec

-----------------------------------------------------------------------------
(* TunnelGate.                                                             *)

(* As long as no two processes were between the same awaits at once.       *)
TgAlone ==
  \A p, q \in TgProcs : tgAt[p] \in TgSteps /\ tgAt[q] \in TgSteps => p = q

(* The pacing file says what is left of the interval.                      *)
TgPaced ==
  /\ ~tgEarly
  /\ tgGate = tgSince
  /\ \A p \in TgProcs :
       tgAt[p] \in {"ungate", "open", "write", "judge", "unlink", "mark"} => tgSince = 0

(* The lock is that of the process that creates a tunnel, and it is not    *)
(* removed while that goes on: either the lease still runs, or the pacing  *)
(* keeps everybody from judging the lock.                                  *)
TgLocked(p) ==
  /\ tgAt[p] = "unlink" => tgLock.left = 0
  /\ tgAt[p] \in {"write", "mark", "running"} => tgLock.by = p
  /\ tgAt[p] = "mark" => tgLock.left = TgLease
  /\ tgAt[p] = "running" =>
       /\ tgSince + TgStart >= tgWait[p] + TgInterval
       /\ tgLock.left + TgStart >= tgWait[p] + TgLease

TgInOrder == TgAlone /\ TgPaced /\ \A p \in TgProcs : TgLocked(p)

TgInv == TgTypeOK /\ (tgRaced \/ TgInOrder)

LEMMA TgGoMoves ==
  ASSUME TgTypeOK, NEW p \in TgProcs, NEW a \in TgPlaces, TgGo(p, a)
  PROVE  /\ tgAt' \in [TgProcs -> TgPlaces] /\ tgRaced' \in BOOLEAN
         /\ tgAt'[p] = a
         /\ \A q \in TgProcs : q # p => tgAt'[q] = tgAt[q]
         /\ ~tgRaced' => ~tgRaced
         /\ ~tgRaced' /\ a \in TgSteps =>
              \A q \in TgProcs : tgAt'[q] \in TgSteps => q = p
BY DEF TgTypeOK, TgGo

LEMMA TgSleepMoves ==
  ASSUME TgTypeOK, NEW p \in TgProcs, NEW n \in Nat, TgSleep(p, n)
  PROVE  TgGo(p, "asleep") /\ tgWait' \in [TgProcs -> Nat]
           /\ \A q \in TgProcs : q # p => tgWait'[q] = tgWait[q]
BY DEF TgTypeOK, TgSleep

LEMMA TgMaxIs ==
  ASSUME NEW m \in Nat, NEW n \in Nat PROVE TgMax(m, n) \in Nat
BY DEF TgMax

LEMMA TgPlacesAre ==
  TgPlaces = {"limit", "unlimit", "gate", "ungate", "open", "write", "judge",
              "unlink", "mark", "settle", "limited", "start", "asleep",
              "running", "up", "dead"}
BY DEF TgPlaces, TgSteps

LEMMA TgInitInv == TgInit => TgInv
<1> SUFFICES ASSUME TgInit PROVE TgInv
  OBVIOUS
<1>1. TgTypeOK
  <2>1. /\ 0 \in 0 .. TgCooldown /\ 0 \in 0 .. TgInterval /\ 0 \in 0 .. TgLease
        /\ TgFaults \in 0 .. TgFaults
    BY TgAssumption
  <2> QED
    BY <2>1, TgPlacesAre DEF TgInit, TgTypeOK, TgFree
<1>2. TgInOrder
  BY DEF TgInit, TgInOrder, TgAlone, TgPaced, TgLocked, TgSteps
<1> QED
  BY <1>1, <1>2 DEF TgInv

(* Every step, seen as what it does to places, files and clocks.           *)
LEMMA TgTypesStep == TgTypeOK /\ [TgNext]_TgVars => TgTypeOK'
<1> SUFFICES ASSUME TgTypeOK, [TgNext]_TgVars PROVE TgTypeOK'
  OBVIOUS
<1> USE TgAssumption
<1>1. CASE UNCHANGED TgVars
  BY <1>1 DEF TgVars, TgFiles, TgHistory, TgTypeOK
<1>2. CASE TgTick
  <2>1. \A n \in Nat : TgPass(n) \in Nat /\ TgPass(n) <= n
    BY DEF TgPass
  <2> QED
    BY <1>2, <2>1 DEF TgTick, TgTypeOK
<1>3. ASSUME NEW p \in TgProcs, TgTries(p) PROVE TgTypeOK'
  <2>1. TgGo(p, "limit") /\ "limit" \in TgPlaces
    BY <1>3, TgPlacesAre DEF TgTries
  <2> QED
    BY <1>3, <2>1, TgGoMoves DEF TgTries, TgFiles, TgTypeOK
<1>4. ASSUME NEW p \in TgProcs, TgReadLimit(p) \/ TgReadGate(p) \/ TgJudge(p) PROVE TgTypeOK'
  <2>1. \E a \in TgPlaces : TgGo(p, a) /\ tgWait' \in [TgProcs -> Nat]
    <3>1. /\ tgLock.left \in Nat /\ tgGate \in Nat /\ tgLimit \in Nat /\ tgMem[p] \in Nat
          /\ tgWait \in [TgProcs -> Nat]
      BY DEF TgTypeOK
    <3>2. TgMax(tgMem[p], tgLimit) \in Nat
      BY <3>1, TgMaxIs
    <3> QED
      BY <1>4, <3>1, <3>2, TgPlacesAre, TgSleepMoves
         DEF TgReadLimit, TgReadGate, TgJudge
  <2> QED
    BY <1>4, <2>1, TgGoMoves DEF TgReadLimit, TgReadGate, TgJudge, TgFiles, TgTypeOK
<1>5. ASSUME NEW p \in TgProcs, TgClearLimit(p) PROVE TgTypeOK'
  <2>1. \E a \in TgPlaces : TgGo(p, a) /\ tgWait' \in [TgProcs -> Nat]
    BY <1>5, TgPlacesAre, TgSleepMoves DEF TgClearLimit, TgTypeOK
  <2> QED
    BY <1>5, <2>1, TgGoMoves DEF TgClearLimit, TgTypeOK
<1>6. ASSUME NEW p \in TgProcs, TgClearGate(p) \/ TgOpen(p) \/ TgWrite(p) \/ TgUp(p)
      PROVE  TgTypeOK'
  <2>1. \E a \in TgPlaces : TgGo(p, a)
    BY <1>6, TgPlacesAre DEF TgClearGate, TgOpen, TgWrite, TgUp
  <2>2. tgLock' \in [by : TgProcs \cup {TgNobody}, left : 0 .. TgLease]
    BY <1>6 DEF TgClearGate, TgOpen, TgWrite, TgUp, TgTypeOK, TgFree
  <2> QED
    BY <1>6, <2>1, <2>2, TgGoMoves
       DEF TgClearGate, TgOpen, TgWrite, TgUp, TgFiles, TgTypeOK
<1>7. ASSUME NEW p \in TgProcs, TgUnlink(p) PROVE TgTypeOK'
  <2>1. \E a \in TgPlaces : TgGo(p, a) /\ tgWait' \in [TgProcs -> Nat]
    BY <1>7, TgPlacesAre, TgSleepMoves DEF TgUnlink, TgTypeOK
  <2>2. tgLock' \in [by : TgProcs \cup {TgNobody}, left : 0 .. TgLease]
    BY <1>7 DEF TgUnlink, TgTypeOK, TgFree
  <2> QED
    BY <1>7, <2>1, <2>2, TgGoMoves DEF TgUnlink, TgTypeOK
<1>8. ASSUME NEW p \in TgProcs, TgMark(p) PROVE TgTypeOK'
  <2>1. TgGo(p, "running") /\ "running" \in TgPlaces
    BY <1>8, TgPlacesAre DEF TgMark
  <2> QED
    BY <1>8, <2>1, TgGoMoves DEF TgMark, TgTypeOK
<1>9. ASSUME NEW p \in TgProcs, TgFails(p) PROVE TgTypeOK'
  <2>1. TgGo(p, "settle") /\ "settle" \in TgPlaces
    BY <1>9, TgPlacesAre DEF TgFails
  <2> QED
    BY <1>9, <2>1, TgGoMoves DEF TgFails, TgFault, TgFree, TgTypeOK
<1>10. ASSUME NEW p \in TgProcs, TgReports(p) PROVE TgTypeOK'
  <2>1. \E a \in TgPlaces : TgGo(p, a)
    BY <1>10, TgPlacesAre DEF TgReports
  <2>2. tgMem' \in [TgProcs -> 0 .. TgCooldown]
    BY <1>10 DEF TgReports, TgTypeOK
  <2> QED
    BY <1>10, <2>1, <2>2, TgGoMoves DEF TgReports, TgFiles, TgTypeOK
<1>11. ASSUME NEW p \in TgProcs, TgPersistLimit(p) PROVE TgTypeOK'
  <2>1. TgGo(p, "start") /\ "start" \in TgPlaces
    BY <1>11, TgPlacesAre DEF TgPersistLimit
  <2> QED
    BY <1>11, <2>1, TgGoMoves DEF TgPersistLimit, TgTypeOK
<1>12. ASSUME NEW p \in TgProcs, TgCrash(p) PROVE TgTypeOK'
  <2>1. \E a \in TgPlaces : TgGo(p, a)
    BY <1>12, TgPlacesAre DEF TgCrash
  <2>2. tgMem' \in [TgProcs -> 0 .. TgCooldown] /\ tgLeft' \in 0 .. TgFaults
    BY <1>12 DEF TgCrash, TgFault, TgTypeOK
  <2> QED
    BY <1>12, <2>1, <2>2, TgGoMoves DEF TgCrash, TgFiles, TgTypeOK
<1> QED
  BY <1>1, <1>2, <1>3, <1>4, <1>5, <1>6, <1>7, <1>8, <1>9, <1>10, <1>11, <1>12
     DEF TgNext, TgStep

(* What a process that goes on finds, and that it still is alone.          *)
LEMMA TgGoAlone ==
  ASSUME TgInv, NEW p \in TgProcs, NEW a \in TgPlaces, TgGo(p, a), ~tgRaced'
  PROVE  /\ TgInOrder /\ TgAlone'
         /\ tgAt'[p] = a
         /\ \A q \in TgProcs : q # p => tgAt'[q] = tgAt[q]
         /\ a \in TgSteps => \A q \in TgProcs : q # p => tgAt[q] \notin TgSteps
<1>1. TgTypeOK
  BY DEF TgInv
<1>2. TgInOrder
  BY <1>1, TgGoMoves DEF TgInv
<1> QED
  BY <1>1, <1>2, TgGoMoves DEF TgInOrder, TgAlone

LEMMA TgInOrderStep == TgInv /\ [TgNext]_TgVars => tgRaced' \/ TgInOrder'
<1> SUFFICES ASSUME TgInv, [TgNext]_TgVars, ~tgRaced' PROVE TgInOrder'
  OBVIOUS
<1>t. /\ \A q \in TgProcs : tgWait[q] \in Nat
      /\ tgLock.left \in Nat /\ tgSince \in Nat
      /\ tgLock \in [by : TgProcs \cup {TgNobody}, left : 0 .. TgLease]
      /\ TgStart \in Nat /\ TgInterval \in Nat /\ TgLease \in Nat
  BY TgAssumption DEF TgInv, TgTypeOK
<1>1. CASE UNCHANGED TgVars
  BY <1>1 DEF TgVars, TgFiles, TgHistory, TgInv, TgInOrder, TgAlone, TgPaced, TgLocked
<1>2. CASE TgTick
  <2>1. TgInOrder /\ \A q \in TgProcs : tgAt[q] \notin TgSteps /\ (tgAt[q] = "running" => tgWait[q] > 0)
    BY <1>2 DEF TgTick, TgInv
  <2>2. TgAlone' /\ TgPaced'
    BY <1>2, <2>1 DEF TgTick, TgInOrder, TgAlone, TgPaced, TgSteps
  <2>3. ASSUME NEW q \in TgProcs PROVE TgLocked(q)'
    BY <1>2, <1>t, <2>1 DEF TgTick, TgInOrder, TgLocked, TgSteps, TgPass
  <2> QED
    BY <2>2, <2>3 DEF TgInOrder
<1>3. ASSUME NEW p \in TgProcs, TgTries(p) PROVE TgInOrder'
  <2>1. TgGo(p, "limit") /\ "limit" \in TgPlaces
    BY <1>3, TgPlacesAre DEF TgTries
  <2> QED
    BY <1>3, <2>1, TgGoAlone DEF TgTries, TgFiles, TgInOrder, TgPaced, TgLocked
<1>4. ASSUME NEW p \in TgProcs, TgReadLimit(p) PROVE TgInOrder'
  <2>1. PICK a \in {"asleep", "unlimit"} : TgGo(p, a) /\ a \in TgPlaces
    BY <1>4, TgPlacesAre DEF TgReadLimit, TgSleep
  <2>2. TgInOrder /\ TgAlone'
    BY <2>1, TgGoAlone
  <2>3. /\ \A q \in TgProcs : q # p => tgAt'[q] = tgAt[q] /\ tgWait'[q] = tgWait[q]
        /\ \A q \in TgProcs : q # p => tgAt[q] \notin TgSteps \/ a \notin TgSteps
        /\ tgAt'[p] = a
    BY <1>4, <2>1, TgGoAlone DEF TgReadLimit, TgSleep, TgInv, TgTypeOK
  <2>4. TgPaced'
    BY <1>4, <2>1, <2>2, <2>3 DEF TgReadLimit, TgSleep, TgFiles, TgInOrder, TgPaced, TgSteps
  <2>5. ASSUME NEW q \in TgProcs PROVE TgLocked(q)'
    BY <1>4, <1>t, <2>1, <2>2, <2>3 DEF TgReadLimit, TgSleep, TgFiles, TgInOrder, TgPaced, TgLocked, TgSteps
  <2> QED
    BY <2>2, <2>4, <2>5 DEF TgInOrder
<1>5. ASSUME NEW p \in TgProcs, TgClearLimit(p) PROVE TgInOrder'
  <2>1. PICK a \in {"asleep", "gate"} : TgGo(p, a) /\ a \in TgPlaces
    BY <1>5, TgPlacesAre DEF TgClearLimit, TgSleep
  <2>2. TgInOrder /\ TgAlone'
    BY <2>1, TgGoAlone
  <2>3. /\ \A q \in TgProcs : q # p => tgAt'[q] = tgAt[q] /\ tgWait'[q] = tgWait[q]
        /\ \A q \in TgProcs : q # p => tgAt[q] \notin TgSteps \/ a \notin TgSteps
        /\ tgAt'[p] = a
    BY <1>5, <2>1, TgGoAlone DEF TgClearLimit, TgSleep, TgInv, TgTypeOK
  <2>4. TgPaced'
    BY <1>5, <2>1, <2>2, <2>3 DEF TgClearLimit, TgSleep, TgFiles, TgInOrder, TgPaced, TgSteps
  <2>5. ASSUME NEW q \in TgProcs PROVE TgLocked(q)'
    BY <1>5, <1>t, <2>1, <2>2, <2>3 DEF TgClearLimit, TgSleep, TgFiles, TgInOrder, TgPaced, TgLocked, TgSteps
  <2> QED
    BY <2>2, <2>4, <2>5 DEF TgInOrder
<1>6. ASSUME NEW p \in TgProcs, TgReadGate(p) PROVE TgInOrder'
  <2>1. PICK a \in {"asleep", "ungate"} : TgGo(p, a) /\ a \in TgPlaces
         /\ (a = "ungate" => tgGate = 0)
    BY <1>6, TgPlacesAre DEF TgReadGate, TgSleep
  <2>2. TgInOrder /\ TgAlone'
    BY <2>1, TgGoAlone
  <2>3. /\ \A q \in TgProcs : q # p => tgAt'[q] = tgAt[q] /\ tgWait'[q] = tgWait[q]
        /\ \A q \in TgProcs : q # p => tgAt[q] \notin TgSteps \/ a \notin TgSteps
        /\ tgAt'[p] = a
    BY <1>6, <2>1, TgGoAlone DEF TgReadGate, TgSleep, TgInv, TgTypeOK
  <2>4. TgPaced'
    BY <1>6, <2>1, <2>2, <2>3 DEF TgReadGate, TgSleep, TgFiles, TgInOrder, TgPaced, TgSteps
  <2>5. ASSUME NEW q \in TgProcs PROVE TgLocked(q)'
    BY <1>6, <1>t, <2>1, <2>2, <2>3 DEF TgReadGate, TgSleep, TgFiles, TgInOrder, TgPaced, TgLocked, TgSteps
  <2> QED
    BY <2>2, <2>4, <2>5 DEF TgInOrder
<1>7. ASSUME NEW p \in TgProcs, TgClearGate(p) PROVE TgInOrder'
  <2>1. PICK a \in {"open"} : TgGo(p, a) /\ a \in TgPlaces
    BY <1>7, TgPlacesAre DEF TgClearGate
  <2>2. TgInOrder /\ TgAlone'
    BY <2>1, TgGoAlone
  <2>3. /\ \A q \in TgProcs : q # p => tgAt'[q] = tgAt[q] /\ tgWait'[q] = tgWait[q]
        /\ \A q \in TgProcs : q # p => tgAt[q] \notin TgSteps \/ a \notin TgSteps
        /\ tgAt'[p] = a
    BY <1>7, <2>1, TgGoAlone DEF TgClearGate, TgInv, TgTypeOK
  <2>4. TgPaced'
    BY <1>7, <2>1, <2>2, <2>3 DEF TgClearGate, TgFiles, TgInOrder, TgPaced, TgSteps
  <2>5. ASSUME NEW q \in TgProcs PROVE TgLocked(q)'
    BY <1>7, <1>t, <2>1, <2>2, <2>3 DEF TgClearGate, TgFiles, TgInOrder, TgPaced, TgLocked, TgSteps
  <2> QED
    BY <2>2, <2>4, <2>5 DEF TgInOrder
<1>8. ASSUME NEW p \in TgProcs, TgOpen(p) PROVE TgInOrder'
  <2>1. PICK a \in {"write", "judge"} : TgGo(p, a) /\ a \in TgPlaces
         /\ (IF a = "write" THEN tgLock = TgFree /\ tgLock' = [by |-> p, left |-> 0]
                            ELSE tgLock' = tgLock)
    BY <1>8, TgPlacesAre DEF TgOpen, TgFree
  <2>2. TgInOrder /\ TgAlone'
    BY <2>1, TgGoAlone
  <2>3. /\ \A q \in TgProcs : q # p => tgAt'[q] = tgAt[q] /\ tgWait'[q] = tgWait[q]
        /\ \A q \in TgProcs : q # p => tgAt[q] \notin TgSteps \/ a \notin TgSteps
        /\ tgAt'[p] = a
    BY <1>8, <2>1, TgGoAlone DEF TgOpen, TgFree, TgInv, TgTypeOK
  <2>4. TgPaced'
    BY <1>8, <2>1, <2>2, <2>3 DEF TgOpen, TgFree, TgFiles, TgInOrder, TgPaced, TgSteps
  <2>5. ASSUME NEW q \in TgProcs PROVE TgLocked(q)'
    <3>1. a = "write" => tgAt[q] # "running"
      BY <2>1, <2>2, TgAssumption DEF TgFree, TgInOrder, TgLocked
    <3> QED
      BY <1>8, <2>1, <2>2, <2>3, <3>1 DEF TgOpen, TgInOrder, TgLocked, TgSteps
  <2> QED
    BY <2>2, <2>4, <2>5 DEF TgInOrder
<1>9. ASSUME NEW p \in TgProcs, TgWrite(p) PROVE TgInOrder'
  <2>1. PICK a \in {"mark"} : TgGo(p, a) /\ a \in TgPlaces
    BY <1>9, TgPlacesAre DEF TgWrite
  <2>2. TgInOrder /\ TgAlone'
    BY <2>1, TgGoAlone
  <2>3. /\ \A q \in TgProcs : q # p => tgAt'[q] = tgAt[q] /\ tgWait'[q] = tgWait[q]
        /\ \A q \in TgProcs : q # p => tgAt[q] \notin TgSteps \/ a \notin TgSteps
        /\ tgAt'[p] = a
    BY <1>9, <2>1, TgGoAlone DEF TgWrite, TgInv, TgTypeOK
  <2>4. TgPaced'
    BY <1>9, <2>1, <2>2, <2>3 DEF TgWrite, TgFiles, TgInOrder, TgPaced, TgSteps
  <2>5. ASSUME NEW q \in TgProcs PROVE TgLocked(q)'
    BY <1>9, <1>t, <2>1, <2>2, <2>3 DEF TgWrite, TgFiles, TgInOrder, TgPaced, TgLocked, TgSteps
  <2> QED
    BY <2>2, <2>4, <2>5 DEF TgInOrder
<1>10. ASSUME NEW p \in TgProcs, TgJudge(p) PROVE TgInOrder'
  <2>1. PICK a \in {"asleep", "unlink"} : TgGo(p, a) /\ a \in TgPlaces
         /\ (a = "unlink" => tgLock.left = 0)
    BY <1>10, TgPlacesAre DEF TgJudge, TgSleep
  <2>2. TgInOrder /\ TgAlone'
    BY <2>1, TgGoAlone
  <2>3. /\ \A q \in TgProcs : q # p => tgAt'[q] = tgAt[q] /\ tgWait'[q] = tgWait[q]
        /\ \A q \in TgProcs : q # p => tgAt[q] \notin TgSteps \/ a \notin TgSteps
        /\ tgAt'[p] = a
    BY <1>10, <2>1, TgGoAlone DEF TgJudge, TgSleep, TgInv, TgTypeOK
  <2>4. TgPaced'
    BY <1>10, <2>1, <2>2, <2>3 DEF TgJudge, TgSleep, TgFiles, TgInOrder, TgPaced, TgSteps
  <2>5. ASSUME NEW q \in TgProcs PROVE TgLocked(q)'
    BY <1>10, <1>t, <2>1, <2>2, <2>3 DEF TgJudge, TgSleep, TgFiles, TgInOrder, TgPaced, TgLocked, TgSteps
  <2> QED
    BY <2>2, <2>4, <2>5 DEF TgInOrder
<1>11. ASSUME NEW p \in TgProcs, TgUnlink(p) PROVE TgInOrder'
  <2>1. PICK a \in {"open", "asleep"} : TgGo(p, a) /\ a \in TgPlaces
    BY <1>11, TgPlacesAre DEF TgUnlink, TgSleep, TgFree
  <2>2. TgInOrder /\ TgAlone'
    BY <2>1, TgGoAlone
  <2>3. /\ \A q \in TgProcs : q # p => tgAt'[q] = tgAt[q] /\ tgWait'[q] = tgWait[q]
        /\ \A q \in TgProcs : q # p => tgAt[q] \notin TgSteps \/ a \notin TgSteps
        /\ tgAt'[p] = a
    BY <1>11, <2>1, TgGoAlone DEF TgUnlink, TgSleep, TgFree, TgInv, TgTypeOK
  <2>4. TgPaced'
    BY <1>11, <2>1, <2>2, <2>3 DEF TgUnlink, TgSleep, TgFree, TgFiles, TgInOrder, TgPaced, TgSteps
  <2>5. ASSUME NEW q \in TgProcs PROVE TgLocked(q)'
    <3>1. tgAt[q] # "running"
      BY <1>11, <1>t, <2>2, TgAssumption DEF TgUnlink, TgInOrder, TgPaced, TgLocked
    <3>2. q # p => tgAt[q] \notin {"running", "write", "mark", "unlink"}
      BY <1>11, <2>2, <3>1 DEF TgUnlink, TgInOrder, TgAlone, TgSteps
    <3> QED
      BY <2>1, <2>3, <3>2 DEF TgLocked
  <2> QED
    BY <2>2, <2>4, <2>5 DEF TgInOrder
<1>12. ASSUME NEW p \in TgProcs, TgMark(p) PROVE TgInOrder'
  <2>1. PICK a \in {"running"} : TgGo(p, a) /\ a \in TgPlaces
    BY <1>12, TgPlacesAre DEF TgMark
  <2>2. TgInOrder /\ TgAlone'
    BY <2>1, TgGoAlone
  <2>3. /\ \A q \in TgProcs : q # p => tgAt'[q] = tgAt[q] /\ tgWait'[q] = tgWait[q]
        /\ \A q \in TgProcs : q # p => tgAt[q] \notin TgSteps \/ a \notin TgSteps
        /\ tgAt'[p] = a
    BY <1>12, <2>1, TgGoAlone DEF TgMark, TgInv, TgTypeOK
  <2>4. TgPaced'
    <3>1. \A q \in TgProcs : q # p => tgAt[q] \notin TgSteps
      BY <1>12, <2>2 DEF TgMark, TgInOrder, TgAlone, TgSteps
    <3>2. tgSince = 0 /\ ~tgEarly
      BY <1>12, <2>2 DEF TgMark, TgInOrder, TgPaced
    <3>3. ~(tgSince > 0)
      BY <3>2
    <3>4. ~tgEarly' /\ tgGate' = tgSince'
      BY <1>12, <3>2, <3>3, Zenon DEF TgMark
    <3> QED
      BY <2>1, <2>3, <3>1, <3>4 DEF TgPaced, TgSteps
  <2>5. ASSUME NEW q \in TgProcs PROVE TgLocked(q)'
    <3>1. q # p => tgAt[q] \notin {"running", "write", "mark", "unlink"}
      BY <1>12, <2>2 DEF TgMark, TgInOrder, TgAlone, TgLocked, TgSteps
    <3>2. tgWait'[p] = TgStart /\ tgSince' = TgInterval /\ tgLock' = tgLock
      BY <1>12 DEF TgMark, TgInv, TgTypeOK
    <3>3. tgLock.by = p /\ tgLock.left = TgLease
      BY <1>12, <2>2 DEF TgMark, TgInOrder, TgLocked
    <3> QED
      BY <1>t, <2>1, <2>3, <3>1, <3>2, <3>3 DEF TgLocked
  <2> QED
    BY <2>2, <2>4, <2>5 DEF TgInOrder
<1>13. ASSUME NEW p \in TgProcs, TgUp(p) PROVE TgInOrder'
  <2>1. PICK a \in {"up"} : TgGo(p, a) /\ a \in TgPlaces
    BY <1>13, TgPlacesAre DEF TgUp, TgFree
  <2>2. TgInOrder /\ TgAlone'
    BY <2>1, TgGoAlone
  <2>3. /\ \A q \in TgProcs : q # p => tgAt'[q] = tgAt[q] /\ tgWait'[q] = tgWait[q]
        /\ \A q \in TgProcs : q # p => tgAt[q] \notin TgSteps \/ a \notin TgSteps
        /\ tgAt'[p] = a
    BY <1>13, <2>1, TgGoAlone DEF TgUp, TgFree, TgInv, TgTypeOK
  <2>4. TgPaced'
    BY <1>13, <2>1, <2>2, <2>3 DEF TgUp, TgFree, TgFiles, TgInOrder, TgPaced, TgSteps
  <2>5. ASSUME NEW q \in TgProcs PROVE TgLocked(q)'
    BY <1>13, <1>t, <2>1, <2>2, <2>3 DEF TgUp, TgFree, TgFiles, TgInOrder, TgPaced, TgLocked, TgSteps
  <2> QED
    BY <2>2, <2>4, <2>5 DEF TgInOrder
<1>14. ASSUME NEW p \in TgProcs, TgFails(p) PROVE TgInOrder'
  <2>1. PICK a \in {"settle"} : TgGo(p, a) /\ a \in TgPlaces
    BY <1>14, TgPlacesAre DEF TgFails, TgFree
  <2>2. TgInOrder /\ TgAlone'
    BY <2>1, TgGoAlone
  <2>3. /\ \A q \in TgProcs : q # p => tgAt'[q] = tgAt[q] /\ tgWait'[q] = tgWait[q]
        /\ \A q \in TgProcs : q # p => tgAt[q] \notin TgSteps \/ a \notin TgSteps
        /\ tgAt'[p] = a
    BY <1>14, <2>1, TgGoAlone DEF TgFails, TgFree, TgInv, TgTypeOK
  <2>4. TgPaced'
    BY <1>14, <2>1, <2>2, <2>3 DEF TgFails, TgFree, TgFiles, TgInOrder, TgPaced, TgSteps
  <2>5. ASSUME NEW q \in TgProcs PROVE TgLocked(q)'
    BY <1>14, <1>t, <2>1, <2>2, <2>3 DEF TgFails, TgFree, TgFiles, TgInOrder, TgPaced, TgLocked, TgSteps
  <2> QED
    BY <2>2, <2>4, <2>5 DEF TgInOrder
<1>15. ASSUME NEW p \in TgProcs, TgReports(p) PROVE TgInOrder'
  <2>1. PICK a \in {"limited", "start", "dead"} : TgGo(p, a) /\ a \in TgPlaces
    BY <1>15, TgPlacesAre DEF TgReports
  <2>2. TgInOrder /\ TgAlone'
    BY <2>1, TgGoAlone
  <2>3. /\ \A q \in TgProcs : q # p => tgAt'[q] = tgAt[q] /\ tgWait'[q] = tgWait[q]
        /\ \A q \in TgProcs : q # p => tgAt[q] \notin TgSteps \/ a \notin TgSteps
        /\ tgAt'[p] = a
    BY <1>15, <2>1, TgGoAlone DEF TgReports, TgInv, TgTypeOK
  <2>4. TgPaced'
    BY <1>15, <2>1, <2>2, <2>3 DEF TgReports, TgFiles, TgInOrder, TgPaced, TgSteps
  <2>5. ASSUME NEW q \in TgProcs PROVE TgLocked(q)'
    BY <1>15, <1>t, <2>1, <2>2, <2>3 DEF TgReports, TgFiles, TgInOrder, TgPaced, TgLocked, TgSteps
  <2> QED
    BY <2>2, <2>4, <2>5 DEF TgInOrder
<1>16. ASSUME NEW p \in TgProcs, TgPersistLimit(p) PROVE TgInOrder'
  <2>1. PICK a \in {"start"} : TgGo(p, a) /\ a \in TgPlaces
    BY <1>16, TgPlacesAre DEF TgPersistLimit
  <2>2. TgInOrder /\ TgAlone'
    BY <2>1, TgGoAlone
  <2>3. /\ \A q \in TgProcs : q # p => tgAt'[q] = tgAt[q] /\ tgWait'[q] = tgWait[q]
        /\ \A q \in TgProcs : q # p => tgAt[q] \notin TgSteps \/ a \notin TgSteps
        /\ tgAt'[p] = a
    BY <1>16, <2>1, TgGoAlone DEF TgPersistLimit, TgInv, TgTypeOK
  <2>4. TgPaced'
    BY <1>16, <2>1, <2>2, <2>3 DEF TgPersistLimit, TgFiles, TgInOrder, TgPaced, TgSteps
  <2>5. ASSUME NEW q \in TgProcs PROVE TgLocked(q)'
    BY <1>16, <1>t, <2>1, <2>2, <2>3 DEF TgPersistLimit, TgFiles, TgInOrder, TgPaced, TgLocked, TgSteps
  <2> QED
    BY <2>2, <2>4, <2>5 DEF TgInOrder
<1>17. ASSUME NEW p \in TgProcs, TgCrash(p) PROVE TgInOrder'
  <2>1. PICK a \in {"start", "dead"} : TgGo(p, a) /\ a \in TgPlaces
    BY <1>17, TgPlacesAre DEF TgCrash
  <2>2. TgInOrder /\ TgAlone'
    BY <2>1, TgGoAlone
  <2>3. /\ \A q \in TgProcs : q # p => tgAt'[q] = tgAt[q] /\ tgWait'[q] = tgWait[q]
        /\ \A q \in TgProcs : q # p => tgAt[q] \notin TgSteps \/ a \notin TgSteps
        /\ tgAt'[p] = a
    BY <1>17, <2>1, TgGoAlone DEF TgCrash, TgInv, TgTypeOK
  <2>4. TgPaced'
    BY <1>17, <2>1, <2>2, <2>3 DEF TgCrash, TgFiles, TgInOrder, TgPaced, TgSteps
  <2>5. ASSUME NEW q \in TgProcs PROVE TgLocked(q)'
    BY <1>17, <1>t, <2>1, <2>2, <2>3 DEF TgCrash, TgFiles, TgInOrder, TgPaced, TgLocked, TgSteps
  <2> QED
    BY <2>2, <2>4, <2>5 DEF TgInOrder
<1> QED
  BY <1>1, <1>2, <1>3, <1>4, <1>5, <1>6, <1>7, <1>8, <1>9, <1>10, <1>11, <1>12, <1>13, <1>14, <1>15, <1>16, <1>17 DEF TgNext, TgStep

LEMMA TgInvariant == TgInit /\ [][TgNext]_TgVars => []TgInv
<1>1. TgInv /\ [TgNext]_TgVars => TgInv'
  BY TgTypesStep, TgInOrderStep DEF TgInv
<1> QED
  BY TgInitInv, <1>1, PTL

LEMMA TgInvKeepsBudget == TgInv => TgOneBudget
<1> SUFFICES ASSUME TgInv, ~tgRaced
             PROVE  Cardinality({p \in TgProcs : tgAt[p] = "running"}) <= 1
  BY DEF TgInv, TgInOrder, TgPaced, TgOneBudget
<1> DEFINE S == {p \in TgProcs : tgAt[p] = "running"}
<1>1. S \subseteq {tgLock.by}
  BY DEF TgInv, TgInOrder, TgLocked
<1>2. IsFiniteSet({tgLock.by}) /\ Cardinality({tgLock.by}) = 1
  BY FS_Singleton
<1>3. Cardinality(S) <= Cardinality({tgLock.by})
  BY <1>1, <1>2, FS_Subset
<1> QED
  BY <1>2, <1>3

(* The gate's files, clocks and processes are as described.                *)
THEOREM TgTypes == TgSpec => []TgTypeOK
<1>1. TgInv => TgTypeOK
  BY DEF TgInv
<1> QED
  BY <1>1, TgInvariant, PTL DEF TgSpec

(* One host-wide budget (openQuickTunnel), for any number of processes and *)
(* any interval, lease and start timeout of which one covers the start.    *)
THEOREM TgOne == TgSpec => []TgOneBudget
BY TgInvariant, TgInvKeepsBudget, PTL DEF TgSpec

-----------------------------------------------------------------------------
(* TunnelWatch.                                                            *)

(* A child whose exit is dealt with is gone for good, and every recovery   *)
(* that opens a tunnel starts a child of its own.                          *)
TwOneEach ==
  /\ \A i \in TwChildren : twRec[i] # "none" => twChild[i] = "gone"
  /\ \A r \in TwChildren : twRec[r] = "opening" =>
       /\ twCand[r] \in TwChildren /\ twChild[twCand[r]] = "starting"
       /\ \A q \in TwChildren : twRec[q] = "opening" /\ twCand[q] = twCand[r] => q = r

(* The current child is announced or not long to live, unless some         *)
(* verification has yet to say which.                                      *)
TwSettled ==
  \/ \E r \in TwChildren : twRec[r] = "verifying"
  \/ twUrl = twCur \/ twCur \in twKilled \/ ~TwRuns(twCur)

TwInv == TwTypeOK /\ (twExited \/ (TwOneEach /\ TwSettled))

TwRecs == {"none", "opening", "verifying", "waiting", "done"}
TwStates == {"none", "starting", "up", "dark", "gone"}

LEMMA TwChildrenAre == TwChildren \subseteq Nat \ {0} /\ 1 \in TwChildren
BY TwAssumption DEF TwChildren

LEMMA TwShutDoes ==
  ASSUME TwTypeOK, TwShut
  PROVE  twClosed' \in BOOLEAN /\ twKilled' \subseteq TwChildren /\ twKilled \subseteq twKilled'
BY DEF TwTypeOK, TwShut, TwKillCur

(* handleDead and the loop of recover: what becomes of recovery r.         *)
LEMMA TwDeadDoes ==
  ASSUME TwTypeOK, NEW r \in TwChildren, TwDead(r)
  PROVE  /\ twClosed' \in BOOLEAN /\ twExited' \in BOOLEAN /\ (twExited => twExited')
         /\ twKilled' \subseteq TwChildren /\ twKilled \subseteq twKilled'
         /\ twState' = "dead"
         /\ twRec' \in [TwChildren -> TwRecs]
         /\ twRec'[r] \in {"waiting", "done"}
         /\ \A q \in TwChildren : q # r => twRec'[q] = twRec[q]
<1>1. /\ twClosed' \in BOOLEAN /\ twExited' \in BOOLEAN /\ (twExited => twExited')
      /\ twKilled' \subseteq TwChildren /\ twKilled \subseteq twKilled'
  <2>1. CASE twSetup.policy # "exit"
    BY <2>1 DEF TwDead, TwTypeOK
  <2>2. CASE twSetup.policy = "exit"
    BY <2>2, TwShutDoes DEF TwDead
  <2> QED
    BY <2>1, <2>2
<1>2. /\ twState' = "dead"
      /\ twRec' \in [TwChildren -> TwRecs]
      /\ twRec'[r] \in {"waiting", "done"}
      /\ \A q \in TwChildren : q # r => twRec'[q] = twRec[q]
  BY DEF TwDead, TwTypeOK, TwRecs
<1> QED
  BY <1>1, <1>2

LEMMA TwLoopDoes ==
  ASSUME TwTypeOK, NEW r \in TwChildren, NEW tries \in Nat, TwLoop(r, tries)
  PROVE  /\ twTries' \in Nat
         /\ twClosed' \in BOOLEAN /\ twExited' \in BOOLEAN /\ (twExited => twExited')
         /\ twKilled' \subseteq TwChildren /\ twKilled \subseteq twKilled'
         /\ twRec' \in [TwChildren -> TwRecs]
         /\ twCand' \in [TwChildren -> TwChildren \cup {0}]
         /\ twRec'[r] \in {"opening", "waiting", "done"}
         /\ \A q \in TwChildren : q # r => twRec'[q] = twRec[q] /\ twCand'[q] = twCand[q]
         /\ IF twRec'[r] = "opening"
            THEN twCand'[r] \in TwUnused /\ ~twClosed
            ELSE UNCHANGED twCand /\ (twClosed \/ twState' = "dead")
<1>1. CASE twClosed /\ twRec' = [twRec EXCEPT ![r] = "done"] /\ twTries' = tries
             /\ UNCHANGED <<twCand, twClosed, twExited, twKilled>>
  BY <1>1 DEF TwTypeOK, TwRecs
<1>2. CASE ~twClosed /\ twTries' = tries + 1 /\ TwDead(r) /\ UNCHANGED twCand
  <2>1. twCand' \in [TwChildren -> TwChildren \cup {0}]
    BY <1>2 DEF TwTypeOK
  <2>2. twRec'[r] # "opening"
    BY <1>2, TwDeadDoes
  <2> QED
    BY <1>2, <2>1, <2>2, TwDeadDoes
<1>3. CASE /\ ~twClosed /\ twTries' = tries + 1
           /\ twRec' = [twRec EXCEPT ![r] = "opening"]
           /\ \E c \in TwUnused : twCand' = [twCand EXCEPT ![r] = c]
           /\ UNCHANGED <<twClosed, twExited, twKilled>>
  BY <1>3 DEF TwTypeOK, TwRecs, TwUnused
<1> QED
  BY <1>1, <1>2, <1>3 DEF TwLoop

LEMMA TwInitInv == TwInit => TwInv
<1> SUFFICES ASSUME TwInit PROVE TwInv
  OBVIOUS
<1> USE TwChildrenAre, TwAssumption DEF TwInit
<1>1. 0 \in 0 .. TwMaxFails - 1 /\ TwFaults \in 0 .. TwFaults
  OBVIOUS
<1>2. TwTypeOK
  BY <1>1 DEF TwTypeOK
<1>3. TwOneEach /\ TwSettled
  BY DEF TwOneEach, TwSettled
<1> QED
  BY <1>2, <1>3 DEF TwInv

LEMMA TwTypesStep == TwInv /\ [TwNext]_TwVars => TwTypeOK'
<1> SUFFICES ASSUME TwInv, TwTypeOK, [TwNext]_TwVars PROVE TwTypeOK'
  BY DEF TwInv
<1> USE TwAssumption, TwChildrenAre
<1>1. CASE UNCHANGED TwVars
  BY <1>1 DEF TwVars, TwTypeOK
<1>2. ASSUME UNCHANGED twSetup, TwProbeStarts PROVE TwTypeOK'
  BY <1>2 DEF TwProbeStarts, TwTypeOK
<1>3. ASSUME UNCHANGED twSetup, TwProbeEnds PROVE TwTypeOK'
  <2>1. /\ twFails' \in 0 .. TwMaxFails - 1 /\ twTries' \in Nat
        /\ twState' \in {"ready", "twilight", "recovering", "dead"}
    BY <1>3 DEF TwProbeEnds, TwProbeGood, TwProbeBad, TwTypeOK
  <2>2. twKilled' \subseteq TwChildren
    BY <1>3 DEF TwProbeEnds, TwProbeGood, TwProbeBad, TwKillCur, TwTypeOK
  <2> QED
    BY <1>3, <2>1, <2>2 DEF TwProbeEnds, TwTypeOK
<1>4. ASSUME UNCHANGED twSetup, TwExit \/ TwClose PROVE TwTypeOK'
  BY <1>4, TwShutDoes DEF TwExit, TwClose, TwTypeOK
<1>5. ASSUME NEW i \in TwChildren, UNCHANGED twSetup, TwChildExits(i) PROVE TwTypeOK'
  <2>1. twLeft' \in 0 .. TwFaults
    BY <1>5 DEF TwChildExits, TwFault, TwTypeOK
  <2>2. CASE twClosed \/ twExited
    BY <1>5, <2>1, <2>2 DEF TwChildExits, TwTypeOK
  <2>3. CASE ~(twClosed \/ twExited)
    <3>1. TwLoop(i, twTries) /\ twTries \in Nat
      BY <1>5, <2>3 DEF TwChildExits, TwTypeOK
    <3>2. twState' \in {"ready", "twilight", "recovering", "dead"}
      BY <1>5, <2>3 DEF TwChildExits
    <3>3. twChild' \in [TwChildren -> {"none", "starting", "up", "dark", "gone"}]
      BY <1>5, <2>3 DEF TwChildExits, TwTypeOK
    <3> QED
      BY <1>5, <2>1, <3>1, <3>2, <3>3, TwLoopDoes DEF TwChildExits, TwTypeOK, TwRecs
  <2> QED
    BY <2>2, <2>3
<1>6. ASSUME NEW r \in TwChildren, UNCHANGED twSetup, TwOpens(r) PROVE TwTypeOK'
  <2>1. twLeft' \in 0 .. TwFaults
    BY <1>6 DEF TwOpens, TwFault, TwTypeOK
  <2>2. twCand[r] \in TwChildren
    BY <1>6 DEF TwOpens, TwInv, TwOneEach
  <2>3. twChild' \in [TwChildren -> {"none", "starting", "up", "dark", "gone"}]
    BY <1>6 DEF TwOpens, TwTypeOK
  <2> QED
    BY <1>6, <2>1, <2>2, <2>3 DEF TwOpens, TwTypeOK
<1>7. ASSUME NEW r \in TwChildren, UNCHANGED twSetup, TwOpenFails(r) PROVE TwTypeOK'
  <2>1. twLeft' \in 0 .. TwFaults /\ TwDead(r)
    BY <1>7 DEF TwOpenFails, TwFault, TwTypeOK
  <2> QED
    BY <1>7, <2>1, TwDeadDoes DEF TwOpenFails, TwTypeOK, TwRecs
<1>8. ASSUME NEW r \in TwChildren, UNCHANGED twSetup, TwVerified(r) \/ TwUnverified(r)
      PROVE  TwTypeOK'
  <2>1. CASE TwVerified(r)
    BY <1>8, <2>1 DEF TwVerified, TwTypeOK
  <2>2. CASE TwUnverified(r)
    BY <1>8, <2>2 DEF TwUnverified, TwKillCur, TwTypeOK
  <2> QED
    BY <1>8, <2>1, <2>2
<1>9. ASSUME NEW r \in TwChildren, UNCHANGED twSetup, TwRetry(r) PROVE TwTypeOK'
  <2>1. TwLoop(r, 0) /\ 0 \in Nat
    BY <1>9 DEF TwRetry
  <2>2. /\ twFails' \in 0 .. TwMaxFails - 1
        /\ twState' \in {"ready", "twilight", "recovering", "dead"}
        /\ twChild' \in [TwChildren -> {"none", "starting", "up", "dark", "gone"}]
    BY <1>9 DEF TwRetry, TwTypeOK
  <2> QED
    BY <1>9, <2>1, <2>2, TwLoopDoes DEF TwRetry, TwTypeOK, TwRecs
<1>10. ASSUME NEW i \in TwChildren, UNCHANGED twSetup, TwEdgeDrops(i) \/ TwOrphanStarts(i)
       PROVE  TwTypeOK'
  <2>1. CASE TwEdgeDrops(i)
    BY <1>10, <2>1 DEF TwEdgeDrops, TwFault, TwTypeOK
  <2>2. CASE TwOrphanStarts(i)
    BY <1>10, <2>2 DEF TwOrphanStarts, TwTypeOK
  <2> QED
    BY <1>10, <2>1, <2>2
<1> QED
  BY <1>1, <1>2, <1>3, <1>4, <1>5, <1>6, <1>7, <1>8, <1>9, <1>10
     DEF TwNext, TwDo, TwMoves, TwSettles

(* A step that leaves the current child, its announcement and the          *)
(* verifications alone, and gives no child life, keeps both.               *)
LEMMA TwOrderStep ==
  TwInv /\ [TwNext]_TwVars => twExited' \/ (TwOneEach' /\ TwSettled')
<1> SUFFICES ASSUME TwTypeOK, TwOneEach, TwSettled, ~twExited, [TwNext]_TwVars, ~twExited'
             PROVE  TwOneEach' /\ TwSettled'
  <2> SUFFICES ASSUME TwInv, [TwNext]_TwVars, twExited PROVE twExited'
    BY DEF TwInv
  <2> QED
    BY TwDeadDoes, TwLoopDoes
       DEF TwNext, TwDo, TwMoves, TwSettles, TwInv, TwVars, TwProbeStarts, TwProbeEnds, TwExit,
           TwClose, TwChildExits, TwOpens, TwOpenFails, TwVerified, TwUnverified, TwRetry,
           TwEdgeDrops, TwOrphanStarts
<1>t. /\ twChild \in [TwChildren -> TwStates] /\ twRec \in [TwChildren -> TwRecs]
      /\ twCur \in TwChildren /\ twCand \in [TwChildren -> TwChildren \cup {0}]
      /\ twKilled \subseteq TwChildren
  BY DEF TwTypeOK, TwStates, TwRecs
<1>1. CASE UNCHANGED TwVars
  BY <1>1 DEF TwVars, TwOneEach, TwSettled, TwRuns
<1>2. ASSUME TwProbeStarts \/ TwProbeEnds PROVE TwOneEach' /\ TwSettled'
  <2>1. UNCHANGED <<twChild, twCur, twRec, twCand, twUrl>> /\ twKilled \subseteq twKilled'
    BY <1>2 DEF TwProbeStarts, TwProbeEnds, TwProbeGood, TwProbeBad, TwKillCur
  <2> QED
    BY <2>1 DEF TwOneEach, TwSettled, TwRuns
<1>3. ASSUME TwExit \/ TwClose PROVE TwOneEach' /\ TwSettled'
  <2>1. UNCHANGED <<twChild, twCur, twRec, twCand, twUrl>> /\ twKilled \subseteq twKilled'
    BY <1>3, TwShutDoes DEF TwExit, TwClose
  <2> QED
    BY <2>1 DEF TwOneEach, TwSettled, TwRuns
<1>4. ASSUME NEW i \in TwChildren, TwChildExits(i) PROVE TwOneEach' /\ TwSettled'
  <2>0. /\ twChild[i] \in {"up", "dark"} /\ UNCHANGED <<twCur, twUrl>>
        /\ twRec[i] = "none"
    BY <1>4 DEF TwChildExits, TwRuns, TwOneEach
  <2>1. CASE twClosed
    <3>1. /\ twChild' = [twChild EXCEPT ![i] = "gone"]
          /\ UNCHANGED <<twRec, twCand, twKilled>>
      BY <1>4, <2>1 DEF TwChildExits
    <3> QED
      BY <1>t, <2>0, <3>1 DEF TwOneEach, TwSettled, TwRuns
  <2>2. CASE ~twClosed /\ twRec'[i] = "opening"
    <3>1. /\ TwLoop(i, twTries) /\ twTries \in Nat
          /\ twChild' = [twChild EXCEPT ![i] = "gone", ![twCand'[i]] = "starting"]
      BY <1>4, <2>2 DEF TwChildExits, TwTypeOK
    <3>2. /\ twCand'[i] \in TwChildren /\ twChild[twCand'[i]] = "none"
          /\ twRec' \in [TwChildren -> TwRecs]
          /\ \A q \in TwChildren : q # i => twRec'[q] = twRec[q] /\ twCand'[q] = twCand[q]
          /\ twKilled \subseteq twKilled'
      BY <2>2, <3>1, TwLoopDoes DEF TwUnused
    <3>3. \A q \in TwChildren : twChild'[q] =
            IF q = twCand'[i] THEN "starting" ELSE IF q = i THEN "gone" ELSE twChild[q]
      BY <1>t, <3>1, <3>2
    <3>4. TwOneEach'
      BY <1>t, <2>0, <2>2, <3>2, <3>3 DEF TwOneEach
    <3>5. TwSettled'
      BY <1>t, <2>0, <3>2, <3>3 DEF TwSettled, TwRuns
    <3> QED
      BY <3>4, <3>5
  <2>3. CASE ~twClosed /\ twRec'[i] # "opening"
    <3>1. /\ TwLoop(i, twTries) /\ twTries \in Nat
          /\ twChild' = [twChild EXCEPT ![i] = "gone"]
      BY <1>4, <2>3 DEF TwChildExits, TwTypeOK
    <3>2. /\ \A q \in TwChildren : q # i => twRec'[q] = twRec[q]
          /\ twCand' = twCand /\ twKilled \subseteq twKilled'
      BY <2>3, <3>1, TwLoopDoes
    <3>4. TwOneEach'
      BY <1>t, <2>0, <2>3, <3>1, <3>2 DEF TwOneEach
    <3>5. TwSettled'
      BY <1>t, <2>0, <3>1, <3>2 DEF TwSettled, TwRuns
    <3> QED
      BY <3>4, <3>5
  <2> QED
    BY <2>1, <2>2, <2>3
<1>5. ASSUME NEW r \in TwChildren, TwOpens(r) PROVE TwOneEach' /\ TwSettled'
  <2>1. PICK s \in {"up", "dark"} : twChild' = [twChild EXCEPT ![twCand[r]] = s]
    BY <1>5 DEF TwOpens
  <2>2. /\ twRec[r] = "opening" /\ twRec' = [twRec EXCEPT ![r] = "verifying"]
        /\ twCand' = twCand /\ twCand[r] \in TwChildren /\ twChild[twCand[r]] = "starting"
    BY <1>5 DEF TwOpens, TwOneEach
  <2>3. TwOneEach'
    BY <1>t, <2>1, <2>2 DEF TwOneEach
  <2>4. TwSettled'
    BY <1>t, <2>2 DEF TwSettled
  <2> QED
    BY <2>3, <2>4
<1>6. ASSUME NEW r \in TwChildren, TwOpenFails(r) PROVE TwOneEach' /\ TwSettled'
  <2>1. /\ twRec[r] = "opening" /\ TwDead(r) /\ UNCHANGED <<twCur, twCand, twUrl>>
        /\ twChild' = [twChild EXCEPT ![twCand[r]] = "gone"]
        /\ twCand[r] \in TwChildren /\ twChild[twCand[r]] = "starting" /\ twChild[r] = "gone"
    BY <1>6 DEF TwOpenFails, TwOneEach
  <2>2. /\ twRec'[r] \in {"waiting", "done"} /\ twKilled \subseteq twKilled'
        /\ \A q \in TwChildren : q # r => twRec'[q] = twRec[q]
    BY <2>1, TwDeadDoes
  <2>3. TwOneEach'
    BY <1>t, <2>1, <2>2 DEF TwOneEach
  <2>4. TwSettled'
    BY <1>t, <2>1, <2>2 DEF TwSettled, TwRuns
  <2> QED
    BY <2>3, <2>4
<1>7. ASSUME NEW r \in TwChildren, TwVerified(r) PROVE TwOneEach' /\ TwSettled'
  BY <1>7, <1>t DEF TwVerified, TwOneEach, TwSettled
<1>8. ASSUME NEW r \in TwChildren, TwUnverified(r) PROVE TwOneEach' /\ TwSettled'
  BY <1>8, <1>t DEF TwUnverified, TwKillCur, TwOneEach, TwSettled, TwRuns
<1>9. ASSUME NEW r \in TwChildren, TwRetry(r) PROVE TwOneEach' /\ TwSettled'
  <2>0. TwLoop(r, 0) /\ 0 \in Nat /\ twRec[r] = "waiting" /\ UNCHANGED <<twCur, twUrl>>
          /\ twChild[r] = "gone"
    BY <1>9 DEF TwRetry, TwOneEach
  <2>1. /\ \A q \in TwChildren : q # r => twRec'[q] = twRec[q] /\ twCand'[q] = twCand[q]
        /\ twKilled \subseteq twKilled' /\ twRec'[r] \in {"opening", "waiting", "done"}
        /\ twRec'[r] = "opening" => twCand'[r] \in TwChildren /\ twChild[twCand'[r]] = "none"
        /\ twRec'[r] # "opening" => twCand' = twCand
    BY <2>0, TwLoopDoes DEF TwUnused
  <2>2. CASE twRec'[r] = "opening"
    <3>1. twChild' = [twChild EXCEPT ![twCand'[r]] = "starting"]
      BY <1>9, <2>0, <2>2, TwLoopDoes DEF TwRetry
    <3>2. TwOneEach'
      BY <1>t, <2>0, <2>1, <2>2, <3>1 DEF TwOneEach
    <3>3. TwSettled'
      BY <1>t, <2>0, <2>1, <2>2, <3>1 DEF TwSettled, TwRuns
    <3> QED
      BY <3>2, <3>3
  <2>3. CASE twRec'[r] # "opening"
    <3>1. UNCHANGED twChild
      BY <1>9, <2>0, <2>3, TwLoopDoes DEF TwRetry
    <3> QED
      BY <1>t, <2>0, <2>1, <2>3, <3>1 DEF TwOneEach, TwSettled, TwRuns
  <2> QED
    BY <2>2, <2>3
<1>10. ASSUME NEW i \in TwChildren, TwEdgeDrops(i) \/ TwOrphanStarts(i)
       PROVE  TwOneEach' /\ TwSettled'
  BY <1>10, <1>t DEF TwEdgeDrops, TwOrphanStarts, TwOneEach, TwSettled, TwRuns
<1> QED
  BY <1>1, <1>2, <1>3, <1>4, <1>5, <1>6, <1>7, <1>8, <1>9, <1>10
     DEF TwNext, TwDo, TwMoves, TwSettles

LEMMA TwInvariant == TwInit /\ [][TwNext]_TwVars => []TwInv
<1>1. TwInv /\ [TwNext]_TwVars => TwInv'
  BY TwTypesStep, TwOrderStep DEF TwInv
<1> QED
  BY TwInitInv, <1>1, PTL

LEMMA TwInvAnnounces == TwInv => TwAnnounced
BY DEF TwInv, TwTypeOK, TwSettled, TwAnnounced, TwQuiet, TwRuns

(* The watchdog's children, recoveries and probes are as described.        *)
THEOREM TwTypes == TwSpec => []TwTypeOK
<1>1. TwInv => TwTypeOK
  BY DEF TwInv
<1> QED
  BY <1>1, TwInvariant, PTL DEF TwSpec

(* The URL a node has announced is that of the tunnel that serves it       *)
(* (openQuickTunnel, recover), for any number of respawns and faults.      *)
THEOREM TwAnnounces == TwSpec => []TwAnnounced
BY TwInvariant, TwInvAnnounces, PTL DEF TwSpec

-----------------------------------------------------------------------------
(* PinholeLease.                                                           *)

(* A held pinhole has a renewal to come, by its timer or under way, and    *)
(* as long as no call was missed it is on the advertised address and runs  *)
(* for longer than until then.                                             *)
PhRenewsInTime ==
  /\ phHeld => phStage = "up"
  /\ phStage = "opening" => phTimer = PhIdle /\ phRenew = PhIdle
  /\ phDelete # PhIdle => phStage = "revoking"
  /\ phHeld /\ phMissed = 0 =>
       /\ phHole.on = phEndpoint
       /\ \/ phTimer >= 0 /\ phRenew = PhIdle /\ phHole.left > phTimer + PhProbe
          \/ phTimer = PhIdle /\ phRenew >= 0 /\ phHole.left > phRenew

PhInv == PhTypeOK /\ PhRenewsInTime

LEMMA PhInitInv == PhInit => PhInv
<1> SUFFICES ASSUME PhInit PROVE PhInv
  OBVIOUS
<1>1. PICK i \in 1 .. Len(PhAddresses) :
        /\ phEndpoint = PhAddresses[i]
        /\ phTry = <<phEndpoint>> \o SubSeq(PhAddresses, 1, i - 1)
                                 \o SubSeq(PhAddresses, i + 1, Len(PhAddresses))
  BY DEF PhInit
<1>2. /\ PhAddresses \in Seq(PhAll) /\ phEndpoint \in PhAll
      /\ SubSeq(PhAddresses, 1, i - 1) \in Seq(PhAll)
      /\ SubSeq(PhAddresses, i + 1, Len(PhAddresses)) \in Seq(PhAll)
  BY <1>1, PhAssumption DEF PhAll
<1>3. phTry \in Seq(PhAll)
  BY <1>1, <1>2
<1>4. PhTypeOK
  <2>1. PhLease \in Nat /\ PhIdle \in PhSpan(PhLease) /\ PhIdle \in PhSpan(PhProbe)
          /\ 0 \in 0 .. PhMisses
    BY PhAssumption DEF PhLease, PhSpan, PhIdle
  <2>2. phHole \in [on : PhAll \cup {"nothing"}, left : 0 .. PhLease]
    BY <2>1 DEF PhInit, PhClosed
  <2> QED
    BY <1>2, <1>3, <2>1, <2>2 DEF PhInit, PhTypeOK
<1>5. PhRenewsInTime
  BY DEF PhInit, PhRenewsInTime
<1> QED
  BY <1>4, <1>5 DEF PhInv

LEMMA PhTypesStep == PhTypeOK /\ [PhNext]_PhVars => PhTypeOK'
<1> SUFFICES ASSUME PhTypeOK, [PhNext]_PhVars PROVE PhTypeOK'
  OBVIOUS
<1>t. /\ PhLease \in Nat /\ PhHalf \in 0 .. PhLease /\ PhLease > 0 /\ PhProbe \in Nat
      /\ PhIdle \in Int /\ PhSpan(PhLease) = PhIdle .. PhLease /\ PhSpan(PhProbe) = PhIdle .. PhProbe
      /\ PhIdle < 0 /\ PhMisses \in Nat
  BY PhAssumption DEF PhLease, PhSpan, PhIdle
<1> USE <1>t
<1>1. CASE UNCHANGED PhVars
  BY <1>1 DEF PhVars, PhTypeOK
<1>2. phTry # <<>> => Head(phTry) \in PhAll /\ Tail(phTry) \in Seq(PhAll)
  BY DEF PhTypeOK
<1>3. CASE PhOpened
  BY <1>2, <1>3 DEF PhOpened, PhDelay, PhTypeOK
<1>4. CASE PhRefused
  BY <1>2, <1>4 DEF PhRefused, PhTypeOK
<1>5. CASE PhOpenedUnheard
  BY <1>2, <1>5 DEF PhOpenedUnheard, PhMiss, PhTypeOK
<1>6. CASE PhWithout
  BY <1>6 DEF PhWithout, PhTypeOK
<1>7. CASE PhTimerFires
  BY <1>7 DEF PhTimerFires, PhTypeOK
<1>8. CASE PhRenewed
  <2>1. phHole' \in [on : PhAll \cup {"nothing"}, left : 0 .. PhLease]
    BY <1>8 DEF PhRenewed, PhTypeOK
  <2> QED
    BY <1>8, <2>1 DEF PhRenewed, PhMiss, PhDelay, PhTypeOK
<1>9. CASE PhRenewMissed
  BY <1>9 DEF PhRenewMissed, PhMiss, PhDelay, PhTypeOK
<1>10. CASE PhRevoke
  <2>1. phDelete' \in PhSpan(PhProbe) /\ phTimer' \in PhSpan(PhLease)
    BY <1>10 DEF PhRevoke, PhTypeOK
  <2> QED
    BY <1>10, <2>1 DEF PhRevoke, PhTypeOK
<1>11. CASE PhDeleted
  <2>1. PhClosed \in [on : PhAll \cup {"nothing"}, left : 0 .. PhLease]
    BY DEF PhClosed
  <2> QED
    BY <1>11, <2>1 DEF PhDeleted, PhTypeOK
<1>12. CASE PhDeleteMissed
  BY <1>12 DEF PhDeleteMissed, PhMiss, PhTypeOK
<1>13. CASE PhTick
  <2>1. \A n \in Nat : \A m \in PhIdle .. n : PhLess(m) \in PhIdle .. n
    BY DEF PhLess
  <2>2. phHole' \in [on : PhAll \cup {"nothing"}, left : 0 .. PhLease]
    BY <1>13 DEF PhTick, PhClosed, PhTypeOK
  <2> QED
    BY <1>13, <2>1, <2>2 DEF PhTick, PhTypeOK
<1> QED
  BY <1>1, <1>3, <1>4, <1>5, <1>6, <1>7, <1>8, <1>9, <1>10, <1>11, <1>12, <1>13 DEF PhNext

LEMMA PhRenewsStep == PhInv /\ [PhNext]_PhVars => PhRenewsInTime'
<1> SUFFICES ASSUME PhInv, [PhNext]_PhVars PROVE PhRenewsInTime'
  OBVIOUS
<1>t. /\ PhHalf \in Nat /\ PhProbe \in Nat /\ 0 < PhProbe /\ PhProbe < PhHalf
      /\ PhLease = 2 * PhHalf /\ PhIdle = -1
      /\ phTimer \in Int /\ phRenew \in Int /\ phDelete \in Int
      /\ phTimer >= -1 /\ phRenew >= -1 /\ phDelete >= -1
      /\ phHole \in [on : PhAll \cup {"nothing"}, left : 0 .. PhLease]
      /\ phHole.left \in Nat /\ phMissed \in Nat /\ phHeld \in BOOLEAN
  BY PhAssumption DEF PhInv, PhTypeOK, PhLease, PhIdle, PhSpan
<1>i. PhRenewsInTime
  BY DEF PhInv
<1> USE <1>t, <1>i DEF PhRenewsInTime
<1>1. CASE UNCHANGED PhVars
  BY <1>1 DEF PhVars
<1>2. CASE PhOpened
  BY <1>2 DEF PhOpened, PhDelay
<1>3. CASE PhRefused
  BY <1>3 DEF PhRefused
<1>4. CASE PhOpenedUnheard
  BY <1>4 DEF PhOpenedUnheard, PhMiss
<1>5. CASE PhWithout
  BY <1>5 DEF PhWithout
<1>6. CASE PhTimerFires
  BY <1>6 DEF PhTimerFires
<1>7. CASE PhRenewed
  <2>1. phHeld /\ phMissed' = 0 => phHole' = [phHole EXCEPT !.left = PhLease] /\ phMissed = 0
    BY <1>7 DEF PhRenewed, PhMiss
  <2>2. phHeld /\ phMissed' = 0 => phHole'.on = phHole.on /\ phHole'.left = PhLease
    BY <2>1
  <2> QED
    BY <1>7, <2>1, <2>2 DEF PhRenewed, PhDelay
<1>8. CASE PhRenewMissed
  BY <1>8 DEF PhRenewMissed, PhMiss, PhDelay
<1>9. CASE PhRevoke
  BY <1>9 DEF PhRevoke
<1>10. CASE PhDeleted
  BY <1>10 DEF PhDeleted, PhClosed
<1>11. CASE PhDeleteMissed
  BY <1>11 DEF PhDeleteMissed, PhMiss
<1>12. CASE PhTick
  <2>1. phHole.left > 1 => phHole'.on = phHole.on /\ phHole'.left = phHole.left - 1
    BY <1>12 DEF PhTick
  <2> QED
    BY <1>12, <2>1 DEF PhTick, PhLess
<1> QED
  BY <1>1, <1>2, <1>3, <1>4, <1>5, <1>6, <1>7, <1>8, <1>9, <1>10, <1>11, <1>12 DEF PhNext

LEMMA PhInvariant == PhInit /\ [][PhNext]_PhVars => []PhInv
<1>1. PhInv /\ [PhNext]_PhVars => PhInv'
  BY PhTypesStep, PhRenewsStep DEF PhInv
<1> QED
  BY PhInitInv, <1>1, PTL

LEMMA PhInvOpen == PhInv => PhOpenWhileHeld
<1> SUFFICES ASSUME PhInv, phHeld, phMissed = 0 PROVE PhOpen
  BY DEF PhOpenWhileHeld
<1>1. phTimer \in Int /\ phRenew \in Int /\ phHole.left \in Int /\ PhProbe \in Nat
  BY PhAssumption DEF PhInv, PhTypeOK, PhSpan, PhIdle, PhLease
<1> QED
  BY <1>1 DEF PhInv, PhRenewsInTime, PhOpen

(* The lease's addresses, timers and counters are as described.            *)
THEOREM PhTypes == PhSpec => []PhTypeOK
<1>1. PhInv => PhTypeOK
  BY DEF PhInv
<1> QED
  BY <1>1, PhInvariant, PTL DEF PhSpec

(* A held pinhole is open at the endpoint as long as no renewal failed     *)
(* (openPcpPinhole in nat_detection.ts), for any addresses, half-life and  *)
(* probe period.                                                           *)
THEOREM PhHeldIsOpen == PhSpec => []PhOpenWhileHeld
BY PhInvariant, PhInvOpen, PTL DEF PhSpec

-----------------------------------------------------------------------------
(* RelayWorker.                                                            *)

RwLive == {"connecting", "open"}

(* A connection that is being made or open is the one the loop waits for,  *)
(* and every connection the loop is done with has cost a fault, unless the *)
(* worker was stopped.                                                     *)
RwCurOnly ==
  /\ \A c \in RwConns : rwConn[c] \in RwLive => rwLoop = "session" /\ c = rwCur
  /\ rwLoop = "session" => rwCur + rwLeft <= RwFaults + 1
  /\ rwLoop = "session" /\ rwConn[rwCur] \notin RwLive => rwCur + rwLeft <= RwFaults
  /\ rwLoop = "sleep" => rwStopped \/ rwCur + rwLeft <= RwFaults

RwInv == RwTypeOK /\ RwCurOnly /\ RwNothingInClear

RwLoops == {"session", "sleep", "out"}
RwStates == {"none", "connecting", "open", "ended", "closed", "destroyed"}
RwHands == {"none", "init", "ticket", "rack", "onbind", "loop", "done"}

LEMMA RwInitInv == RwInit => RwInv
<1> SUFFICES ASSUME RwInit PROVE RwInv
  OBVIOUS
<1>1. RwConns \subseteq Nat /\ 1 \in RwConns /\ RwFaults \in Nat /\ 0 \in 0 .. RwSlowest
        /\ RwFaults \in 0 .. RwFaults
  BY RwAssumption DEF RwConns, RwSlowest
<1>2. RwTypeOK
  BY <1>1 DEF RwInit, RwTypeOK
<1>3. RwCurOnly /\ RwNothingInClear
  BY <1>1 DEF RwInit, RwCurOnly, RwNothingInClear, RwNoCall, RwLive
<1> QED
  BY <1>2, <1>3 DEF RwInv

(* The session on c is over: its socket is destroyed, the loop goes on if  *)
(* it was the current one.                                                 *)
RwOver(c) ==
  /\ rwConn' = [rwConn EXCEPT ![c] = "destroyed"]
  /\ \/ /\ rwLoop = "session" /\ c = rwCur
        /\ rwLoop' = IF rwStopped THEN "out" ELSE "sleep"
     \/ /\ ~(rwLoop = "session" /\ c = rwCur)
        /\ rwLoop' = rwLoop
  /\ UNCHANGED <<rwCur, rwStopped>>

(* What a settled promise leaves of the loop.                              *)
LEMMA RwSettleDoes ==
  ASSUME RwTypeOK, NEW c \in RwConns, NEW ok \in BOOLEAN, RwSettle(c, ok)
  PROVE  /\ rwDelay' \in 0 .. RwSlowest /\ rwLoop' \in RwLoops
         /\ rwConn' = [rwConn EXCEPT ![c] = "destroyed"] /\ UNCHANGED <<rwCur, rwStopped>>
              => RwOver(c)
BY DEF RwTypeOK, RwSettle, RwOver, RwSlowest, RwLoops

LEMMA RwSums ==
  \A cur, left, now, all \in Int :
    /\ cur + left <= all + 1 /\ now <= left - 1 => cur + now <= all
    /\ cur + left <= all /\ now <= left => cur + now <= all
    /\ cur + left <= all + 1 /\ now <= left => cur + now <= all + 1
OBVIOUS

(* When a session may end without a fault of its own: the worker was       *)
(* stopped, or the connection is not open any more.                        *)
LEMMA RwOverKeeps ==
  ASSUME RwTypeOK, RwCurOnly, NEW c \in RwConns, RwOver(c),
         \/ rwLeft > 0 /\ rwLeft' = rwLeft - 1
         \/ rwLeft' = rwLeft /\ (rwStopped \/ rwConn[c] \notin RwLive)
  PROVE  RwCurOnly'
<1>1. /\ rwCur \in Nat /\ rwLeft \in Nat /\ rwLeft' \in Nat /\ rwLeft' <= rwLeft /\ RwFaults \in Nat
      /\ rwConn \in [RwConns -> RwStates] /\ rwCur \in RwConns /\ rwLoop \in RwLoops
  BY RwAssumption DEF RwTypeOK, RwConns, RwStates, RwLoops
<1>n. rwCur \in Int /\ rwLeft \in Int /\ rwLeft' \in Int /\ RwFaults \in Int
  BY <1>1
<1>s. rwLeft' <= rwLeft
  BY <1>1
<1>l. rwLeft' <= rwLeft - 1 \/ (rwLeft' <= rwLeft /\ (rwStopped \/ rwConn[c] \notin RwLive))
  <2>1. CASE rwLeft > 0 /\ rwLeft' = rwLeft - 1
    BY <1>1, <2>1
  <2>2. CASE rwLeft' = rwLeft /\ (rwStopped \/ rwConn[c] \notin RwLive)
    BY <1>1, <2>2
  <2> QED
    BY <2>1, <2>2
<1>2. \A d \in RwConns : rwConn'[d] = IF d = c THEN "destroyed" ELSE rwConn[d]
  BY <1>1 DEF RwOver
<1>3. "destroyed" \notin RwLive /\ rwCur' = rwCur /\ rwStopped' = rwStopped
  BY DEF RwLive, RwOver
<1>o. /\ rwLoop = "session" => rwCur + rwLeft <= RwFaults + 1
      /\ rwLoop = "session" /\ rwConn[rwCur] \notin RwLive => rwCur + rwLeft <= RwFaults
      /\ rwLoop = "sleep" => rwStopped \/ rwCur + rwLeft <= RwFaults
  BY DEF RwCurOnly
<1>4. CASE rwLoop = "session" /\ c = rwCur
  <2>1. rwLoop' = (IF rwStopped THEN "out" ELSE "sleep")
    BY <1>4 DEF RwOver
  <2>2. \A d \in RwConns : rwConn'[d] \notin RwLive
    BY <1>2, <1>3, <1>4 DEF RwCurOnly
  <2>3. rwStopped \/ rwCur + rwLeft' <= RwFaults
    <3>1. CASE rwLeft' <= rwLeft - 1
      BY <1>n, <1>o, <1>4, <3>1, RwSums
    <3>2. CASE rwLeft' <= rwLeft /\ rwConn[c] \notin RwLive
      BY <1>n, <1>o, <1>4, <3>2, RwSums
    <3> QED
      BY <1>l, <3>1, <3>2
  <2> QED
    BY <1>3, <2>1, <2>2, <2>3 DEF RwCurOnly
<1>5. CASE ~(rwLoop = "session" /\ c = rwCur)
  <2>1. rwLoop' = rwLoop
    BY <1>5 DEF RwOver
  <2>2. \A d \in RwConns : rwConn'[d] \in RwLive => rwLoop' = "session" /\ d = rwCur'
    BY <1>2, <1>3, <2>1 DEF RwCurOnly
  <2>3. /\ rwLoop = "session" => rwCur + rwLeft' <= RwFaults + 1
        /\ rwLoop = "session" /\ rwConn[rwCur] \notin RwLive => rwCur + rwLeft' <= RwFaults
        /\ rwLoop = "sleep" => rwStopped \/ rwCur + rwLeft' <= RwFaults
    BY <1>n, <1>o, <1>l, <1>s, RwSums
  <2>4. rwLoop = "session" => rwConn'[rwCur] = rwConn[rwCur]
    BY <1>1, <1>2, <1>5
  <2> QED
    BY <1>3, <2>1, <2>2, <2>3, <2>4 DEF RwCurOnly
<1> QED
  BY <1>4, <1>5

(* The head of the session's loop.                                         *)
LEMMA RwReadOnDoes ==
  ASSUME RwTypeOK, RwCurOnly, NEW c \in RwConns, RwReadOn(c), UNCHANGED <<rwCur, rwStopped, rwLeft>>
  PROVE  RwTypeOK' /\ RwCurOnly'
<1>1. CASE RwFinish(c) /\ (rwStopped \/ RwDestroyed(c))
  <2>1. RwOver(c) /\ rwDelay' \in 0 .. RwSlowest /\ rwLoop' \in RwLoops
    BY <1>1, RwSettleDoes DEF RwFinish
  <2>2. RwCurOnly'
    BY <1>1, <2>1, RwOverKeeps DEF RwDestroyed, RwLive
  <2> QED
    BY <1>1, <2>1, <2>2 DEF RwFinish, RwTypeOK, RwLoops
<1>2. CASE /\ rwHand' = [rwHand EXCEPT ![c] = "loop"] /\ RwPark(c)
           /\ UNCHANGED <<rwLoop, rwConn, rwDelay, rwBound>>
  BY <1>2 DEF RwPark, RwTypeOK, RwCurOnly
<1> QED
  BY <1>1, <1>2 DEF RwReadOn

LEMMA RwStepInv == RwInv /\ [RwNext]_RwVars => RwInv'
<1> SUFFICES ASSUME RwTypeOK, RwCurOnly, RwNothingInClear, [RwNext]_RwVars
             PROVE  RwTypeOK' /\ RwCurOnly' /\ RwNothingInClear'
  BY DEF RwInv
<1>t. /\ rwCur \in Nat /\ rwLeft \in Nat /\ RwFaults \in Nat /\ rwCur \in RwConns
      /\ RwConns = 1 .. RwFaults + 1
      /\ rwConn \in [RwConns -> RwStates] /\ rwLoop \in RwLoops
      /\ rwDelay \in 0 .. RwSlowest
  BY RwAssumption DEF RwTypeOK, RwConns, RwStates, RwLoops
<1>r. UNCHANGED rwCall => RwNothingInClear'
  BY DEF RwNothingInClear
<1>f. RwFault => rwLeft' \in 0 .. RwFaults /\ rwLeft > 0 /\ rwLeft' = rwLeft - 1
  BY <1>t DEF RwFault, RwTypeOK
<1>1. CASE UNCHANGED RwVars
  BY <1>1, <1>r DEF RwVars, RwTypeOK, RwCurOnly
<1>2. CASE RwWake
  <2>1. rwDelay' \in 0 .. RwSlowest
    BY <1>2 DEF RwWake, RwTypeOK, RwSlowest
  <2>2. CASE rwStopped
    BY <1>2, <1>t, <1>r, <2>1, <2>2 DEF RwWake, RwTypeOK, RwCurOnly
  <2>3. CASE ~rwStopped
    <3>1. /\ rwCur + rwLeft <= RwFaults /\ rwCur' = rwCur + 1 /\ rwCur' \in RwConns
          /\ rwLoop' = "session" /\ rwLeft' = rwLeft
          /\ rwConn' = [rwConn EXCEPT ![rwCur'] = "connecting"]
      BY <1>2, <1>t, <2>3 DEF RwWake, RwCurOnly
    <3>2. RwTypeOK'
      BY <1>2, <2>1, <3>1 DEF RwWake, RwTypeOK
    <3>3. RwCurOnly'
      BY <1>2, <1>t, <3>1 DEF RwWake, RwCurOnly, RwLive
    <3> QED
      BY <1>2, <1>r, <3>2, <3>3 DEF RwWake
  <2> QED
    BY <2>2, <2>3
<1>3. CASE RwStop
  BY <1>3, <1>r DEF RwStop, RwTypeOK, RwCurOnly
<1>4. CASE RwCallEnds
  <2>1. RwNothingInClear'
    BY <1>4 DEF RwCallEnds, RwNothingInClear, RwReply
  <2> QED
    BY <1>4, <2>1 DEF RwCallEnds, RwTypeOK, RwCurOnly
<1>5. ASSUME NEW c \in RwConns, RwConnect(c) PROVE RwTypeOK' /\ RwCurOnly' /\ RwNothingInClear'
  <2>1. RwTypeOK'
    BY <1>5 DEF RwConnect, RwTypeOK
  <2>2. RwCurOnly'
    BY <1>5, <1>t DEF RwConnect, RwCurOnly, RwLive
  <2> QED
    BY <1>5, <1>r, <2>1, <2>2 DEF RwConnect
<1>6. ASSUME NEW c \in RwConns, RwConnectFails(c) \/ RwReset(c)
      PROVE  RwTypeOK' /\ RwCurOnly' /\ RwNothingInClear'
  <2>1. RwSettle(c, FALSE) /\ FALSE \in BOOLEAN /\ RwFault
    BY <1>6 DEF RwConnectFails, RwReset
  <2>2. RwOver(c) /\ rwDelay' \in 0 .. RwSlowest /\ rwLoop' \in RwLoops
    BY <1>6, <2>1, RwSettleDoes DEF RwConnectFails, RwReset
  <2>3. RwCurOnly'
    BY <1>f, <2>1, <2>2, RwOverKeeps
  <2>4. RwTypeOK'
    BY <1>6, <1>f, <2>1, <2>2 DEF RwConnectFails, RwReset, RwTypeOK, RwLoops
  <2> QED
    BY <1>6, <1>r, <2>3, <2>4 DEF RwConnectFails, RwReset
<1>7. ASSUME NEW c \in RwConns, RwAck(c) \/ RwBindAck(c)
      PROVE  RwTypeOK' /\ RwCurOnly' /\ RwNothingInClear'
  BY <1>7, <1>r DEF RwAck, RwBindAck, RwTypeOK, RwCurOnly
<1>8. ASSUME NEW c \in RwConns, RwTicketSettles(c)
      PROVE  RwTypeOK' /\ RwCurOnly' /\ RwNothingInClear'
  <2>1. CASE RwDestroyed(c) /\ RwThrow(c)
    <3>1. RwOver(c) /\ rwDelay' \in 0 .. RwSlowest /\ rwLoop' \in RwLoops
      BY <1>8, <2>1, RwSettleDoes DEF RwTicketSettles, RwThrow
    <3>2. RwCurOnly'
      BY <1>8, <2>1, <3>1, RwOverKeeps DEF RwTicketSettles, RwDestroyed, RwLive
    <3> QED
      BY <1>8, <1>r, <2>1, <3>1, <3>2 DEF RwTicketSettles, RwThrow, RwTypeOK, RwLoops
  <2>2. CASE /\ rwHand' = [rwHand EXCEPT ![c] = "rack"] /\ RwPark(c)
             /\ UNCHANGED <<rwLoop, rwConn, rwDelay, rwBound>>
    BY <1>8, <1>r, <2>2 DEF RwTicketSettles, RwPark, RwTypeOK, RwCurOnly
  <2> QED
    BY <1>8, <2>1, <2>2 DEF RwTicketSettles
<1>9. ASSUME NEW c \in RwConns, RwRefused(c) PROVE RwTypeOK' /\ RwCurOnly' /\ RwNothingInClear'
  <2>1. RwOver(c) /\ rwDelay' \in 0 .. RwSlowest /\ rwLoop' \in RwLoops
    BY <1>9, RwSettleDoes DEF RwRefused, RwThrow
  <2>2. RwCurOnly'
    BY <1>9, <1>f, <2>1, RwOverKeeps DEF RwRefused
  <2> QED
    BY <1>9, <1>f, <1>r, <2>1, <2>2 DEF RwRefused, RwThrow, RwTypeOK, RwLoops
<1>10. ASSUME NEW c \in RwConns, RwOnBindReturns(c) \/ RwKeepalive(c)
       PROVE  RwTypeOK' /\ RwCurOnly' /\ RwNothingInClear'
  BY <1>10, <1>r, RwReadOnDoes DEF RwOnBindReturns, RwKeepalive
<1>11. ASSUME NEW c \in RwConns, NEW t \in RwTasks, RwCallArrives(c, t)
       PROVE  RwTypeOK' /\ RwCurOnly' /\ RwNothingInClear'
  BY <1>11, RwReadOnDoes DEF RwCallArrives, RwNothingInClear
<1>12. ASSUME NEW c \in RwConns, RwClose(c) PROVE RwTypeOK' /\ RwCurOnly' /\ RwNothingInClear'
  <2>1. RwOver(c) /\ rwDelay' \in 0 .. RwSlowest /\ rwLoop' \in RwLoops
    BY <1>12, RwSettleDoes DEF RwClose, RwFinish
  <2>2. RwCurOnly'
    BY <1>12, <1>f, <2>1, RwOverKeeps DEF RwClose
  <2> QED
    BY <1>12, <1>f, <1>r, <2>1, <2>2 DEF RwClose, RwFinish, RwTypeOK, RwLoops
<1>13. ASSUME NEW c \in RwConns, RwFin(c) PROVE RwTypeOK' /\ RwCurOnly' /\ RwNothingInClear'
  <2>1. RwTypeOK'
    BY <1>13, <1>f DEF RwFin, RwTypeOK
  <2>2. RwCurOnly'
    BY <1>13, <1>t, <1>f DEF RwFin, RwCurOnly, RwLive
  <2> QED
    BY <1>13, <1>r, <2>1, <2>2 DEF RwFin
<1>14. ASSUME NEW c \in RwConns, RwEnded(c) PROVE RwTypeOK' /\ RwCurOnly' /\ RwNothingInClear'
  <2>1. RwTypeOK'
    BY <1>14 DEF RwEnded, RwTypeOK
  <2>2. RwCurOnly'
    BY <1>14, <1>t DEF RwEnded, RwCurOnly, RwLive
  <2> QED
    BY <1>14, <1>r, <2>1, <2>2 DEF RwEnded
<1> QED
  BY <1>1, <1>2, <1>3, <1>4, <1>5, <1>6, <1>7, <1>8, <1>9, <1>10, <1>11, <1>12, <1>13, <1>14
     DEF RwNext, RwRuns

LEMMA RwInvariant == RwInit /\ [][RwNext]_RwVars => []RwInv
BY RwInitInv, RwStepInv, PTL

LEMMA RwInvSafe == RwInv => RwSafe
<1> SUFFICES ASSUME RwInv
             PROVE  Cardinality({c \in RwConns : rwConn[c] \in {"connecting", "open"}}) <= 1
  BY DEF RwInv, RwSafe, RwOneConnection
<1> DEFINE S == {c \in RwConns : rwConn[c] \in {"connecting", "open"}}
<1>1. S \subseteq {rwCur}
  BY DEF RwInv, RwCurOnly, RwLive
<1>2. IsFiniteSet({rwCur}) /\ Cardinality({rwCur}) = 1
  BY FS_Singleton
<1>3. Cardinality(S) <= Cardinality({rwCur})
  BY <1>1, <1>2, FS_Subset
<1> QED
  BY <1>2, <1>3

(* The worker's connections, loops and pauses are as described.            *)
THEOREM RwTypes == RwSpec => []RwTypeOK
<1>1. RwInv => RwTypeOK
  BY DEF RwInv
<1> QED
  BY <1>1, RwInvariant, PTL DEF RwSpec

(* The relay never sees two connections of one worker, and nothing opened  *)
(* is sent in clear (relay_worker_client.ts), for any ends, faults and     *)
(* tasks.                                                                  *)
THEOREM RwSafely == RwSpec => []RwSafe
BY RwInvariant, RwInvSafe, PTL DEF RwSpec

-----------------------------------------------------------------------------
(* PeerGossip.                                                             *)

PgAges == PgUnknown .. PgOld
PgExchanges == [with : SUBSET PgNodes, at : {"idle", "sent", "answered"}, says : SUBSET PgNodes]

LEMMA PgAgesAre ==
  /\ PgUnknown \in PgAges /\ PgOld \in PgAges /\ 0 \in PgAges
  /\ \A age \in PgAges : age \in 0 .. PgExpiry => age + 1 \in PgAges
BY PgAssumption DEF PgAges, PgUnknown, PgOld

(* The tables that are merged, pruned or changed in one entry are tables.  *)
LEMMA PgTables ==
  /\ \A says : \A n \in PgNodes :
       pgTable \in [PgNodes -> [PgNodes -> PgAges]] => PgMerged(n, says) \in [PgNodes -> PgAges]
  /\ \A table \in [PgNodes -> PgAges] : PgPruned(table) \in [PgNodes -> PgAges]
  /\ \A table \in [PgNodes -> PgAges] : \A age \in PgAges : \A m :
       [table EXCEPT ![m] = age] \in [PgNodes -> PgAges]
BY PgAgesAre DEF PgMerged, PgPruned

LEMMA PgIdleIs == PgIdle \in PgExchanges
BY DEF PgIdle, PgExchanges

LEMMA PgTypesInit == PgInit => PgTypeOK
<1> SUFFICES ASSUME PgInit PROVE PgTypeOK
  OBVIOUS
<1>1. PgNobody \in [PgNodes -> PgAges]
  BY PgAgesAre DEF PgNobody
<1>2. 0 \in 0 .. PgDeaths /\ 0 \in 0 .. PgMisses
  BY PgAssumption
<1> QED
  BY <1>1, <1>2, PgIdleIs DEF PgInit, PgTypeOK, PgAges, PgExchanges

PgKinds ==
  /\ pgAlive \subseteq PgNodes /\ pgDue \subseteq PgNodes
  /\ pgTable \in [PgNodes -> [PgNodes -> PgAges]]
  /\ pgExchange \in [PgNodes -> PgExchanges]
  /\ pgDeaths \in 0 .. PgDeaths /\ pgMisses \in 0 .. PgMisses

LEMMA PgTypesStep == PgTypeOK /\ [PgNext]_PgVars => PgTypeOK'
<1> SUFFICES ASSUME PgKinds, [PgNext]_PgVars PROVE PgKinds'
  BY DEF PgTypeOK, PgKinds, PgAges, PgExchanges
<1>t. PgKinds
  OBVIOUS
<1> USE DEF PgKinds
<1>m. PgMiss => pgMisses' \in 0 .. PgMisses
  BY <1>t, PgAssumption DEF PgMiss
<1>1. CASE UNCHANGED PgVars
  BY <1>1, <1>t DEF PgVars
<1>2. CASE PgTick
  BY <1>2, <1>t, PgAgesAre DEF PgTick
<1>3. ASSUME NEW n \in PgNodes, PgBootstrap(n) \/ PgBootstrapFails(n)
      PROVE  PgKinds'
  <2>1. CASE PgBootstrap(n)
    <3>1. PICK named \in SUBSET PgNodes :
            /\ pgTable' = [pgTable EXCEPT ![n] = PgMerged(n, named)]
            /\ pgMisses' = pgMisses \/ PgMiss
      BY <2>1 DEF PgBootstrap
    <3>2. PgMerged(n, named) \in [PgNodes -> PgAges]
      BY <1>t, PgTables
    <3> QED
      BY <2>1, <1>t, <1>m, <3>1, <3>2 DEF PgBootstrap, PgBegins
  <2>2. CASE PgBootstrapFails(n)
    BY <2>2, <1>t, <1>m DEF PgBootstrapFails, PgBegins
  <2> QED
    BY <1>3, <2>1, <2>2
<1>4. ASSUME NEW n \in PgNodes, PgRound(n)
      PROVE  PgKinds'
  <2>1. PICK m \in PgPeers(n) :
          pgExchange' = [pgExchange EXCEPT ![n] =
                           [with |-> {m}, at |-> "sent", says |-> PgPeers(n) \cup {n}]]
    BY <1>4 DEF PgRound
  <2>2. [with |-> {m}, at |-> "sent", says |-> PgPeers(n) \cup {n}] \in PgExchanges
    BY DEF PgExchanges, PgPeers
  <2> QED
    BY <1>4, <1>t, <2>1, <2>2 DEF PgRound, PgBegins
<1>5. ASSUME NEW n \in PgNodes, NEW m \in PgNodes, PgAnswer(n, m)
      PROVE  PgKinds'
  <2> DEFINE known == {k \in PgNodes : pgTable'[m][k] # PgUnknown}
  <2>1. [pgExchange[n] EXCEPT !.at = "answered", !.says = known] \in PgExchanges
    <3>1. pgExchange[n] \in PgExchanges /\ known \in SUBSET PgNodes
      BY <1>t
    <3> HIDE DEF known
    <3> QED
      BY <3>1 DEF PgExchanges
  <2>2. pgExchange' = [pgExchange EXCEPT ![n] =
                         [pgExchange[n] EXCEPT !.at = "answered", !.says = known]]
    BY <1>5 DEF PgAnswer
  <2> HIDE DEF known
  <2> QED
    BY <1>5, <1>t, <2>1, <2>2, PgTables DEF PgAnswer
<1>6. ASSUME NEW n \in PgNodes, NEW table \in [PgNodes -> PgAges], PgEnds(n, table),
             pgMisses' \in 0 .. PgMisses
      PROVE  PgKinds'
  BY <1>6, <1>t, PgTables, PgIdleIs DEF PgEnds
<1>7. ASSUME NEW n \in PgNodes, PgHeard(n)
      PROVE  \E table \in [PgNodes -> PgAges] : PgEnds(n, table) /\ pgMisses' \in 0 .. PgMisses
  <2> DEFINE merged == PgMerged(n, pgExchange[n].says)
             m == PgTarget(n)
  <2>1. merged \in [PgNodes -> PgAges] /\ [merged EXCEPT ![m] = 0] \in [PgNodes -> PgAges]
    BY <1>t, PgTables, PgAgesAre
  <2>2. PgEnds(n, IF merged[m] = PgUnknown THEN merged ELSE [merged EXCEPT ![m] = 0])
    BY <1>7 DEF PgHeard
  <2> HIDE DEF merged, m
  <2> QED
    BY <1>7, <1>t, <2>1, <2>2 DEF PgHeard
<1>8. ASSUME NEW n \in PgNodes, PgRefused(n) \/ PgUnheard(n)
      PROVE  \E table \in [PgNodes -> PgAges] : PgEnds(n, table) /\ pgMisses' \in 0 .. PgMisses
  <2> DEFINE m == PgTarget(n)
  <2>1. pgTable[n] \in [PgNodes -> PgAges] /\ [pgTable[n] EXCEPT ![m] = PgOld] \in [PgNodes -> PgAges]
    BY <1>t, PgTables, PgAgesAre
  <2>2. \/ PgEnds(n, pgTable[n])
        \/ PgEnds(n, IF pgTable[n][m] = PgUnknown THEN pgTable[n]
                     ELSE [pgTable[n] EXCEPT ![m] = PgOld])
    BY <1>8 DEF PgRefused, PgUnheard
  <2> HIDE DEF m
  <2>3. pgMisses' \in 0 .. PgMisses
    BY <1>8, <1>t, <1>m DEF PgRefused, PgUnheard
  <2> QED
    BY <2>1, <2>2, <2>3
<1>9. ASSUME NEW n \in PgNodes, PgDies(n) \/ PgStarts(n)
      PROVE  PgKinds'
  BY <1>9, <1>t, PgAgesAre, PgIdleIs, PgAssumption DEF PgDies, PgStarts, PgNobody
<1> QED
  BY <1>1, <1>2, <1>3, <1>4, <1>5, <1>6, <1>7, <1>8, <1>9 DEF PgNext

LEMMA PgTypesHold == PgInit /\ [][PgNext]_PgVars => []PgTypeOK
BY PgTypesInit, PgTypesStep, PTL

(* The peers' tables and exchanges are as described, for any number of     *)
(* peers.                                                                  *)
THEOREM PgTypes == PgSpec => []PgTypeOK
BY PgTypesHold, PTL DEF PgSpec

-----------------------------------------------------------------------------
(* Registration.                                                           *)

(* An attempt of the start is left while the process starts, and the       *)
(* shutdown registers nothing.                                             *)
RgStarts ==
  /\ phase = "starting" => failedStarts < Attempts
  /\ req["stop"].kind \in {"none", "deregister"}

RgInv == RgTypeOK /\ RgStarts /\ ProofFollows

(* A set of at most m elements and one of at most n make m + n at most.    *)
LEMMA RgUnionBound ==
  ASSUME NEW S, NEW T, NEW m \in Nat, NEW n \in Nat,
         IsFiniteSet(S), Cardinality(S) <= m, IsFiniteSet(T), Cardinality(T) <= n
  PROVE  IsFiniteSet(S \cup T) /\ Cardinality(S \cup T) <= m + n
<1> DEFINE s == Cardinality(S)
           t == Cardinality(T)
           both == Cardinality(S \cap T)
           all == Cardinality(S \cup T)
<1>1. IsFiniteSet(S \cap T)
  BY FS_Intersection
<1>2. IsFiniteSet(S \cup T) /\ all = s + t - both
  BY FS_Union
<1>3. s \in Nat /\ t \in Nat /\ both \in Nat
  BY <1>1, FS_CardinalityType
<1>4. s <= m /\ t <= n
  OBVIOUS
<1> HIDE DEF s, t, both
<1>5. all <= m + n
  BY <1>2, <1>3, <1>4
<1> QED
  BY <1>2, <1>5

LEMMA RgOne == \A x : IsFiniteSet({x}) /\ Cardinality({x}) <= 1
<1> TAKE x
<1>1. IsFiniteSet({x}) /\ Cardinality({x}) = 1
  BY FS_Singleton
<1> DEFINE k == Cardinality({x})
<1>2. k = 1
  BY <1>1
<1> HIDE DEF k
<1>3. k <= 1
  BY <1>2
<1> QED
  BY <1>1, <1>3 DEF k

LEMMA RgCallersFinite == IsFiniteSet(Callers) /\ IsFiniteSet(Ticks)
<1>1. IsFiniteSet(Ticks) /\ Actors \subseteq {"relay"} \cup {"tunnel"}
  BY RegistrationAssumption
<1>2. IsFiniteSet({"relay"} \cup {"tunnel"}) /\ IsFiniteSet({"start"} \cup {"stop"})
  BY RgOne, FS_Union
<1>3. IsFiniteSet(Actors)
  BY <1>1, <1>2, FS_Subset
<1>4. IsFiniteSet(Ticks \cup Actors)
  BY <1>1, <1>3, FS_Union
<1>5. IsFiniteSet((Ticks \cup Actors) \cup ({"start"} \cup {"stop"}))
  BY <1>2, <1>4, FS_Union
<1>6. Callers = (Ticks \cup Actors) \cup ({"start"} \cup {"stop"})
  BY DEF Callers
<1> QED
  BY <1>1, <1>5, <1>6

(* The values of a function are no more than its arguments.                *)
LEMMA RgValues ==
  ASSUME NEW S, IsFiniteSet(S), NEW f, f = [x \in S |-> f[x]]
  PROVE  /\ IsFiniteSet({f[x] : x \in S})
         /\ Cardinality({f[x] : x \in S}) <= Cardinality(S)
<1> DEFINE T == {f[x] : x \in S}
<1>1. f \in Surjection(S, T)
  BY DEF Surjection
<1> QED
  BY <1>1, FS_Surjection

(* The assumption on Tokens leaves one that nobody holds.                  *)
LEMMA RgFreshIs == Fresh \in Tokens /\ Fresh \notin InUse
<1> DEFINE two == {runtimeToken} \cup {loopToken}
           more == {relayToken} \cup {cliToken}
           four == two \cup more
           five == four \cup {dirToken}
           sent == {req[c].token : c \in Callers}
           given == {req[c].granted : c \in Callers}
           kept == {held[t] : t \in Ticks}
           n == Cardinality(Callers)
           m == Cardinality(Ticks)
<1>1. IsFiniteSet(five) /\ Cardinality(five) <= 5
  <2>1. 1 \in Nat /\ 2 \in Nat /\ 4 \in Nat /\ 1 + 1 = 2 /\ 2 + 2 = 4 /\ 4 + 1 = 5
    OBVIOUS
  <2>a. ASSUME NEW x, NEW y PROVE IsFiniteSet({x} \cup {y}) /\ Cardinality({x} \cup {y}) <= 2
    <3>1. /\ IsFiniteSet({x}) /\ Cardinality({x}) <= 1
          /\ IsFiniteSet({y}) /\ Cardinality({y}) <= 1
      BY RgOne
    <3>2. /\ IsFiniteSet({x} \cup {y})
          /\ Cardinality({x} \cup {y}) <= 1 + 1
      <4>1. 1 \in Nat
        OBVIOUS
      <4>2. QED
        BY ONLY <3>1, <4>1, RgUnionBound
    <3>3. QED
      BY ONLY <2>1, <3>2
  <2>2. IsFiniteSet(two) /\ Cardinality(two) <= 2
    BY <2>a
  <2>3. IsFiniteSet(more) /\ Cardinality(more) <= 2
    BY <2>a
  <2> HIDE DEF two, more
  <2>4. IsFiniteSet(four) /\ Cardinality(four) <= 4
    BY <2>1, <2>2, <2>3, RgUnionBound
  <2> HIDE DEF four
  <2> QED
    BY <2>1, <2>4, RgOne, RgUnionBound
<1>2. IsFiniteSet(sent) /\ Cardinality(sent) <= n
  <2> DEFINE f == [d \in Callers |-> req[d].token]
  <2>1. f = [c \in Callers |-> f[c]] /\ sent = {f[c] : c \in Callers}
    OBVIOUS
  <2> HIDE DEF f
  <2>2. IsFiniteSet({f[c] : c \in Callers}) /\ Cardinality({f[c] : c \in Callers}) <= n
    BY <2>1, RgCallersFinite, RgValues
  <2> QED
    BY <2>1, <2>2
<1>3. IsFiniteSet(given) /\ Cardinality(given) <= n
  <2> DEFINE f == [d \in Callers |-> req[d].granted]
  <2>1. f = [c \in Callers |-> f[c]] /\ given = {f[c] : c \in Callers}
    OBVIOUS
  <2> HIDE DEF f
  <2>2. IsFiniteSet({f[c] : c \in Callers}) /\ Cardinality({f[c] : c \in Callers}) <= n
    BY <2>1, RgCallersFinite, RgValues
  <2> QED
    BY <2>1, <2>2
<1>4. IsFiniteSet(kept) /\ Cardinality(kept) <= m
  <2> DEFINE f == [u \in Ticks |-> held[u]]
  <2>1. f = [t \in Ticks |-> f[t]] /\ kept = {f[t] : t \in Ticks}
    OBVIOUS
  <2> HIDE DEF f
  <2>2. IsFiniteSet({f[t] : t \in Ticks}) /\ Cardinality({f[t] : t \in Ticks}) <= m
    BY <2>1, RgCallersFinite, RgValues
  <2> QED
    BY <2>1, <2>2
<1>5. IsFiniteSet(InUse) /\ Cardinality(InUse) <= 5 + 2 * n + m
  <2>1. n \in Nat /\ m \in Nat /\ 5 \in Nat
    BY RgCallersFinite, FS_CardinalityType
  <2>2. InUse = ((five \cup sent) \cup given) \cup kept
    BY DEF InUse
  <2> HIDE DEF five, sent, given, kept, n, m
  <2>3. IsFiniteSet(five \cup sent) /\ Cardinality(five \cup sent) <= 5 + n
    BY <1>1, <1>2, <2>1, RgUnionBound
  <2>4. 5 + n \in Nat /\ 5 + n + n \in Nat /\ 5 + n + n + m = 5 + 2 * n + m
    BY <2>1
  <2>5. /\ IsFiniteSet((five \cup sent) \cup given)
        /\ Cardinality((five \cup sent) \cup given) <= 5 + n + n
    BY <1>3, <2>1, <2>3, <2>4, RgUnionBound
  <2> QED
    BY <1>4, <2>1, <2>2, <2>4, <2>5, RgUnionBound
<1>6. ~ Tokens \subseteq InUse
  <2> SUFFICES ASSUME Tokens \subseteq InUse PROVE FALSE
    OBVIOUS
  <2>1. IsFiniteSet(Tokens) /\ Cardinality(Tokens) <= Cardinality(InUse)
    BY <1>5, FS_Subset
  <2>2. Cardinality(Tokens) > 5 + 2 * n + m
    BY <2>1, RegistrationAssumption
  <2>3. n \in Nat /\ m \in Nat /\ Cardinality(Tokens) \in Nat /\ Cardinality(InUse) \in Nat
    BY <1>5, <2>1, RgCallersFinite, FS_CardinalityType
  <2> HIDE DEF n, m
  <2> QED
    BY <1>5, <2>1, <2>2, <2>3
<1> QED
  BY <1>6 DEF Fresh

RgTokens == Tokens \cup {NoToken}

LEMMA RgCallersAre ==
  /\ Ticks \subseteq Callers /\ "start" \in Callers /\ "stop" \in Callers
  /\ "stop" \notin Ticks
  /\ "relay" \in Actors => "relay" \in Callers
  /\ "tunnel" \in Actors => "tunnel" \in Callers
BY RegistrationAssumption DEF Callers

LEMMA RgAsks ==
  ASSUME RgTypeOK, NEW token \in RgTokens,
         NEW kind \in {"none", "beat", "register", "deregister"}
  PROVE  /\ Ask(kind, token) \in DirectoryRequest
         /\ Ask(kind, token).kind = kind /\ Ask(kind, token).answer = "pending"
         /\ \A e \in 0 .. Budget :
              /\ [Ask(kind, token) EXCEPT !.endpoint = e] \in DirectoryRequest
              /\ [Ask(kind, token) EXCEPT !.endpoint = e].kind = kind
              /\ [Ask(kind, token) EXCEPT !.endpoint = e].answer = "pending"
BY RegistrationAssumption DEF RgTypeOK, Ask, NoRequest, DirectoryRequest, RgTokens

LEMMA RgNoRequestIs ==
  NoRequest \in DirectoryRequest /\ NoRequest.kind = "none" /\ NoRequest.answer = "pending"
BY RegistrationAssumption DEF NoRequest, DirectoryRequest

(* A request is replaced by one that waits for its answer, or by none.     *)
RgOpens(c) ==
  /\ req' \in [Callers -> DirectoryRequest]
  /\ req'[c].answer = "pending"
  /\ \A d \in Callers : d # c => req'[d] = req[d]

LEMMA RgSends ==
  ASSUME RgTypeOK, NEW c \in Callers, NEW token \in RgTokens,
         NEW kind \in {"none", "beat", "register", "deregister"}, Send(c, kind, token)
  PROVE  RgOpens(c) /\ req'[c].kind = kind
BY RgAsks DEF RgTypeOK, Send, RgOpens

LEMMA RgEnds ==
  ASSUME RgTypeOK, NEW c \in Callers, Done(c)
  PROVE  RgOpens(c) /\ req'[c].kind = "none"
BY RgNoRequestIs DEF RgTypeOK, Done, RgOpens

LEMMA RgReplies ==
  ASSUME RgTypeOK, NEW c \in Callers, NEW a \in {"ok", "unknown", "failed"}, Reply(c, a)
  PROVE  /\ req' \in [Callers -> DirectoryRequest]
         /\ \A d \in Callers : d # c => req'[d] = req[d]
         /\ req'[c].kind = req[c].kind /\ req'[c].answer = a
BY DEF RgTypeOK, Reply, DirectoryRequest

(* What becomes of the stash when c's answer is taken up.                  *)
RgStashed(c) ==
  IF Given(c)
  THEN /\ runtimeToken' = req[c].granted
       /\ overtaken' =
            (overtaken \/ (runtimeToken = dirToken /\ req[c].granted # dirToken))
  ELSE UNCHANGED stash

LEMMA RgStashes ==
  ASSUME RgTypeOK, NEW c \in Callers, Stash(c), Given(c) <=> Granted(c)
  PROVE  /\ RgStashed(c) /\ req[c].granted \in RgTokens
         /\ runtimeToken' \in RgTokens /\ overtaken' \in BOOLEAN
BY DEF RgTypeOK, Stash, RgStashed, DirectoryRequest, RgTokens, stash

LEMMA RgNotStashed ==
  ASSUME NEW c \in Callers, ~ Given(c), UNCHANGED stash PROVE RgStashed(c)
BY DEF RgStashed

LEMMA RgSpends ==
  ASSUME RgTypeOK, Spend
  PROVE  budget' \in 0 .. Budget /\ Budget - budget' \in 0 .. Budget
BY RegistrationAssumption DEF RgTypeOK, Spend

(* Whatever c awaited is dealt with, and a token it was granted stashed.   *)
LEMMA RgKeeps ==
  ASSUME ProofFollows, NEW c \in Callers,
         \A d \in Callers : d # c => req'[d] = req[d],
         dirToken' = dirToken, muddled' = muddled, RgStashed(c)
  PROVE  ProofFollows'
<1>1. \A d \in Callers : d # c => (Given(d)' <=> Given(d)) /\ req'[d] = req[d]
  BY DEF Given, Answered, Granted
<1> SUFFICES ASSUME dirToken # NoToken, ~ muddled, ~ overtaken',
                    ~ (runtimeToken' = dirToken)
             PROVE  \E d \in Callers : Given(d)' /\ req'[d].granted = dirToken
  BY DEF ProofFollows
<1>2. ~ overtaken /\ ~ (runtimeToken = dirToken)
  BY DEF RgStashed, stash
<1>3. PICK g \in Callers : Given(g) /\ req[g].granted = dirToken
  BY <1>2 DEF ProofFollows
<1>4. g # c
  BY <1>3 DEF RgStashed
<1> QED
  BY <1>1, <1>3, <1>4

(* A request that is open or none is not given.                            *)
LEMMA RgOpenNotGiven ==
  ASSUME NEW c \in Callers, RgOpens(c) PROVE ~ Given(c)'
BY DEF RgOpens, Given, Answered

LEMMA RgInitInv == RgInit => RgInv
<1> SUFFICES ASSUME RgInit PROVE RgInv
  OBVIOUS
<1>a. 0 \in 0 .. Attempts /\ 0 \in 0 .. Budget /\ Budget \in 0 .. Budget
  BY RegistrationAssumption
<1>1. RgTypeOK
  BY <1>a, RgNoRequestIs DEF RgInit, RgTypeOK
<1>2. RgStarts
  BY RegistrationAssumption, RgNoRequestIs, RgCallersAre DEF RgInit, RgStarts
<1> QED
  BY <1>1, <1>2 DEF RgInit, RgInv, ProofFollows

(* A step of the process: which request it replaces, and what it stashes.  *)
RgMoves(c) ==
  /\ RgTypeOK'
  /\ RgStarts'
  /\ \A d \in Callers : d # c => req'[d] = req[d]
  /\ ~ Given(c)'
  /\ dirToken' = dirToken
  /\ RgStashed(c)
  /\ muddled' = muddled

LEMMA RgMovesInv ==
  ASSUME RgInv, NEW c \in Callers, RgMoves(c) PROVE RgInv'
<1>1. RgTypeOK' /\ RgStarts'
  BY DEF RgMoves
<1>2. ProofFollows'
  BY RgKeeps DEF RgMoves, RgInv
<1> QED
  BY <1>1, <1>2 DEF RgInv, RgMoves

LEMMA RgStartMoves ==
  ASSUME RgInv, StartAttempt \/ StartAnswered PROVE RgMoves("start")
<1> USE RegistrationAssumption, RgCallersAre
<1>1. RgTypeOK /\ RgStarts
  BY DEF RgInv
<1>2. CASE StartAttempt
  <2>1. RgOpens("start") /\ ~ Given("start") /\ runtimeToken \in RgTokens
    BY <1>1, <1>2, RgSends DEF StartAttempt, SendRegister, RgTypeOK, RgTokens, Quiet, Given, Answered
  <2>2. RgTypeOK'
    BY <1>1, <1>2, <2>1 DEF StartAttempt, RgTypeOK, RgOpens, process, tokens, stash, listing, histories
  <2>3. RgStarts'
    BY <1>1, <1>2, <2>1 DEF StartAttempt, RgStarts, RgOpens, process
  <2> QED
    BY <1>2, <2>1, <2>2, <2>3, RgOpenNotGiven, RgNotStashed
       DEF StartAttempt, RgMoves, RgOpens, tokens, stash, listing, histories
<1>3. CASE StartAnswered
  <2>1. RgOpens("start") /\ (Given("start") <=> Granted("start"))
    BY <1>1, <1>3, RgEnds DEF StartAnswered, Given
  <2>2. /\ runtimeToken' \in RgTokens /\ req["start"].granted \in RgTokens
        /\ overtaken' \in BOOLEAN /\ RgStashed("start")
    BY <1>1, <1>3, <2>1, RgStashes DEF StartAnswered
  <2>3. /\ failedStarts' \in 0 .. Attempts /\ phase' \in {"starting", "serving"}
        /\ phase' = "starting" => failedStarts' < Attempts
    BY <1>1, <1>3 DEF StartAnswered, RgStarts, RgTypeOK
  <2>4. cliToken' \in RgTokens /\ loopToken' \in RgTokens /\ relayToken' \in RgTokens
    BY <1>1, <1>3, <2>2 DEF StartAnswered, RgTypeOK, RgTokens
  <2>5. RgTypeOK'
    BY <1>1, <1>3, <2>1, <2>2, <2>3, <2>4
       DEF StartAnswered, RgTypeOK, RgTokens, RgOpens, listing, histories
  <2>6. RgStarts'
    BY <1>1, <2>1, <2>3 DEF RgStarts, RgOpens
  <2> QED
    BY <1>3, <2>1, <2>2, <2>5, <2>6, RgOpenNotGiven
       DEF StartAnswered, RgMoves, RgOpens, listing, histories
<1> QED
  BY <1>2, <1>3

(* The requests of the callbacks and of the shutdown.                      *)
LEMMA RgCallbackMoves ==
  ASSUME RgInv, NEW a \in {"relay", "tunnel"}, a \in Actors,
         \/ a = "relay" /\ (RelayBinds \/ RelayDeregistered \/ RelayRegistered)
         \/ a = "tunnel" /\ (TunnelMoves \/ TunnelRegistered)
  PROVE  RgMoves(a)
<1> USE RegistrationAssumption, RgCallersAre
<1>1. /\ RgTypeOK /\ RgStarts /\ a \in Callers /\ a # "stop"
      /\ runtimeToken \in RgTokens /\ relayToken \in RgTokens
  BY DEF RgInv, RgTypeOK, RgTokens
<1>2. CASE (a = "relay" /\ RelayBinds) \/ (a = "tunnel" /\ TunnelMoves)
  <2>1. /\ budget' \in 0 .. Budget /\ endpoint' \in 0 .. Budget
        /\ endpoint' = Budget - budget'
    BY <1>1, <1>2, RgSpends DEF RelayBinds, TunnelMoves
  <2>2. PICK kind \in {"register", "deregister"}, token \in RgTokens :
          req' = [req EXCEPT ![a] = [Ask(kind, token) EXCEPT !.endpoint = endpoint']]
    <3>1. CASE a = "relay" /\ RelayBinds /\ relayToken # NoToken
      BY <1>1, <3>1 DEF RelayBinds
    <3>2. CASE a = "relay" /\ RelayBinds /\ relayToken = NoToken
      BY <1>1, <3>2 DEF RelayBinds
    <3>3. CASE a = "tunnel" /\ TunnelMoves
      BY <1>1, <3>3 DEF TunnelMoves
    <3> QED
      BY <1>2, <3>1, <3>2, <3>3
  <2>3. RgOpens(a)
    BY <1>1, <2>1, <2>2, RgAsks DEF RgOpens, RgTypeOK
  <2>4. ~ Given(a)
    BY <1>2 DEF RelayBinds, TunnelMoves, Quiet, Given, Answered
  <2>5. RgTypeOK'
    BY <1>1, <1>2, <2>1, <2>3
       DEF RelayBinds, TunnelMoves, RgTypeOK, RgOpens, tokens, stash, listing, histories
  <2>6. RgStarts'
    BY <1>1, <1>2, <2>3 DEF RelayBinds, TunnelMoves, RgStarts, RgOpens
  <2> QED
    BY <1>1, <1>2, <2>3, <2>4, <2>5, <2>6, RgOpenNotGiven, RgNotStashed
       DEF RelayBinds, TunnelMoves, RgMoves, RgOpens, tokens, stash, listing, histories
<1>3. CASE a = "relay" /\ RelayDeregistered
  <2>1. RgOpens(a) /\ ~ Given(a)
    BY <1>1, <1>3, RgSends DEF RelayDeregistered, SendRegister, Given, Answered
  <2>2. RgTypeOK'
    BY <1>1, <1>3, <2>1 DEF RelayDeregistered, RgTypeOK, RgOpens, process, tokens, stash, listing, histories
  <2>3. RgStarts'
    BY <1>1, <1>3, <2>1 DEF RelayDeregistered, RgStarts, RgOpens, process
  <2> QED
    BY <1>1, <1>3, <2>1, <2>2, <2>3, RgOpenNotGiven, RgNotStashed
       DEF RelayDeregistered, RgMoves, RgOpens, tokens, stash, listing, histories
<1>4. CASE a = "relay" /\ RelayRegistered
  <2>1. RgOpens(a) /\ (Given(a) <=> Granted(a))
    BY <1>1, <1>4, RgEnds DEF RelayRegistered, Given
  <2>2. /\ runtimeToken' \in RgTokens /\ relayToken' \in RgTokens
        /\ overtaken' \in BOOLEAN /\ RgStashed(a)
    BY <1>1, <1>4, <2>1, RgStashes DEF RelayRegistered
  <2>3. RgTypeOK'
    BY <1>1, <1>4, <2>1, <2>2
       DEF RelayRegistered, RgTypeOK, RgTokens, RgOpens, process, listing, histories
  <2>4. RgStarts'
    BY <1>1, <1>4, <2>1 DEF RelayRegistered, RgStarts, RgOpens, process
  <2> QED
    BY <1>1, <1>4, <2>1, <2>2, <2>3, <2>4, RgOpenNotGiven
       DEF RelayRegistered, RgMoves, RgOpens, listing, histories
<1>5. CASE a = "tunnel" /\ TunnelRegistered
  <2>1. RgOpens(a) /\ (Given(a) <=> Granted(a))
    BY <1>1, <1>5, RgEnds DEF TunnelRegistered, Given
  <2>2. runtimeToken' \in RgTokens /\ overtaken' \in BOOLEAN /\ RgStashed(a)
    BY <1>1, <1>5, <2>1, RgStashes DEF TunnelRegistered
  <2>3. RgTypeOK'
    BY <1>1, <1>5, <2>1, <2>2
       DEF TunnelRegistered, RgTypeOK, RgTokens, RgOpens, process, listing, histories
  <2>4. RgStarts'
    BY <1>1, <1>5, <2>1 DEF TunnelRegistered, RgStarts, RgOpens, process
  <2> QED
    BY <1>1, <1>5, <2>1, <2>2, <2>3, <2>4, RgOpenNotGiven
       DEF TunnelRegistered, RgMoves, RgOpens, listing, histories
<1> QED
  BY <1>2, <1>3, <1>4, <1>5 DEF RelayDeregistered

LEMMA RgStopMoves ==
  ASSUME RgInv, Signal \/ Stopped PROVE RgMoves("stop")
<1> USE RegistrationAssumption, RgCallersAre
<1>1. RgTypeOK /\ RgStarts /\ ~ Given("stop") /\ cliToken \in RgTokens
  BY DEF RgInv, RgStarts, Given, Answered, RgTypeOK, RgTokens
<1>2. RgOpens("stop") \/ UNCHANGED req
  BY <1>1, RgSends, RgEnds DEF Signal, Stopped
<1>3. req'["stop"].kind \in {"none", "deregister"}
  BY <1>1, RgSends, RgEnds DEF Signal, Stopped, RgStarts
<1>4. RgTypeOK'
  BY <1>1, <1>2 DEF Signal, Stopped, RgTypeOK, RgOpens, tokens, stash, listing, histories
<1>5. RgStarts'
  BY <1>3 DEF Signal, Stopped, RgStarts
<1>6. ~ Given("stop")' /\ \A d \in Callers : d # "stop" => req'[d] = req[d]
  BY <1>2, <1>3 DEF RgOpens, Given, Answered
<1> QED
  BY <1>1, <1>4, <1>5, <1>6, RgNotStashed DEF Signal, Stopped, RgMoves, tokens, stash, listing, histories

LEMMA RgReturns ==
  ASSUME RgTypeOK, NEW t \in Ticks, NEW token \in RgTokens, Return(t, token)
  PROVE  /\ RgOpens(t) /\ loopToken' \in RgTokens
         /\ held' \in [Ticks -> RgTokens]
         /\ why' \in [Ticks -> {"none", "heal", "drift", "recover"}]
BY RgEnds, RgCallersAre DEF RgTypeOK, Return, RgTokens

LEMMA RgReregisters ==
  ASSUME RgTypeOK, NEW t \in Ticks, runtimeToken' \in RgTokens,
         NEW reason \in {"heal", "drift", "recover"}, Reregister(t, reason)
  PROVE  /\ RgOpens(t) /\ loopToken' \in RgTokens
         /\ why' \in [Ticks -> {"none", "heal", "drift", "recover"}]
BY RgSends, RgCallersAre DEF RgTypeOK, Reregister, RgTokens

(* A restart loses what was given and not stashed, and says so.            *)
LEMMA RgRestarts ==
  ASSUME RgInv, Restart, budget' \in 0 .. Budget, runtimeToken' \in RgTokens,
         overtaken' \in BOOLEAN, NEW c \in Callers, UNCHANGED stash \/ RgStashed(c)
  PROVE  RgInv'
<1> USE RegistrationAssumption, RgCallersAre, RgNoRequestIs
<1>1. RgTypeOK /\ RgStarts /\ 0 \in 0 .. Attempts /\ 0 \in 0 .. Budget
  BY DEF RgInv
<1>2. Budget - budget' \in 0 .. Budget
  <2>1. \A b \in 0 .. Budget : Budget - b \in 0 .. Budget
    OBVIOUS
  <2> QED
    BY <2>1
<1>3. muddled' \in BOOLEAN /\ unheard' \in BOOLEAN
  BY <1>1 DEF Restart, RgTypeOK
<1>4. endpoint' \in 0 .. Budget
  BY <1>1, <1>2 DEF Restart, RgTypeOK
<1>5. RgTypeOK'
  BY <1>1, <1>3, <1>4 DEF Restart, RgTypeOK, RgTokens, listing
<1>6. RgStarts'
  BY DEF Restart, RgStarts
<1>7. ASSUME dirToken # NoToken, ~ muddled', ~ overtaken' PROVE runtimeToken' = dirToken
  <2>1. ~ muddled /\ \A d \in Callers : Given(d) => req[d].granted = runtimeToken'
    BY <1>7 DEF Restart
  <2>2. ~ overtaken
    BY <1>7 DEF RgStashed, stash
  <2>3. CASE \E g \in Callers : Given(g) /\ req[g].granted = dirToken
    BY <2>1, <2>3
  <2>4. CASE runtimeToken = dirToken
    BY <1>7, <2>4 DEF RgStashed, stash
  <2> QED
    BY <1>7, <2>1, <2>2, <2>3, <2>4 DEF RgInv, ProofFollows
<1>8. ProofFollows'
  BY <1>7 DEF Restart, listing, ProofFollows
<1> QED
  BY <1>5, <1>6, <1>8 DEF RgInv

LEMMA RgProceeds ==
  ASSUME RgInv, Running, NEW t \in Ticks, NEW token \in RgTokens, Proceed(t, token),
         runtimeToken' \in RgTokens, overtaken' \in BOOLEAN, UNCHANGED listing,
         RgStashed(t)
  PROVE  RgInv'
<1> USE RegistrationAssumption, RgCallersAre
<1>1. /\ RgTypeOK /\ RgStarts /\ t \in Callers /\ t # "stop" /\ phase # "starting"
  BY DEF RgInv, Running
<1>2. CASE Restart
  <2>1. budget' \in 0 .. Budget
    BY <1>1, <1>2, RgSpends DEF Proceed, RgTypeOK, Restart
  <2> QED
    BY <1>1, <1>2, <2>1, RgRestarts
<1>3. ASSUME Return(t, token) \/ (Reregister(t, "recover") /\ held' = [held EXCEPT ![t] = token]),
             budget' \in 0 .. Budget, failures' \in Nat,
             UNCHANGED <<phase, failedStarts, endpoint, relayToken, cliToken, histories>>
      PROVE  RgInv'
  <2>1. /\ RgOpens(t) /\ loopToken' \in RgTokens
        /\ held' \in [Ticks -> RgTokens]
        /\ why' \in [Ticks -> {"none", "heal", "drift", "recover"}]
    <3>1. CASE Return(t, token)
      BY <1>1, <3>1, RgReturns
    <3>2. CASE Reregister(t, "recover") /\ held' = [held EXCEPT ![t] = token]
      BY <1>1, <3>2, RgReregisters DEF RgTypeOK, RgTokens
    <3> QED
      BY <1>3, <3>1, <3>2
  <2>2. RgTypeOK'
    BY <1>1, <1>3, <2>1 DEF RgTypeOK, RgTokens, RgOpens, listing, histories
  <2>3. RgStarts'
    BY <1>1, <1>3, <2>1 DEF RgStarts, RgOpens
  <2>4. RgMoves(t)
    BY <1>1, <1>3, <2>1, <2>2, <2>3, RgOpenNotGiven DEF RgMoves, RgOpens, listing, histories
  <2> QED
    BY <1>1, <2>4, RgMovesInv
<1>4. CASE /\ Return(t, token)
           /\ UNCHANGED <<process, relayToken, cliToken, budget, histories>>
  <2>1. budget' \in 0 .. Budget /\ failures' \in Nat
    BY <1>1, <1>4 DEF RgTypeOK, process
  <2> QED
    BY <1>3, <1>4, <2>1 DEF process
<1>5. ASSUME NEW route \in BOOLEAN, NEW draining \in BOOLEAN,
             NEW presence \in {"present", "absent", "unknown"}, ~ Restart,
             LET wrong == ~ route \/ presence = "absent"
                 n == IF wrong THEN failures + 1
                      ELSE IF presence = "present" THEN 0 ELSE failures
                 action == Classify(route, presence, n, draining)
             IN  /\ wrong \/ failures > 0
                 /\ IF wrong THEN Spend ELSE UNCHANGED budget
                 /\ \/ /\ action \in {"none", "restart_self"}
                       /\ Return(t, token)
                       /\ failures' = n
                       /\ UNCHANGED <<phase, failedStarts, endpoint, relayToken,
                                      cliToken, histories>>
                    \/ /\ action = "reregister"
                       /\ Reregister(t, "recover")
                       /\ held' = [held EXCEPT ![t] = token]
                       /\ failures' = n
                       /\ UNCHANGED <<phase, failedStarts, endpoint, relayToken,
                                      cliToken, histories>>
                    \/ action = "restart_self" /\ Restart
      PROVE  RgInv'
  <2> DEFINE wrong == ~ route \/ presence = "absent"
             n == IF wrong THEN failures + 1
                  ELSE IF presence = "present" THEN 0 ELSE failures
  <2>1. n \in Nat
    BY <1>1 DEF RgTypeOK
  <2>2. budget' \in 0 .. Budget
    BY <1>1, <1>5, RgSpends DEF RgTypeOK
  <2>3. /\ Return(t, token) \/ (Reregister(t, "recover") /\ held' = [held EXCEPT ![t] = token])
        /\ failures' = n
        /\ UNCHANGED <<phase, failedStarts, endpoint, relayToken, cliToken, histories>>
    BY <1>5
  <2> QED
    BY <1>3, <2>1, <2>2, <2>3
<1> QED
  BY <1>2, <1>4, <1>5 DEF Proceed

LEMMA RgTickInv ==
  ASSUME RgInv, NEW t \in Ticks,
         \/ StartTick(t) \/ BeatAccepted(t) \/ BeatRejected(t)
         \/ BeatFailed(t) \/ TickRegistered(t)
  PROVE  RgInv'
<1> USE RegistrationAssumption, RgCallersAre
<1>1. /\ RgTypeOK /\ RgStarts /\ t \in Callers /\ t # "stop"
      /\ runtimeToken \in RgTokens /\ loopToken \in RgTokens /\ held[t] \in RgTokens
      /\ overtaken \in BOOLEAN
  BY DEF RgInv, RgTypeOK, RgTokens
<1>2. CASE StartTick(t)
  <2>1. RgOpens(t) /\ ~ Given(t) /\ phase # "starting"
    BY <1>1, <1>2, RgSends DEF StartTick, Quiet, Given, Answered, Running
  <2>2. held' \in [Ticks -> RgTokens] /\ budget' \in 0 .. Budget
    BY <1>1, <1>2, RgSpends DEF StartTick, RgTypeOK, RgTokens
  <2>3. RgTypeOK'
    BY <1>1, <1>2, <2>1, <2>2
       DEF StartTick, RgTypeOK, RgTokens, RgOpens, process, tokens, stash, listing, histories
  <2>4. RgStarts'
    BY <1>1, <1>2, <2>1 DEF StartTick, RgStarts, RgOpens, process
  <2>5. RgMoves(t)
    BY <1>1, <1>2, <2>1, <2>3, <2>4, RgOpenNotGiven, RgNotStashed
       DEF StartTick, RgMoves, RgOpens, tokens, stash, listing, histories
  <2> QED
    BY <1>1, <2>5, RgMovesInv
<1>3. CASE BeatRejected(t) \/ BeatFailed(t)
  <2>1. /\ RgOpens(t) /\ ~ Given(t) /\ phase # "starting" /\ loopToken' \in RgTokens
        /\ held' \in [Ticks -> RgTokens]
        /\ why' \in [Ticks -> {"none", "heal", "drift", "recover"}]
    <3>1. CASE BeatRejected(t)
      BY <1>1, <3>1, RgReregisters
         DEF BeatRejected, Given, Answered, Running, RgTypeOK, RgTokens, stash
    <3>2. CASE BeatFailed(t)
      BY <1>1, <3>2, RgReturns DEF BeatFailed, Given, Answered, Running
    <3> QED
      BY <1>3, <3>1, <3>2
  <2>2. UNCHANGED <<process, stash, relayToken, cliToken, listing, budget, histories>>
    BY <1>3 DEF BeatRejected, BeatFailed
  <2>3. RgTypeOK'
    BY <1>1, <2>1, <2>2 DEF RgTypeOK, RgTokens, RgOpens, process, stash, listing, histories
  <2>4. RgStarts'
    BY <1>1, <2>1, <2>2 DEF RgStarts, RgOpens, process
  <2>5. RgMoves(t)
    BY <1>1, <2>1, <2>2, <2>3, <2>4, RgOpenNotGiven, RgNotStashed DEF RgMoves, RgOpens, listing, histories
  <2> QED
    BY <1>1, <2>5, RgMovesInv
<1>4. CASE BeatAccepted(t)
  <2>1. ~ Given(t) /\ Running /\ phase # "starting" /\ UNCHANGED <<stash, listing>>
    BY <1>4 DEF BeatAccepted, Given, Answered, Running
  <2>2. CASE Proceed(t, held[t])
    BY <1>1, <2>1, <2>2, RgProceeds, RgNotStashed DEF stash
  <2>3. CASE /\ Spend /\ Reregister(t, "drift")
             /\ UNCHANGED <<process, held, relayToken, cliToken, histories>>
    <3>1. /\ RgOpens(t) /\ loopToken' \in RgTokens /\ budget' \in 0 .. Budget
          /\ why' \in [Ticks -> {"none", "heal", "drift", "recover"}]
      BY <1>1, <2>1, <2>3, RgReregisters, RgSpends DEF stash
    <3>2. RgTypeOK'
      BY <1>1, <2>1, <2>3, <3>1 DEF RgTypeOK, RgTokens, RgOpens, process, stash, listing, histories
    <3>3. RgStarts'
      BY <1>1, <2>3, <3>1 DEF RgStarts, RgOpens, process
    <3>4. RgMoves(t)
      BY <1>1, <2>1, <2>3, <3>1, <3>2, <3>3, RgOpenNotGiven, RgNotStashed
         DEF RgMoves, RgOpens, listing, histories
    <3> QED
      BY <1>1, <3>4, RgMovesInv
  <2> QED
    BY <1>4, <2>2, <2>3 DEF BeatAccepted
<1>5. CASE TickRegistered(t)
  <2> DEFINE token == IF Granted(t) THEN req[t].granted ELSE held[t]
  <2>1. /\ runtimeToken' \in RgTokens /\ req[t].granted \in RgTokens
        /\ overtaken' \in BOOLEAN /\ RgStashed(t)
    BY <1>1, <1>5, RgStashes DEF TickRegistered, Given
  <2>2. token \in RgTokens /\ Running /\ phase # "starting" /\ UNCHANGED listing
    BY <1>1, <1>5, <2>1 DEF TickRegistered, Running
  <2>3. CASE why[t] = "drift" /\ Proceed(t, token)
    <3> HIDE DEF token
    <3> QED
      BY <2>1, <2>2, <2>3, RgProceeds
  <2>4. CASE /\ Return(t, token)
             /\ failures' = IF why[t] = "recover" /\ Granted(t) THEN 0 ELSE failures
             /\ UNCHANGED <<phase, failedStarts, endpoint, relayToken, cliToken,
                            budget, histories>>
    <3> HIDE DEF token
    <3>1. /\ RgOpens(t) /\ loopToken' \in RgTokens /\ failures' \in Nat
          /\ held' \in [Ticks -> RgTokens]
          /\ why' \in [Ticks -> {"none", "heal", "drift", "recover"}]
      BY <1>1, <2>2, <2>4, RgReturns DEF RgTypeOK
    <3>2. RgTypeOK'
      BY <1>1, <2>1, <2>2, <2>4, <3>1 DEF RgTypeOK, RgTokens, RgOpens, listing, histories
    <3>3. RgStarts'
      BY <1>1, <2>4, <3>1 DEF RgStarts, RgOpens
    <3>4. RgMoves(t)
      BY <1>1, <2>1, <2>2, <2>4, <3>1, <3>2, <3>3, RgOpenNotGiven
         DEF RgMoves, RgOpens, listing, histories
    <3> QED
      BY <1>1, <3>4, RgMovesInv
  <2> QED
    BY <1>5, <2>3, <2>4 DEF TickRegistered
<1> QED
  BY <1>2, <1>3, <1>4, <1>5

LEMMA RgCrashInv == RgInv /\ Crash => RgInv'
<1> SUFFICES ASSUME RgInv, Crash PROVE RgInv'
  OBVIOUS
<1>1. budget' \in 0 .. Budget /\ runtimeToken' \in RgTokens /\ overtaken' \in BOOLEAN
  BY RgSpends DEF Crash, RgInv, RgTypeOK, RgTokens, stash
<1> QED
  BY <1>1, RgRestarts, RgCallersAre DEF Crash

(* The directory grants a token nobody holds, or answers otherwise.        *)
LEMMA RgDirectoryInv ==
  ASSUME RgInv, NEW c \in Callers,
         \/ DirectoryBeat(c) \/ DirectoryRegisters(c) \/ RequestRefused(c)
         \/ DirectoryDeregisters(c) \/ RequestFails(c)
  PROVE  RgInv'
<1> USE RegistrationAssumption, RgCallersAre
<1>1. RgTypeOK /\ RgStarts
  BY DEF RgInv
<1>2. CASE DirectoryRegisters(c)
  <2>1. Fresh \in Tokens /\ c # "stop" /\ req[c].kind = "register"
    BY <1>1, <1>2, RgFreshIs DEF DirectoryRegisters, Pending, RgStarts
  <2>2. /\ req' \in [Callers -> DirectoryRequest]
        /\ \A d \in Callers : d # c => req'[d] = req[d]
        /\ req'[c].kind = "register" /\ req'[c].answer = "ok" /\ req'[c].granted = Fresh
    <3>1. req' = [req EXCEPT ![c].answer = "ok", ![c].granted = Fresh]
      BY <1>2 DEF DirectoryRegisters
    <3>2. req \in [Callers -> DirectoryRequest]
      BY <1>1 DEF RgTypeOK
    <3>3. \A r \in DirectoryRequest :
            /\ [r EXCEPT !.answer = "ok", !.granted = Fresh] \in DirectoryRequest
            /\ [r EXCEPT !.answer = "ok", !.granted = Fresh].kind = r.kind
            /\ [r EXCEPT !.answer = "ok", !.granted = Fresh].answer = "ok"
            /\ [r EXCEPT !.answer = "ok", !.granted = Fresh].granted = Fresh
      BY <2>1 DEF DirectoryRequest
    <3>4. req' = [req EXCEPT ![c] = [req[c] EXCEPT !.answer = "ok", !.granted = Fresh]]
      BY <3>1, <3>2, <3>3 DEF DirectoryRequest
    <3> QED
      BY <2>1, <3>2, <3>3, <3>4
  <2>3. dirToken' = Fresh /\ dirEndpoint' \in 0 .. Budget /\ accepted' \in Nat
    BY <1>1, <1>2 DEF DirectoryRegisters, RgTypeOK, DirectoryRequest
  <2>4. RgTypeOK'
    BY <1>1, <1>2, <2>1, <2>2, <2>3
       DEF DirectoryRegisters, RgTypeOK, process, tokens, stash, histories
  <2>5. RgStarts'
    BY <1>1, <1>2, <2>1, <2>2 DEF DirectoryRegisters, RgStarts, process
  <2>6. Given(c)' /\ req'[c].granted = dirToken'
    BY <2>2, <2>3 DEF Given, Answered, Granted
  <2> QED
    BY <2>4, <2>5, <2>6 DEF RgInv, ProofFollows
<1>3. ASSUME ~ DirectoryRegisters(c) PROVE RgInv'
  <2>1. PICK a \in {"ok", "unknown", "failed"} :
          /\ Reply(c, a)
          /\ ~ muddled' => ~ Given(c) /\ (req[c].kind = "register" => a # "ok")
    BY <1>3 DEF DirectoryBeat, RequestRefused, DirectoryDeregisters, RequestFails,
                Pending, Given, Answered, Granted
  <2>2. /\ req' \in [Callers -> DirectoryRequest]
        /\ \A d \in Callers : d # c => req'[d] = req[d]
        /\ req'[c].kind = req[c].kind /\ req'[c].answer = a
    BY <1>1, <2>1, RgReplies
  <2>3. /\ UNCHANGED <<process, tokens, held, why, dirEndpoint, accepted>>
        /\ dirToken' \in {dirToken, NoToken} /\ budget' \in 0 .. Budget
        /\ muddled' \in BOOLEAN /\ unheard' \in BOOLEAN
        /\ muddled => muddled'
    BY <1>1, <1>3, RgSpends
       DEF DirectoryBeat, RequestRefused, DirectoryDeregisters, RequestFails, RgTypeOK,
           listing, histories
  <2>4. RgTypeOK'
    BY <1>1, <2>2, <2>3 DEF RgTypeOK, process, tokens, stash
  <2>5. RgStarts'
    BY <1>1, <2>2, <2>3 DEF RgStarts, process
  <2>6. ASSUME ~ muddled', NEW d \in Callers, Given(d) PROVE Given(d)' /\ req'[d] = req[d]
    BY <2>1, <2>2, <2>6 DEF Given, Answered, Granted
  <2>7. ProofFollows'
    BY <2>3, <2>6 DEF RgInv, ProofFollows, tokens, stash
  <2> QED
    BY <2>4, <2>5, <2>7 DEF RgInv
<1> QED
  BY <1>2, <1>3

LEMMA RgForgetInv == RgInv /\ (Forget \/ Expire) => RgInv'
<1> SUFFICES ASSUME RgInv, Forget \/ Expire PROVE RgInv'
  OBVIOUS
<1>1. budget' \in 0 .. Budget
  BY RgSpends DEF Forget, Expire, RgInv, RgTypeOK
<1>2. /\ dirToken' = NoToken
      /\ UNCHANGED <<process, tokens, req, held, why, dirEndpoint, accepted, histories>>
  BY DEF Forget, Expire
<1>3. RgTypeOK' /\ RgStarts'
  BY <1>1, <1>2 DEF RgInv, RgTypeOK, RgStarts, process, tokens, stash, histories
<1> QED
  BY <1>2, <1>3 DEF RgInv, ProofFollows

LEMMA RgStepInv == RgInv /\ [RgNext]_RgVars => RgInv'
<1> SUFFICES ASSUME RgInv, [RgNext]_RgVars PROVE RgInv'
  OBVIOUS
<1> USE RgCallersAre
<1>1. CASE UNCHANGED RgVars
  BY <1>1 DEF RgVars, process, tokens, stash, listing, histories, RgInv, RgTypeOK, RgStarts,
              ProofFollows, Given, Answered, Granted
<1>2. CASE StartAttempt \/ StartAnswered
  BY <1>2, RgStartMoves, RgMovesInv
<1>3. CASE Signal \/ Stopped
  BY <1>3, RgStopMoves, RgMovesInv
<1>4. CASE RelayBinds \/ RelayDeregistered \/ RelayRegistered
  <2>1. "relay" \in Actors
    BY <1>4 DEF RelayBinds, RelayDeregistered, RelayRegistered
  <2> QED
    BY <1>4, <2>1, RgCallbackMoves, RgMovesInv
<1>5. CASE TunnelMoves \/ TunnelRegistered
  <2>1. "tunnel" \in Actors
    BY <1>5 DEF TunnelMoves, TunnelRegistered
  <2> QED
    BY <1>5, <2>1, RgCallbackMoves, RgMovesInv
<1> QED
  BY <1>1, <1>2, <1>3, <1>4, <1>5, RgTickInv, RgCrashInv, RgDirectoryInv, RgForgetInv
     DEF RgNext

LEMMA RgInvariant == RgInit /\ [][RgNext]_RgVars => []RgInv
BY RgInitInv, RgStepInv, PTL

(* The registration's requests, tokens and histories are as described, as  *)
(* long as the directory never runs out of tokens.                         *)
THEOREM RgTypes == RgSpec => []RgTypeOK
<1>1. RgInv => RgTypeOK
  BY DEF RgInv
<1> QED
  BY <1>1, RgInvariant, PTL DEF RgSpec

(* The token a node proves its ownership with is the one the directory     *)
(* knows, or that one is on its way to it, for any number of overlapping   *)
(* heartbeat ticks, callbacks, crashes and lapses of the directory, unless *)
(* a reply got lost or was taken up late (register and _heartbeatTick in   *)
(* node.ts).                                                               *)
THEOREM RgProofFollows == RgSpec => []ProofFollows
<1>1. RgInv => ProofFollows
  BY DEF RgInv
<1> QED
  BY <1>1, RgInvariant, PTL DEF RgSpec

-----------------------------------------------------------------------------
(* Registration: no storm.                                                 *)

(* No other tick is under way.                                             *)
RgLone(t) == \A u \in Ticks \ {t} : Quiet(u)

(* The token the loop has, or will have once it hears of what is granted,  *)
(* when t is the only tick under way.                                      *)
RgLoopHas(t) ==
  IF Given("start") THEN req["start"].granted
  ELSE IF Given(t) THEN req[t].granted
  ELSE IF Quiet(t) THEN loopToken ELSE held[t]

(* The loop's next heartbeats are those of a listed node.                  *)
RgCalm(t) ==
  /\ dirToken # NoToken /\ RgLoopHas(t) = dirToken
  /\ ~ Pending(t, "register")
  /\ ~ (req[t].kind = "beat" /\ req[t].answer = "unknown")

RgDue(t) == IF RgCalm(t) THEN 0 ELSE 1

(* The ticks that may still be granted a registration.                     *)
RgOpen ==
  {t \in Ticks : \/ Pending(t, "register")
                 \/ req[t].kind = "beat" /\ req[t].answer \in {"pending", "unknown"}}

(* The registrations that may still come of what is under way: the loop's, *)
(* which are one for each open tick when several are under way, and the    *)
(* heal of what they leave behind; a callback's, with the heal of the      *)
(* loop's token that it makes stale and, before it, the heal of a tick     *)
(* that meets its deregistration; the heal of a tick that meets the        *)
(* shutdown's.                                                             *)
RgLoopDue ==
  IF \E t \in Ticks : RgLone(t)
  THEN IF \A t \in Ticks : RgLone(t) => RgCalm(t) THEN 0 ELSE 1
  ELSE 1 + Cardinality(RgOpen)

RgCallDue(c) ==
  IF c \notin Actors THEN 0
  ELSE IF Pending(c, "deregister") THEN 3
  ELSE IF req[c].kind = "deregister" \/ Pending(c, "register") THEN 2 ELSE 0

RgStopDue == IF Pending("stop", "deregister") THEN 1 ELSE 0

RgEnding == IF phase \in {"stopping", "exited"} THEN 1 ELSE 0

(* What was granted and what is due is paid for.                           *)
RgPaid ==
  accepted + RgLoopDue + RgCallDue("relay") + RgCallDue("tunnel") + RgStopDue
    <= 1 + 3 * (Budget - budget) + RgEnding

(* Who asks for what, and which token a beating tick goes on with.         *)
RgAskers ==
  /\ \A t \in Ticks :
       /\ req[t].kind \in {"none", "beat", "register"}
       /\ req[t].kind = "beat" => held[t] = req[t].token
  /\ req["start"].kind \in {"none", "register"}
  /\ "relay" \in Actors => req["relay"].kind \in {"none", "deregister", "register"}
  /\ "tunnel" \in Actors => req["tunnel"].kind \in {"none", "register"}
  /\ phase = "starting" =>
       loopToken = NoToken /\ \A c \in Callers \ {"start"} : Quiet(c)
  /\ phase # "starting" => Quiet("start")

RgStormInv == RgAskers /\ RgPaid

LEMMA RgNames ==
  /\ Callers = Ticks \cup Actors \cup {"start", "stop"}
  /\ Actors \subseteq {"relay", "tunnel"}
  /\ \A t \in Ticks : t \in Callers /\ t \notin {"start", "stop", "relay", "tunnel"}
  /\ "start" \in Callers /\ "stop" \in Callers
BY RegistrationAssumption DEF Callers

LEMMA RgOpenIs ==
  /\ IsFiniteSet(RgOpen) /\ Cardinality(RgOpen) \in Nat
  /\ IsFiniteSet(RgOpen') /\ Cardinality(RgOpen') \in Nat
<1>1. RgOpen \subseteq Ticks /\ RgOpen' \subseteq Ticks
  BY DEF RgOpen
<1>2. IsFiniteSet(RgOpen) /\ IsFiniteSet(RgOpen')
  BY <1>1, RgCallersFinite, FS_Subset
<1> QED
  BY <1>2, FS_CardinalityType

LEMMA RgDues ==
  /\ RgLoopDue \in Nat /\ RgLoopDue' \in Nat
  /\ \A c \in {"relay", "tunnel"} :
       RgCallDue(c) \in {0, 2, 3} /\ RgCallDue(c)' \in {0, 2, 3}
  /\ RgStopDue \in {0, 1} /\ RgStopDue' \in {0, 1}
  /\ RgEnding \in {0, 1} /\ RgEnding' \in {0, 1}
<1>1. /\ RgLoopDue \in {0, 1} \/ RgLoopDue = 1 + Cardinality(RgOpen)
      /\ RgLoopDue' \in {0, 1} \/ RgLoopDue' = 1 + Cardinality(RgOpen')
  BY DEF RgLoopDue
<1>2. RgLoopDue \in Nat /\ RgLoopDue' \in Nat
  BY <1>1, RgOpenIs
<1> QED
  BY <1>2 DEF RgCallDue, RgStopDue, RgEnding

(* The loop is never due for more than its open ticks and one.             *)
LEMMA RgLoopBound == RgLoopDue' \in Nat /\ RgLoopDue' <= 1 + Cardinality(RgOpen')
<1>1. RgLoopDue' \in {0, 1} \/ RgLoopDue' = 1 + Cardinality(RgOpen')
  BY DEF RgLoopDue
<1> QED
  BY <1>1, RgOpenIs

(* What the loop is due for when one tick at most is under way.            *)
LEMMA RgLoneDue ==
  ASSUME NEW t \in Ticks
  PROVE  /\ RgLone(t) => RgLoopDue = RgDue(t)
         /\ RgLone(t)' => RgLoopDue' = RgDue(t)'
<1>1. ASSUME RgLone(t) PROVE RgLoopDue = RgDue(t)
  <2>1. ASSUME NEW u \in Ticks, RgLone(u) PROVE RgCalm(u) <=> RgCalm(t)
    <3>1. u = t \/ (Quiet(u) /\ Quiet(t))
      BY <1>1, <2>1 DEF RgLone
    <3> QED
      BY <3>1 DEF RgCalm, RgLoopHas, Given, Answered, Pending, Quiet
  <2> QED
    BY <1>1, <2>1 DEF RgLoopDue, RgDue
<1>2. ASSUME RgLone(t)' PROVE RgLoopDue' = RgDue(t)'
  <2>1. ASSUME NEW u \in Ticks, RgLone(u)' PROVE RgCalm(u)' <=> RgCalm(t)'
    <3>1. u = t \/ (Quiet(u)' /\ Quiet(t)')
      BY <1>2, <2>1 DEF RgLone
    <3> QED
      BY <3>1 DEF RgCalm, RgLoopHas, Given, Answered, Pending, Quiet
  <2> QED
    BY <1>2, <2>1 DEF RgLoopDue, RgDue
<1> QED
  BY <1>1, <1>2

(* What it is due for when several are.                                    *)
LEMMA RgCrowdDue ==
  ASSUME NEW t \in Ticks, ~ Quiet(t), ~ RgLone(t)
  PROVE  RgLoopDue = 1 + Cardinality(RgOpen)
<1>1. ASSUME NEW u \in Ticks PROVE ~ RgLone(u)
  BY DEF RgLone
<1> QED
  BY <1>1 DEF RgLoopDue

LEMMA RgCrowdKept ==
  ASSUME NEW t \in Ticks, ~ Quiet(t), ~ RgLone(t), RgOpen' \subseteq RgOpen
  PROVE  RgLoopDue' <= RgLoopDue
<1>1. Cardinality(RgOpen') <= Cardinality(RgOpen)
  BY RgOpenIs, FS_Subset
<1> QED
  BY <1>1, RgCrowdDue, RgLoopBound, RgOpenIs

LEMMA RgCrowdGrants ==
  ASSUME NEW t \in Ticks, ~ Quiet(t), ~ RgLone(t), t \in RgOpen,
         RgOpen' \subseteq RgOpen \ {t}
  PROVE  RgLoopDue' + 1 <= RgLoopDue
<1>1. /\ IsFiniteSet(RgOpen \ {t})
      /\ Cardinality(RgOpen \ {t}) = Cardinality(RgOpen) - 1
  BY RgOpenIs, FS_RemoveElement
<1>2. Cardinality(RgOpen') <= Cardinality(RgOpen \ {t})
  BY <1>1, FS_Subset
<1> QED
  BY <1>1, <1>2, RgCrowdDue, RgLoopBound, RgOpenIs

(* Whatever one tick does makes three due at most.                         *)
LEMMA RgTickRaises ==
  ASSUME NEW t \in Ticks, \A d \in Ticks \ {t} : req'[d] = req[d]
  PROVE  RgLoopDue' <= RgLoopDue + 3
<1>1. RgOpen' \subseteq RgOpen \cup {t}
  BY DEF RgOpen, Pending
<1>2. CASE \E u \in Ticks : RgLone(u)
  <2>1. PICK u \in Ticks : RgLone(u)
    BY <1>2
  <2>2. RgOpen' \subseteq {u} \cup {t}
    BY <1>1, <2>1 DEF RgOpen, RgLone, Quiet, Pending
  <2>3. IsFiniteSet({u} \cup {t}) /\ Cardinality({u} \cup {t}) <= 1 + 1
    <3>1. /\ IsFiniteSet({u}) /\ Cardinality({u}) <= 1
          /\ IsFiniteSet({t}) /\ Cardinality({t}) <= 1
      BY RgOne
    <3>2. 1 \in Nat
      OBVIOUS
    <3> QED
      BY ONLY <3>1, <3>2, RgUnionBound
  <2>4. Cardinality(RgOpen') <= Cardinality({u} \cup {t}) /\ Cardinality({u} \cup {t}) \in Nat
    BY <2>2, <2>3, FS_Subset, FS_CardinalityType
  <2> QED
    BY <2>3, <2>4, RgDues, RgLoopBound, RgOpenIs
<1>3. CASE ~ \E u \in Ticks : RgLone(u)
  <2> DEFINE n == Cardinality(RgOpen)
  <2>1. n \in Nat /\ 1 \in Nat
    BY RgOpenIs
  <2>2. IsFiniteSet(RgOpen \cup {t}) /\ Cardinality(RgOpen \cup {t}) <= n + 1
    <3>1. /\ IsFiniteSet(RgOpen) /\ Cardinality(RgOpen) <= n
          /\ IsFiniteSet({t}) /\ Cardinality({t}) <= 1
      <4>1. n <= n
        BY <2>1
      <4> QED
        BY <4>1, RgOpenIs, RgOne
    <3> QED
      BY ONLY <2>1, <3>1, RgUnionBound
  <2>3. /\ Cardinality(RgOpen') <= Cardinality(RgOpen \cup {t})
        /\ Cardinality(RgOpen \cup {t}) \in Nat
    BY <1>1, <2>2, FS_Subset, FS_CardinalityType
  <2>4. RgLoopDue = 1 + n
    BY <1>3 DEF RgLoopDue
  <2> HIDE DEF n
  <2> QED
    BY <2>1, <2>2, <2>3, <2>4, RgLoopBound, RgOpenIs
<1> QED
  BY <1>2, <1>3

(* Steps that leave the ticks' requests alone make one due at most.        *)
LEMMA RgLoopRaised ==
  ASSUME \A t \in Ticks : req'[t] = req[t]
  PROVE  /\ RgLoopDue' <= RgLoopDue + 1
         /\ (\A t \in Ticks : ~ RgLone(t)) => RgLoopDue' = RgLoopDue
<1>1. \A t \in Ticks : RgLone(t)' <=> RgLone(t)
  BY DEF RgLone, Quiet
<1>2. RgOpen' = RgOpen
  BY DEF RgOpen, Pending
<1>3. CASE \E t \in Ticks : RgLone(t)
  <2>1. RgLoopDue' \in {0, 1}
    BY <1>1, <1>3 DEF RgLoopDue
  <2> QED
    BY <1>3, <2>1, RgDues
<1>4. CASE \A t \in Ticks : ~ RgLone(t)
  <2>1. RgLoopDue' = RgLoopDue
    BY <1>1, <1>2, <1>4 DEF RgLoopDue
  <2> QED
    BY <2>1, RgDues
<1> QED
  BY <1>3, <1>4

(* Steps that do not touch the loop leave it alone.                        *)
LEMMA RgLoopKept ==
  ASSUME UNCHANGED <<dirToken, loopToken, held>>, req'["start"] = req["start"],
         \A t \in Ticks : req'[t] = req[t]
  PROVE  RgLoopDue' = RgLoopDue
<1>1. \A t \in Ticks : (RgLone(t)' <=> RgLone(t)) /\ (RgCalm(t)' <=> RgCalm(t))
  BY DEF RgLone, RgCalm, RgLoopHas, Given, Answered, Granted, Quiet, Pending
<1>2. RgOpen' = RgOpen
  BY DEF RgOpen, Pending
<1> QED
  BY <1>1, <1>2 DEF RgLoopDue

(* What a step adds is paid by what it takes away, by what it spends or by *)
(* the shutdown.                                                           *)
RgPays ==
  accepted' + RgLoopDue' + RgCallDue("relay")' + RgCallDue("tunnel")' + RgStopDue'
      + 3 * budget' + RgEnding
    <= accepted + RgLoopDue + RgCallDue("relay") + RgCallDue("tunnel") + RgStopDue
      + 3 * budget + RgEnding'

LEMMA RgTally == ASSUME RgTypeOK, RgTypeOK', RgPaid, RgPays PROVE RgPaid'
<1>1. /\ accepted \in Nat /\ accepted' \in Nat
      /\ budget \in Nat /\ budget' \in Nat /\ Budget \in Nat
  BY RegistrationAssumption DEF RgTypeOK
<1> QED
  BY <1>1, RgDues DEF RgPaid, RgPays

(* Steps that leave a request alone leave what is due for it alone.        *)
LEMMA RgCallsKept ==
  /\ ("relay" \in Actors => req'["relay"] = req["relay"])
       => RgCallDue("relay")' = RgCallDue("relay")
  /\ ("tunnel" \in Actors => req'["tunnel"] = req["tunnel"])
       => RgCallDue("tunnel")' = RgCallDue("tunnel")
  /\ req'["stop"] = req["stop"] => RgStopDue' = RgStopDue
BY DEF RgCallDue, RgStopDue, Pending

LEMMA RgEndingKept == phase' = phase => RgEnding' = RgEnding
BY DEF RgEnding

LEMMA RgStormInit == RgInit => RgStormInv
<1> SUFFICES ASSUME RgInit PROVE RgStormInv
  OBVIOUS
<1> USE RegistrationAssumption, RgNames, RgNoRequestIs
<1>1. \A c \in Callers : req[c] = NoRequest
  BY DEF RgInit
<1>2. /\ "relay" \in Actors => req["relay"] = NoRequest
      /\ "tunnel" \in Actors => req["tunnel"] = NoRequest
      /\ req["stop"] = NoRequest /\ req["start"] = NoRequest
      /\ \A t \in Ticks : req[t] = NoRequest
  BY <1>1
<1>3. RgAskers
  BY <1>1, <1>2 DEF RgInit, RgAskers, Quiet
<1>4. RgCallDue("relay") = 0 /\ RgCallDue("tunnel") = 0 /\ RgStopDue = 0
  BY <1>2 DEF RgCallDue, RgStopDue, Pending
<1>5. accepted = 0 /\ budget = Budget
  BY DEF RgInit
<1>6. RgLoopDue \in {0, 1}
  <2>1. \E t \in Ticks : RgLone(t)
    BY <1>2 DEF RgLone, Quiet
  <2> QED
    BY <2>1 DEF RgLoopDue
<1>7. RgPaid
  BY <1>4, <1>5, <1>6, RgDues DEF RgPaid
<1> QED
  BY <1>3, <1>7 DEF RgStormInv

(* What the steps below are steps of.                                      *)
RgStorming ==
  RgTypeOK /\ RgTypeOK' /\ RgStarts /\ RgStarts' /\ RgAskers /\ RgPaid

LEMMA RgStartStorms ==
  ASSUME RgStorming, StartAttempt \/ StartAnswered
  PROVE  RgStormInv'
<1> USE RgNames DEF RgStorming
<1>1. /\ phase = "starting" /\ loopToken = NoToken /\ \A c \in Callers \ {"start"} : Quiet(c)
      /\ \A c \in Callers \ {"start"} : req'[c] = req[c]
      /\ UNCHANGED <<held, why, listing, budget>>
  BY DEF StartAttempt, StartAnswered, RgAskers, SendRegister, Send, Done, RgTypeOK
<1>2. /\ req'["stop"] = req["stop"]
      /\ "relay" \in Actors => req'["relay"] = req["relay"]
      /\ "tunnel" \in Actors => req'["tunnel"] = req["tunnel"]
      /\ \A c \in Callers \ {"start"} : Quiet(c)'
  BY <1>1 DEF Quiet
<1>3. req'["start"].kind \in {"none", "register"}
  <2>1. runtimeToken \in RgTokens
    BY DEF RgTypeOK, RgTokens
  <2> QED
    BY <2>1, RgSends, RgEnds DEF StartAttempt, StartAnswered, SendRegister
<1>4. PICK t \in Ticks : /\ RgLone(t) /\ RgLone(t)' /\ Quiet(t) /\ Quiet(t)'
                         /\ req'[t] = req[t]
  <2>1. \A t \in Ticks : RgLone(t) /\ RgLone(t)' /\ Quiet(t) /\ Quiet(t)' /\ req'[t] = req[t]
    BY <1>1, <1>2 DEF RgLone
  <2> QED
    BY <2>1, RegistrationAssumption
<1>5. RgLoopDue = RgDue(t) /\ RgLoopDue' = RgDue(t)'
  BY <1>4, RgLoneDue
<1>6. CASE StartAttempt
  <2>1. RgAskers'
    BY <1>1, <1>2, <1>3, <1>6 DEF StartAttempt, RgAskers, process, tokens, Quiet
  <2>2. RgDue(t) = 1
    BY <1>1, <1>4, <1>6 DEF StartAttempt, RgDue, RgCalm, RgLoopHas, Given, Answered, Quiet
  <2>3. RgDue(t)' \in {0, 1}
    BY DEF RgDue
  <2>4. RgPays
    BY <1>1, <1>2, <1>5, <1>6, <2>2, <2>3, RgCallsKept, RgDues, RgEndingKept
       DEF StartAttempt, RgPays, RgTypeOK, process, listing
  <2> QED
    BY <2>1, <2>4, RgTally DEF RgStormInv
<1>7. CASE StartAnswered
  <2>1. req'["start"].kind = "none" /\ phase' \in {"starting", "serving"}
    BY <1>1, <1>7, RgNoRequestIs DEF StartAnswered, Done, RgTypeOK
  <2>2. loopToken' = IF Given("start") THEN req["start"].granted ELSE NoToken
    BY <1>1, <1>7 DEF StartAnswered, Given
  <2>3. phase' = "starting" => loopToken' = NoToken
    BY <1>1, <1>7 DEF StartAnswered, RgTypeOK
  <2>4. RgAskers'
    BY <1>1, <1>2, <1>3, <2>1, <2>3 DEF RgAskers, Quiet
  <2>5. RgCalm(t) => RgCalm(t)'
    BY <1>1, <1>4, <2>1, <2>2
       DEF RgCalm, RgLoopHas, Given, Answered, Quiet, Pending, listing
  <2>6. RgLoopDue' <= RgLoopDue /\ RgEnding' = RgEnding
    BY <1>1, <1>5, <2>1, <2>5 DEF RgDue, RgEnding
  <2>7. RgPays
    BY <1>1, <1>2, <2>6, RgCallsKept, RgDues DEF RgPays, RgTypeOK, listing
  <2> QED
    BY <2>4, <2>7, RgTally DEF RgStormInv
<1> QED
  BY <1>6, <1>7

(* A process that ends takes with it whatever was due, but for the heal of *)
(* a loop that has no token.                                               *)
LEMMA RgRestartStorms ==
  ASSUME RgStorming, Restart, Running, Spend PROVE RgStormInv'
<1> USE RgNames, RgNoRequestIs DEF RgStorming
<1>1. /\ \A c \in Callers : req'[c] = NoRequest /\ Quiet(c)'
      /\ loopToken' = NoToken /\ UNCHANGED <<dirToken, accepted>>
  BY DEF Restart, listing, Quiet
<1>2. RgAskers'
  BY <1>1 DEF RgAskers, Quiet
<1>3. RgCallDue("relay")' = 0 /\ RgCallDue("tunnel")' = 0 /\ RgStopDue' = 0
  BY <1>1 DEF RgCallDue, RgStopDue, Pending
<1>4. RgEnding' = RgEnding
  BY DEF Restart, Running, RgEnding
<1>5. RgLoopDue' \in {0, 1}
  <2>1. \E t \in Ticks : RgLone(t)'
    BY <1>1, RegistrationAssumption DEF RgLone
  <2> QED
    BY <2>1 DEF RgLoopDue
<1>6. RgPays
  BY <1>1, <1>3, <1>4, <1>5, RgDues DEF Spend, RgPays, RgTypeOK
<1> QED
  BY <1>2, <1>6, RgTally DEF RgStormInv

(* The steps of a tick leave every other request alone.                    *)
LEMMA RgTickAlone ==
  ASSUME NEW t \in Ticks, RgStorming, Running,
         \A d \in Callers : d # t => req'[d] = req[d]
  PROVE  /\ ~ Given("start") /\ ~ Given("start")'
         /\ RgLone(t)' <=> RgLone(t)
         /\ RgCallDue("relay")' = RgCallDue("relay")
         /\ RgCallDue("tunnel")' = RgCallDue("tunnel")
         /\ RgStopDue' = RgStopDue
<1> USE RgNames DEF RgStorming
<1>1. req'["start"] = req["start"] /\ Quiet("start")
  BY DEF RgAskers, Running
<1>2. /\ "relay" \in Actors => req'["relay"] = req["relay"]
      /\ "tunnel" \in Actors => req'["tunnel"] = req["tunnel"]
      /\ req'["stop"] = req["stop"]
  OBVIOUS
<1>3. RgLone(t)' <=> RgLone(t)
  BY DEF RgLone, Quiet
<1> QED
  BY <1>1, <1>2, <1>3, RgCallsKept DEF Quiet, Given, Answered

LEMMA RgAskersElsewhere ==
  ASSUME NEW t \in Ticks, RgStorming, Running, Running',
         \A d \in Callers : d # t => req'[d] = req[d],
         \A d \in Ticks : d # t => held'[d] = held[d],
         req'[t].kind \in {"none", "beat", "register"},
         req'[t].kind = "beat" => held'[t] = req'[t].token
  PROVE  RgAskers'
<1> USE RgNames DEF RgStorming
<1>1. /\ req'["start"] = req["start"]
      /\ "relay" \in Actors => req'["relay"] = req["relay"]
      /\ "tunnel" \in Actors => req'["tunnel"] = req["tunnel"]
  OBVIOUS
<1> QED
  BY <1>1 DEF RgAskers, Running, Quiet

LEMMA RgAskedToken ==
  ASSUME RgTypeOK, NEW c \in Callers, NEW kind, NEW token, Send(c, kind, token)
  PROVE  req'[c].token = token /\ req'[c].kind = kind /\ req'[c].answer = "pending"
BY DEF RgTypeOK, Send, Ask, NoRequest

(* The tick returns with the token the loop was to have.                   *)
LEMMA RgReturnStorms ==
  ASSUME NEW t \in Ticks, RgStorming, Running, NEW token, Return(t, token),
         token = RgLoopHas(t), ~ Quiet(t), ~ Pending(t, "register"),
         ~ (req[t].kind = "beat" /\ req[t].answer = "unknown"),
         UNCHANGED <<phase, listing>>, budget' <= budget
  PROVE  RgStormInv'
<1> USE RgNames DEF RgStorming
<1>1. /\ \A d \in Callers : d # t => req'[d] = req[d]
      /\ \A d \in Ticks : d # t => held'[d] = held[d]
      /\ req'[t].kind = "none" /\ loopToken' = RgLoopHas(t)
  BY RgEnds DEF Return, RgOpens, RgTypeOK
<1>2. RgAskers'
  BY <1>1, RgAskersElsewhere DEF Running
<1>3. RgLoopDue' <= RgLoopDue
  <2>1. CASE RgLone(t)
    <3>1. RgLoopHas(t)' = loopToken'
      BY <1>1, RgTickAlone DEF RgLoopHas, Quiet, Given, Answered
    <3>2. RgCalm(t) => RgCalm(t)'
      BY <1>1, <3>1 DEF RgCalm, Pending, listing
    <3>3. RgDue(t)' <= RgDue(t)
      BY <3>2 DEF RgDue
    <3> QED
      BY <1>1, <2>1, <3>3, RgTickAlone, RgLoneDue
  <2>2. CASE ~ RgLone(t)
    <3>1. RgOpen' \subseteq RgOpen
      BY <1>1 DEF RgOpen, Pending
    <3> QED
      BY <2>2, <3>1, RgCrowdKept
  <2> QED
    BY <2>1, <2>2
<1>4. RgPays
  BY <1>1, <1>3, RgTickAlone, RgEndingKept, RgDues DEF RgPays, RgTypeOK, listing
<1> QED
  BY <1>2, <1>4, RgTally DEF RgStormInv

(* The tick registers for something that was spent on.                     *)
LEMMA RgReregisterStorms ==
  ASSUME NEW t \in Ticks, RgStorming, Running, Spend, NEW reason, Reregister(t, reason),
         \A d \in Ticks : d # t => held'[d] = held[d], UNCHANGED <<phase, listing>>
  PROVE  RgStormInv'
<1> USE RgNames DEF RgStorming
<1>1. /\ \A d \in Callers : d # t => req'[d] = req[d]
      /\ req'[t].kind = "register"
  <2>1. Send(t, "register", runtimeToken')
    BY DEF Reregister
  <2>2. \A d \in Callers : d # t => req'[d] = req[d]
    BY <2>1 DEF Send, RgTypeOK
  <2> QED
    BY <2>1, <2>2, RgAskedToken
<1>2. RgAskers'
  BY <1>1, RgAskersElsewhere DEF Running
<1>3. RgLoopDue' <= RgLoopDue + 3
  BY <1>1, RgTickRaises
<1>4. RgPays
  BY <1>1, <1>3, RgTickAlone, RgEndingKept, RgDues DEF Spend, RgPays, RgTypeOK, listing
<1> QED
  BY <1>2, <1>4, RgTally DEF RgStormInv

LEMMA RgProceedStorms ==
  ASSUME NEW t \in Ticks, RgStorming, Running, NEW token, Proceed(t, token),
         token = RgLoopHas(t), ~ Quiet(t), ~ Pending(t, "register"),
         ~ (req[t].kind = "beat" /\ req[t].answer = "unknown"), UNCHANGED listing
  PROVE  RgStormInv'
<1> USE RgNames DEF RgStorming
<1>1. CASE Return(t, token) /\ UNCHANGED <<process, relayToken, cliToken, budget, histories>>
  BY <1>1, RgReturnStorms DEF process, RgTypeOK
<1>2. ASSUME NEW route \in BOOLEAN, NEW draining \in BOOLEAN,
             NEW presence \in {"present", "absent", "unknown"},
             LET wrong == ~ route \/ presence = "absent"
                 n == IF wrong THEN failures + 1
                      ELSE IF presence = "present" THEN 0 ELSE failures
                 action == Classify(route, presence, n, draining)
             IN  /\ wrong \/ failures > 0
                 /\ IF wrong THEN Spend ELSE UNCHANGED budget
                 /\ \/ /\ action \in {"none", "restart_self"}
                       /\ Return(t, token)
                       /\ failures' = n
                       /\ UNCHANGED <<phase, failedStarts, endpoint, relayToken,
                                      cliToken, histories>>
                    \/ /\ action = "reregister"
                       /\ Reregister(t, "recover")
                       /\ held' = [held EXCEPT ![t] = token]
                       /\ failures' = n
                       /\ UNCHANGED <<phase, failedStarts, endpoint, relayToken,
                                      cliToken, histories>>
                    \/ action = "restart_self" /\ Restart
      PROVE  RgStormInv'
  <2> DEFINE wrong == ~ route \/ presence = "absent"
             n == IF wrong THEN failures + 1
                  ELSE IF presence = "present" THEN 0 ELSE failures
             action == Classify(route, presence, n, draining)
  <2>1. action \in {"reregister", "restart_self"} => wrong
    BY DEF Classify
  <2>2. CASE Return(t, token) /\ UNCHANGED phase
    <3>1. budget' <= budget
      BY <1>2 DEF Spend, RgTypeOK
    <3> QED
      BY <2>2, <3>1, RgReturnStorms
  <2>3. CASE /\ action = "reregister" /\ Reregister(t, "recover")
             /\ held' = [held EXCEPT ![t] = token] /\ UNCHANGED phase
    <3>1. Spend
      BY <1>2, <2>1, <2>3
    <3>2. \A d \in Ticks : d # t => held'[d] = held[d]
      BY <2>3 DEF RgTypeOK
    <3> QED
      BY <2>3, <3>1, <3>2, RgReregisterStorms
  <2>4. CASE action = "restart_self" /\ Restart
    BY <1>2, <2>1, <2>4, RgRestartStorms
  <2> QED
    BY <1>2, <2>2, <2>3, <2>4
<1> QED
  BY <1>1, <1>2 DEF Proceed

LEMMA RgTickStorms ==
  ASSUME NEW t \in Ticks, RgStorming,
         \/ StartTick(t) \/ BeatAccepted(t) \/ BeatRejected(t)
         \/ BeatFailed(t) \/ TickRegistered(t)
  PROVE  RgStormInv'
<1> USE RgNames DEF RgStorming
<1>1. Running
  BY DEF StartTick, BeatAccepted, BeatRejected, BeatFailed, TickRegistered
<1>2. ~ Given("start")
  BY <1>1 DEF RgAskers, Running, Quiet, Given, Answered
<1>3. CASE StartTick(t)
  <2>1. /\ \A d \in Callers : d # t => req'[d] = req[d]
        /\ \A d \in Ticks : d # t => held'[d] = held[d]
        /\ req'[t].kind = "beat" /\ req'[t].token = loopToken /\ req'[t].answer = "pending"
        /\ held'[t] = loopToken /\ Quiet(t)
        /\ UNCHANGED <<process, tokens, listing>>
    <3>1. \A d \in Callers : d # t => req'[d] = req[d]
      BY <1>3 DEF StartTick, Send, RgTypeOK
    <3> QED
      BY <1>3, <3>1, RgAskedToken DEF StartTick, RgTypeOK
  <2>2. RgAskers'
    BY <1>1, <2>1, RgAskersElsewhere DEF Running, process
  <2>3. ASSUME RgLone(t) PROVE RgPays
    <3>1. RgLoopHas(t) = loopToken /\ RgLoopHas(t)' = loopToken
      BY <1>1, <2>1, RgTickAlone DEF RgLoopHas, Quiet, Given, Answered, tokens
    <3>2. RgCalm(t) => RgCalm(t)'
      BY <2>1, <3>1 DEF RgCalm, Pending, listing
    <3>3. RgDue(t)' <= RgDue(t) /\ budget' = budget
      BY <1>3, <2>3, <3>2 DEF RgDue, StartTick, RgLone
    <3>4. RgLoopDue' <= RgLoopDue
      BY <1>1, <2>1, <2>3, <3>3, RgTickAlone, RgLoneDue
    <3> QED
      BY <1>1, <2>1, <3>3, <3>4, RgTickAlone, RgEndingKept, RgDues
         DEF RgPays, RgTypeOK, listing, process
  <2>4. ASSUME ~ RgLone(t) PROVE RgPays
    <3>1. budget' = budget - 1
      BY <1>3, <2>4 DEF StartTick, RgLone, Spend
    <3>2. RgLoopDue' <= RgLoopDue + 3
      BY <2>1, RgTickRaises
    <3> QED
      BY <1>1, <2>1, <3>1, <3>2, RgTickAlone, RgEndingKept, RgDues
         DEF RgPays, RgTypeOK, listing, process
  <2>5. RgPays
    BY <2>3, <2>4
  <2> QED
    BY <2>2, <2>5, RgTally DEF RgStormInv
<1>4. CASE BeatAccepted(t)
  <2>1. /\ ~ Pending(t, "register") /\ req[t].answer = "ok" /\ UNCHANGED listing
        /\ ~ Quiet(t) /\ RgLoopHas(t) = held[t]
    BY <1>2, <1>4 DEF BeatAccepted, Answered, Granted, Pending, RgLoopHas, Given, Quiet
  <2>2. CASE Proceed(t, held[t])
    BY <1>1, <2>1, <2>2, RgProceedStorms
  <2>3. CASE /\ Spend /\ Reregister(t, "drift")
             /\ UNCHANGED <<process, held, relayToken, cliToken, histories>>
    BY <1>1, <2>1, <2>3, RgReregisterStorms DEF process
  <2> QED
    BY <1>4, <2>2, <2>3 DEF BeatAccepted
<1>5. CASE BeatRejected(t)
  <2>1. /\ Send(t, "register", runtimeToken') /\ loopToken' = loopToken /\ held' = held
        /\ UNCHANGED <<process, listing, budget>>
        /\ req[t].kind = "beat" /\ req[t].answer = "unknown" /\ ~ Quiet(t)
    BY <1>5 DEF BeatRejected, Reregister, Answered, Quiet
  <2>2. /\ \A d \in Callers : d # t => req'[d] = req[d]
        /\ req'[t].kind = "register"
    <3>1. \A d \in Callers : d # t => req'[d] = req[d]
      BY <2>1 DEF Send, RgTypeOK
    <3> QED
      BY <2>1, <3>1, RgAskedToken
  <2>3. RgAskers'
    BY <1>1, <2>1, <2>2, RgAskersElsewhere DEF Running, process
  <2>4. RgLoopDue' <= RgLoopDue
    <3>1. CASE RgLone(t)
      <4>1. RgDue(t) = 1 /\ RgDue(t)' \in {0, 1}
        BY <2>1 DEF RgDue, RgCalm
      <4> QED
        BY <1>1, <2>2, <3>1, <4>1, RgTickAlone, RgLoneDue
    <3>2. CASE ~ RgLone(t)
      <4>1. RgOpen' \subseteq RgOpen
        BY <2>1, <2>2 DEF RgOpen, Pending
      <4> QED
        BY <2>1, <3>2, <4>1, RgCrowdKept
    <3> QED
      BY <3>1, <3>2
  <2>5. RgPays
    BY <1>1, <2>1, <2>2, <2>4, RgTickAlone, RgEndingKept, RgDues
       DEF RgPays, RgTypeOK, listing, process
  <2> QED
    BY <2>3, <2>5, RgTally DEF RgStormInv
<1>6. CASE BeatFailed(t)
  <2>1. /\ Return(t, held[t]) /\ UNCHANGED <<process, listing, budget>> /\ ~ Quiet(t)
        /\ RgLoopHas(t) = held[t] /\ ~ Pending(t, "register") /\ req[t].answer = "failed"
    BY <1>2, <1>6 DEF BeatFailed, Answered, Granted, Pending, RgLoopHas, Given, Quiet
  <2> QED
    BY <1>1, <2>1, RgReturnStorms DEF process, RgTypeOK
<1>7. CASE TickRegistered(t)
  <2> DEFINE token == IF Granted(t) THEN req[t].granted ELSE held[t]
  <2>1. /\ token = RgLoopHas(t) /\ ~ Pending(t, "register") /\ req[t].kind = "register"
        /\ UNCHANGED listing /\ ~ Quiet(t)
    BY <1>2, <1>7 DEF TickRegistered, Answered, Granted, Pending, RgLoopHas, Given, Quiet
  <2> HIDE DEF token
  <2>2. CASE why[t] = "drift" /\ Proceed(t, token)
    BY <1>1, <2>1, <2>2, RgProceedStorms
  <2>3. CASE Return(t, token) /\ UNCHANGED <<phase, budget>>
    BY <1>1, <2>1, <2>3, RgReturnStorms DEF RgTypeOK
  <2> QED
    BY <1>7, <2>2, <2>3 DEF TickRegistered, token
<1> QED
  BY <1>3, <1>4, <1>5, <1>6, <1>7

LEMMA RgCallbackStorms ==
  ASSUME RgStorming,
         \/ RelayBinds \/ RelayDeregistered \/ RelayRegistered
         \/ TunnelMoves \/ TunnelRegistered
  PROVE  RgStormInv'
<1> USE RgNames, RegistrationAssumption DEF RgStorming
<1>1. /\ Running /\ UNCHANGED <<phase, loopToken, held, why, listing>>
      /\ runtimeToken \in RgTokens
  BY DEF RelayBinds, RelayDeregistered, RelayRegistered, TunnelMoves, TunnelRegistered,
         process, tokens, RgTypeOK, RgTokens
<1>2. PICK c \in Actors : /\ \A d \in Callers \ {c} : req'[d] = req[d]
                          /\ c = "relay" <=> RelayBinds \/ RelayDeregistered \/ RelayRegistered
  <2>1. CASE RelayBinds \/ RelayDeregistered \/ RelayRegistered
    BY <2>1 DEF RelayBinds, RelayDeregistered, RelayRegistered, SendRegister, Send, Done, RgTypeOK
  <2>2. CASE ~ (RelayBinds \/ RelayDeregistered \/ RelayRegistered)
    BY <2>2 DEF TunnelMoves, TunnelRegistered, Send, Done, RgTypeOK
  <2> QED
    BY <2>1, <2>2
<1>3. /\ req'["start"] = req["start"] /\ req'["stop"] = req["stop"]
      /\ \A t \in Ticks : req'[t] = req[t]
      /\ c # "relay" => ("relay" \in Actors => req'["relay"] = req["relay"])
      /\ c # "tunnel" => ("tunnel" \in Actors => req'["tunnel"] = req["tunnel"])
  BY <1>2
<1>4. RgLoopDue' = RgLoopDue /\ RgStopDue' = RgStopDue /\ RgEnding' = RgEnding
  BY <1>1, <1>3, RgLoopKept, RgCallsKept, RgEndingKept DEF listing
<1>5. ASSUME req'[c].kind \in {"none", "register"} \/ (c = "relay" /\ req'[c].kind = "deregister")
      PROVE  RgAskers'
  BY <1>1, <1>2, <1>3, <1>5 DEF RgAskers, Running, Quiet
<1>6. CASE RelayBinds
  <2>1. c = "relay" /\ req'[c].kind \in {"register", "deregister"} /\ Quiet(c)
    <3>1. PICK kind \in {"register", "deregister"}, token \in RgTokens :
            req' = [req EXCEPT !["relay"] = [Ask(kind, token) EXCEPT !.endpoint = endpoint']]
      BY <1>1, <1>6 DEF RelayBinds, RgTypeOK, RgTokens
    <3>2. req'["relay"].kind = kind
      BY <3>1, <1>2, <1>6 DEF RgTypeOK, Ask, NoRequest
    <3> QED
      BY <1>2, <1>6, <3>2 DEF RelayBinds
  <2>2. RgCallDue("relay") = 0 /\ RgCallDue("relay")' \in 0 .. 3
    BY <2>1, RgDues DEF RgCallDue, Quiet, Pending
  <2>3. RgCallDue("tunnel")' = RgCallDue("tunnel")
    BY <1>3, <2>1, RgCallsKept
  <2>4. RgPays
    BY <1>1, <1>4, <1>6, <2>2, <2>3, RgDues DEF RelayBinds, Spend, RgPays, RgTypeOK, listing
  <2> QED
    BY <1>5, <2>1, <2>4, RgTally DEF RgStormInv
<1>7. CASE RelayDeregistered \/ RelayRegistered
  <2>1. /\ c = "relay" /\ budget' = budget
        /\ \/ req[c].kind = "deregister" /\ ~ Pending(c, "deregister")
              /\ req'[c].kind = "register"
           \/ req'[c].kind = "none"
    BY <1>1, <1>2, <1>7, RgEnds, RgSends
       DEF RelayDeregistered, RelayRegistered, Answered, Pending, SendRegister
  <2>2. RgCallDue("relay")' <= RgCallDue("relay")
    BY <2>1 DEF RgCallDue, Pending
  <2>3. RgCallDue("tunnel")' = RgCallDue("tunnel")
    BY <1>3, <2>1, RgCallsKept
  <2>4. RgPays
    BY <1>1, <1>4, <2>1, <2>2, <2>3, RgDues DEF RgPays, RgTypeOK, listing
  <2> QED
    BY <1>5, <2>1, <2>4, RgTally DEF RgStormInv
<1>8. CASE ~ (RelayBinds \/ RelayDeregistered \/ RelayRegistered)
  <2>1. /\ c = "tunnel" /\ req'[c].kind \in {"none", "register"}
        /\ \/ budget' = budget - 1 /\ Quiet(c)
           \/ budget' = budget /\ req'[c].kind = "none"
    <3>1. CASE TunnelMoves
      <4>1. req'["tunnel"].kind = "register"
        BY <1>1, <3>1 DEF TunnelMoves, RgTypeOK, Ask, NoRequest
      <4> QED
        BY <1>2, <1>8, <3>1, <4>1 DEF TunnelMoves, Spend
    <3>2. CASE TunnelRegistered
      BY <1>2, <1>8, <3>2, RgEnds DEF TunnelRegistered
    <3> QED
      BY <1>8, <3>1, <3>2
  <2>2. RgCallDue("relay")' = RgCallDue("relay")
    BY <1>3, <2>1, RgCallsKept
  <2>3. RgCallDue("tunnel")' + 3 * budget' <= RgCallDue("tunnel") + 3 * budget
    <3>1. CASE budget' = budget - 1 /\ Quiet(c)
      BY <3>1, RgDues DEF RgTypeOK
    <3>2. CASE budget' = budget /\ req'[c].kind = "none"
      <4>1. RgCallDue("tunnel")' = 0
        BY <2>1, <3>2 DEF RgCallDue, Pending
      <4> QED
        BY <3>2, <4>1, RgDues DEF RgTypeOK
    <3> QED
      BY <2>1, <3>1, <3>2
  <2>4. RgPays
    BY <1>1, <1>4, <2>2, <2>3, RgDues DEF RgPays, RgTypeOK, listing
  <2> QED
    BY <1>5, <2>1, <2>4, RgTally DEF RgStormInv
<1> QED
  BY <1>6, <1>7, <1>8

LEMMA RgSettles ==
  ASSUME RgTypeOK, RgTypeOK',
         accepted' + RgLoopDue' <= accepted + RgLoopDue,
         RgStopDue' + RgEnding <= RgStopDue + RgEnding',
         RgCallDue("relay")' = RgCallDue("relay"),
         RgCallDue("tunnel")' = RgCallDue("tunnel"), budget' = budget
  PROVE  RgPays
<1> DEFINE a == accepted            aa == accepted'
           l == RgLoopDue           ll == RgLoopDue'
           s == RgStopDue           ss == RgStopDue'
           e == RgEnding            ee == RgEnding'
           r == RgCallDue("relay")  t == RgCallDue("tunnel")  b == budget
<1>1. /\ a \in Nat /\ aa \in Nat /\ l \in Nat /\ ll \in Nat /\ s \in Nat /\ ss \in Nat
      /\ e \in Nat /\ ee \in Nat /\ r \in Nat /\ t \in Nat /\ b \in Nat
  BY RgDues DEF RgTypeOK
<1>2. aa + ll <= a + l /\ ss + e <= s + ee
  OBVIOUS
<1>3. SUFFICES aa + ll + r + t + ss + 3 * b + e <= a + l + r + t + s + 3 * b + ee
  BY DEF RgPays
<1> HIDE DEF a, aa, l, ll, s, ss, e, ee, r, t, b
<1> QED
  BY ONLY <1>1, <1>2

LEMMA RgStopStorms ==
  ASSUME RgStorming, Signal \/ Stopped PROVE RgStormInv'
<1> USE RgNames DEF RgStorming
<1>1. /\ Running /\ phase' \in {"stopping", "exited"}
      /\ UNCHANGED <<loopToken, held, why, listing, budget>>
      /\ \A d \in Callers \ {"stop"} : req'[d] = req[d]
  BY DEF Signal, Stopped, Running, tokens, Send, Done, RgTypeOK
<1>2. /\ req'["start"] = req["start"] /\ \A t \in Ticks : req'[t] = req[t]
      /\ "relay" \in Actors => req'["relay"] = req["relay"]
      /\ "tunnel" \in Actors => req'["tunnel"] = req["tunnel"]
  BY <1>1
<1>3. RgAskers'
  BY <1>1, <1>2 DEF RgAskers, Running, Quiet
<1>4. /\ RgLoopDue' = RgLoopDue
      /\ RgCallDue("relay")' = RgCallDue("relay")
      /\ RgCallDue("tunnel")' = RgCallDue("tunnel")
  BY <1>1, <1>2, RgLoopKept, RgCallsKept DEF listing
<1>5. RgStopDue' + RgEnding <= RgStopDue + RgEnding'
  <2>1. RgStopDue \in Nat /\ RgStopDue' \in Nat /\ RgStopDue' <= 1
    <3>1. RgStopDue \in {0, 1} /\ RgStopDue' \in {0, 1}
      BY RgDues
    <3> QED
      BY <3>1
  <2>2. CASE Signal
    <3>1. RgEnding = 0 /\ RgEnding' = 1
      BY <1>1, <2>2 DEF Signal, RgEnding
    <3>2. \A a, c \in Nat : c <= 1 => c + 0 <= a + 1
      OBVIOUS
    <3> QED
      BY ONLY <2>1, <3>1, <3>2
  <2>3. CASE Stopped
    <3>1. RgStopDue' = 0
      BY <2>3, RgEnds DEF Stopped, RgStopDue, Pending
    <3>2. RgEnding' = 1 /\ RgEnding \in Nat /\ RgEnding <= 1
      BY <1>1 DEF RgEnding
    <3> QED
      BY <2>1, <3>1, <3>2
  <2> QED
    BY <2>2, <2>3
<1>6. accepted' = accepted /\ budget' = budget
  BY <1>1 DEF listing
<1>7. accepted' + RgLoopDue' <= accepted + RgLoopDue
  <2>1. accepted + RgLoopDue \in Nat
    BY RgDues DEF RgTypeOK
  <2> QED
    BY <1>4, <1>6, <2>1
<1>8. RgPays
  BY <1>4, <1>5, <1>6, <1>7, RgSettles
<1> QED
  BY <1>3, <1>8, RgTally DEF RgStormInv

(* A grant is what was due.                                                *)
LEMMA RgGrantStorms ==
  ASSUME RgStorming, NEW c \in Callers, DirectoryRegisters(c)
  PROVE  RgStormInv'
<1> USE RgNames DEF RgStorming
<1>1. /\ Pending(c, "register") /\ Fresh \in Tokens /\ Fresh # NoToken /\ c # "stop"
  BY RgFreshIs, RegistrationAssumption DEF DirectoryRegisters, RgStarts, Pending
<1>2. /\ \A d \in Callers \ {c} : req'[d] = req[d]
      /\ req'[c].kind = "register" /\ req'[c].answer = "ok" /\ req'[c].granted = Fresh
      /\ req'[c].token = req[c].token
  BY <1>1 DEF DirectoryRegisters, Pending, RgTypeOK, DirectoryRequest
<1>3. /\ dirToken' = Fresh /\ accepted' = accepted + 1
      /\ UNCHANGED <<phase, loopToken, held, why, budget>>
  BY DEF DirectoryRegisters, process, tokens
<1>4. RgAskers'
  BY <1>1, <1>2, <1>3 DEF RgAskers, Quiet, Pending
<1>5. RgStopDue' = RgStopDue /\ RgEnding' = RgEnding
  BY <1>1, <1>2, <1>3, RgCallsKept, RgEndingKept
<1>6. CASE c \in Actors
  <2>1. RgCallDue(c) = 2 /\ RgCallDue(c)' = 0
    BY <1>1, <1>2, <1>6 DEF RgCallDue, Pending
  <2>2. \A d \in {"relay", "tunnel"} : d # c => RgCallDue(d)' = RgCallDue(d)
    BY <1>2, RgCallsKept
  <2>3. RgCallDue("relay")' + RgCallDue("tunnel")' + 2 =
          RgCallDue("relay") + RgCallDue("tunnel")
    BY <1>6, <2>1, <2>2, RgDues
  <2>4. RgLoopDue' <= RgLoopDue + 1
    BY <1>2, <1>6, RgLoopRaised
  <2>5. RgPays
    BY <1>3, <1>5, <2>3, <2>4, RgDues DEF RgPays, RgTypeOK
  <2> QED
    BY <1>4, <2>5, RgTally DEF RgStormInv
<1>7. CASE c \notin Actors
  <2>1. /\ RgCallDue("relay")' = RgCallDue("relay")
        /\ RgCallDue("tunnel")' = RgCallDue("tunnel")
    BY <1>2, <1>7, RgCallsKept
  <2>2. ASSUME c = "start" PROVE RgLoopDue' + 1 <= RgLoopDue
    <3>1. phase = "starting" /\ loopToken = NoToken /\ \A d \in Ticks : Quiet(d)
      BY <1>1, <2>2 DEF RgAskers, Pending, Quiet
    <3>2. PICK t \in Ticks : RgLone(t) /\ RgLone(t)' /\ Quiet(t) /\ req'[t] = req[t]
      <4>1. \A t \in Ticks : RgLone(t) /\ RgLone(t)' /\ Quiet(t) /\ req'[t] = req[t]
        BY <1>2, <2>2, <3>1 DEF RgLone, Quiet
      <4> QED
        BY <4>1, RegistrationAssumption
    <3>3. RgDue(t) = 1
      BY <1>1, <2>2, <3>1, <3>2
         DEF RgDue, RgCalm, RgLoopHas, Given, Answered, Quiet, Pending
    <3>4. RgDue(t)' = 0
      BY <1>1, <1>2, <1>3, <2>2, <3>2
         DEF RgDue, RgCalm, RgLoopHas, Given, Answered, Granted, Quiet, Pending
    <3> QED
      BY <3>2, <3>3, <3>4, RgLoneDue
  <2>3. ASSUME c \in Ticks PROVE RgLoopDue' + 1 <= RgLoopDue
    <3>1. CASE RgLone(c)
      <4>1. /\ req'["start"] = req["start"] /\ Quiet("start") /\ RgLone(c)'
        BY <1>1, <1>2, <2>3, <3>1 DEF RgAskers, Pending, Quiet, RgLone
      <4>2. RgDue(c) = 1
        BY <1>1 DEF RgDue, RgCalm
      <4>3. RgDue(c)' = 0
        BY <1>1, <1>2, <1>3, <4>1
           DEF RgDue, RgCalm, RgLoopHas, Given, Answered, Granted, Quiet, Pending
      <4> QED
        BY <2>3, <3>1, <4>1, <4>2, <4>3, RgLoneDue
    <3>2. CASE ~ RgLone(c)
      <4>1. c \in RgOpen /\ RgOpen' \subseteq RgOpen \ {c} /\ ~ Quiet(c)
        BY <1>1, <1>2, <2>3 DEF RgOpen, Pending, Quiet
      <4> QED
        BY <2>3, <3>2, <4>1, RgCrowdGrants
    <3> QED
      BY <3>1, <3>2
  <2>4. RgLoopDue' + 1 <= RgLoopDue
    <3>1. c = "start" \/ c \in Ticks
      BY <1>1, <1>7
    <3>2. CASE c = "start"
      BY ONLY <2>2, <3>2
    <3>3. CASE c \in Ticks
      BY ONLY <2>3, <3>3
    <3> QED
      BY ONLY <3>1, <3>2, <3>3
  <2>5. accepted' + RgLoopDue' <= accepted + RgLoopDue
    <3> DEFINE a == accepted  l == RgLoopDue  ll == RgLoopDue'
    <3>1. a \in Nat /\ l \in Nat /\ ll \in Nat /\ ll + 1 <= l
      BY <2>4, RgDues DEF RgTypeOK
    <3>2. SUFFICES (a + 1) + ll <= a + l
      BY <1>3
    <3> HIDE DEF a, l, ll
    <3> QED
      BY ONLY <3>1
  <2>6. RgStopDue' + RgEnding <= RgStopDue + RgEnding'
    <3>1. RgStopDue + RgEnding \in Nat
      BY RgDues
    <3> QED
      BY <1>5, <3>1
  <2>7. RgPays
    BY <1>3, <2>1, <2>5, <2>6, RgSettles
  <2> QED
    BY <1>4, <2>7, RgTally DEF RgStormInv
<1> QED
  BY <1>6, <1>7

(* An answer of the directory or its loss takes away more than it adds.    *)
LEMMA RgAnswerStorms ==
  ASSUME RgStorming, NEW c \in Callers,
         DirectoryBeat(c) \/ RequestRefused(c) \/ DirectoryDeregisters(c) \/ RequestFails(c)
  PROVE  RgStormInv'
<1> USE RgNames DEF RgStorming
<1>1. PICK a \in {"ok", "unknown", "failed"} :
        /\ Reply(c, a)
        /\ a = "unknown" => DirectoryBeat(c)
  BY DEF DirectoryBeat, RequestRefused, DirectoryDeregisters, RequestFails
<1>2. /\ \A d \in Callers \ {c} : req'[d] = req[d]
      /\ req'[c] = [req[c] EXCEPT !.answer = a] /\ req[c] \in DirectoryRequest
  BY <1>1 DEF Reply, RgTypeOK
<1>3. /\ req'[c].kind = req[c].kind /\ req'[c].answer = a
      /\ req'[c].token = req[c].token /\ req'[c].granted = req[c].granted
  BY <1>2 DEF DirectoryRequest
<1>4. UNCHANGED <<phase, loopToken, held, why, accepted>> /\ RgEnding' = RgEnding
  BY RgEndingKept
     DEF DirectoryBeat, RequestRefused, DirectoryDeregisters, RequestFails,
         process, tokens, listing
<1>5. RgAskers'
  <2>1. \A d \in Callers : req'[d].kind = req[d].kind /\ req'[d].token = req[d].token
    BY <1>2, <1>3
  <2>2. /\ req'["start"].kind = req["start"].kind
        /\ \A t \in Ticks : req'[t].kind = req[t].kind /\ req'[t].token = req[t].token
        /\ "relay" \in Actors => req'["relay"].kind = req["relay"].kind
        /\ "tunnel" \in Actors => req'["tunnel"].kind = req["tunnel"].kind
    BY <2>1
  <2> QED
    BY <1>4, <2>1, <2>2 DEF RgAskers, Quiet
<1>6. /\ \A d \in {"relay", "tunnel"} : RgCallDue(d)' <= RgCallDue(d)
      /\ RgStopDue' <= RgStopDue
  <2>1. c # "relay" => RgCallDue("relay")' = RgCallDue("relay")
    BY <1>2, RgCallsKept
  <2>2. c # "tunnel" => RgCallDue("tunnel")' = RgCallDue("tunnel")
    BY <1>2, RgCallsKept
  <2>3. c # "stop" => RgStopDue' = RgStopDue
    BY <1>2, RgCallsKept
  <2>4. RgCallDue(c)' <= RgCallDue(c)
    BY <1>3 DEF RgCallDue, Pending
  <2>5. c = "stop" => RgStopDue' <= RgStopDue
    BY <1>3 DEF RgStopDue, Pending
  <2> QED
    BY <2>1, <2>2, <2>3, <2>4, <2>5, RgDues
<1>7. RgLone(c)' <=> RgLone(c)
  BY <1>2 DEF RgLone, Quiet
<1>8. CASE RequestFails(c)
  <2>1. budget' = budget - 1
    BY <1>8 DEF RequestFails, Spend
  <2>2. RgLoopDue' <= RgLoopDue + 3
    <3>1. CASE c \in Ticks
      BY <1>2, <3>1, RgTickRaises
    <3>2. CASE c \notin Ticks
      <4>1. RgLoopDue' <= RgLoopDue + 1
        BY <1>2, <3>2, RgLoopRaised
      <4> QED
        BY <4>1, RgDues
    <3> QED
      BY <3>1, <3>2
  <2>3. RgPays
    BY <1>4, <1>6, <2>1, <2>2, RgDues DEF RgPays, RgTypeOK
  <2> QED
    BY <1>5, <2>3, RgTally DEF RgStormInv
<1>9. CASE DirectoryBeat(c)
  <2>1. /\ c \in Ticks /\ req[c].kind = "beat" /\ req[c].answer = "pending"
        /\ UNCHANGED <<dirToken, budget>> /\ ~ Quiet(c)
        /\ req'[c].answer = "unknown" => req[c].token # dirToken \/ dirToken = NoToken
    <3>1. c \in Ticks /\ req[c].kind = "beat" /\ req[c].answer = "pending"
      BY <1>9 DEF DirectoryBeat, Pending, RgAskers, RgStarts
    <3> QED
      BY <1>2, <1>9, <3>1 DEF DirectoryBeat, listing, Reply, RgTypeOK, DirectoryRequest, Quiet
  <2>2. ASSUME RgLone(c) PROVE RgLoopDue' <= RgLoopDue
    <3>1. /\ RgCalm(c) => req[c].token = dirToken /\ dirToken # NoToken /\ ~ Given("start")
      BY <2>1, <2>2 DEF RgCalm, RgLoopHas, RgAskers, Quiet, Given, Answered
    <3>2. req'["start"] = req["start"] /\ ~ Given("start")
      BY <1>2, <2>1 DEF RgAskers, Quiet, Given, Answered
    <3>3. RgLoopHas(c) = held[c] /\ RgLoopHas(c)' = held[c]
      BY <1>3, <1>4, <2>1, <3>2 DEF RgLoopHas, Quiet, Given, Answered, Granted
    <3>4. RgCalm(c) => RgCalm(c)'
      BY <1>3, <2>1, <3>1, <3>3 DEF RgCalm, Pending
    <3>5. RgDue(c)' <= RgDue(c)
      BY <3>4 DEF RgDue
    <3> QED
      BY <1>7, <2>1, <2>2, <3>5, RgLoneDue
  <2>3. ASSUME ~ RgLone(c) PROVE RgLoopDue' <= RgLoopDue
    <3>1. RgOpen' \subseteq RgOpen
      BY <1>2, <1>3, <2>1 DEF RgOpen, Pending
    <3> QED
      BY <2>1, <2>3, <3>1, RgCrowdKept
  <2>4. RgPays
    BY <1>4, <1>6, <2>1, <2>2, <2>3, RgDues DEF RgPays, RgTypeOK
  <2> QED
    BY <1>5, <2>4, RgTally DEF RgStormInv
<1>10. CASE RequestRefused(c)
  <2>1. Pending(c, "register") /\ UNCHANGED <<dirToken, budget>> /\ ~ Quiet(c)
    BY <1>10 DEF RequestRefused, listing, Pending, Quiet
  <2>2. ASSUME c \in Ticks PROVE RgLoopDue' <= RgLoopDue
    <3>1. CASE RgLone(c)
      <4>1. RgDue(c) = 1 /\ RgDue(c)' \in {0, 1}
        BY <2>1 DEF RgDue, RgCalm
      <4> QED
        BY <1>7, <2>2, <3>1, <4>1, RgLoneDue
    <3>2. CASE ~ RgLone(c)
      <4>1. RgOpen' \subseteq RgOpen
        BY <1>2, <1>3, <2>1 DEF RgOpen, Pending
      <4> QED
        BY <2>1, <2>2, <3>2, <4>1, RgCrowdKept
    <3> QED
      BY <3>1, <3>2
  <2>3. ASSUME c = "start" PROVE RgLoopDue' <= RgLoopDue
    <3>1. phase = "starting" /\ loopToken = NoToken /\ \A d \in Ticks : Quiet(d)
      BY <2>1, <2>3 DEF RgAskers, Pending, Quiet
    <3>2. PICK t \in Ticks : RgLone(t) /\ RgLone(t)' /\ Quiet(t)
      <4>1. \A t \in Ticks : RgLone(t) /\ RgLone(t)' /\ Quiet(t)
        BY <1>2, <2>3, <3>1 DEF RgLone, Quiet
      <4> QED
        BY <4>1, RegistrationAssumption
    <3>3. RgDue(t) = 1 /\ RgDue(t)' \in {0, 1}
      BY <2>1, <2>3, <3>1, <3>2
         DEF RgDue, RgCalm, RgLoopHas, Given, Answered, Quiet, Pending
    <3> QED
      BY <3>2, <3>3, RgLoneDue
  <2>4. ASSUME c \notin Ticks \cup {"start"} PROVE RgLoopDue' <= RgLoopDue
    <3>1. RgLoopDue' = RgLoopDue
      BY <1>2, <1>4, <2>1, <2>4, RgLoopKept
    <3> QED
      BY <3>1, RgDues
  <2>5. RgLoopDue' <= RgLoopDue
    BY <2>2, <2>3, <2>4
  <2>6. RgPays
    BY <1>4, <1>6, <2>1, <2>5, RgDues DEF RgPays, RgTypeOK
  <2> QED
    BY <1>5, <2>6, RgTally DEF RgStormInv
<1>11. CASE DirectoryDeregisters(c)
  <2>1. /\ Pending(c, "deregister") /\ budget' = budget
        /\ c = "stop" \/ (c = "relay" /\ c \in Actors)
    BY <1>11 DEF DirectoryDeregisters, Pending, RgAskers
  <2>2. RgCallDue("relay")' + RgStopDue' + 1 <= RgCallDue("relay") + RgStopDue
    <3>1. CASE c = "relay"
      <4>1. RgCallDue("relay") = 3 /\ RgCallDue("relay")' = 2
        BY <1>1, <1>3, <2>1, <3>1 DEF RgCallDue, Pending
      <4> QED
        BY <1>6, <4>1, RgDues
    <3>2. CASE c = "stop"
      <4>1. RgStopDue = 1 /\ RgStopDue' = 0
        BY <1>1, <1>3, <2>1, <3>2 DEF RgStopDue, Pending
      <4> QED
        BY <1>6, <4>1, RgDues
    <3> QED
      BY <2>1, <3>1, <3>2
  <2>3. RgLoopDue' <= RgLoopDue + 1
    BY <1>2, <2>1, RgLoopRaised
  <2>4. RgPays
    BY <1>4, <1>6, <2>1, <2>2, <2>3, RgDues DEF RgPays, RgTypeOK
  <2> QED
    BY <1>5, <2>4, RgTally DEF RgStormInv
<1> QED
  BY <1>8, <1>9, <1>10, <1>11

(* The directory forgets at a cost, or a node whose token nobody uses.     *)
LEMMA RgForgetStorms ==
  ASSUME RgStorming, Forget \/ Expire PROVE RgStormInv'
<1> USE RgNames DEF RgStorming
<1>1. /\ UNCHANGED <<phase, loopToken, held, why, req, accepted>>
      /\ Forget => budget' = budget - 1
      /\ Expire => budget' = budget
  BY DEF Forget, Expire, process, tokens, Spend
<1>2. RgAskers'
  BY <1>1 DEF RgAskers, Quiet
<1>3. /\ RgCallDue("relay")' = RgCallDue("relay") /\ RgCallDue("tunnel")' = RgCallDue("tunnel")
      /\ RgStopDue' = RgStopDue /\ RgEnding' = RgEnding
  BY <1>1, RgCallsKept, RgEndingKept
<1>4. /\ RgLoopDue' <= RgLoopDue + 1
      /\ (\A t \in Ticks : ~ RgLone(t)) => RgLoopDue' = RgLoopDue
  BY <1>1, RgLoopRaised
<1>5. ASSUME Expire PROVE RgLoopDue' <= RgLoopDue
  <2>1. CASE \E t \in Ticks : RgLone(t)
    <3>1. PICK t \in Ticks : RgLone(t)
      BY <2>1
    <3>2. RgLoopHas(t) # dirToken
      BY <1>5 DEF Expire, RgLoopHas
    <3>3. RgDue(t) = 1 /\ RgDue(t)' \in {0, 1}
      BY <3>2 DEF RgDue, RgCalm
    <3>4. RgLone(t)'
      BY <1>1, <3>1 DEF RgLone, Quiet
    <3> QED
      BY <3>1, <3>3, <3>4, RgLoneDue
  <2>2. CASE \A t \in Ticks : ~ RgLone(t)
    BY <1>4, <2>2, RgDues
  <2> QED
    BY <2>1, <2>2
<1>6. RgPays
  BY <1>1, <1>3, <1>4, <1>5, RgDues DEF RgPays, RgTypeOK
<1> QED
  BY <1>2, <1>6, RgTally DEF RgStormInv

LEMMA RgStormStep == RgInv /\ RgStormInv /\ [RgNext]_RgVars => RgStormInv'
<1> SUFFICES ASSUME RgInv, RgStormInv, [RgNext]_RgVars PROVE RgStormInv'
  OBVIOUS
<1>1. RgStorming
  BY RgStepInv DEF RgStorming, RgInv, RgStormInv
<1>2. CASE UNCHANGED RgVars
  <2>1. UNCHANGED <<phase, loopToken, held, why, req, accepted, budget, dirToken>>
    BY <1>2 DEF RgVars, process, tokens, listing
  <2>2. RgAskers'
    BY <1>1, <2>1 DEF RgStorming, RgAskers, Quiet
  <2>3. RgPaid'
    BY <1>1, <2>1, RgLoopKept, RgCallsKept, RgEndingKept DEF RgStorming, RgPaid
  <2> QED
    BY <2>2, <2>3 DEF RgStormInv
<1>3. CASE Crash
  BY <1>1, <1>3, RgRestartStorms DEF Crash, Running
<1> QED
  BY <1>1, <1>2, <1>3, RgStartStorms, RgTickStorms, RgCallbackStorms, RgStopStorms,
     RgGrantStorms, RgAnswerStorms, RgForgetStorms DEF RgNext

LEMMA RgInvSound == RgInv /\ RgStormInv => RegistrationSound
<1> SUFFICES ASSUME RgInv, RgStormInv PROVE RegistrationSound
  OBVIOUS
<1>1. accepted \in Nat /\ budget \in Nat /\ Budget \in Nat
  BY RegistrationAssumption DEF RgInv, RgTypeOK
<1>2. NoRegistrationStorm
  BY <1>1, RgDues DEF RgStormInv, RgPaid, RgEnding, NoRegistrationStorm
<1> QED
  BY <1>2 DEF RegistrationSound, RgInv

LEMMA RgSoundly == RgInit /\ [][RgNext]_RgVars => []RegistrationSound
BY RgStormInit, RgStormStep, RgInvSound, RgInvariant, PTL

(* The node never registers over and over: whatever callbacks, shutdowns,  *)
(* losses and lapses meet, and however many heartbeat ticks overlap, each  *)
(* thing that goes wrong, an overlapping tick included, costs three        *)
(* registrations at most; and it keeps up with the directory's token       *)
(* (register, _heartbeatTick and deregister in node.ts, runServe in        *)
(* cli.ts).                                                                *)
THEOREM RgRegistersSoundly == RgSpec => []RegistrationSound
BY RgSoundly, PTL DEF RgSpec

-----------------------------------------------------------------------------
(* MCProgress.                                                             *)

(* A step of one part leaves the others alone, so that each part makes     *)
(* only steps of its own.                                                  *)
LEMMA Projects ==
  [ProgressNext]_<<part, BkVars, ListedVars, HostVars, RouteVars>> =>
    /\ [BkNext]_BkVars /\ [MbNext]_MbVars /\ [RwNext]_RwVars
    /\ [HoNext]_HoVars /\ [HpNext]_HpVars /\ [PgNext]_PgVars
    /\ [TgNext]_TgVars /\ [TwNext]_TwVars /\ [PhNext]_PhVars
<1> DEFINE Rest ==
      /\ [BkNext]_BkVars /\ [MbNext]_MbVars /\ [RwNext]_RwVars
      /\ [HoNext]_HoVars /\ [HpNext]_HpVars /\ [PgNext]_PgVars
      /\ [TgNext]_TgVars /\ [TwNext]_TwVars /\ [PhNext]_PhVars
<1>1. UNCHANGED ListedVars => UNCHANGED <<MbVars, RwVars>>
  BY DEF ListedVars
<1>2. UNCHANGED HostVars => UNCHANGED <<HoVars, HpVars, PgVars>>
  BY DEF HostVars
<1>3. UNCHANGED RouteVars => UNCHANGED <<TgVars, TwVars, PhVars>>
  BY DEF RouteVars
<1>4. CASE UNCHANGED <<part, BkVars, ListedVars, HostVars, RouteVars>>
  BY <1>1, <1>2, <1>3, <1>4
<1>5. CASE Calls
  BY <1>1, <1>2, <1>3, <1>5 DEF Calls
<1>6. CASE Metrics
  BY <1>1, <1>2, <1>3, <1>6 DEF Metrics
<1>7. CASE Worker
  BY <1>1, <1>2, <1>3, <1>7 DEF Worker
<1>8. CASE Handoff
  BY <1>1, <1>2, <1>3, <1>8 DEF Handoff
<1>9. CASE Host
  BY <1>1, <1>2, <1>3, <1>9 DEF Host
<1>10. CASE Gossip
  BY <1>1, <1>2, <1>3, <1>10 DEF Gossip
<1>11. CASE Gate
  BY <1>1, <1>2, <1>3, <1>11 DEF Gate
<1>12. CASE Watch
  BY <1>1, <1>2, <1>3, <1>12 DEF Watch
<1>13. CASE Pinhole
  BY <1>1, <1>2, <1>3, <1>13 DEF Pinhole
<1> QED
  BY <1>4, <1>5, <1>6, <1>7, <1>8, <1>9, <1>10, <1>11, <1>12, <1>13 DEF ProgressNext

LEMMA Starts ==
  ProgressInit =>
    /\ BkInit /\ MbInit /\ RwInit /\ HoInit
    /\ HpInit /\ PgInit /\ TgInit /\ TwInit /\ PhInit
BY DEF ProgressInit

(* The announced URL is that of the tunnel that serves the node            *)
(* (tunnel.ts): the run's property, for every value of its constants.      *)
THEOREM TunnelsKeepOrder == ProgressSpec => []TunnelsInOrder
<1>1. TwInv => TunnelsInOrder
  BY TwInvAnnounces DEF TunnelsInOrder
<1> QED
  BY <1>1, Starts, Projects, TwInvariant, PTL DEF ProgressSpec

(* Whatever part runs, the states of all are as described.                 *)
THEOREM ProgressKeepsTypes == ProgressSpec => []ProgressTypes
<1>1. /\ BkInv => BkTypeOK
      /\ MbInv => MbTypeOK
      /\ RwInv => RwTypeOK
      /\ HpInv => HpTypeOK
      /\ TgInv => TgTypeOK
      /\ TwInv => TwTypeOK
      /\ PhInv => PhTypeOK
  BY DEF BkInv, MbInv, RwInv, HpInv, TgInv, TwInv, PhInv
<1>2. ProgressSpec => [](BkInv /\ MbInv /\ HoTypeOK)
  BY Starts, Projects, BkInvInit, BkInvNext, InitInv, NextInv, TypeInit, TypeNext, PTL
     DEF ProgressSpec
<1>3. ProgressSpec => [](RwInv /\ HpInv)
  BY Starts, Projects, RwInvariant, HpInvariant, PTL DEF ProgressSpec
<1>4. ProgressSpec => [](PgTypeOK /\ TgInv /\ TwInv /\ PhInv)
  BY Starts, Projects, PgTypesHold, TgInvariant, TwInvariant, PhInvariant, PTL
     DEF ProgressSpec
<1> QED
  BY <1>1, <1>2, <1>3, <1>4, PTL DEF ProgressTypes

(* The run's safety properties of single parts hold in the composition.    *)
THEOREM ProgressIsSafe ==
  ProgressSpec => [](HpOneServing /\ RwSafe /\ PhOpenWhileHeld)
BY Starts, Projects, HpInvariant, HpInvServesOne, RwInvariant, RwInvSafe,
   PhInvariant, PhInvOpen, PTL DEF ProgressSpec
=============================================================================
