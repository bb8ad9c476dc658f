------------------------- MODULE MetricsBatchProofs -------------------------
(***************************************************************************)
(* Proofs about MetricsBatch for any number of overlapping heartbeats and  *)
(* any number of tasks.                                                    *)
(***************************************************************************)
EXTENDS MetricsBatch, TLAPS

(* A batch on its way is the outstanding one or is counted already.        *)
Known(x) == x.id < nextId /\ (x.id \in seen \/ x = batch)

(* A reply that settles a batch comes from a directory that counted it.    *)
Confirmed(b) ==
  state[b] = "heard" /\ told[b] \in SettlingReplies /\ pending[b] # NoBatch
    => pending[b].id \in seen

MbInv ==
  /\ MbTypeOK
  /\ batch # NoBatch => batch.id < nextId
  /\ \A i \in seen : i < nextId
  /\ \A b \in Beats : pending[b] # NoBatch => Known(pending[b])
  /\ \A x \in orphans : Known(x)
  /\ \A b \in Beats : Confirmed(b)
  /\ NothingLostOrDoubled

(* None is no batch.                                                       *)
LEMMA NoneIsNoBatch == NoBatch \notin Batch
BY BatchAssumption DEF BatchAssumption

LEMMA InitInv == MbInit => MbInv
BY NoneIsNoBatch DEF MbInit, MbInv, MbTypeOK, Confirmed, NothingLostOrDoubled, Held,
   DirectoryReplies

(* Forming a batch moves what was unsent into it, under a new identifier.  *)
LEMMA FormBatchKeeps ==
  ASSUME MbInv, FormBatch, UNCHANGED <<counted, seen, finished>>
  PROVE  /\ unsent' \in Nat /\ batch' \in Batch \cup {NoBatch} /\ nextId' \in Nat
         /\ batch' # NoBatch => batch'.id < nextId'
         /\ nextId' >= nextId
         /\ batch # NoBatch => batch' = batch
         /\ NothingLostOrDoubled'
<1> USE NoneIsNoBatch DEF MbInv, MbTypeOK
<1>1. CASE batch = NoBatch /\ unsent > 0
  <2>1. /\ batch' = [id |-> nextId, size |-> unsent]
        /\ nextId' = nextId + 1 /\ unsent' = 0
    BY <1>1 DEF FormBatch
  <2>2. batch' \in Batch
    BY <1>1, <2>1 DEF Batch
  <2>3. nextId \notin seen
    OBVIOUS
  <2>4. Held' = Held
    BY <1>1, <2>1, <2>2, <2>3 DEF Held
  <2> QED BY <1>1, <2>1, <2>2, <2>4 DEF NothingLostOrDoubled
<1>2. CASE UNCHANGED node
  BY <1>2 DEF node, NothingLostOrDoubled, Held
<1> QED BY <1>1, <1>2 DEF FormBatch

(* Counting a known batch raises the count by what the node held for it.   *)
LEMMA CountBatchKeeps ==
  ASSUME MbInv, NEW x, x # NoBatch => x \in Batch /\ Known(x), CountBatch(x),
         UNCHANGED <<finished, node>>
  PROVE  /\ counted' \in Nat /\ seen' \subseteq Nat
         /\ seen \subseteq seen'
         /\ \A i \in seen' : i < nextId'
         /\ x # NoBatch => x.id \in seen'
         /\ NothingLostOrDoubled'
         /\ counted' = counted \/ (counted < counted' /\ counted' <= finished)
<1> USE NoneIsNoBatch DEF MbInv, MbTypeOK, node
<1>1. CASE x = NoBatch \/ x.id \in seen
  BY <1>1 DEF CountBatch, directory, NothingLostOrDoubled, Held
<1>2. CASE x # NoBatch /\ x.id \notin seen
  <2>1. /\ counted' = counted + x.size /\ seen' = seen \cup {x.id}
    BY <1>2 DEF CountBatch
  <2>2. x = batch /\ x \in Batch /\ x.id < nextId
    BY <1>2 DEF Known
  <2>3. x.id \in Nat /\ x.size \in Nat /\ x.size > 0
    BY <2>2 DEF Batch
  <2>4. Held = unsent + x.size
    BY <1>2, <2>2 DEF Held
  <2>5. Held' = unsent
    BY <1>2, <2>1, <2>2 DEF Held
  <2>6. counted' + Held' = finished'
    BY <2>1, <2>3, <2>4, <2>5 DEF NothingLostOrDoubled
  <2>7. counted < counted' /\ counted' <= finished
    BY <2>1, <2>3, <2>5, <2>6
  <2>8. counted' \in Nat /\ seen' \subseteq Nat /\ seen \subseteq seen'
    <3>1. counted \in Nat /\ seen \subseteq Nat
      OBVIOUS
    <3>2. counted' \in Nat
      BY <2>1, <2>3, <3>1
    <3> HIDE DEF MbInv, MbTypeOK, node
    <3>3. seen' \subseteq Nat
      BY <2>1, <2>3, <3>1
    <3>4. seen \subseteq seen'
      BY <2>1
    <3> QED BY <3>2, <3>3, <3>4
  <2>9. /\ \A i \in seen' : i < nextId'
        /\ x.id \in seen'
    BY <2>1, <2>2
  <2>10. NothingLostOrDoubled'
    BY <2>6 DEF NothingLostOrDoubled
  <2> QED BY <2>7, <2>8, <2>9, <2>10
<1> QED BY <1>1, <1>2

LEMMA NextInv == MbInv /\ [MbNext]_MbVars => MbInv'
<1> SUFFICES ASSUME MbInv, [MbNext]_MbVars PROVE MbInv'
  OBVIOUS
<1> USE NoneIsNoBatch DEF MbInv
<1>1. CASE TaskFinishes
  <2>1. /\ finished' = finished + 1 /\ unsent' = unsent + 1
        /\ UNCHANGED <<batch, nextId, state, pending, told, orphans,
                       counted, seen>>
    BY <1>1 DEF TaskFinishes, directory
  <2>2. MbTypeOK'
    BY <2>1 DEF MbTypeOK
  <2>3. NothingLostOrDoubled'
    <3>1. Held' = Held + 1
      BY <2>1 DEF Held, MbTypeOK, Batch
    <3>2. Held \in Nat
      BY DEF Held, MbTypeOK, Batch
    <3> QED BY <2>1, <3>1, <3>2 DEF NothingLostOrDoubled, MbTypeOK
  <2> QED BY <2>1, <2>2, <2>3 DEF Known, Confirmed
<1>2. ASSUME NEW b \in Beats, StartBeat(b) PROVE MbInv'
  <2>1. /\ state' = [state EXCEPT ![b] = "sent"]
        /\ pending' = [pending EXCEPT ![b] = batch']
        /\ FormBatch
        /\ UNCHANGED <<finished, told, orphans, counted, seen>>
    BY <1>2 DEF StartBeat, directory
  <2>2. /\ unsent' \in Nat /\ batch' \in Batch \cup {NoBatch} /\ nextId' \in Nat
        /\ batch' # NoBatch => batch'.id < nextId'
        /\ nextId' >= nextId
        /\ batch # NoBatch => batch' = batch
        /\ NothingLostOrDoubled'
    BY <2>1, FormBatchKeeps
  <2>3. MbTypeOK'
    BY <2>1, <2>2 DEF MbTypeOK
  <2>4. ASSUME NEW x, x \in Batch, Known(x) PROVE Known(x)'
    <3>1. x.id \in Nat
      BY <2>4 DEF Batch
    <3> QED BY <2>1, <2>2, <2>4, <3>1 DEF Known, MbTypeOK
  <2>5. ASSUME NEW c \in Beats, pending'[c] # NoBatch PROVE Known(pending[c])'
    <3>1. CASE c = b
      BY <2>1, <2>2, <2>5, <3>1 DEF MbTypeOK, Known
    <3>2. CASE c # b
      BY <2>1, <2>4, <2>5, <3>2 DEF MbTypeOK
    <3> QED BY <3>1, <3>2
  <2>6. \A x \in orphans' : Known(x)'
    BY <2>1, <2>4 DEF MbTypeOK
  <2>7. \A c \in Beats : Confirmed(c)'
    BY <2>1 DEF MbTypeOK, Confirmed
  <2>8. \A i \in seen' : i < nextId'
    BY <2>1, <2>2 DEF MbTypeOK
  <2> QED BY <2>2, <2>3, <2>5, <2>6, <2>7, <2>8
<1>3. ASSUME NEW b \in Beats, NEW r \in DirectoryReplies, DirectoryCounts(b, r)
      PROVE MbInv'
  <2>1. /\ state[b] = "sent"
        /\ state' = [state EXCEPT ![b] = "heard"]
        /\ told' = [told EXCEPT ![b] = r]
        /\ CountBatch(pending[b])
        /\ UNCHANGED <<finished, node, pending, orphans>>
    BY <1>3 DEF DirectoryCounts, DirectoryAnswers
  <2>2. pending[b] # NoBatch => pending[b] \in Batch /\ Known(pending[b])
    BY DEF MbTypeOK
  <2>3. /\ counted' \in Nat /\ seen' \subseteq Nat
        /\ seen \subseteq seen'
        /\ \A i \in seen' : i < nextId'
        /\ pending[b] # NoBatch => pending[b].id \in seen'
        /\ NothingLostOrDoubled'
    BY <2>1, <2>2, CountBatchKeeps
  <2>4. MbTypeOK'
    BY <2>1, <2>3 DEF MbTypeOK, node
  <2>5. /\ \A c \in Beats : pending'[c] # NoBatch => Known(pending[c])'
        /\ \A x \in orphans' : Known(x)'
    BY <2>1, <2>3 DEF Known, node
  <2>6. \A c \in Beats : Confirmed(c)'
    BY <2>1, <2>3 DEF MbTypeOK, Confirmed
  <2> QED BY <2>1, <2>3, <2>4, <2>5, <2>6 DEF node
<1>4. ASSUME NEW b \in Beats, DirectoryRefuses(b) PROVE MbInv'
  <2>1. /\ state' = [state EXCEPT ![b] = "heard"]
        /\ told' = [told EXCEPT ![b] = "error"]
        /\ UNCHANGED <<finished, node, pending, orphans, directory>>
    BY <1>4 DEF DirectoryRefuses, DirectoryAnswers
  <2>2. MbTypeOK'
    BY <2>1 DEF MbTypeOK, node, directory, DirectoryReplies
  <2>3. \A c \in Beats : Confirmed(c)'
    BY <2>1 DEF MbTypeOK, Confirmed, directory, SettlingReplies
  <2> QED BY <2>1, <2>2, <2>3 DEF Known, node, directory,
     NothingLostOrDoubled, Held
<1>5. ASSUME NEW b \in Beats, BeatEnds(b) PROVE MbInv'
  <2>1. /\ state[b] = "heard"
        /\ state' = [state EXCEPT ![b] = "idle"]
        /\ pending' = [pending EXCEPT ![b] = NoBatch]
        /\ UNCHANGED <<finished, unsent, nextId, told, orphans, directory>>
    BY <1>5 DEF BeatEnds
  <2>2. \/ batch' = batch
        \/ batch' = NoBatch /\ batch # NoBatch /\ batch.id \in seen
    BY <1>5, <2>1 DEF BeatEnds, SettleBatch, Confirmed
  <2>3. MbTypeOK'
    BY <2>1, <2>2 DEF MbTypeOK, directory
  <2>4. ASSUME NEW x, Known(x) PROVE Known(x)'
    BY <2>1, <2>2, <2>4 DEF Known, directory
  <2>5. /\ \A c \in Beats : pending'[c] # NoBatch => Known(pending[c])'
        /\ \A x \in orphans' : Known(x)'
    BY <2>1, <2>4 DEF MbTypeOK
  <2>6. \A c \in Beats : Confirmed(c)'
    BY <2>1 DEF MbTypeOK, Confirmed, directory
  <2>7. NothingLostOrDoubled'
    BY <2>1, <2>2 DEF NothingLostOrDoubled, Held, directory
  <2> QED BY <2>1, <2>2, <2>3, <2>5, <2>6, <2>7 DEF directory
<1>6. ASSUME NEW b \in Beats, BeatFails(b) PROVE MbInv'
  <2>1. /\ state' = [state EXCEPT ![b] = "idle"]
        /\ pending' = [pending EXCEPT ![b] = NoBatch]
        /\ orphans' \subseteq (orphans \cup {pending[b]}) \ {NoBatch}
        /\ UNCHANGED <<finished, node, told, directory>>
    <3>1. \A x \in orphans : x # NoBatch
      BY DEF MbTypeOK
    <3> QED BY <1>6, <3>1 DEF BeatFails
  <2>2. MbTypeOK'
    BY <2>1 DEF MbTypeOK, node, directory
  <2>3. /\ \A c \in Beats : pending'[c] # NoBatch => Known(pending[c])'
        /\ \A x \in orphans' : Known(x)'
    BY <2>1 DEF MbTypeOK, Known, node, directory
  <2>4. \A c \in Beats : Confirmed(c)'
    BY <2>1 DEF MbTypeOK, Confirmed, directory
  <2> QED BY <2>1, <2>2, <2>3, <2>4 DEF node, directory,
     NothingLostOrDoubled, Held
<1>7. ASSUME NEW x \in orphans, OrphanArrives(x) PROVE MbInv'
  <2>1. /\ CountBatch(x)
        /\ orphans' = orphans \ {x}
        /\ UNCHANGED <<finished, node, state, pending, told>>
    BY <1>7 DEF OrphanArrives
  <2>2. x \in Batch /\ Known(x)
    BY DEF MbTypeOK
  <2>3. /\ counted' \in Nat /\ seen' \subseteq Nat
        /\ seen \subseteq seen'
        /\ \A i \in seen' : i < nextId'
        /\ NothingLostOrDoubled'
    BY <2>1, <2>2, CountBatchKeeps
  <2>4. MbTypeOK'
    BY <2>1, <2>3 DEF MbTypeOK, node
  <2>5. /\ \A c \in Beats : pending'[c] # NoBatch => Known(pending[c])'
        /\ \A y \in orphans' : Known(y)'
    BY <2>1, <2>3 DEF Known, node
  <2>6. \A c \in Beats : Confirmed(c)'
    BY <2>1, <2>3 DEF Confirmed
  <2> QED BY <2>1, <2>3, <2>4, <2>5, <2>6 DEF node
<1>8. ASSUME NEW x \in orphans, OrphanLost(x) PROVE MbInv'
  BY <1>8 DEF OrphanLost, MbTypeOK, Known, Confirmed, node, directory,
     NothingLostOrDoubled, Held
<1>9. CASE UNCHANGED MbVars
  BY <1>9 DEF MbVars, MbTypeOK, Known, Confirmed, node, directory,
     NothingLostOrDoubled, Held
<1> QED BY <1>1, <1>2, <1>3, <1>4, <1>5, <1>6, <1>7, <1>8, <1>9 DEF MbNext

LEMMA InvHolds == MbSpec => []MbInv
BY InitInv, NextInv, PTL DEF MbSpec

(* Every variable of the heartbeat keeps its type.                         *)
THEOREM MbTypes == MbSpec => []MbTypeOK
BY InvHolds, PTL DEF MbInv

(* However many heartbeats overlap, and whatever is lost or arrives late,  *)
(* the directory's count and the node's counters make up all finished      *)
(* tasks.                                                                  *)
THEOREM NothingLost == MbSpec => []NothingLostOrDoubled
BY InvHolds, PTL DEF MbInv

(* Every step of the heartbeats is a step of the report they implement, or *)
(* changes nothing the report shows.                                       *)
THEOREM ReportsExactlyOnce == MbSpec => Report!Init /\ [][Report!Next]_Report!vars
<1>1. MbInit => Report!Init
  BY DEF MbInit, Report!Init
<1>2. MbInv /\ [MbNext]_MbVars => [Report!Next]_Report!vars
  <2> SUFFICES ASSUME MbInv, [MbNext]_MbVars
               PROVE  Report!Next \/ UNCHANGED <<finished, counted>>
    BY DEF Report!vars
  <2>1. CASE TaskFinishes
    BY <2>1 DEF TaskFinishes, directory, Report!Next, Report!Finish
  <2>2. ASSUME NEW x, x # NoBatch => x \in Batch /\ Known(x), CountBatch(x),
               UNCHANGED <<finished, node>>
        PROVE  Report!Next \/ UNCHANGED <<finished, counted>>
    <3>1. \/ counted' = counted
          \/ counted' \in Nat /\ counted < counted' /\ counted' <= finished
      BY <2>2, CountBatchKeeps
    <3>2. finished \in Nat /\ counted \in Nat
      BY DEF MbInv, MbTypeOK
    <3> QED BY <2>2, <3>1, <3>2 DEF Report!Next, Report!Count
  <2>3. ASSUME NEW b \in Beats, NEW r \in DirectoryReplies, DirectoryCounts(b, r)
        PROVE  Report!Next \/ UNCHANGED <<finished, counted>>
    BY <2>2, <2>3 DEF DirectoryCounts, DirectoryAnswers, MbInv, MbTypeOK
  <2>4. ASSUME NEW x \in orphans, OrphanArrives(x)
        PROVE  Report!Next \/ UNCHANGED <<finished, counted>>
    BY <2>2, <2>4 DEF OrphanArrives, MbInv, MbTypeOK
  <2>5. ASSUME NEW b \in Beats,
               StartBeat(b) \/ DirectoryRefuses(b) \/ BeatEnds(b) \/ BeatFails(b)
        PROVE  UNCHANGED <<finished, counted>>
    BY <2>5 DEF StartBeat, DirectoryRefuses, DirectoryAnswers, BeatEnds, BeatFails,
       directory
  <2>6. ASSUME NEW x \in orphans, OrphanLost(x)
        PROVE  UNCHANGED <<finished, counted>>
    BY <2>6 DEF OrphanLost, directory
  <2>7. CASE UNCHANGED MbVars
    BY <2>7 DEF MbVars, directory
  <2> QED BY <2>1, <2>3, <2>4, <2>5, <2>6, <2>7 DEF MbNext
<1> QED BY <1>1, <1>2, InvHolds, PTL DEF MbSpec
=============================================================================
