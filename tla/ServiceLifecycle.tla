-------------------------- MODULE ServiceLifecycle --------------------------
(***************************************************************************)
(* LifecycleStore (src/src/service_lifecycle.ts): the records of tasks,    *)
(* their bounded windows of events, consumers that resume from the last    *)
(* number they heard, the expiry of final records, and restarts from a     *)
(* snapshot, which is older than what was lost.                            *)
(*                                                                         *)
(* Of an event only its number is kept: a record has the numbers first to  *)
(* last.  The age of a record counts from its last event, up to past the   *)
(* lifetime of a final one.                                                *)
(***************************************************************************)
EXTENDS Integers, FiniteSets

CONSTANTS
  SlTasks,     \* task identifiers
  SlKeys,      \* idempotency keys (with the request they stand for)
  SlWindow,    \* max(2, maxEvents)
  SlLimit,     \* events a read returns at most
  SlTTL,       \* terminalStatusTtlMs
  SlMaxEvents, \* bound on the events of each task
  SlRestarts   \* bound on the restarts

ASSUME SlAssumption ==
  /\ SlWindow \in Nat /\ SlWindow >= 2
  /\ SlLimit \in Nat \ {0} /\ SlTTL \in Nat
  /\ SlMaxEvents \in [SlTasks -> Nat] /\ SlRestarts \in Nat

VARIABLES
  slRecs,     \* records
  slSnap,     \* the last snapshot taken
  slPos,      \* the last number each task's consumer heard, -1 for none
  slHeard,    \* the numbers it heard since it last started over (history)
  slEnded,    \* age of the final event of a task's last life (history)
  slTwice,    \* a life began while the last one was still kept (history)
  slRestarts  \* restarts so far

SlVars == <<slRecs, slSnap, slPos, slHeard, slEnded, slTwice, slRestarts>>

SlFinal == {"rejected", "completed", "failed", "cancelled", "expired"}
SlStates == {"accepted", "queued", "running", "waiting", "streaming"} \cup SlFinal
SlAbsent == "absent"
SlNoRecord == [state |-> SlAbsent]
SlLong == SlTTL + 1   \* an age past the lifetime

SlRecord ==
  [state : SlStates, key : SlKeys, first : Nat, last : Nat, age : 0 .. SlLong]

SlTypeOK ==
  /\ slRecs \in [SlTasks -> SlRecord \cup {SlNoRecord}]
  /\ slSnap \in [SlTasks -> SlRecord \cup {SlNoRecord}]
  /\ slPos \in [SlTasks -> Int]
  /\ \A t \in SlTasks : slHeard[t] \subseteq Nat
  /\ slEnded \in [SlTasks -> 0 .. SlLong]
  /\ slTwice \in BOOLEAN
  /\ slRestarts \in 0 .. SlRestarts

SlInit ==
  /\ slRecs = [t \in SlTasks |-> SlNoRecord]
  /\ slSnap = slRecs
  /\ slPos = [t \in SlTasks |-> -1]
  /\ slHeard = [t \in SlTasks |-> {}]
  /\ slEnded = [t \in SlTasks |-> SlLong]
  /\ slTwice = FALSE
  /\ slRestarts = 0

SlHas(t) == slRecs[t] # SlNoRecord
SlIsFinal(t) == slRecs[t].state \in SlFinal
SlExpired(t) == SlHas(t) /\ SlIsFinal(t) /\ slRecs[t].age > SlTTL

\* transitions; "submitted" is never a record's state.
SlMayFollow(s) ==
  LET ends == {"cancelled", "failed", "expired"} IN
  CASE s = "accepted"  -> {"queued", "running", "completed"} \cup ends
    [] s = "queued"    -> {"running", "waiting"} \cup ends
    [] s = "running"   -> {"waiting", "streaming", "completed"} \cup ends
    [] s = "waiting"   -> {"queued", "running"} \cup ends
    [] s = "streaming" -> {"streaming", "waiting", "completed"} \cup ends
    [] OTHER           -> {}

-----------------------------------------------------------------------------
(* submit: a known task is returned as it is, however old; an unknown one  *)
(* is created unless its key belongs to another task.                      *)
SlSubmit(t, k) ==
  /\ ~SlHas(t)
  /\ \A u \in SlTasks : SlHas(u) => slRecs[u].key # k
  /\ slRecs' = [slRecs EXCEPT ![t] =
       [state |-> "accepted", key |-> k, first |-> 0, last |-> 0, age |-> 0]]
  /\ slTwice' = (slTwice \/ slEnded[t] <= SlTTL)
  /\ UNCHANGED <<slSnap, slPos, slHeard, slEnded, slRestarts>>

\* Slip: a final record may move on.
SlTransitionOn(t, s) ==
  /\ SlHas(t) /\ slRecs[t].last < SlMaxEvents[t]
  /\ s \in SlMayFollow(slRecs[t].state) \/ (SlIsFinal(t) /\ s = "streaming")
  /\ LET last == slRecs[t].last + 1 IN
     slRecs' = [slRecs EXCEPT ![t].state = s, ![t].last = last, ![t].age = 0]
  /\ slEnded' = IF s \in SlFinal THEN [slEnded EXCEPT ![t] = 0] ELSE slEnded
  /\ UNCHANGED <<slSnap, slPos, slHeard, slTwice, slRestarts>>

(* transition, cancel: the next event, and the oldest leave the window.    *)
SlTransition(t, s) ==
  /\ SlHas(t) /\ slRecs[t].last < SlMaxEvents[t]
  /\ s \in SlMayFollow(slRecs[t].state)
  /\ LET last == slRecs[t].last + 1
         from == last + 1 - SlWindow IN
     slRecs' = [slRecs EXCEPT
       ![t].state = s, ![t].last = last, ![t].age = 0,
       ![t].first = IF from > slRecs[t].first THEN from ELSE slRecs[t].first]
  /\ slEnded' = IF s \in SlFinal THEN [slEnded EXCEPT ![t] = 0] ELSE slEnded
  /\ UNCHANGED <<slSnap, slPos, slHeard, slTwice, slRestarts>>

(* status, and whatever asks it first: a final record past its lifetime is *)
(* forgotten when it is looked up, and not before.                         *)
SlForget(t) ==
  /\ SlExpired(t)
  /\ slRecs' = [slRecs EXCEPT ![t] = SlNoRecord]
  /\ UNCHANGED <<slSnap, slPos, slHeard, slEnded, slTwice, slRestarts>>

SlLast(S) == CHOOSE n \in S : \A m \in S : m <= n

\* Slip: a limited read returns the latest events.
SlSliceLatest(S) == {n \in S : Cardinality({m \in S : m > n}) < SlLimit}

SlSlice(S) == {n \in S : Cardinality({m \in S : m < n}) < SlLimit}

(* eventsAfter: a consumer whose next number has left the window is told   *)
(* so and starts over from the record's last event.                        *)
SlRead(t) ==
  /\ SlHas(t) /\ ~SlExpired(t)
  /\ LET rec == slRecs[t]
         batch == SlSlice({n \in rec.first .. rec.last : n > slPos[t]}) IN
     IF slPos[t] >= 0 /\ slPos[t] + 1 < rec.first
     THEN /\ slPos' = [slPos EXCEPT ![t] = rec.last]
          /\ slHeard' = [slHeard EXCEPT ![t] = {rec.last}]
     ELSE /\ batch # {}
          /\ slPos' = [slPos EXCEPT ![t] = SlLast(batch)]
          /\ slHeard' = [slHeard EXCEPT ![t] = slHeard[t] \cup batch]
  /\ UNCHANGED <<slRecs, slSnap, slEnded, slTwice, slRestarts>>

(* snapshot, and later a new store that restores it.                       *)
SlSnapshot ==
  /\ slRestarts < SlRestarts
  /\ slSnap' = slRecs
  /\ UNCHANGED <<slRecs, slPos, slHeard, slEnded, slTwice, slRestarts>>

SlRestart ==
  /\ slRestarts < SlRestarts
  /\ slRestarts' = slRestarts + 1
  /\ slRecs' = slSnap
  /\ slEnded' = [t \in SlTasks |->
       IF slSnap[t].state \in SlFinal THEN slSnap[t].age ELSE SlLong]
  /\ UNCHANGED <<slSnap, slPos, slHeard, slTwice>>

SlOlder(r) == IF r = SlNoRecord \/ r.age = SlLong THEN r ELSE [r EXCEPT !.age = r.age + 1]

SlTick ==
  /\ slRecs' = [t \in SlTasks |-> SlOlder(slRecs[t])]
  /\ slSnap' = [t \in SlTasks |-> SlOlder(slSnap[t])]
  /\ slEnded' = [t \in SlTasks |-> IF slEnded[t] < SlLong THEN slEnded[t] + 1 ELSE SlLong]
  /\ UNCHANGED <<slPos, slHeard, slTwice, slRestarts>>

SlNext ==
  \/ SlSnapshot \/ SlRestart \/ SlTick
  \/ \E t \in SlTasks :
       \/ SlForget(t) \/ SlRead(t)
       \/ \E k \in SlKeys : SlSubmit(t, k)
       \/ \E s \in SlStates : SlTransition(t, s)

SlSpec == SlInit /\ [][SlNext]_SlVars

-----------------------------------------------------------------------------
SlLives(recs) == [t \in SlTasks |-> recs[t].state]
SlNumbers(recs) ==
  [t \in SlTasks |-> IF recs[t] = SlNoRecord THEN 0 ELSE recs[t].last]

Life == INSTANCE TaskLife WITH
  Tasks <- SlTasks, States <- SlStates, Final <- SlFinal, Absent <- SlAbsent,
  life <- SlLives(slRecs), number <- SlNumbers(slRecs),
  kept <- [life |-> SlLives(slSnap), number |-> SlNumbers(slSnap)]

(* The store keeps the promise of TaskLife: events without gaps, nothing   *)
(* after the final one, no live task forgotten, whatever is submitted      *)
(* again, looked up, trimmed or restored.                                  *)
SlKeepsPromise == Life!Spec

(* Two tasks never hold one idempotency key, and a task is not run again   *)
(* while its final record is kept, unless a restart lost that record.      *)
SlRunsOnce ==
  /\ ~slTwice
  /\ \A t, u \in SlTasks :
       t # u /\ SlHas(t) /\ SlHas(u) => slRecs[t].key # slRecs[u].key

(* A consumer that resumes never skips a number without being told, though *)
(* the window moves between its reads and reads are limited.               *)
SlNoGap ==
  \A t \in SlTasks :
    \A n \in slHeard[t], m \in slHeard[t] : n <= m => n .. m \subseteq slHeard[t]

(* A task is run once, and what it did is read without a gap.              *)
SlOnceWithoutGap == SlRunsOnce /\ SlNoGap
=============================================================================
