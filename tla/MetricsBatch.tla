---------------------------- MODULE MetricsBatch ----------------------------
(***************************************************************************)
(* The task counters of IicpNode.heartbeat (src/src/node.ts).  A heartbeat *)
(* moves the counters of the task path into one outstanding batch with an  *)
(* identifier, and repeats that batch until a reply settles it; heartbeats *)
(* overlap when the directory is slow, requests and replies get lost, and  *)
(* a request its sender gave up on may still arrive.                       *)
(*                                                                         *)
(* The directory is external: it counts a batch when it first sees the     *)
(* identifier.  Success and failure counters move together and are one     *)
(* counter here; the latency sum travels with them.                        *)
(***************************************************************************)
EXTENDS Naturals, FiniteSets

CONSTANTS
  Beats,     \* heartbeats that may be under way at once
  MaxTasks,  \* bound on the tasks that finish
  NoBatch    \* no batch

Batch == [id : Nat, size : Nat \ {0}]

ASSUME BatchAssumption == MaxTasks \in Nat /\ NoBatch \notin Batch

VARIABLES
  finished,  \* tasks settled (history)
  unsent,    \* _tasksSuccessPending + _tasksFailedPending
  batch,     \* _pendingMetricsBatch
  nextId,    \* what randomUUID() returns next
  state,     \* of each heartbeat: idle, sent, heard (its reply is under way)
  pending,   \* the batch a heartbeat carries
  told,      \* what the directory answered it
  orphans,   \* batches whose sender gave up and that may still arrive
  counted,   \* tasks the directory counted
  seen       \* batch identifiers the directory knows

node == <<unsent, batch, nextId>>
directory == <<counted, seen>>
MbVars == <<finished, node, state, pending, told, orphans, directory>>

\* A 200 that names the batch, a 200 that names no batch, one whose body is
\* no JSON, one that names another batch, and any other status.
DirectoryReplies == {"acked", "plain", "garbled", "other", "error"}
SettlingReplies == {"acked", "plain", "garbled"}

MbTypeOK ==
  /\ finished \in Nat
  /\ unsent \in Nat
  /\ batch \in Batch \cup {NoBatch}
  /\ nextId \in Nat
  /\ state \in [Beats -> {"idle", "sent", "heard"}]
  /\ pending \in [Beats -> Batch \cup {NoBatch}]
  /\ told \in [Beats -> DirectoryReplies]
  /\ orphans \subseteq Batch
  /\ counted \in Nat
  /\ seen \subseteq Nat

MbInit ==
  /\ finished = 0
  /\ unsent = 0
  /\ batch = NoBatch
  /\ nextId = 0
  /\ state = [b \in Beats |-> "idle"]
  /\ pending = [b \in Beats |-> NoBatch]
  /\ told = [b \in Beats |-> "error"]
  /\ orphans = {}
  /\ counted = 0
  /\ seen = {}

-----------------------------------------------------------------------------
TaskFinishes ==
  /\ finished < MaxTasks
  /\ finished' = finished + 1
  /\ unsent' = unsent + 1
  /\ UNCHANGED <<batch, nextId, state, pending, told, orphans, directory>>

(* Only when nothing is outstanding do the counters become a batch.        *)
FormBatch ==
  \/ /\ batch = NoBatch /\ unsent > 0
     /\ batch' = [id |-> nextId, size |-> unsent]
     /\ nextId' = nextId + 1
     /\ unsent' = 0
  \/ /\ batch # NoBatch \/ unsent = 0
     /\ UNCHANGED node

(* The interval fires: form a batch if there is none, and send.            *)
StartBeat(b) ==
  /\ state[b] = "idle"
  /\ FormBatch
  /\ state' = [state EXCEPT ![b] = "sent"]
  /\ pending' = [pending EXCEPT ![b] = batch']
  /\ UNCHANGED <<finished, told, orphans, directory>>

(* The directory counts a batch it has not seen.                           *)
CountBatch(x) ==
  IF x = NoBatch \/ x.id \in seen
  THEN UNCHANGED directory
  ELSE /\ counted' = counted + x.size
       /\ seen' = seen \cup {x.id}

DirectoryAnswers(b, r) ==
  /\ state[b] = "sent"
  /\ state' = [state EXCEPT ![b] = "heard"]
  /\ told' = [told EXCEPT ![b] = r]
  /\ UNCHANGED <<finished, node, pending, orphans>>

DirectoryCounts(b, r) ==
  /\ CountBatch(pending[b])
  /\ DirectoryAnswers(b, r)

(* 401, 503, ...: the batch was not looked at.                             *)
DirectoryRefuses(b) ==
  /\ DirectoryAnswers(b, "error")
  /\ UNCHANGED directory

\* Slip: a settling reply clears whatever batch is outstanding.
SettleWhatever(b) == batch' = NoBatch

(* A settling reply clears the outstanding batch only if it is the one the *)
(* heartbeat carried.                                                      *)
SettleBatch(b) ==
  batch' = IF /\ told[b] \in SettlingReplies
              /\ pending[b] # NoBatch /\ batch # NoBatch
              /\ batch.id = pending[b].id
           THEN NoBatch ELSE batch

BeatEnds(b) ==
  /\ state[b] = "heard"
  /\ SettleBatch(b)
  /\ state' = [state EXCEPT ![b] = "idle"]
  /\ pending' = [pending EXCEPT ![b] = NoBatch]
  /\ UNCHANGED <<finished, unsent, nextId, told, orphans, directory>>

(* The request times out, before or after it was answered.                 *)
BeatFails(b) ==
  /\ state[b] # "idle"
  /\ state' = [state EXCEPT ![b] = "idle"]
  /\ pending' = [pending EXCEPT ![b] = NoBatch]
  /\ orphans' = IF state[b] = "sent" /\ pending[b] # NoBatch
                THEN orphans \cup {pending[b]} ELSE orphans
  /\ UNCHANGED <<finished, node, told, directory>>

(* A request nobody waits for any more arrives, or is lost.                *)
OrphanArrives(x) ==
  /\ CountBatch(x)
  /\ orphans' = orphans \ {x}
  /\ UNCHANGED <<finished, node, state, pending, told>>

OrphanLost(x) ==
  /\ orphans' = orphans \ {x}
  /\ UNCHANGED <<finished, node, state, pending, told, directory>>

MbNext ==
  \/ TaskFinishes
  \/ \E b \in Beats :
       \/ StartBeat(b)
       \/ \E r \in DirectoryReplies : DirectoryCounts(b, r)
       \/ DirectoryRefuses(b)
       \/ BeatEnds(b)
       \/ BeatFails(b)
  \/ \E x \in orphans : OrphanArrives(x) \/ OrphanLost(x)

(* The interval keeps firing, a heartbeat ends by its timeout, and of      *)
(* infinitely many heartbeats infinitely many reach the directory and hear *)
(* that their batch was accepted.                                          *)
MbFairness ==
  /\ \A b \in Beats :
       /\ WF_MbVars(StartBeat(b))
       /\ WF_MbVars(BeatEnds(b) \/ BeatFails(b))
  /\ SF_MbVars(\E b \in Beats : DirectoryCounts(b, "acked"))
  /\ SF_MbVars(\E b \in Beats : told[b] = "acked" /\ BeatEnds(b))

MbSpec == MbInit /\ [][MbNext]_MbVars /\ MbFairness

-----------------------------------------------------------------------------
(* What the node still has to report.                                      *)
Held ==
  unsent + (IF batch # NoBatch /\ batch.id \notin seen THEN batch.size ELSE 0)

(* No finished task is lost and none is counted twice: what the directory  *)
(* counted and what the node still holds make up all finished tasks, in    *)
(* every interleaving of heartbeats, late arrivals and lost replies.       *)
NothingLostOrDoubled == counted + Held = finished

(* The directory's count only ever grows towards the finished tasks.       *)
Report == INSTANCE TaskReport WITH finished <- finished, counted <- counted
Reports == Report!Spec

(* In the end every finished task is counted, once.                        *)
AllCounted == <>[](counted = finished)
=============================================================================
