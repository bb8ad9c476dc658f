---------------------------- MODULE RelayPromise ----------------------------
(***************************************************************************)
(* What a relay promises of a consumer's call (src/src/relay_session.ts,   *)
(* the /v1/relay* handlers of src/src/node.ts): it is addressed to one     *)
(* worker and stays so whoever binds later; it is handed over once at      *)
(* most, perhaps only after the consumer gave up; and it is answered only  *)
(* by what it was handed to, and never once it was given up.  Sessions,    *)
(* transports, queues and long-polls are not mentioned.                    *)
(***************************************************************************)
EXTENDS Naturals

CONSTANTS Calls, Workers, Nobody

VARIABLES
  stage,   \* new, addressed, waiting, answered, given_up or refused
  target,  \* the worker a call is addressed to, or Nobody
  handed   \* how often it was handed over

Init ==
  /\ stage = [c \in Calls |-> "new"]
  /\ target = [c \in Calls |-> Nobody]
  /\ handed = [c \in Calls |-> 0]

(* From one stage to the next, with nothing else changed.                  *)
Moves(c, from, to) ==
  /\ stage[c] = from
  /\ stage' = [stage EXCEPT ![c] = to]

(* A worker is chosen once and for all.                                    *)
Chooses(c) == \E w \in Workers : target' = [target EXCEPT ![c] = w]

Address(c) == Moves(c, "new", "addressed") /\ Chooses(c) /\ UNCHANGED handed

Refuse(c) == Moves(c, "new", "refused") /\ UNCHANGED <<target, handed>>

HandsOver(c) == handed[c] = 0 /\ handed' = [handed EXCEPT ![c] = 1]

(* The relay takes the call; a worker that waits for one gets it at once.  *)
Accept(c) ==
  /\ \/ Moves(c, "new", "waiting") /\ Chooses(c)
     \/ Moves(c, "addressed", "waiting") /\ UNCHANGED target
  /\ HandsOver(c) \/ UNCHANGED handed

(* A worker takes it later, whether or not its consumer still waits.       *)
Hand(c) ==
  /\ stage[c] \in {"waiting", "given_up"}
  /\ HandsOver(c)
  /\ UNCHANGED <<stage, target>>

Answer(c) ==
  /\ handed[c] = 1
  /\ Moves(c, "waiting", "answered")
  /\ UNCHANGED <<target, handed>>

GiveUp(c) == Moves(c, "waiting", "given_up") /\ UNCHANGED <<target, handed>>

Next ==
  \E c \in Calls :
    Address(c) \/ Refuse(c) \/ Accept(c) \/ Hand(c) \/ Answer(c) \/ GiveUp(c)

Spec == Init /\ [][Next]_<<stage, target, handed>>
=============================================================================
