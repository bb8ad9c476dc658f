----------------------------- MODULE TaskReport -----------------------------
(***************************************************************************)
(* What the metric batches of a heartbeat promise together: the directory  *)
(* counts finished tasks, none of them twice.                              *)
(***************************************************************************)
EXTENDS Naturals

VARIABLES
  finished,  \* tasks whose handler has settled
  counted    \* tasks the directory has counted for the node

Init == finished = 0 /\ counted = 0

Finish == finished' = finished + 1 /\ UNCHANGED counted

Count ==
  /\ counted < finished
  /\ counted' \in counted + 1 .. finished
  /\ UNCHANGED finished

Next == Finish \/ Count

vars == <<finished, counted>>

Spec == Init /\ [][Next]_vars
=============================================================================
