--------------------------- MODULE MCRelaySession ---------------------------
(* Small instances of RelaySession.                                        *)
EXTENDS RelaySession

CONSTANTS w1, w2, h1, h2, s1, s2, c1, c2, k1, k2

(* The tickets of a run were signed for w1.                                *)
TicketsForW1 == [t \in Tickets |-> w1]
=============================================================================
