-------------------------- MODULE MCNativeSession --------------------------
(* Small instances of NativeSession.                                       *)
EXTENDS NativeSession

CONSTANTS long, short

(* One session with room for a handshake, a failure and what follows it,   *)
(* beside one that competes for the gate with a single call.               *)
LongAndShort == [c \in Conns |-> IF c = long THEN 3 ELSE 2]
AllAndCalls ==
  [c \in Conns |-> IF c = long THEN Requests ELSE {"INIT", "CALL"}]
=============================================================================
