-------------------------- MODULE MCTaskAdmission --------------------------
(* Small instances of TaskAdmission.                                       *)
EXTENDS TaskAdmission

CONSTANTS t1, t2, n1, n2

Http(i, t, n, q) ==
  [id |-> i, task |-> t, nonce |-> n, queueable |-> q, native |-> FALSE]

Tcp(i, t) ==
  [id |-> i, task |-> t, nonce |-> NoId, queueable |-> FALSE, native |-> TRUE]

(* Two requests of one connection, with nothing in common.                 *)
Pipelined == { Http(1, t1, n1, FALSE), Http(2, t2, n2, FALSE) }

(* A task, its retry and a replay of its nonce that may both wait, and a   *)
(* native call for the same task.                                          *)
BothTransports ==
  { Http(1, t1, n1, FALSE), Http(2, t1, n2, TRUE), Http(3, t2, n1, TRUE),
    Tcp(4, t1) }

(* One HTTP request and one native call.                                   *)
MixedRequests == { Http(1, t1, n1, FALSE), Tcp(2, t2) }

AllCaps == 0 .. MaxConcurrent
=============================================================================
