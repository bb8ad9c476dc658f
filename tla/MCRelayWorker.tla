--------------------------- MODULE MCRelayWorker ---------------------------
(* Small instances of RelayWorker.                                         *)
EXTENDS RelayWorker

(* Tasks that open, sealed or in clear.                                    *)
RelayTasks == { [sealed |-> s, opens |-> TRUE, secret |-> TRUE] : s \in BOOLEAN }
=============================================================================
