----------------------------- MODULE MCProvider -----------------------------
(***************************************************************************)
(* The parts of a provider whose steps must never do something, on one     *)
(* instance.  They share no variable and no step, so a property of one     *)
(* holds in their product just when it holds of that part alone: part      *)
(* chooses the part that runs, and the states are the sum of the parts'    *)
(* states instead of their product.                                        *)
(***************************************************************************)
EXTENDS MCNativeSession, ServiceLifecycle, DispatchAdmission, TrustStore,
        BackendCall, BackendStream, BackendStability, Reachability, KeyRotation

VARIABLE part

-----------------------------------------------------------------------------
(* Values of the constants.                                                *)

Call(i, t, e) == [id |-> i, task |-> t, engine |-> e]

(* Two calls for one task, and one that is given another.                  *)
ThreeCalls ==
  { Call(1, "t", "chat"), Call(2, "t", "anthropic"), Call(3, "u", "audio") }

(* A read with the end in it, one with a line that is no JSON, one that    *)
(* goes on after the end, one with an event of another kind.               *)
Batches ==
  { <<>>, <<"text">>, <<"text", "text">>, <<"text", "done">>,
    <<"text", "bad">>, <<"other", "text">>, <<"done", "text">> }

(* Enough events of one task for its window to leave a reader behind.      *)
MoreOfTheFirst == [t \in SlTasks |-> IF t = "t" THEN 3 ELSE 1]

FirstExpiresEarlier == [t \in DaTickets |-> IF t = "t" THEN 1 ELSE 2]

-----------------------------------------------------------------------------
TicketVars == <<DaVars, DtVars>>
TaskVars == <<vars, SlVars>>
BackendVars == <<BkVars, BsVars, StVars>>
StartVars == <<RcVars, KrVars>>

ProviderInit ==
  /\ part \in { "sessions", "lifecycle", "dispatch", "trust", "calls",
                "stream", "stability", "reach", "keys" }
  /\ Init /\ SlInit
  /\ DaInit /\ DtInit
  /\ BkInit /\ BsInit /\ StInit
  /\ RcInit /\ KrInit
  /\ part # "dispatch" => daAhead = [p \in DaProcs |-> 0]
  /\ part # "stability" => stConfig = [server |-> "another", flavor |-> "unset"]
  /\ part # "reach" => rcOpts = CHOOSE o \in RcOptions : TRUE

Sessions ==
  /\ part = "sessions" /\ Next
  /\ UNCHANGED <<part, SlVars, TicketVars, BackendVars, StartVars>>

Lifecycle ==
  /\ part = "lifecycle" /\ SlNext
  /\ UNCHANGED <<part, vars, TicketVars, BackendVars, StartVars>>

Dispatch ==
  /\ part = "dispatch" /\ DaNext
  /\ UNCHANGED <<part, TaskVars, DtVars, BackendVars, StartVars>>

Trust ==
  /\ part = "trust" /\ DtNext
  /\ UNCHANGED <<part, TaskVars, DaVars, BackendVars, StartVars>>

BackCalls ==
  /\ part = "calls" /\ BkNext
  /\ UNCHANGED <<part, TaskVars, TicketVars, BsVars, StVars, StartVars>>

Streaming ==
  /\ part = "stream" /\ BsNext
  /\ UNCHANGED <<part, TaskVars, TicketVars, BkVars, StVars, StartVars>>

Stability ==
  /\ part = "stability" /\ StNext
  /\ UNCHANGED <<part, TaskVars, TicketVars, BkVars, BsVars, StartVars>>

Reach ==
  /\ part = "reach" /\ RcNext
  /\ UNCHANGED <<part, TaskVars, TicketVars, BackendVars, KrVars>>

Keys ==
  /\ part = "keys" /\ KrNext
  /\ UNCHANGED <<part, TaskVars, TicketVars, BackendVars, RcVars>>

ProviderNext ==
  \/ Sessions \/ Lifecycle \/ Dispatch \/ Trust \/ BackCalls
  \/ Streaming \/ Stability \/ Reach \/ Keys

ProviderSpec ==
  ProviderInit
    /\ [][ProviderNext]_<<part, TaskVars, TicketVars, BackendVars, StartVars>>

-----------------------------------------------------------------------------
(* Every state of a part is one its code can be in.                        *)
ProviderTypes ==
  /\ TypeOK /\ SlTypeOK
  /\ DaTypeOK /\ DtTypeOK
  /\ BkTypeOK /\ BsTypeOK /\ StTypeOK
  /\ RcTypeOK /\ KrTypeOK
=============================================================================
