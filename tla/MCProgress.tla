----------------------------- MODULE MCProgress -----------------------------
(***************************************************************************)
(* The parts that must get somewhere, each under its own fairness, on one  *)
(* instance.  They share no variable and no step, so a property of one     *)
(* holds in their product just when it holds of that part alone: part      *)
(* chooses the part that runs, and the states are the sum of the parts'    *)
(* states instead of their product.                                        *)
(***************************************************************************)
EXTENDS MCRelayWorker, MetricsBatch, OperatorHandoff,
        TunnelGate, TunnelWatch, HostProcess, PeerGossip, BackendCall,
        PinholeLease

VARIABLE part

-----------------------------------------------------------------------------
(* Values of the constants.                                                *)

(* Two calls for one task.                                                 *)
TwoCalls == { [id |-> 1, task |-> "t", engine |-> "chat"],
              [id |-> 2, task |-> "t", engine |-> "anthropic"] }

TwoAddresses == <<"a", "b">>

-----------------------------------------------------------------------------
ListedVars == <<MbVars, RwVars>>
HostVars == <<HoVars, HpVars, PgVars>>
RouteVars == <<TgVars, TwVars, PhVars>>

ProgressInit ==
  /\ part \in { "calls", "metrics", "worker", "handoff", "host",
                "gossip", "gate", "watch", "pinhole" }
  /\ BkInit
  /\ MbInit /\ RwInit
  /\ HoInit /\ HpInit /\ PgInit
  /\ TgInit /\ TwInit /\ PhInit
  /\ part # "watch" => twSetup = [policy |-> "retry", paced |-> TRUE]
  /\ part # "pinhole" => phEndpoint = "a"

Calls ==
  /\ part = "calls" /\ BkNext
  /\ UNCHANGED <<part, ListedVars, HostVars, RouteVars>>

Metrics ==
  /\ part = "metrics" /\ MbNext
  /\ UNCHANGED <<part, BkVars, RwVars, HostVars, RouteVars>>

Worker ==
  /\ part = "worker" /\ RwNext
  /\ UNCHANGED <<part, BkVars, MbVars, HostVars, RouteVars>>

Handoff ==
  /\ part = "handoff" /\ HoNext
  /\ UNCHANGED <<part, BkVars, ListedVars, HpVars, PgVars, RouteVars>>

Host ==
  /\ part = "host" /\ HpNext
  /\ UNCHANGED <<part, BkVars, ListedVars, HoVars, PgVars, RouteVars>>

Gossip ==
  /\ part = "gossip" /\ PgNext
  /\ UNCHANGED <<part, BkVars, ListedVars, HoVars, HpVars, RouteVars>>

Gate ==
  /\ part = "gate" /\ TgNext
  /\ UNCHANGED <<part, BkVars, ListedVars, HostVars, TwVars, PhVars>>

Watch ==
  /\ part = "watch" /\ TwNext
  /\ UNCHANGED <<part, BkVars, ListedVars, HostVars, TgVars, PhVars>>

Pinhole ==
  /\ part = "pinhole" /\ PhNext
  /\ UNCHANGED <<part, BkVars, ListedVars, HostVars, TgVars, TwVars>>

ProgressNext ==
  \/ Calls \/ Metrics \/ Worker \/ Handoff
  \/ Host \/ Gossip \/ Gate \/ Watch \/ Pinhole

ProgressSpec ==
  ProgressInit /\ [][ProgressNext]_<<part, BkVars, ListedVars, HostVars, RouteVars>>

-----------------------------------------------------------------------------
(* Every state of a part is one its code can be in.                        *)
ProgressTypes ==
  /\ BkTypeOK
  /\ MbTypeOK /\ RwTypeOK
  /\ HoTypeOK /\ HpTypeOK /\ PgTypeOK
  /\ TgTypeOK /\ TwTypeOK /\ PhTypeOK

(* The URL a node has announced is that of the tunnel that serves it,      *)
(* through drops, respawns and slow callbacks (watchdog of tunnel.ts).     *)
TunnelsInOrder == TwAnnounced

(* What was begun ends: the wait for a backend's headers is over           *)
(* (requestController), a pinhole that was given up closes                 *)
(* (nat_detection.ts).                                                     *)
WorkEnds ==
  /\ part = "calls" /\ BkFairness => BkHeadersBounded
  /\ part = "pinhole" /\ PhFairness => PhClosedForGood

(* The directory counts every finished task, once (heartbeat in node.ts).  *)
TasksCounted == part = "metrics" /\ MbFairness => AllCounted

(* A relay worker is bound again whatever ended its connection, unless a   *)
(* FIN left it deaf (relay_worker_client.ts).                              *)
WorkerReturns == part = "worker" /\ RwFairness => RwRebindsOrDeaf

(* Every supervised node gets to the successor key (the handoff of cli.ts).*)
NodesHandOver == part = "handoff" /\ HoFairness => HandsOver

(* A process gets to the release it has been told of (updater in cli.ts).  *)
ProcessGetsCurrent == part = "host" /\ HpFairness => HpGetsCurrent

(* A node meets whoever else is alive (peer_manager.ts).                   *)
PeersMeet == part = "gossip" /\ PgFairness => PgMeets

(* Every process that wants a tunnel is served (openQuickTunnel), and a    *)
(* tunnel heals as far as the policy lets it (watchdog of tunnel.ts).      *)
TunnelsServe ==
  /\ part = "gate" /\ TgFairness => TgEveryoneServed
  /\ part = "watch" /\ TwFairness => TwHeals
=============================================================================
