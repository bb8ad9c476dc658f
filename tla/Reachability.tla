---------------------------- MODULE Reachability ----------------------------
(***************************************************************************)
(* How `iicp-node serve` finds an endpoint to advertise (runServe,         *)
(* src/src/cli.ts): the pinhole of an operator's IPv6 endpoint, detectNat  *)
(* (src/src/nat_detection.ts), the ladder of tunnel and relay, the forced  *)
(* tunnel, the fallback for routes that look unreachable, the node that is *)
(* built with what was found (applyNatProfile, src/src/node.ts), the guard *)
(* that skips registration, and registration.                              *)
(*                                                                         *)
(* What the host, the router, cloudflared and the directory answer is a    *)
(* choice of the step that asks.  An endpoint is its kind.                 *)
(***************************************************************************)
EXTENDS Naturals

VARIABLES
  rcOpts,     \* the options (constant)
  rcStage,    \* the part of runServe that is next
  rcEndpoint, \* kind of publicEndpoint
  rcProfile,  \* natProfile: how the node is reached
  rcFound,    \* its publicEndpoint, if it has one
  rcNode,     \* the endpoint of the node, which is registered
  rcPinhole,  \* a pinhole is open for the endpoint: "operator's" or "detected"
  rcTunnel,   \* tunnelHandle
  rcTries,    \* Quick Tunnels asked for; the first makes quickTunnelAttempted
  rcRelay,    \* relayWorkerEndpoint
  rcPlan,     \* steps of planReachability still to take
  rcAttempts  \* registrations still to try

RcFinding == <<rcEndpoint, rcProfile, rcFound, rcNode, rcPinhole>>
RcAids == <<rcTunnel, rcTries, rcRelay, rcPlan, rcAttempts>>
RcVars == <<rcOpts, rcStage, RcFinding, RcAids>>

RcKinds == {"local", "v4", "v6", "name"}
RcOptions ==
  [given : RcKinds, auto : BOOLEAN, tunnel : {"asked", "default", "off"},
   capable : BOOLEAN, relay : BOOLEAN, skip : BOOLEAN, supervised : BOOLEAN]
RcNoProfile == "none"
RcNoRoute == "none"
RcProfiles == {RcNoProfile, "direct", "mapped", "external", "unreachable"}
RcDone == {"serving", "exited"}
RcStages ==
  {"start", "pinhole", "detect", "upnp", "ipv6", "carrier", "ladder", "forced",
   "fallback", "fallbackRelay", "build", "guard", "register"} \cup RcDone

RcNoPlan == <<>>
RcRelayPlan == <<"relay">>
RcTunnelPlan == <<"tunnel", "relay">>

RcTypeOK ==
  /\ rcOpts \in RcOptions
  /\ rcStage \in RcStages
  /\ rcEndpoint \in RcKinds
  /\ rcFound \in RcKinds \cup {RcNoRoute} /\ rcNode \in RcKinds \cup {RcNoRoute}
  /\ rcProfile \in RcProfiles
  /\ rcPinhole \in {"none", "operator's", "detected"}
  /\ rcTunnel \in BOOLEAN /\ rcRelay \in BOOLEAN
  /\ rcTries \in 0 .. 3
  /\ rcPlan \in {RcNoPlan, RcRelayPlan, RcTunnelPlan}
  /\ rcAttempts \in 0 .. 3

RcInit ==
  /\ rcOpts \in RcOptions
  /\ rcStage = "start"
  /\ rcEndpoint = rcOpts.given   \* http://localhost unless one is given
  /\ rcProfile = RcNoProfile
  /\ rcFound = RcNoRoute /\ rcNode = RcNoRoute
  /\ rcPinhole = "none"
  /\ rcTunnel = FALSE
  /\ rcTries = 0
  /\ rcRelay = rcOpts.relay
  /\ rcPlan = RcNoPlan
  /\ rcAttempts = 0

RcGoto(stage) == rcStage' = stage
RcTunnelAllowed == rcOpts.tunnel # "off"
RcMayRelay == ~rcOpts.capable   \* relayWorkerFallbackAllowed

-----------------------------------------------------------------------------
(* Up to the lock: a missing saved node, a managed profile that rejects,   *)
(* a missing or experimental model, or another live instance end it.       *)
RcStart ==
  /\ rcStage = "start"
  /\ \/ RcGoto("pinhole")
     \/ RcGoto("exited")
  /\ UNCHANGED <<rcOpts, RcFinding, RcAids>>

(* tryOpenV6PinholeForEndpoint, without auto-detection only.               *)
RcOperatorPinhole ==
  /\ rcStage = "pinhole"
  /\ RcGoto(IF rcOpts.auto THEN "detect" ELSE "forced")
  /\ \/ UNCHANGED rcPinhole
     \/ ~rcOpts.auto /\ rcEndpoint = "v6" /\ rcPinhole' = "operator's"
  /\ UNCHANGED <<rcOpts, rcEndpoint, rcProfile, rcFound, rcNode, RcAids>>

(* planReachability.                                                       *)
RcPlanFor(profile) ==
  IF profile # "unreachable" \/ rcRelay THEN RcNoPlan
  ELSE IF RcTunnelAllowed THEN RcTunnelPlan ELSE RcRelayPlan

RcDetected(profile, endpoint) ==
  /\ rcProfile' = profile
  /\ rcEndpoint' = IF endpoint = RcNoRoute THEN rcEndpoint ELSE endpoint
  /\ rcFound' = endpoint
  /\ rcPlan' = RcPlanFor(profile)
  /\ RcGoto("ladder")
  /\ UNCHANGED <<rcOpts, rcNode, rcTunnel, rcTries, rcRelay, rcAttempts>>

(* To looksRoutable a bracketed IPv6 literal is a name without a domain.   *)
RcLooksRoutable(kind) == kind \in {"v4", "name"}

(* detectNat, tier 0: an operator's routable endpoint, or a public IPv4    *)
(* address or a global IPv6 address that can be listened on.               *)
RcGiven ==
  /\ rcStage = "detect" /\ RcLooksRoutable(rcOpts.given)
  /\ RcDetected("direct", rcOpts.given)
  /\ UNCHANGED rcPinhole

RcOwn(kind) ==
  /\ rcStage = "detect" /\ ~RcLooksRoutable(rcOpts.given)
  /\ RcDetected("direct", kind)
  /\ UNCHANGED rcPinhole

RcPublicV4 == RcOwn("v4")

RcGlobalV6 == RcOwn("v6")

RcNotDirect ==
  /\ rcStage = "detect" /\ ~RcLooksRoutable(rcOpts.given)
  /\ RcGoto("upnp")
  /\ UNCHANGED <<rcOpts, RcFinding, RcAids>>

(* detectNat, tier 1: mapped with a known address; mapped without one,     *)
(* which ends the detection; or refused or late, or with a carrier-grade   *)
(* address, when IPv6 is next.                                             *)
RcMapped ==
  /\ rcStage = "upnp"
  /\ RcDetected("mapped", "v4")
  /\ UNCHANGED rcPinhole

RcMappedBlind ==
  /\ rcStage = "upnp"
  /\ RcDetected("unreachable", RcNoRoute)
  /\ UNCHANGED rcPinhole

RcNotMapped ==
  /\ rcStage = "upnp"
  /\ RcGoto("ipv6")
  /\ UNCHANGED <<rcOpts, RcFinding, RcAids>>

RcCarrierGrade ==
  /\ rcStage = "upnp"
  /\ RcGoto("carrier")
  /\ UNCHANGED <<rcOpts, RcFinding, RcAids>>

(* tryIpv6Fallback: advertised with or without a pinhole.                  *)
RcIpv6 ==
  /\ rcStage \in {"ipv6", "carrier"}
  /\ RcDetected("direct", "v6")
  /\ rcPinhole' \in {"none", "detected"}

(* detectExternalTunnel; after a carrier-grade mapping it is not asked.    *)
RcExternal ==
  /\ rcStage = "ipv6"
  /\ RcDetected("external", "name")
  /\ UNCHANGED rcPinhole

RcUnreachable ==
  /\ rcStage \in {"ipv6", "carrier"}
  /\ RcDetected("unreachable", RcNoRoute)
  /\ UNCHANGED rcPinhole

(* detectNat throws: the endpoint stays as it was.                         *)
RcDetectionThrows ==
  /\ rcStage = "detect"
  /\ RcGoto("forced")
  /\ UNCHANGED <<rcOpts, RcFinding, RcAids>>

-----------------------------------------------------------------------------
(* openTunnelRung: cloudflared is missing, fails, or gives a public name.  *)
RcOpenTunnel ==
  /\ rcTries' = rcTries + 1
  /\ \/ rcTunnel' = TRUE /\ rcEndpoint' = "name"
     \/ UNCHANGED <<rcTunnel, rcEndpoint>>

(* _autoElectRelay, which a relay-capable node does not call: the directory*)
(* names a relay-capable peer, or none.                                    *)
RcElectRelay == rcRelay' \in IF RcMayRelay THEN {rcRelay, TRUE} ELSE {rcRelay}

(* The ladder of an unreachable node: the tunnel, then a relay from the    *)
(* directory.                                                              *)
RcLadder ==
  /\ rcStage = "ladder"
  /\ \/ /\ rcPlan = RcNoPlan
        /\ RcGoto("forced")
        /\ UNCHANGED <<rcTunnel, rcTries, rcEndpoint, rcRelay, rcPlan>>
     \/ /\ rcPlan = RcTunnelPlan
        /\ RcOpenTunnel
        /\ rcPlan' = IF rcTunnel' THEN RcNoPlan ELSE RcRelayPlan
        /\ UNCHANGED <<rcStage, rcRelay>>
     \/ /\ rcPlan = RcRelayPlan
        /\ RcElectRelay
        /\ rcPlan' = RcNoPlan
        /\ UNCHANGED <<rcStage, rcTunnel, rcTries, rcEndpoint>>
  /\ UNCHANGED <<rcOpts, rcProfile, rcFound, rcNode, rcPinhole, rcAttempts>>

(* --tunnel: once more, whatever the ladder found, unless it has a tunnel. *)
RcForced ==
  /\ rcStage = "forced"
  /\ RcGoto("fallback")
  /\ IF rcOpts.tunnel = "asked" /\ ~rcTunnel
     THEN RcOpenTunnel
     ELSE UNCHANGED <<rcTunnel, rcTries, rcEndpoint>>
  /\ UNCHANGED <<rcOpts, rcProfile, rcFound, rcNode, rcPinhole, rcRelay, rcPlan, rcAttempts>>

(* directTunnelFallbackReason, which knows the detected pinhole only.      *)
RcReason ==
  \/ rcEndpoint = "local"
  \/ rcProfile = "unreachable"
  \/ rcEndpoint = "v6" /\ rcPinhole # "detected"

(* The fallback: a tunnel, if none was tried in this startup.              *)
RcFallback ==
  /\ rcStage = "fallback"
  /\ IF RcTunnelAllowed /\ ~rcTunnel /\ ~rcRelay /\ ~rcOpts.skip /\ RcReason
     THEN /\ IF rcTries = 0
             THEN RcOpenTunnel
             ELSE UNCHANGED <<rcTunnel, rcTries, rcEndpoint>>
          /\ RcGoto(IF rcTunnel' THEN "build" ELSE "fallbackRelay")
     ELSE RcGoto("build") /\ UNCHANGED <<rcTunnel, rcTries, rcEndpoint>>
  /\ UNCHANGED <<rcOpts, rcProfile, rcFound, rcNode, rcPinhole, rcRelay, rcPlan, rcAttempts>>

(* No tunnel: a relay, or exitIfSupervisedPublicFallbackUnrecovered.       *)
RcFallbackRelay ==
  /\ rcStage = "fallbackRelay"
  /\ RcElectRelay
  /\ RcGoto(IF ~RcMayRelay /\ rcOpts.supervised THEN "exited" ELSE "build")
  /\ UNCHANGED <<rcOpts, RcFinding, rcTunnel, rcTries, rcPlan, rcAttempts>>

\* Slip: what was detected goes before the tunnel.
RcAppliedLast ==
  IF rcProfile \in {"direct", "mapped", "external"} THEN rcFound ELSE rcEndpoint

(* applyNatProfile, of a reachable profile; a tunnel overrides it.         *)
RcApplied ==
  IF rcProfile \in {"direct", "mapped", "external"} /\ ~rcTunnel THEN rcFound ELSE rcEndpoint

(* The node; a sealed operator key or an unsigned policy throws.           *)
RcBuild ==
  /\ rcStage = "build"
  /\ \/ RcGoto("guard") /\ rcNode' = RcApplied
     \/ RcGoto("exited") /\ UNCHANGED rcNode
  /\ UNCHANGED <<rcOpts, rcEndpoint, rcProfile, rcFound, rcPinhole, RcAids>>

(* The NAT-4 guard: a local endpoint without a relay is not registered.    *)
(* A tunnel is registered once, since the directory cannot reach it yet;   *)
(* the heartbeat goes on from there.                                       *)
RcGuard ==
  /\ rcStage = "guard"
  /\ IF rcOpts.skip \/ (rcEndpoint = "local" /\ ~rcRelay)
     THEN RcGoto("serving") /\ UNCHANGED rcAttempts
     ELSE RcGoto("register") /\ rcAttempts' = IF rcTunnel THEN 1 ELSE 3
  /\ UNCHANGED <<rcOpts, RcFinding, rcTunnel, rcTries, rcRelay, rcPlan>>

RcRegister ==
  /\ rcStage = "register"
  /\ \/ RcGoto("serving") /\ UNCHANGED rcAttempts   \* registered
     \/ /\ rcAttempts' = rcAttempts - 1
        /\ RcGoto(IF rcAttempts = 1 THEN "serving" ELSE "register")
  /\ UNCHANGED <<rcOpts, RcFinding, rcTunnel, rcTries, rcRelay, rcPlan>>

RcNext ==
  \/ RcStart \/ RcOperatorPinhole \/ RcGiven \/ RcPublicV4 \/ RcGlobalV6
  \/ RcNotDirect \/ RcMapped \/ RcMappedBlind \/ RcNotMapped \/ RcCarrierGrade
  \/ RcIpv6 \/ RcExternal \/ RcBuild
  \/ RcUnreachable \/ RcDetectionThrows \/ RcLadder \/ RcForced
  \/ RcFallback \/ RcFallbackRelay \/ RcGuard \/ RcRegister

RcSpec == RcInit /\ [][RcNext]_RcVars

-----------------------------------------------------------------------------
(* The endpoint on its own is no public route: local, found unreachable,   *)
(* or IPv6 behind a firewall nobody has opened.                            *)
RcUnproven ==
  ~rcTunnel /\ (rcNode = "local" \/ rcProfile = "unreachable"
                  \/ (rcNode = "v6" /\ rcPinhole = "none"))

(* What registers an unproven route has run out of better ones, or was     *)
(* told not to look: the tunnel was tried, a relay carries it, or both     *)
(* were ruled out; a local endpoint is registered behind a relay only, and *)
(* a supervised relay-capable node leaves the retry to its supervisor.  A  *)
(* relay is elected only where no tunnel could be had, and a node that has *)
(* a tunnel registers the tunnel.                                          *)
RcLastResort ==
  /\ rcStage = "register" /\ RcUnproven =>
       /\ rcRelay \/ rcNode # "local"
       /\ \/ rcRelay \/ ~RcTunnelAllowed
          \/ rcTries > 0 /\ ~(rcOpts.capable /\ rcOpts.supervised)
  /\ rcRelay /\ ~rcOpts.relay =>
       ~rcOpts.capable /\ (rcTries > 0 \/ ~RcTunnelAllowed)
  /\ rcStage = "register" /\ rcTunnel => rcNode = "name"

(* A node whose IPv6 endpoint has a verified pinhole opens no tunnel that  *)
(* nobody asked for.                                                       *)
RcTunnelWhereNeeded ==
  rcPinhole # "none" /\ rcOpts.tunnel = "default" => ~rcTunnel
=============================================================================
