---------------------------- MODULE PinholeLease ----------------------------
(***************************************************************************)
(* The firewall pinhole of a node that advertises an IPv6 address: opened  *)
(* on the first of the host's addresses the router accepts, renewed every  *)
(* half lease, and closed at shutdown (src/src/nat_detection.ts,           *)
(* IicpNode.applyNatProfile to revokePinhole in src/src/node.ts).          *)
(*                                                                         *)
(* A call to the router first waits out a whole discovery; the router may  *)
(* then not have answered, or answer and its reply be lost.                *)
(***************************************************************************)
EXTENDS Integers, Sequences

CONSTANTS
  PhAddresses, \* the host's global addresses, as they are ranked
  PhHalf,      \* half of a lease
  PhProbe,     \* duration of a discovery
  PhMisses     \* bound on the calls the router misses

PhAll == {PhAddresses[i] : i \in 1 .. Len(PhAddresses)}

ASSUME PhAssumption ==
  /\ PhAddresses \in Seq(PhAll)
  /\ \A i, j \in 1 .. Len(PhAddresses) : PhAddresses[i] = PhAddresses[j] => i = j
  /\ PhHalf \in Nat /\ PhProbe \in Nat /\ 0 < PhProbe /\ PhProbe < PhHalf
  /\ PhMisses \in Nat

VARIABLES
  phStage,    \* "opening", "up", or "revoking"
  phEndpoint, \* the address advertised
  phTry,      \* candidates not tried yet
  phHole,     \* the router's pinhole for the address it was opened on
  phHeld,     \* _pinholeUid: what the health report calls active
  phTimer,    \* time left on _pinholeRenewalTimer, -1 for none
  phRenew,    \* time left of the discovery of a renewal, -1 for none
  phDelete,   \* and of the closing
  phMissed    \* calls the router missed

PhVars ==
  <<phStage, phEndpoint, phTry, phHole, phHeld, phTimer, phRenew, phDelete, phMissed>>

PhLease == 2 * PhHalf
PhIdle == -1
PhClosed == [on |-> "nothing", left |-> 0]
PhSpan(n) == PhIdle .. n

PhTypeOK ==
  /\ phStage \in {"opening", "up", "revoking"}
  /\ phEndpoint \in PhAll
  /\ phTry \in Seq(PhAll)
  /\ phHole \in [on : PhAll \cup {"nothing"}, left : 0 .. PhLease]
  /\ phHeld \in BOOLEAN
  /\ phTimer \in PhSpan(PhLease) /\ phRenew \in PhSpan(PhProbe) /\ phDelete \in PhSpan(PhProbe)
  /\ phMissed \in 0 .. PhMisses

(* tryOpenV6PinholeForEndpoint: the endpoint's own address comes first.    *)
PhInit ==
  /\ phStage = "opening"
  /\ \E i \in 1 .. Len(PhAddresses) :
       /\ phEndpoint = PhAddresses[i]
       /\ phTry = <<phEndpoint>> \o SubSeq(PhAddresses, 1, i - 1)
                                \o SubSeq(PhAddresses, i + 1, Len(PhAddresses))
  /\ phHole = PhClosed
  /\ phHeld = FALSE
  /\ phTimer = PhIdle /\ phRenew = PhIdle /\ phDelete = PhIdle
  /\ phMissed = 0

PhMiss == phMissed < PhMisses /\ phMissed' = phMissed + 1

-----------------------------------------------------------------------------
\* Slip: the next renewal is due when the lease ends.
PhDelayLease == PhLease

PhDelay == PhHalf

(* tryUpnpIpv6Pinhole on the next candidate.  When the router opened it,   *)
(* applyNatProfile holds it, advertises its address and schedules the      *)
(* renewal; without one the endpoint stays as it was.                      *)
PhOpened ==
  /\ phStage = "opening" /\ phTry # <<>>
  /\ phStage' = "up"
  /\ phHole' = [on |-> Head(phTry), left |-> PhLease]
  /\ phEndpoint' = Head(phTry)
  /\ phHeld' = TRUE
  /\ phTimer' = PhDelay
  /\ phTry' = <<>>
  /\ UNCHANGED <<phRenew, phDelete, phMissed>>

PhRefused ==
  /\ phStage = "opening" /\ phTry # <<>>
  /\ phTry' = Tail(phTry)
  /\ UNCHANGED <<phStage, phEndpoint, phHole, phHeld, phTimer, phRenew, phDelete, phMissed>>

(* The router opens it and its reply is lost: the next candidate is tried. *)
PhOpenedUnheard ==
  /\ phStage = "opening" /\ phTry # <<>> /\ PhMiss
  /\ phHole' = [on |-> Head(phTry), left |-> PhLease]
  /\ phTry' = Tail(phTry)
  /\ UNCHANGED <<phStage, phEndpoint, phHeld, phTimer, phRenew, phDelete>>

PhWithout ==
  /\ phStage = "opening" /\ phTry = <<>>
  /\ phStage' = "up"
  /\ UNCHANGED <<phEndpoint, phTry, phHole, phHeld, phTimer, phRenew, phDelete, phMissed>>

\* Slip: the timer renews whatever is held.
PhTimerRenews ==
  /\ phTimer = 0
  /\ phTimer' = PhIdle
  /\ phRenew' = PhProbe
  /\ UNCHANGED <<phStage, phEndpoint, phTry, phHole, phHeld, phDelete, phMissed>>

(* _schedulePinholeRenewal's timer: nothing to renew once the pinhole is   *)
(* given up.                                                               *)
PhTimerFires ==
  /\ phTimer = 0
  /\ phTimer' = PhIdle
  /\ phRenew' = IF phHeld THEN PhProbe ELSE phRenew
  /\ UNCHANGED <<phStage, phEndpoint, phTry, phHole, phHeld, phDelete, phMissed>>

(* renewIpv6Pinhole: an open pinhole gets a new lease; answered or not,    *)
(* the next renewal is scheduled a delay from now.                         *)
PhRenewed ==
  /\ phRenew = 0
  /\ phRenew' = PhIdle
  /\ phTimer' = PhDelay
  /\ phHole' = IF phHole.left > 0 THEN [phHole EXCEPT !.left = PhLease] ELSE phHole
  /\ UNCHANGED phMissed \/ PhMiss   \* or its reply is lost
  /\ UNCHANGED <<phStage, phEndpoint, phTry, phHeld, phDelete>>

PhRenewMissed ==
  /\ phRenew = 0 /\ PhMiss
  /\ phRenew' = PhIdle
  /\ phTimer' = PhDelay
  /\ UNCHANGED <<phStage, phEndpoint, phTry, phHole, phHeld, phDelete>>

(* revokePinhole, at shutdown: the timer is cleared, a renewal under way   *)
(* is not.                                                                 *)
PhRevoke ==
  /\ phStage = "up"
  /\ phStage' = "revoking"
  /\ phTimer' = PhIdle
  /\ phHeld' = FALSE
  /\ phDelete' = IF phHeld THEN PhProbe ELSE PhIdle
  /\ UNCHANGED <<phEndpoint, phTry, phHole, phRenew, phMissed>>

(* deleteIpv6Pinhole.                                                      *)
PhDeleted ==
  /\ phDelete = 0
  /\ phDelete' = PhIdle
  /\ phHole' = PhClosed
  /\ UNCHANGED <<phStage, phEndpoint, phTry, phHeld, phTimer, phRenew, phMissed>>

PhDeleteMissed ==
  /\ phDelete = 0 /\ PhMiss
  /\ phDelete' = PhIdle
  /\ UNCHANGED <<phStage, phEndpoint, phTry, phHole, phHeld, phTimer, phRenew>>

PhLess(n) == IF n > 0 THEN n - 1 ELSE n

PhTick ==
  /\ phStage # "opening" /\ 0 \notin {phTimer, phRenew, phDelete}
  /\ phTimer' = PhLess(phTimer)
  /\ phRenew' = PhLess(phRenew)
  /\ phDelete' = PhLess(phDelete)
  /\ phHole' = IF phHole.left > 1 THEN [phHole EXCEPT !.left = @ - 1] ELSE PhClosed
  /\ UNCHANGED <<phStage, phEndpoint, phTry, phHeld, phMissed>>

PhNext ==
  \/ PhOpened \/ PhRefused \/ PhOpenedUnheard \/ PhWithout
  \/ PhTimerFires \/ PhRenewed \/ PhRenewMissed
  \/ PhRevoke \/ PhDeleted \/ PhDeleteMissed \/ PhTick

PhFairness ==
  /\ WF_PhVars(PhTick)
  /\ WF_PhVars(PhTimerFires \/ PhRenewed \/ PhRenewMissed \/ PhDeleted \/ PhDeleteMissed)

PhSpec == PhInit /\ [][PhNext]_PhVars /\ PhFairness

-----------------------------------------------------------------------------
PhOpen == phHole.on = phEndpoint /\ phHole.left > 0

(* While the router has answered every call, the pinhole the node holds    *)
(* and reports as active is open, on the address the node advertises.      *)
PhOpenWhileHeld == phHeld /\ phMissed = 0 => PhOpen

(* A single call the router missed does not cost the node its pinhole.     *)
PhSurvivesOneMiss == phHeld /\ phMissed <= 1 => PhOpen

(* Once the node has given its pinhole up, the router's is closed for      *)
(* good, though a renewal was under way and the closing may be missed.     *)
PhClosedForGood == phStage = "revoking" ~> [](phHole.left = 0)
=============================================================================
