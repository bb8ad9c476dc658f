---------------------------- MODULE TunnelWatch ----------------------------
(***************************************************************************)
(* QuickTunnel (src/src/tunnel.ts) with the elastic watchdog runServe arms *)
(* (src/src/cli.ts): a health probe every interval, and a recovery started *)
(* by the exit of each child.  Both wait in the middle, so that recoveries *)
(* overlap each other, the probe and close().                              *)
(*                                                                         *)
(* A child has its own URL, so one number names both.  The probe's verdict *)
(* is whether the edge reaches the child; the name service is left out.    *)
(***************************************************************************)
EXTENDS Naturals, FiniteSets

CONSTANTS
  TwPolicies,  \* what onDeadAction may say: "retry", "stop", or "exit", which
               \* is what a supervised node does
  TwRespawns,  \* MAX_RESPAWNS
  TwMaxFails,  \* TUNNEL_HEALTH_MAX_FAILS
  TwFaults     \* bound on exits, dropped edges and failed starts

ASSUME TwAssumption ==
  /\ TwPolicies \subseteq {"retry", "stop", "exit"}
  /\ TwRespawns \in Nat /\ TwMaxFails \in Nat \ {0} /\ TwFaults \in Nat

\* Every child but the first replaces one that exited: by a fault, or killed
\* after a dropped edge, or by a verdict about its predecessor.
TwChildren == 1 .. 2 * TwFaults + 2

VARIABLES
  twSetup,    \* the node's policy, and whether creations are further apart
              \* than a verification takes (the default interval)
  twChild,    \* of each child: none, starting, up, dark (edge lost), gone
  twKilled,   \* children sent SIGTERM
  twCur,      \* this.process and this.url
  twRec,      \* of each child's exit: its recovery
  twCand,     \* the child that recovery has started
  twProbe,    \* the URL under probe, 0 when none
  twFails,    \* healthFails
  twTries,    \* _respawns
  twState,    \* the state last reported, hence the node's availability
  twUrl,      \* the URL last given to onNewUrl
  twClosed,   \* _closed
  twExited,   \* the process has exited
  twLeft      \* faults left

TwVars == <<twSetup, twChild, twKilled, twCur, twRec, twCand, twProbe, twFails, twTries,
            twState, twUrl, twClosed, twExited, twLeft>>

TwTypeOK ==
  /\ twSetup \in [policy : TwPolicies, paced : BOOLEAN]
  /\ twChild \in [TwChildren -> {"none", "starting", "up", "dark", "gone"}]
  /\ twKilled \subseteq TwChildren
  /\ twCur \in TwChildren
  /\ twRec \in [TwChildren -> {"none", "opening", "verifying", "waiting", "done"}]
  /\ twCand \in [TwChildren -> TwChildren \cup {0}]
  /\ twProbe \in TwChildren \cup {0}
  /\ twFails \in 0 .. TwMaxFails - 1
  /\ twTries \in Nat
  /\ twState \in {"ready", "twilight", "recovering", "dead"}
  /\ twUrl \in TwChildren
  /\ twClosed \in BOOLEAN
  /\ twExited \in BOOLEAN
  /\ twLeft \in 0 .. TwFaults

TwInit ==
  /\ twSetup \in [policy : TwPolicies, paced : BOOLEAN]
  /\ twChild = [i \in TwChildren |-> IF i = 1 THEN "up" ELSE "none"]
  /\ twKilled = {}
  /\ twCur = 1
  /\ twRec = [i \in TwChildren |-> "none"]
  /\ twCand = [i \in TwChildren |-> 0]
  /\ twProbe = 0
  /\ twFails = 0
  /\ twTries = 0
  /\ twState = "ready"
  /\ twUrl = 1
  /\ twClosed = FALSE
  /\ twExited = FALSE
  /\ twLeft = TwFaults

TwFault == twLeft > 0 /\ twLeft' = twLeft - 1
TwRuns(i) == twChild[i] \in {"up", "dark"}
TwUnused == {i \in TwChildren : twChild[i] = "none"}
TwKillCur ==
  twKilled' = IF TwRuns(twCur) THEN twKilled \cup {twCur} ELSE twKilled

-----------------------------------------------------------------------------
(* The probe.                                                              *)

TwProbeStarts ==
  /\ ~twClosed /\ ~twExited /\ twProbe = 0
  /\ TwRuns(twCur) /\ twCur \notin twKilled
  /\ twProbe' = twCur
  /\ UNCHANGED <<twChild, twKilled, twCur, twRec, twCand, twFails, twTries,
                 twState, twUrl, twClosed, twExited, twLeft>>

TwProbeGood ==
  /\ twChild[twProbe] = "up"
  /\ twFails' = 0
  /\ twTries' = 0
  /\ twState' = "ready"
  /\ UNCHANGED twKilled

\* Slip: one miss too many is tolerated.
TwProbeBadLate ==
  /\ twChild[twProbe] # "up"
  /\ \/ /\ twFails + 1 <= TwMaxFails
        /\ twFails' = twFails + 1
        /\ twState' = "twilight"
        /\ UNCHANGED twKilled
     \/ /\ twFails + 1 > TwMaxFails
        /\ twFails' = 0
        /\ twState' = "recovering"
        /\ TwKillCur
  /\ UNCHANGED twTries

(* The verdict is about the URL probed, the kill about the child current.  *)
TwProbeBad ==
  /\ twChild[twProbe] # "up"
  /\ \/ /\ twFails + 1 < TwMaxFails
        /\ twFails' = twFails + 1
        /\ twState' = "twilight"
        /\ UNCHANGED twKilled
     \/ /\ twFails + 1 >= TwMaxFails
        /\ twFails' = 0
        /\ twState' = "recovering"
        /\ TwKillCur
  /\ UNCHANGED twTries

TwProbeEnds ==
  /\ twProbe # 0 /\ ~twExited
  /\ twProbe' = 0
  /\ TwProbeGood \/ TwProbeBad
  /\ UNCHANGED <<twChild, twCur, twRec, twCand, twUrl, twClosed, twExited, twLeft>>

-----------------------------------------------------------------------------
(* Recovery r is under way after the exit of child r.                      *)

(* close(), also the exit hook: the current child is terminated.           *)
TwShut == twClosed' = TRUE /\ (IF twClosed THEN UNCHANGED twKilled ELSE TwKillCur)

(* handleDead: the policy decides what becomes of recovery r.  Exiting     *)
(* runs the exit hook.                                                     *)
TwDead(r) ==
  /\ twState' = "dead"
  /\ twRec' = [twRec EXCEPT ![r] = IF twSetup.policy = "retry" THEN "waiting" ELSE "done"]
  /\ \/ twSetup.policy # "exit" /\ UNCHANGED <<twClosed, twExited, twKilled>>
     \/ twSetup.policy = "exit" /\ twExited' = TRUE /\ TwShut

(* The head of recover's loop, with tries respawns so far: done when       *)
(* closed, dead after too many, else cloudflared is started.               *)
TwLoop(r, tries) ==
  \/ /\ twClosed
     /\ twRec' = [twRec EXCEPT ![r] = "done"]
     /\ twTries' = tries
     /\ UNCHANGED <<twCand, twClosed, twExited, twKilled>>
  \/ /\ ~twClosed /\ tries >= TwRespawns
     /\ twTries' = tries + 1
     /\ TwDead(r)
     /\ UNCHANGED twCand
  \/ /\ ~twClosed /\ tries < TwRespawns
     /\ twTries' = tries + 1
     /\ twRec' = [twRec EXCEPT ![r] = "opening"]
     /\ \E c \in TwUnused :
          /\ \A d \in TwUnused : c <= d
          /\ twCand' = [twCand EXCEPT ![r] = c]
     /\ UNCHANGED <<twClosed, twExited, twKilled>>

(* A child exits, killed or not; an armed exit hook starts a recovery.     *)
TwChildExits(i) ==
  /\ TwRuns(i)
  /\ IF i \in twKilled THEN UNCHANGED twLeft ELSE TwFault
  /\ IF twClosed \/ twExited
     THEN /\ twChild' = [twChild EXCEPT ![i] = "gone"]
          /\ UNCHANGED <<twState, twRec, twCand, twTries, twClosed, twExited, twKilled>>
     ELSE /\ TwLoop(i, twTries)
          /\ twState' = IF twRec'[i] = "opening" THEN "recovering" ELSE "dead"
          /\ twChild' = IF twRec'[i] = "opening"
                        THEN [twChild EXCEPT ![i] = "gone", ![twCand'[i]] = "starting"]
                        ELSE [twChild EXCEPT ![i] = "gone"]
  /\ UNCHANGED <<twCur, twProbe, twFails, twUrl>>

(* openQuickTunnel resolves: the fresh child becomes the current one, its  *)
(* exit hook goes, whether the tunnel was closed meanwhile or not.  With   *)
(* the default interval between creations a verification is over by then.  *)
TwOpens(r) ==
  /\ twRec[r] = "opening" /\ ~twExited
  /\ twSetup.paced => \A q \in TwChildren : twRec[q] # "verifying"
  /\ twCur' = twCand[r]
  /\ \E s \in {"up", "dark"} :
       /\ twChild' = [twChild EXCEPT ![twCand[r]] = s]
       /\ IF s = "dark" THEN TwFault ELSE UNCHANGED twLeft
  /\ twRec' = [twRec EXCEPT ![r] = "verifying"]
  /\ UNCHANGED <<twKilled, twCand, twProbe, twFails, twTries, twState, twUrl,
                 twClosed, twExited>>

(* It rejects: one failed start is already the end, MAX_RESPAWNS or not.   *)
TwOpenFails(r) ==
  /\ twRec[r] = "opening" /\ ~twExited
  /\ TwFault
  /\ twChild' = [twChild EXCEPT ![twCand[r]] = "gone"]
  /\ TwDead(r)
  /\ UNCHANGED <<twCur, twCand, twProbe, twFails, twTries, twUrl>>

\* Slip: nothing is announced when a probe has reported the tunnel ready.
TwVerifiedUnlessReady(r) ==
  /\ twRec[r] = "verifying" /\ ~twExited
  /\ twChild[twCand[r]] = "up"
  /\ twTries' = 0
  /\ twState' = "ready"
  /\ twUrl' = IF twState = "ready" THEN twUrl ELSE twCur
  /\ twRec' = [twRec EXCEPT ![r] = "done"]
  /\ UNCHANGED <<twChild, twKilled, twCur, twCand, twProbe, twFails, twClosed,
                 twExited, twLeft>>

(* waitUntilReachable: the candidate answered; the URL that is announced   *)
(* is the current one.                                                     *)
TwVerified(r) ==
  /\ twRec[r] = "verifying" /\ ~twExited
  /\ twChild[twCand[r]] = "up"
  /\ twTries' = 0
  /\ twState' = "ready"
  /\ twUrl' = twCur
  /\ twRec' = [twRec EXCEPT ![r] = "done"]
  /\ UNCHANGED <<twChild, twKilled, twCur, twCand, twProbe, twFails, twClosed,
                 twExited, twLeft>>

(* The candidate stayed unreachable: the current child is terminated.      *)
TwUnverified(r) ==
  /\ twRec[r] = "verifying" /\ ~twExited
  /\ twChild[twCand[r]] # "up"
  /\ TwKillCur
  /\ twRec' = [twRec EXCEPT ![r] = "done"]
  /\ UNCHANGED <<twChild, twCur, twCand, twProbe, twFails, twTries, twState, twUrl,
                 twClosed, twExited, twLeft>>

(* The retry delay of handleDead is over.                                  *)
TwRetry(r) ==
  /\ twRec[r] = "waiting" /\ ~twExited
  /\ TwLoop(r, 0)
  /\ \/ twClosed /\ UNCHANGED <<twFails, twState, twChild>>
     \/ /\ ~twClosed
        /\ twFails' = 0
        /\ twState' = "recovering"
        /\ twChild' = [twChild EXCEPT ![twCand'[r]] = "starting"]
  /\ UNCHANGED <<twCur, twProbe, twUrl, twLeft>>

-----------------------------------------------------------------------------
(* The edge connection is lost while cloudflared runs.                     *)
TwEdgeDrops(i) ==
  /\ twChild[i] = "up"
  /\ TwFault
  /\ twChild' = [twChild EXCEPT ![i] = "dark"]
  /\ UNCHANGED <<twKilled, twCur, twRec, twCand, twProbe, twFails, twTries, twState,
                 twUrl, twClosed, twExited>>

(* The process exits normally: the hook closes the tunnel.                 *)
TwExit ==
  /\ ~twExited
  /\ twExited' = TRUE
  /\ TwShut
  /\ UNCHANGED <<twChild, twCur, twRec, twCand, twProbe, twFails, twTries, twState,
                 twUrl, twLeft>>

TwClose ==
  /\ ~twClosed /\ ~twExited
  /\ TwShut
  /\ UNCHANGED <<twChild, twCur, twRec, twCand, twProbe, twFails, twTries, twState,
                 twUrl, twExited, twLeft>>

\* A child of an exited process comes up, or was killed before it did.
TwOrphanStarts(i) ==
  /\ twExited /\ twChild[i] = "starting"
  /\ twChild' = [twChild EXCEPT ![i] = "up"]
  /\ UNCHANGED <<twKilled, twCur, twRec, twCand, twProbe, twFails, twTries, twState,
                 twUrl, twClosed, twExited, twLeft>>

TwSettles(r) == TwOpens(r) \/ TwVerified(r) \/ TwUnverified(r) \/ TwRetry(r)

TwMoves ==
  \/ TwProbeStarts \/ TwProbeEnds \/ TwExit \/ TwClose
  \/ \E i \in TwChildren :
       \/ TwSettles(i) \/ TwOpenFails(i) \/ TwChildExits(i) \/ TwEdgeDrops(i)
       \/ TwOrphanStarts(i)

TwDo(move) == move /\ UNCHANGED twSetup
TwNext == TwDo(TwMoves)

(* Timers fire, an attempt to open settles, a child sent SIGTERM exits.    *)
TwFairness ==
  /\ WF_TwVars(TwDo(TwProbeStarts)) /\ WF_TwVars(TwDo(TwProbeEnds))
  /\ \A i \in TwChildren :
       /\ WF_TwVars(TwDo(TwSettles(i)))
       /\ WF_TwVars(TwDo(TwOrphanStarts(i)))
       /\ WF_TwVars(TwDo(i \in twKilled /\ TwChildExits(i)))

TwSpec == TwInit /\ [][TwNext]_TwVars /\ TwFairness

-----------------------------------------------------------------------------
TwQuiet == \A r \in TwChildren : twRec[r] \in {"none", "done"}

(* Once no recovery is under way, a tunnel that serves is the one whose    *)
(* URL was announced, so the directory does not keep a dead one: whatever  *)
(* recoveries overlapped, and whatever a probe reported in between.        *)
TwAnnounced ==
  TwQuiet /\ ~twExited /\ twChild[twCur] = "up" /\ twCur \notin twKilled =>
    twUrl = twCur

(* Self-healing under the retry policy: once faults stop, the node is      *)
(* reachable at the URL it announced and says so, or was stopped.  With    *)
(* creations closer together than a verification takes, the late verdict   *)
(* of one recovery kills the child of the next, and so on.                 *)
TwHeals ==
  <>[](\/ twClosed \/ twExited \/ ~twSetup.paced \/ twSetup.policy # "retry"
       \/ twChild[twCur] = "up" /\ twUrl = twCur /\ twState = "ready")

(* A normal exit never orphans the child (header of tunnel.ts).            *)
TwNoOrphan ==
  twExited => \A i \in TwChildren : TwRuns(i) => i \in twKilled
=============================================================================
