-------------------------- MODULE BackendStability --------------------------
(***************************************************************************)
(* How a node drains for its backend (src/src/backend_stability.ts and     *)
(* _observeBackendStability in src/src/node.ts): every heartbeat asks the  *)
(* backend how it is, keeps the answer for admission, and reports it.      *)
(*                                                                         *)
(* Time passes in half minutes, the drain of a backend that is loading; an *)
(* unstable one is drained for two.  Heartbeats overlap when they are late.*)
(***************************************************************************)
EXTENDS Naturals

CONSTANT StBeats   \* heartbeats that may be under way at once

StServers == {"ollama", "lmstudio", "meshllm", "another"}
StFlavors == StServers \cup {"unset"}   \* the backend option
(* Cold: the model that is expected, if one is, is not loaded.             *)
StLooks == {"ready", "cold", "loading", "unstable", "garbled"}

VARIABLES
  stConfig,    \* what serves, and what is configured to (constant)
  stBackend,   \* how the backend is
  stBeat,      \* each heartbeat: where it is, and what the backend has said
  stHeld,      \* _backendStability
  stDirectory  \* the backend_stability of the last heartbeat that arrived

StVars == <<stConfig, stBackend, stBeat, stHeld, stDirectory>>

StObservations == [state : {"ok", "degraded", "draining"}, left : 0 .. 2]
StOk == [state |-> "ok", left |-> 0]
StDegraded == [state |-> "degraded", left |-> 0]
StDrainFor(n) == [state |-> "draining", left |-> n]

StTypeOK ==
  /\ stConfig \in [server : StServers, flavor : StFlavors]
  /\ stBackend \in StLooks
  /\ stBeat \in [StBeats -> [at : {"idle", "asked", "beating"}, saw : StLooks,
                             says : StObservations]]
  /\ stHeld \in StObservations /\ stDirectory \in StObservations

StIdle == [at |-> "idle", saw |-> "ready", says |-> StOk]

StInit ==
  /\ stConfig \in [server : StServers, flavor : StFlavors]
  /\ stBackend = "ready"
  /\ stBeat = [b \in StBeats |-> StIdle]
  /\ stHeld = StOk /\ stDirectory = StOk

-----------------------------------------------------------------------------
(* isDraining: what admission refuses for.                                 *)
StDraining(held) == held.state = "draining" /\ held.left > 0

(* parseOllamaPs: the model is loaded, or it is not.                       *)
StOllama(saw) == IF saw = "ready" THEN StOk ELSE StDegraded

(* parseLmStudioModels: an unstable instance of any model counts most.     *)
StLmStudio(saw) ==
  CASE saw = "unstable" -> StDrainFor(2)
    [] saw = "loading" -> StDrainFor(1)
    [] saw = "ready" -> StOk
    [] OTHER -> StDegraded

(* Whatever a MeshLLM backend answers drains it, unless it is ready.       *)
StMesh(saw) == IF saw = "ready" THEN StOk ELSE StDrainFor(1)

(* observeBackendStability, of an answer: the probes of a flavor ask its   *)
(* server, those of none the two that can be told apart; a server of       *)
(* another kind has no such page.                                          *)
StJudged(saw) ==
  LET is(flavor) == stConfig.flavor \in {flavor, "unset"} /\ stConfig.server = flavor IN
  CASE stConfig.flavor = "meshllm" ->
         IF stConfig.server = "meshllm" THEN StMesh(saw) ELSE StDrainFor(1)
    [] is("ollama") -> StOllama(saw)
    [] is("lmstudio") -> StLmStudio(saw)
    [] OTHER -> IF stConfig.flavor \in {"ollama", "lmstudio"} THEN StDegraded ELSE StOk

\* Slip: the last observation always counts.
StKeptLast(obs) == obs

(* _setBackendStability: a drain is kept until it is over, or renewed.     *)
StKept(obs) == IF StDraining(stHeld) /\ ~StDraining(obs) THEN stHeld ELSE obs

StBackendTurns ==
  /\ stBackend' \in StLooks \ {stBackend}
  /\ UNCHANGED <<stConfig, stBeat, stHeld, stDirectory>>

(* The backend answers a probe; the answer is on its way.                  *)
StAnswers(b) ==
  /\ stBeat[b].at = "idle"
  /\ stBeat' = [stBeat EXCEPT ![b] = [StIdle EXCEPT !.at = "asked", !.saw = stBackend]]
  /\ UNCHANGED <<stConfig, stBackend, stHeld, stDirectory>>

StObserved(b, obs) ==
  /\ stBeat[b].at = "asked"
  /\ stHeld' = StKept(obs)
  /\ stBeat' = [stBeat EXCEPT ![b] = [StIdle EXCEPT !.at = "beating", !.says = obs]]
  /\ UNCHANGED <<stConfig, stBackend, stDirectory>>

StProbed(b) == StObserved(b, StJudged(stBeat[b].saw))

(* No answer in two seconds, or one that is no JSON.                       *)
StProbeFails(b) == StObserved(b, StDegraded)

(* The heartbeat carries this observation, not the one that is kept.       *)
StReported(b) ==
  /\ stBeat[b].at = "beating"
  /\ stDirectory' = stBeat[b].says
  /\ stBeat' = [stBeat EXCEPT ![b] = StIdle]
  /\ UNCHANGED <<stConfig, stBackend, stHeld>>

StUnreported(b) ==
  /\ stBeat[b].at = "beating"
  /\ stBeat' = [stBeat EXCEPT ![b] = StIdle]
  /\ UNCHANGED <<stConfig, stBackend, stHeld, stDirectory>>

StTick ==
  LET later(obs) == [obs EXCEPT !.left = IF @ = 0 THEN 0 ELSE @ - 1] IN
  /\ stHeld' = later(stHeld)
  /\ stDirectory' = later(stDirectory)
  /\ stBeat' = [b \in StBeats |-> [stBeat[b] EXCEPT !.says = later(@)]]
  /\ UNCHANGED <<stConfig, stBackend>>

StNext ==
  \/ StBackendTurns \/ StTick
  \/ \E b \in StBeats :
       \/ StAnswers(b) \/ StProbed(b) \/ StProbeFails(b)
       \/ StReported(b) \/ StUnreported(b)

StSpec == StInit /\ [][StNext]_StVars

-----------------------------------------------------------------------------
(* "a transient probe miss must not prematurely reopen admission": nothing *)
(* a probe says, late, lost or overtaken by another, ends a drain; only    *)
(* time does.                                                              *)
StHoldsDrain ==
  [][StDraining(stHeld) /\ ~StDraining(stHeld') =>
       stHeld' = [stHeld EXCEPT !.left = 0]]_StVars

(* A node that refuses tasks for its backend has told the directory so.    *)
StToldWhileDraining ==
  StDraining(stHeld) => StDraining(stDirectory) \/ \E b \in StBeats : stBeat[b].at # "idle"
=============================================================================
