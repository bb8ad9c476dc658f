---------------------------- MODULE BackendCall ----------------------------
(***************************************************************************)
(* The backend handlers a provider serves (src/src/backends/base.ts and    *)
(* anthropic.ts): one HTTP request per call, which may time out, be        *)
(* cancelled through the registry of service_lifecycle.ts, fail, or answer *)
(* with headers and a body.  Calls that carry one task id share an entry   *)
(* of the registry.                                                        *)
(*                                                                         *)
(* The backend is external: it may also never answer.                      *)
(***************************************************************************)
EXTENDS Naturals, FiniteSets

CONSTANTS
  BkCalls,    \* records [task, engine] with a field that tells them apart
  BkNobody    \* no handler is registered

\* A handler of the OpenAI dialect for chat, completion and embedding, for
\* audio, or the Anthropic one, which is given no abort signal.
BkEngines == {"chat", "audio", "anthropic"}

ASSUME BkAssumption ==
  /\ BkNobody \notin BkCalls
  /\ \A c \in BkCalls : c.engine \in BkEngines

VARIABLES
  bkAt,         \* of each call: idle, headers, aborting, body, done
  bkCode,       \* its outcome
  bkHandlers,   \* handlers: the call a task's cancellation reaches
  bkSignalled,  \* tasks whose handler was called
  bkEvidence,   \* evidenceByTask
  bkToldAt      \* where a call was when its cancellation was signalled (history)

BkVars == <<bkAt, bkCode, bkHandlers, bkSignalled, bkEvidence, bkToldAt>>

BkTasks == {c.task : c \in BkCalls}
BkCodes == {"none", "ok", "400", "408", "499", "502", "upstream", "rejects"}
BkNoEvidence == [outcome |-> "none", clean |-> FALSE]

BkTypeOK ==
  /\ bkAt \in [BkCalls -> {"idle", "headers", "aborting", "body", "done"}]
  /\ bkCode \in [BkCalls -> BkCodes]
  /\ bkHandlers \in [BkTasks -> BkCalls \cup {BkNobody}]
  /\ bkSignalled \subseteq BkTasks
  /\ bkEvidence \in [BkTasks ->
       [outcome : {"none", "cancel_requested", "transport_aborted",
                   "cancel_unsupported", "already_terminal"},
        clean : BOOLEAN]]
  /\ bkToldAt \in [BkCalls -> {"never", "headers", "body"}]

BkInit ==
  /\ bkAt = [c \in BkCalls |-> "idle"]
  /\ bkCode = [c \in BkCalls |-> "none"]
  /\ bkHandlers = [t \in BkTasks |-> BkNobody]
  /\ bkSignalled = {}
  /\ bkEvidence = [t \in BkTasks |-> BkNoEvidence]
  /\ bkToldAt = [c \in BkCalls |-> "never"]

\* Slip: the entry of a task stays when its call ends.
BkKeep(t, outcome) ==
  LET seen == bkEvidence[t].outcome
      said == IF outcome # "none" THEN outcome ELSE seen IN
  /\ UNCHANGED bkHandlers
  /\ bkSignalled' = bkSignalled \ {t}
  /\ bkEvidence' = IF said = "none" THEN bkEvidence
                   ELSE [bkEvidence EXCEPT ![t] = [outcome |-> said, clean |-> TRUE]]

(* complete(): whoever's the entry is, it goes; evidence, when there is    *)
(* any, is closed.                                                         *)
BkComplete(t, outcome) ==
  LET seen == bkEvidence[t].outcome
      said == IF outcome # "none" THEN outcome ELSE seen IN
  /\ bkHandlers' = [bkHandlers EXCEPT ![t] = BkNobody]
  /\ bkSignalled' = bkSignalled \ {t}
  /\ bkEvidence' = IF said = "none" THEN bkEvidence
                   ELSE [bkEvidence EXCEPT ![t] = [outcome |-> said, clean |-> TRUE]]

(* withBackendCancellation: the result is known; 499 is reported, and the  *)
(* call completed, thrown or not.                                          *)
BkEnd(c, code) ==
  /\ bkAt' = [bkAt EXCEPT ![c] = "done"]
  /\ bkCode' = [bkCode EXCEPT ![c] = code]
  /\ BkComplete(c.task, IF code = "499" THEN "transport_aborted" ELSE "none")
  /\ UNCHANGED bkToldAt

(* A call is registered; the request goes out with a timer and, but for    *)
(* Anthropic, a listener.  One the handler cannot serve ends at once.      *)
BkStart(c) ==
  /\ bkAt[c] = "idle"
  /\ \/ /\ bkAt' = [bkAt EXCEPT ![c] = "headers"]
        /\ bkHandlers' = [bkHandlers EXCEPT ![c.task] = c]
        /\ bkSignalled' = bkSignalled \ {c.task}
        /\ UNCHANGED <<bkCode, bkEvidence, bkToldAt>>
     \/ BkEnd(c, "400")

BkListens(c) == bkAt[c] = "headers" /\ c.engine # "anthropic"

(* The controller of c is aborted: the pending fetch rejects, a body that  *)
(* is being read does not, for the listener is gone.                       *)
BkSignal(c) ==
  bkAt' = IF BkListens(c) THEN [bkAt EXCEPT ![c] = "aborting"] ELSE bkAt

(* request(): the lifecycle asks to cancel task t.                         *)
BkRequest(t, terminal) ==
  LET c == bkHandlers[t] IN
  \/ /\ terminal
     /\ BkComplete(t, "already_terminal")
     /\ UNCHANGED <<bkAt, bkCode, bkToldAt>>
  \/ /\ ~terminal /\ t \notin bkSignalled /\ c = BkNobody
     /\ BkComplete(t, "cancel_unsupported")
     /\ UNCHANGED <<bkAt, bkCode, bkToldAt>>
  \/ /\ ~terminal /\ t \notin bkSignalled /\ c # BkNobody
     /\ BkSignal(c)
     /\ bkSignalled' = bkSignalled \cup {t}
     /\ bkEvidence' = [bkEvidence EXCEPT ![t].outcome = "cancel_requested"]
     /\ bkToldAt' = [bkToldAt EXCEPT ![c] = bkAt[c]]
     /\ UNCHANGED <<bkCode, bkHandlers>>

(* transportFailure: the consumer's wish comes before the timer's.         *)
BkAborted(c) == bkAt[c] = "aborting" /\ BkEnd(c, "499")

BkTimeout(c) == bkAt[c] = "headers" /\ BkEnd(c, "408")

BkTransportFails(c) == bkAt[c] = "headers" /\ BkEnd(c, "502")

(* Headers: timer and listener are released, the body is read.             *)
BkHeaders(c) ==
  /\ bkAt[c] = "headers"
  /\ bkAt' = [bkAt EXCEPT ![c] = "body"]
  /\ UNCHANGED <<bkCode, bkHandlers, bkSignalled, bkEvidence, bkToldAt>>

(* The body of an error is optional; a body that cannot be read or parsed  *)
(* is an error of the backend, or for audio an exception of the handler.   *)
BkBody(c) ==
  /\ bkAt[c] = "body"
  /\ \E code \in {"ok", "upstream", IF c.engine = "audio" THEN "rejects" ELSE "502"} :
       BkEnd(c, code)

BkRuns(c) == BkStart(c) \/ BkAborted(c)

BkNext ==
  \/ \E t \in BkTasks, terminal \in BOOLEAN : BkRequest(t, terminal)
  \/ \E c \in BkCalls :
       BkRuns(c) \/ BkTimeout(c) \/ BkTransportFails(c) \/ BkHeaders(c) \/ BkBody(c)

(* The event loop runs and timers fire; the backend owes nothing.          *)
BkFairness ==
  \A c \in BkCalls : WF_BkVars(BkRuns(c)) /\ WF_BkVars(BkTimeout(c))

BkSpec == BkInit /\ [][BkNext]_BkVars /\ BkFairness

-----------------------------------------------------------------------------
(* A cancellation that was signalled while the call awaited its headers    *)
(* ends it as cancelled, never as a failure of the backend, and the        *)
(* registry reaches no call that has ended, also when several calls carry  *)
(* one task id.                                                            *)
BkCancelHonest ==
  /\ \A c \in BkCalls : bkCode[c] = "499" => bkToldAt[c] = "headers"
  /\ \A c \in BkCalls :
       bkAt[c] = "done" /\ bkToldAt[c] = "headers" /\ c.engine # "anthropic" =>
         bkCode[c] = "499"
  /\ \A t \in BkTasks :
       bkHandlers[t] # BkNobody => bkAt[bkHandlers[t]] \notin {"idle", "done"}

(* Waiting for headers ends, whatever the backend does (requestController).*)
BkHeadersBounded == \A c \in BkCalls : bkAt[c] = "headers" ~> bkAt[c] # "headers"

(* A call ends within its timeout, as the option "Per-request HTTP timeout *)
(* in milliseconds" says (openai_compat.ts).                               *)
BkCallEnds == \A c \in BkCalls : bkAt[c] = "headers" ~> bkAt[c] = "done"
=============================================================================
