---------------------------- MODULE Registration ----------------------------
(***************************************************************************)
(* How a provider stays registered: register(), the heartbeat tick and its *)
(* re-registrations, the relay and tunnel callbacks (src/src/node.ts), and *)
(* the startup and shutdown of `serve` (src/src/cli.ts).                   *)
(*                                                                         *)
(* Four places hold a token of their own (_runtimeToken, the interval's    *)
(* currentToken, the relay callback's currentToken, the CLI's token), each *)
(* registration makes the directory replace the token it knows, and the    *)
(* replies come back in any order.                                         *)
(*                                                                         *)
(* The directory is external.  It follows what src assumes of it: every    *)
(* accepted registration rotates the token (instance_lock.ts), another     *)
(* endpoint is accepted only with the current token (IICP-E050), a node    *)
(* whose heartbeats fail expires.  Budget bounds everything that goes      *)
(* wrong or changes from outside.                                          *)
(***************************************************************************)
EXTENDS Naturals, FiniteSets

CONSTANTS
  Ticks,     \* heartbeat ticks that may be under way at once
  Actors,    \* "relay", "tunnel": callbacks that register too
  Tokens,    \* enough tokens that one nobody holds is left, see Fresh
  NoToken,   \* the empty or absent token
  Attempts,  \* registrationAttempts
  Grace,     \* IICP_RECOVERY_GRACE_CHECKS
  Budget,    \* bound on faults, crashes and changes of the endpoint
  MayStop    \* a signal may stop the process

Callers == Ticks \cup Actors \cup {"start", "stop"}

ASSUME RegistrationAssumption ==
  /\ Actors \subseteq {"relay", "tunnel"}
  /\ Ticks \cap {"relay", "tunnel", "start", "stop"} = {}
  /\ NoToken \notin Tokens
  /\ IsFiniteSet(Ticks) /\ Ticks # {}
  /\ IsFiniteSet(Tokens) =>
       Cardinality(Tokens) > 5 + 2 * Cardinality(Callers) + Cardinality(Ticks)
  /\ Attempts \in Nat \ {0} /\ Grace \in Nat \ {0} /\ Budget \in Nat
  /\ MayStop \in BOOLEAN

VARIABLES
  phase,        \* of the process: starting, serving, stopping, exited
  failedStarts, \* failed registrations of this start
  runtimeToken, \* _runtimeToken, also in the saved node file
  overtaken,    \* an older token has replaced the current one there (history)
  loopToken,    \* currentToken of the heartbeat interval
  relayToken,   \* currentToken of the relay callback
  cliToken,     \* token of runServe
  endpoint,     \* _cfg.endpoint
  req,          \* the request each caller awaits
  held,         \* the token a tick would go on with
  why,          \* what a tick registers for
  failures,     \* _recoveryFailures
  dirToken,     \* the token the directory knows, NoToken when the node is not listed
  dirEndpoint,  \* the endpoint it lists
  budget,       \* what is left of Budget
  accepted,     \* registrations the directory accepted (history)
  muddled,      \* the answer of a granted registration was lost (history)
  unheard       \* the deregistration of the shutdown got lost (history)

stash == <<runtimeToken, overtaken>>
tokens == <<stash, loopToken, relayToken, cliToken>>
process == <<phase, failedStarts, endpoint, failures>>
listing == <<dirToken, dirEndpoint, accepted>>
histories == <<muddled, unheard>>
RgVars == <<process, tokens, req, held, why, listing, budget, histories>>

DirectoryRequest ==
  [ kind     : {"none", "beat", "register", "deregister"},
    token    : Tokens \cup {NoToken},
    endpoint : 0 .. Budget,
    answer   : {"pending", "ok", "unknown", "failed"},
    granted  : Tokens \cup {NoToken} ]

NoRequest ==
  [ kind |-> "none", token |-> NoToken, endpoint |-> 0,
    answer |-> "pending", granted |-> NoToken ]

RgTypeOK ==
  /\ phase \in {"starting", "serving", "stopping", "exited"}
  /\ failedStarts \in 0 .. Attempts
  /\ runtimeToken \in Tokens \cup {NoToken}
  /\ loopToken \in Tokens \cup {NoToken}
  /\ relayToken \in Tokens \cup {NoToken}
  /\ cliToken \in Tokens \cup {NoToken}
  /\ endpoint \in 0 .. Budget
  /\ req \in [Callers -> DirectoryRequest]
  /\ held \in [Ticks -> Tokens \cup {NoToken}]
  /\ why \in [Ticks -> {"none", "heal", "drift", "recover"}]
  /\ failures \in Nat
  /\ dirToken \in Tokens \cup {NoToken}
  /\ dirEndpoint \in 0 .. Budget
  /\ budget \in 0 .. Budget
  /\ accepted \in Nat
  /\ muddled \in BOOLEAN
  /\ unheard \in BOOLEAN
  /\ overtaken \in BOOLEAN

RgInit ==
  /\ phase = "starting"
  /\ failedStarts = 0
  /\ runtimeToken = NoToken
  /\ loopToken = NoToken
  /\ relayToken = NoToken
  /\ cliToken = NoToken
  /\ endpoint = 0
  /\ req = [c \in Callers |-> NoRequest]
  /\ held = [t \in Ticks |-> NoToken]
  /\ why = [t \in Ticks |-> "none"]
  /\ failures = 0
  /\ dirToken = NoToken
  /\ dirEndpoint = 0
  /\ budget = Budget
  /\ accepted = 0
  /\ muddled = FALSE
  /\ unheard = FALSE
  /\ overtaken = FALSE

Spend == budget > 0 /\ budget' = budget - 1

-----------------------------------------------------------------------------
(* Requests.                                                               *)

Quiet(c) == req[c].kind = "none"
Answered(c, kind) == req[c].kind = kind /\ req[c].answer # "pending"
Granted(c) == req[c].answer = "ok"

(* The directory granted a registration and c does not know it yet.        *)
Given(c) == Answered(c, "register") /\ Granted(c)

Ask(kind, token) ==
  [ NoRequest EXCEPT !.kind = kind, !.token = token, !.endpoint = endpoint ]

Send(c, kind, token) == req' = [req EXCEPT ![c] = Ask(kind, token)]

Done(c) == req' = [req EXCEPT ![c] = NoRequest]

(* register() proves ownership with _runtimeToken and sends the endpoint   *)
(* of that moment.                                                         *)
SendRegister(c) == Send(c, "register", runtimeToken)

\* Slip: only the loop learns the new token, the stash does not.
KeepOldProof(c) == UNCHANGED stash

(* Its successful reply is stashed, whatever the stash holds by then; a    *)
(* failure leaves it alone.                                                *)
Stash(c) ==
  IF Granted(c)
  THEN /\ runtimeToken' = req[c].granted
       /\ overtaken' =
            (overtaken \/ (runtimeToken = dirToken /\ req[c].granted # dirToken))
  ELSE UNCHANGED stash

-----------------------------------------------------------------------------
(* Startup: register with bounded retries, then serve whatever came of it. *)

StartAttempt ==
  /\ phase = "starting" /\ Quiet("start")
  /\ SendRegister("start")
  /\ UNCHANGED <<process, tokens, held, why, listing, budget, histories>>

StartAnswered ==
  /\ phase = "starting" /\ Answered("start", "register")
  /\ Done("start")
  /\ Stash("start")
  /\ IF Granted("start")
     THEN /\ cliToken' = req["start"].granted
          /\ loopToken' = cliToken' /\ relayToken' = cliToken'
          /\ phase' = "serving"
          /\ UNCHANGED failedStarts
     ELSE /\ failedStarts' = failedStarts + 1
          /\ phase' = IF failedStarts' = Attempts THEN "serving" ELSE "starting"
          /\ UNCHANGED <<cliToken, loopToken, relayToken>>
  /\ UNCHANGED <<endpoint, failures, held, why, listing, budget, histories>>

-----------------------------------------------------------------------------
(* A heartbeat tick.                                                       *)

Running == phase \in {"serving", "stopping"}

(* The interval does not wait for a tick that is still under way; one that *)
(* lasts longer than the interval is among the things that go wrong.       *)
StartTick(t) ==
  /\ Running /\ Quiet(t)
  /\ IF \A u \in Ticks \ {t} : Quiet(u) THEN UNCHANGED budget ELSE Spend
  /\ Send(t, "beat", loopToken)
  /\ held' = [held EXCEPT ![t] = loopToken]
  /\ UNCHANGED <<process, tokens, why, listing, histories>>

(* The tick returns: the interval goes on with the token it returned.      *)
Return(t, token) ==
  /\ loopToken' = token
  /\ Done(t)
  /\ held' = [held EXCEPT ![t] = NoToken]
  /\ why' = [why EXCEPT ![t] = "none"]

(* A registration the same step has stashed is the one it proves with.     *)
Reregister(t, reason) ==
  /\ Send(t, "register", runtimeToken')
  /\ why' = [why EXCEPT ![t] = reason]
  /\ UNCHANGED loopToken

(* classifyRecovery, for a node whose own health is fine.                  *)
Classify(route, presence, n, draining) ==
  CASE draining -> "none"
    [] ~ draining /\ (~ route \/ presence = "absent") /\ n >= Grace -> "restart_self"
    [] ~ draining /\ route /\ presence = "absent" /\ n < Grace -> "reregister"
    [] OTHER -> "none"

(* Process end and restart: the saved token survives, requests do not; a   *)
(* tunnel has another URL after a restart.  A process that was asked to    *)
(* stop is not started again.                                              *)
Restart ==
  /\ phase' = IF phase = "stopping" THEN "exited" ELSE "starting"
  /\ failedStarts' = 0
  /\ loopToken' = NoToken /\ relayToken' = NoToken /\ cliToken' = NoToken
  /\ endpoint' = IF "tunnel" \in Actors THEN Budget - budget' ELSE endpoint
  /\ req' = [c \in Callers |-> NoRequest]
  /\ held' = [t \in Ticks |-> NoToken]
  /\ why' = [t \in Ticks |-> "none"]
  /\ failures' = 0
  /\ muddled' = (muddled \/ \E c \in Callers : Given(c) /\ req[c].granted # runtimeToken')
  /\ unheard' = (unheard \/ ~ Quiet("stop"))
  /\ UNCHANGED listing

(* The tick may end here or check the registry, every few heartbeats.  A   *)
(* check that finds something wrong spends budget.  Only a supervised node *)
(* exits for restart_self.                                                 *)
Proceed(t, token) ==
  \/ /\ Return(t, token)
     /\ UNCHANGED <<process, relayToken, cliToken, budget, histories>>
  \/ \E route, draining \in BOOLEAN, presence \in {"present", "absent", "unknown"} :
       LET wrong == ~ route \/ presence = "absent"
           n == IF wrong THEN failures + 1
                ELSE IF presence = "present" THEN 0 ELSE failures
           action == Classify(route, presence, n, draining)
       IN  /\ wrong \/ failures > 0
           /\ IF wrong THEN Spend ELSE UNCHANGED budget
           /\ \/ /\ action \in {"none", "restart_self"}
                 /\ Return(t, token)
                 /\ failures' = n
                 /\ UNCHANGED <<phase, failedStarts, endpoint, relayToken,
                                cliToken, histories>>
              \/ /\ action = "reregister"
                 /\ Reregister(t, "recover")
                 /\ held' = [held EXCEPT ![t] = token]
                 /\ failures' = n
                 /\ UNCHANGED <<phase, failedStarts, endpoint, relayToken,
                                cliToken, histories>>
              \/ action = "restart_self" /\ Restart

BeatAccepted(t) ==
  /\ Running /\ Answered(t, "beat") /\ Granted(t)
  /\ UNCHANGED <<stash, listing>>
  /\ \/ Proceed(t, held[t])
     \/ /\ Spend                    \* the backend's models changed
        /\ Reregister(t, "drift")
        /\ UNCHANGED <<process, held, relayToken, cliToken, histories>>

\* Slip: a rejection ends the tick like any other failure.
BeatRejectedIgnored(t) ==
  /\ Running /\ Answered(t, "beat") /\ req[t].answer = "unknown"
  /\ Return(t, held[t])
  /\ UNCHANGED <<process, stash, relayToken, cliToken, listing,
                 budget, histories>>

(* 401, 404, 410: re-register.                                             *)
BeatRejected(t) ==
  /\ Running /\ Answered(t, "beat") /\ req[t].answer = "unknown"
  /\ UNCHANGED <<process, stash, relayToken, cliToken, held, listing,
                 budget, histories>>
  /\ Reregister(t, "heal")

(* Any other failure keeps the token for the next tick.                    *)
BeatFailed(t) ==
  /\ Running /\ Answered(t, "beat") /\ req[t].answer = "failed"
  /\ Return(t, held[t])
  /\ UNCHANGED <<process, stash, relayToken, cliToken, listing,
                 budget, histories>>

TickRegistered(t) ==
  /\ Running /\ Answered(t, "register")
  /\ Stash(t)
  /\ LET token == IF Granted(t) THEN req[t].granted ELSE held[t] IN
     \/ /\ why[t] = "drift" /\ Proceed(t, token)
     \/ /\ why[t] # "drift" /\ Return(t, token)
        /\ failures' = IF why[t] = "recover" /\ Granted(t) THEN 0 ELSE failures
        /\ UNCHANGED <<phase, failedStarts, endpoint, relayToken, cliToken,
                       budget, histories>>
  /\ UNCHANGED listing

-----------------------------------------------------------------------------
(* The callbacks that register beside the loop.                            *)

(* onBind of the relay worker: deregister with its own token, if it has    *)
(* one, then register the relayed endpoint.                                *)
RelayBinds ==
  /\ "relay" \in Actors /\ Running /\ Quiet("relay")
  /\ Spend
  /\ endpoint' = Budget - budget'
  /\ LET ask == IF relayToken # NoToken THEN Ask("deregister", relayToken)
                ELSE Ask("register", runtimeToken)
     IN  req' = [req EXCEPT !["relay"] = [ask EXCEPT !.endpoint = endpoint']]
  /\ UNCHANGED <<phase, failedStarts, failures, tokens, held, why, listing,
                 histories>>

RelayDeregistered ==
  /\ "relay" \in Actors /\ Running /\ Answered("relay", "deregister")
  /\ SendRegister("relay")
  /\ UNCHANGED <<process, tokens, held, why, listing, budget, histories>>

RelayRegistered ==
  /\ "relay" \in Actors /\ Running /\ Answered("relay", "register")
  /\ Done("relay")
  /\ Stash("relay")
  /\ relayToken' = IF Granted("relay") THEN req["relay"].granted ELSE relayToken
  /\ UNCHANGED <<process, loopToken, cliToken, held, why, listing, budget,
                 histories>>

(* The watchdog of the quick tunnel has a new URL.                         *)
TunnelMoves ==
  /\ "tunnel" \in Actors /\ Running /\ Quiet("tunnel")
  /\ Spend
  /\ endpoint' = Budget - budget'
  /\ req' = [req EXCEPT !["tunnel"] =
               [Ask("register", runtimeToken) EXCEPT !.endpoint = endpoint']]
  /\ UNCHANGED <<phase, failedStarts, failures, tokens, held, why, listing,
                 histories>>

TunnelRegistered ==
  /\ "tunnel" \in Actors /\ Running /\ Answered("tunnel", "register")
  /\ Done("tunnel")
  /\ Stash("tunnel")
  /\ UNCHANGED <<process, loopToken, relayToken, cliToken, held, why,
                 listing, budget, histories>>

-----------------------------------------------------------------------------
(* Shutdown: deregister with the token of the start, if it gave one; the   *)
(* interval keeps ticking until that has been answered.                    *)

Signal ==
  /\ MayStop /\ phase = "serving"
  /\ IF cliToken # NoToken
     THEN phase' = "stopping" /\ Send("stop", "deregister", cliToken)
     ELSE phase' = "exited" /\ UNCHANGED req
  /\ UNCHANGED <<failedStarts, endpoint, failures, tokens, held, why, listing,
                 budget, histories>>

Stopped ==
  /\ phase = "stopping" /\ Answered("stop", "deregister")
  /\ phase' = "exited"
  /\ Done("stop")
  /\ UNCHANGED <<failedStarts, endpoint, failures, tokens, held, why, listing,
                 budget, histories>>

Crash ==
  /\ phase = "serving"
  /\ Spend
  /\ UNCHANGED stash
  /\ Restart

-----------------------------------------------------------------------------
(* The directory and the network.                                          *)

InUse ==
  {runtimeToken, loopToken, relayToken, cliToken, dirToken}
    \cup {req[c].token : c \in Callers} \cup {req[c].granted : c \in Callers}
    \cup {held[t] : t \in Ticks}

Fresh == CHOOSE t \in Tokens : t \notin InUse

Reply(c, answer) == req' = [req EXCEPT ![c].answer = answer]

Pending(c, kind) == req[c].kind = kind /\ req[c].answer = "pending"

DirectoryBeat(c) ==
  /\ Pending(c, "beat")
  /\ Reply(c, IF dirToken # NoToken /\ req[c].token = dirToken
              THEN "ok" ELSE "unknown")
  /\ UNCHANGED <<process, tokens, held, why, listing, budget, histories>>

DirectoryRegisters(c) ==
  /\ Pending(c, "register")
  /\ \/ dirToken = NoToken
     \/ req[c].endpoint = dirEndpoint
     \/ req[c].token = dirToken
  /\ req' = [req EXCEPT ![c].answer = "ok", ![c].granted = Fresh]
  /\ dirToken' = Fresh
  /\ dirEndpoint' = req[c].endpoint
  /\ accepted' = accepted + 1
  /\ UNCHANGED <<process, tokens, held, why, budget, histories>>

(* 403 IICP-E050.                                                          *)
RequestRefused(c) ==
  /\ Pending(c, "register")
  /\ dirToken # NoToken
  /\ req[c].endpoint # dirEndpoint /\ req[c].token # dirToken
  /\ Reply(c, "failed")
  /\ UNCHANGED <<process, tokens, held, why, listing, budget, histories>>

DirectoryDeregisters(c) ==
  /\ Pending(c, "deregister")
  /\ IF req[c].token = dirToken
     THEN dirToken' = NoToken /\ Reply(c, "ok")
     ELSE UNCHANGED dirToken /\ Reply(c, "failed")
  /\ UNCHANGED <<process, tokens, held, why, dirEndpoint, accepted, budget,
                 histories>>

(* A request that was not looked at, or whose answer does not come back.   *)
RequestFails(c) ==
  /\ ~ Quiet(c) /\ req[c].answer # "failed"
  /\ Spend
  /\ Reply(c, "failed")
  /\ muddled' = (muddled \/ Given(c))
  /\ unheard' = (unheard \/ c = "stop")
  /\ UNCHANGED <<process, tokens, held, why, listing>>

Forget ==
  /\ dirToken # NoToken
  /\ Spend
  /\ dirToken' = NoToken
  /\ UNCHANGED <<process, tokens, req, held, why, dirEndpoint, accepted, histories>>

(* No heartbeat with the listed token comes any more.                      *)
Expire ==
  /\ dirToken \notin {NoToken, loopToken}
  /\ \A c \in Callers : req[c].token # dirToken /\ req[c].granted # dirToken
  /\ \A t \in Ticks : held[t] # dirToken
  /\ dirToken' = NoToken
  /\ UNCHANGED <<process, tokens, req, held, why, dirEndpoint, accepted,
                 budget, histories>>

Directory(c) ==
  \/ DirectoryBeat(c) \/ DirectoryRegisters(c)
  \/ RequestRefused(c) \/ DirectoryDeregisters(c)

TickStep(t) ==
  \/ StartTick(t) \/ BeatAccepted(t) \/ BeatRejected(t)
  \/ BeatFailed(t) \/ TickRegistered(t)

RgNext ==
  \/ StartAttempt \/ StartAnswered
  \/ \E t \in Ticks : \/ StartTick(t) \/ BeatAccepted(t) \/ BeatRejected(t)
                      \/ BeatFailed(t) \/ TickRegistered(t)
  \/ RelayBinds \/ RelayDeregistered \/ RelayRegistered
  \/ TunnelMoves \/ TunnelRegistered
  \/ Signal \/ Stopped \/ Crash
  \/ \E c \in Callers : \/ DirectoryBeat(c) \/ DirectoryRegisters(c)
                        \/ RequestRefused(c) \/ DirectoryDeregisters(c)
                        \/ RequestFails(c)
  \/ Forget \/ Expire

(* The interval fires, every request is answered or times out, and the     *)
(* directory drops a node that stays silent.                               *)
RgFairness ==
  /\ WF_RgVars(StartAttempt) /\ WF_RgVars(StartAnswered)
  /\ \A t \in Ticks : WF_RgVars(TickStep(t))
  /\ WF_RgVars(RelayDeregistered) /\ WF_RgVars(RelayRegistered)
  /\ WF_RgVars(TunnelRegistered) /\ WF_RgVars(Stopped)
  /\ \A c \in Callers : WF_RgVars(Directory(c))
  /\ WF_RgVars(Expire)

RgSpec == RgInit /\ [][RgNext]_RgVars /\ RgFairness

-----------------------------------------------------------------------------
(* Properties.                                                             *)

(* The token the node proves its ownership with is the one the directory   *)
(* knows, or that one is in a reply the node has yet to take up, through   *)
(* restarts and whatever the directory forgets, so that a change of the    *)
(* endpoint is accepted (IICP-E050); two things excepted: a reply that got *)
(* lost, and one that was taken up after that of a later registration.     *)
ProofFollows ==
  dirToken # NoToken /\ ~ muddled /\ ~ overtaken =>
    \/ runtimeToken = dirToken
    \/ \E c \in Callers : Given(c) /\ req[c].granted = dirToken

(* Every accepted registration beyond the first is the consequence of      *)
(* something that went wrong or changed, a shutdown included: a callback's *)
(* registration, the heal of a tick that met its deregistration and the    *)
(* heal of the loop's stale token are at most three for one change, and    *)
(* so are the registrations of a tick that overlaps another one.           *)
NoRegistrationStorm ==
  accepted <= 1 + 3 * (Budget - budget)
                + (IF phase \in {"stopping", "exited"} THEN 1 ELSE 0)

(* The node keeps up with the token that the directory gives it, and does  *)
(* not register over and over (register and _heartbeatTick in node.ts).    *)
RegistrationSound == ProofFollows /\ NoRegistrationStorm

(* "prove ownership on re-registration so an endpoint change (rotating     *)
(* tunnel/CGNAT) is accepted via the IICP-E050 token path" (node.ts:683):  *)
(* with no reply lost, the directory never refuses another endpoint.       *)
EndpointAccepted ==
  \A c \in Callers :
    Pending(c, "register") /\ dirToken # NoToken /\ ~ muddled =>
      req[c].endpoint = dirEndpoint \/ req[c].token = dirToken

(* When nothing changes any more, the node is listed under the token its   *)
(* heartbeats carry, and stays so.                                         *)
Recovers ==
  <>[](phase = "exited" \/ (dirToken = loopToken /\ loopToken # NoToken))

(* A node that shut down is not listed any more, unless its deregistration *)
(* got lost ("Tell the directory this node is going away").                *)
GoneAfterShutdown ==
  phase = "exited" /\ ~ unheard /\ (\A c \in Callers : Quiet(c))
    => dirToken = NoToken
=============================================================================
