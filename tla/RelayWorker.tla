---------------------------- MODULE RelayWorker ----------------------------
(***************************************************************************)
(* RelayWorkerClient (src/src/relay_worker_client.ts): the loop that keeps *)
(* a node without an inbound address connected to a relay, and the node's  *)
(* two callbacks (IicpNode.serve), which advertise the relayed endpoint    *)
(* and withdraw the claim that it is bound.                                *)
(*                                                                         *)
(* The loop starts a session per connection and learns of its end only     *)
(* from the session's promise; the handshake of the session reads frames   *)
(* from the socket and parks when there are none.  What wakes a parked     *)
(* reader is a 'data' or an 'end' event, nothing else.                     *)
(*                                                                         *)
(* The relay is external: it accepts or refuses, and ends a connection     *)
(* with a CLOSE frame, a FIN or a reset.                                   *)
(***************************************************************************)
EXTENDS Naturals, FiniteSets

CONSTANTS
  RwEnds,     \* how a connection may end: a subset of "close", "fin", "reset"
  RwFaults,   \* bound on the connections that fail, are refused or end
  RwTasks     \* the kinds of task the relay may push

ASSUME RwAssumption ==
  /\ RwEnds \subseteq {"close", "fin", "reset"}
  /\ RwFaults \in Nat

VARIABLES
  rwLoop,     \* _run: "session", "sleep", or "out" when it has ended
  rwCur,      \* the connection of the current session
  rwConn,     \* of each connection: none, connecting, open, ended (FIN seen),
              \* closed (destroyed after FIN), destroyed
  rwHand,     \* its _handshake: none, init, ticket, rack, onbind, loop, done
  rwParked,   \* _handshake awaits data
  rwDelay,    \* the reconnect delay, as an exponent of two seconds
  rwStopped,  \* _stopped
  rwBound,    \* the node's _runtimeRelayBound
  rwLeft,     \* faults left
  rwCall      \* the one task pushed: none, running or its reply

RwVars == <<rwLoop, rwCur, rwConn, rwHand, rwParked, rwDelay, rwStopped,
            rwBound, rwLeft, rwCall>>

RwConns == 1 .. RwFaults + 1
RwSlowest == 5   \* 2 s doubled four times reaches the cap of 60 s
RwNoCall == [state |-> "none"]

RwTypeOK ==
  /\ rwLoop \in {"session", "sleep", "out"}
  /\ rwCur \in RwConns
  /\ rwConn \in [RwConns -> {"none", "connecting", "open", "ended", "closed",
                           "destroyed"}]
  /\ rwHand \in [RwConns ->
                   {"none", "init", "ticket", "rack", "onbind", "loop", "done"}]
  /\ rwParked \subseteq RwConns
  /\ rwDelay \in 0 .. RwSlowest
  /\ rwStopped \in BOOLEAN
  /\ rwBound \in BOOLEAN
  /\ rwLeft \in 0 .. RwFaults

RwInit ==
  /\ rwLoop = "session"
  /\ rwCur = 1
  /\ rwConn = [c \in RwConns |-> IF c = 1 THEN "connecting" ELSE "none"]
  /\ rwHand = [c \in RwConns |-> "none"]
  /\ rwParked = {}
  /\ rwDelay = 0
  /\ rwStopped = FALSE
  /\ rwBound = FALSE
  /\ rwLeft = RwFaults
  /\ rwCall = RwNoCall

RwDestroyed(c) == rwConn[c] \in {"closed", "destroyed"}

RwFault == rwLeft > 0 /\ rwLeft' = rwLeft - 1

\* Slip: an old session moves the loop again.
RwSettleOld(c, ok) ==
  /\ rwLoop' = IF rwStopped THEN "out" ELSE "sleep"
  /\ rwDelay' = IF ok THEN 0 ELSE rwDelay

(* The promise of the session on c settles.  Only the first settlement of  *)
(* the current session moves the loop.                                     *)
RwSettle(c, ok) ==
  IF rwLoop = "session" /\ c = rwCur
  THEN /\ rwLoop' = IF rwStopped THEN "out" ELSE "sleep"
       /\ rwDelay' = IF ok THEN 0 ELSE rwDelay
  ELSE UNCHANGED <<rwLoop, rwDelay>>

(* The delay is over: the next connection, unless stopped.                 *)
RwWake ==
  /\ rwLoop = "sleep"
  /\ rwDelay' = IF rwDelay < RwSlowest THEN rwDelay + 1 ELSE rwDelay
  /\ IF rwStopped
     THEN /\ rwLoop' = "out"
          /\ UNCHANGED <<rwCur, rwConn>>
     ELSE /\ rwLoop' = "session"
          /\ rwCur' = rwCur + 1
          /\ rwConn' = [rwConn EXCEPT ![rwCur + 1] = "connecting"]
  /\ UNCHANGED <<rwHand, rwParked, rwStopped, rwBound, rwLeft, rwCall>>

(* 'connect': INIT is written and its ACK awaited.                         *)
RwConnect(c) ==
  /\ rwConn[c] = "connecting"
  /\ rwConn' = [rwConn EXCEPT ![c] = "open"]
  /\ rwHand' = [rwHand EXCEPT ![c] = "init"]
  /\ rwParked' = rwParked \cup {c}
  /\ UNCHANGED <<rwLoop, rwCur, rwDelay, rwStopped, rwBound, rwLeft, rwCall>>

(* The connection is refused, or the connect timer fires.                  *)
RwConnectFails(c) ==
  /\ rwConn[c] = "connecting"
  /\ RwFault
  /\ rwConn' = [rwConn EXCEPT ![c] = "destroyed"]
  /\ RwSettle(c, FALSE)
  /\ UNCHANGED <<rwCur, rwHand, rwParked, rwStopped, rwBound, rwCall>>

(* readExact with no data: nothing to read on a destroyed socket, else the *)
(* reader parks, also on one that has seen FIN and is not destroyed yet.   *)
RwPark(c) == rwParked' = rwParked \cup {c}

(* The handshake of c throws: the promise is rejected, the socket goes.    *)
RwThrow(c) ==
  /\ rwHand' = [rwHand EXCEPT ![c] = "done"]
  /\ rwConn' = [rwConn EXCEPT ![c] = "destroyed"]
  /\ rwParked' = rwParked \ {c}
  /\ RwSettle(c, FALSE)
  /\ UNCHANGED rwBound

(* The session loop of c is left: onDisconnect, resolve, destroy.          *)
RwFinish(c) ==
  /\ rwHand' = [rwHand EXCEPT ![c] = "done"]
  /\ rwConn' = [rwConn EXCEPT ![c] = "destroyed"]
  /\ rwParked' = rwParked \ {c}
  /\ rwBound' = FALSE
  /\ RwSettle(c, TRUE)

RwListens(c) == c \in rwParked /\ rwConn[c] = "open"

(* ACK arrives; a bind ticket is fetched, and whatever comes of it         *)
(* RELAY_BIND is written.                                                  *)
RwAck(c) ==
  /\ RwListens(c) /\ rwHand[c] = "init"
  /\ rwHand' = [rwHand EXCEPT ![c] = "ticket"]
  /\ rwParked' = rwParked \ {c}
  /\ UNCHANGED <<rwLoop, rwCur, rwConn, rwDelay, rwStopped, rwBound, rwLeft, rwCall>>

RwTicketSettles(c) ==
  /\ rwHand[c] = "ticket"
  /\ \/ /\ RwDestroyed(c)
        /\ RwThrow(c)
     \/ /\ ~RwDestroyed(c)
        /\ rwHand' = [rwHand EXCEPT ![c] = "rack"]
        /\ RwPark(c)
        /\ UNCHANGED <<rwLoop, rwConn, rwDelay, rwBound>>
  /\ UNCHANGED <<rwCur, rwStopped, rwLeft, rwCall>>

(* RELAY_ACK "ok": onBind claims the route and re-registers.               *)
RwBindAck(c) ==
  /\ RwListens(c) /\ rwHand[c] = "rack"
  /\ rwHand' = [rwHand EXCEPT ![c] = "onbind"]
  /\ rwParked' = rwParked \ {c}
  /\ rwBound' = TRUE
  /\ UNCHANGED <<rwLoop, rwCur, rwConn, rwDelay, rwStopped, rwLeft, rwCall>>

(* RELAY_ACK "error", or another frame than the one expected.              *)
RwRefused(c) ==
  /\ RwListens(c) /\ rwHand[c] \in {"init", "rack"}
  /\ RwFault
  /\ RwThrow(c)
  /\ UNCHANGED <<rwCur, rwStopped, rwCall>>

(* while (!stopped && !destroyed) readFrame ...: the head of the loop.     *)
RwReadOn(c) ==
  \/ /\ rwStopped \/ RwDestroyed(c)
     /\ RwFinish(c)
  \/ /\ ~rwStopped /\ ~RwDestroyed(c)
     /\ rwHand' = [rwHand EXCEPT ![c] = "loop"]
     /\ RwPark(c)
     /\ UNCHANGED <<rwLoop, rwConn, rwDelay, rwBound>>

(* The registration of onBind has ended, well or not.                      *)
RwOnBindReturns(c) ==
  /\ rwHand[c] = "onbind"
  /\ RwReadOn(c)
  /\ UNCHANGED <<rwCur, rwStopped, rwLeft, rwCall>>

(* A PONG or the relay's PING.                                             *)
RwKeepalive(c) ==
  /\ RwListens(c) /\ rwHand[c] = "loop"
  /\ RwReadOn(c)
  /\ UNCHANGED <<rwCur, rwStopped, rwLeft, rwCall>>

(* A CALL starts its task, which the loop does not wait for.               *)
RwCallArrives(c, t) ==
  /\ RwListens(c) /\ rwHand[c] = "loop"
  /\ rwCall = RwNoCall
  /\ rwCall' = [state |-> "running", on |-> c, task |-> t]
  /\ RwReadOn(c)
  /\ UNCHANGED <<rwCur, rwStopped, rwLeft>>

(* relayHandler and _handleCall: the reply to task t when the handler      *)
(* returns or throws.  sealed: it carries iicp_conf and no payload; opens: *)
(* the node has its keys and decryption succeeds; secret: the consumer     *)
(* requires an encrypted response.                                         *)
RwReply(t, result) ==
  IF \/ t.sealed /\ ~t.opens
     \/ result = "throws"
     \/ t.secret /\ ~t.sealed
  THEN "error"
  ELSE IF t.secret THEN "encrypted" ELSE "clear"

(* RESPONSE goes to the connection the CALL came on, if it is still there. *)
RwCallEnds ==
  /\ rwCall.state = "running"
  /\ \E result \in {"returns", "throws"} :
       rwCall' = [state |-> IF rwConn[rwCall.on] = "open" THEN "sent" ELSE "lost",
                  task |-> rwCall.task,
                  reply |-> RwReply(rwCall.task, result)]
  /\ UNCHANGED <<rwLoop, rwCur, rwConn, rwHand, rwParked, rwDelay, rwStopped,
                 rwBound, rwLeft>>

(* The relay ends the session with a CLOSE frame.                          *)
RwClose(c) ==
  /\ "close" \in RwEnds
  /\ RwListens(c) /\ rwHand[c] = "loop"
  /\ RwFault
  /\ RwFinish(c)
  /\ UNCHANGED <<rwCur, rwStopped, rwCall>>

(* FIN: 'end' wakes a parked reader, which finds no data and a socket that *)
(* is not destroyed yet, and parks again.                                  *)
RwFin(c) ==
  /\ "fin" \in RwEnds
  /\ rwConn[c] = "open"
  /\ RwFault
  /\ rwConn' = [rwConn EXCEPT ![c] = "ended"]
  /\ UNCHANGED <<rwLoop, rwCur, rwHand, rwParked, rwDelay, rwStopped, rwBound, rwCall>>

(* The writing side is shut down too and the socket is destroyed; nobody   *)
(* listens for its 'close'.                                                *)
RwEnded(c) ==
  /\ rwConn[c] = "ended"
  /\ rwConn' = [rwConn EXCEPT ![c] = "closed"]
  /\ UNCHANGED <<rwLoop, rwCur, rwHand, rwParked, rwDelay, rwStopped, rwBound,
                 rwLeft, rwCall>>

\* Slip: 'error' is listened for only until the connection is open.
RwResetUnheard(c) ==
  /\ "reset" \in RwEnds
  /\ rwConn[c] = "open"
  /\ RwFault
  /\ rwConn' = [rwConn EXCEPT ![c] = "destroyed"]
  /\ UNCHANGED <<rwLoop, rwCur, rwHand, rwParked, rwDelay, rwStopped, rwBound, rwCall>>

(* A reset: 'error' rejects the promise.  The handshake is not told.       *)
RwReset(c) ==
  /\ "reset" \in RwEnds
  /\ rwConn[c] = "open"
  /\ RwFault
  /\ rwConn' = [rwConn EXCEPT ![c] = "destroyed"]
  /\ RwSettle(c, FALSE)
  /\ UNCHANGED <<rwCur, rwHand, rwParked, rwStopped, rwBound, rwCall>>

(* The node stops: the loop is told by a flag only.                        *)
RwStop ==
  /\ ~rwStopped
  /\ rwStopped' = TRUE
  /\ UNCHANGED <<rwLoop, rwCur, rwConn, rwHand, rwParked, rwDelay, rwBound,
                 rwLeft, rwCall>>

RwRuns(c) ==
  RwConnect(c) \/ RwAck(c) \/ RwTicketSettles(c) \/ RwBindAck(c) \/ RwOnBindReturns(c)

RwNext ==
  \/ RwWake \/ RwStop \/ RwCallEnds
  \/ \E c \in RwConns :
       \/ RwRuns(c) \/ RwConnectFails(c) \/ RwRefused(c) \/ RwKeepalive(c)
       \/ RwClose(c) \/ RwFin(c) \/ RwEnded(c) \/ RwReset(c)
       \/ \E t \in RwTasks : RwCallArrives(c, t)

(* Timers fire, the ticket and the registration settle, a relay that has   *)
(* accepted the connection answers.                                        *)
RwFairness ==
  /\ WF_RwVars(RwWake)
  /\ \A c \in RwConns : WF_RwVars(RwRuns(c)) /\ WF_RwVars(RwEnded(c))

RwSpec == RwInit /\ [][RwNext]_RwVars /\ RwFairness

-----------------------------------------------------------------------------
(* The relay never sees two connections of one worker at once: it refuses  *)
(* a bind while the worker's earlier session is alive                      *)
(* (relay_session.ts), so a second connection would lock the worker out.   *)
RwOneConnection ==
  Cardinality({c \in RwConns : rwConn[c] \in {"connecting", "open"}}) <= 1

(* A consumer that requires an encrypted response gets one or an error,    *)
(* never the result in clear, whatever the request and the handler do      *)
(* (relayHandler in node.ts).                                              *)
RwNothingInClear ==
  rwCall.state \in {"sent", "lost"} =>
    ~ (rwCall.task.secret /\ rwCall.reply = "clear")

(* What the worker never does to its relay or to a consumer.               *)
RwSafe == RwOneConnection /\ RwNothingInClear

RwReading == rwHand[rwCur] = "loop" /\ rwConn[rwCur] = "open"

(* FIN has reached a reader that was waiting for data: nothing will wake   *)
(* it, and the loop waits for its session.                                 *)
RwDeaf ==
  /\ rwLoop = "session"
  /\ rwCur \in rwParked
  /\ rwConn[rwCur] \in {"ended", "closed"}

(* Once connections stop failing, the worker is bound and reading again,   *)
(* was stopped, or waits on a connection that ended with FIN: refusals,    *)
(* resets, CLOSE frames and a FIN that comes while the worker is busy are  *)
(* all recovered from (_run, _session).                                    *)
RwRebindsOrDeaf == <>[](rwStopped \/ RwReading \/ RwDeaf)

(* Keepalive with auto-reconnect, as the header of the file promises it:   *)
(* once connections stop failing the worker is bound again or was stopped. *)
RwRebinds == <>[](rwStopped \/ RwReading)
=============================================================================
