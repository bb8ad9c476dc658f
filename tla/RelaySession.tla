---------------------------- MODULE RelaySession ----------------------------
(***************************************************************************)
(* A relay's bound workers: RelaySessionRegistry, RelayWorkerSession and   *)
(* HttpPollWorkerSession (src/src/relay_session.ts), the TCP accept loop,  *)
(* and the /v1/relay* handlers of IicpNode (src/src/node.ts) that share    *)
(* the registry.                                                           *)
(*                                                                         *)
(* A worker behind NAT binds a session, over TCP or by HTTP long-poll; a   *)
(* consumer's call is captured by the session found in the registry and    *)
(* stays with that session object, whatever the registry says later.       *)
(* Clocks are replaced by what they decide: a timer that is armed may      *)
(* fire, an HTTP session that has no pull outstanding may lapse.           *)
(***************************************************************************)
EXTENDS Naturals, FiniteSets, Sequences

CONSTANTS
  Workers,       \* worker ids
  HttpSessions,  \* session objects long-poll binds may create
  TcpSessions,   \* session objects TCP binds may create
  Calls,         \* calls consumers make
  Tickets,       \* bind tickets the directory signed, one jti each
  Subject,       \* the worker id each ticket was signed for
  None,          \* no session, no worker, no ticket
  Capacity,      \* MAX_RELAY_SESSIONS
  RateLimit,     \* IICP_RELAY_BIND_RATE_LIMIT, 0 disables it
  StrictTickets, \* IICP_RELAY_REQUIRE_BIND_TICKET
  MaxPulls       \* bound on the long-polls outstanding on one session

Sessions == HttpSessions \cup TcpSessions

ASSUME RelayAssumption ==
  /\ None \notin Workers \cup Sessions \cup Tickets
  /\ HttpSessions \cap TcpSessions = {}
  /\ IsFiniteSet(Workers)
  /\ Subject \in [Tickets -> Workers]
  /\ Capacity \in Nat /\ RateLimit \in Nat
  /\ StrictTickets \in BOOLEAN
  /\ MaxPulls \in Nat \ {0}

VARIABLES
  registry,   \* _sessions: worker id -> bound session
  worker,     \* the worker id a session was created for
  link,       \* unused, open, fin (peer ended the socket), closed
  fresh,      \* an HTTP session was pulled within its liveness window
  queue,      \* _queue of an HTTP session
  pulls,      \* how many _waiters an HTTP session has
  call,       \* what the consumer knows of its call
  via,        \* the session a call was captured by
  place,      \* where the call is on its way to the worker
  delivered,  \* how often a worker was handed the call (history)
  ticketState,\* valid, or expired: its exp is not after now
  consumed,   \* the jtis in the replay cache
  accepted,   \* how many binds a ticket was accepted for (history)
  attempts    \* the bind attempts counted in this rate window

sessionVars == <<worker, link, fresh, queue, pulls>>
callVars == <<call, via, place, delivered>>
bindVars == <<ticketState, consumed, accepted, attempts>>
vars == <<registry, sessionVars, callVars, bindVars>>

CallStates == {"idle", "reading", "pending", "answered", "timed_out", "refused"}
Places == {"nowhere", "queued", "worker", "posting", "done", "dropped"}

TypeOK ==
  /\ registry \in [Workers -> Sessions \cup {None}]
  /\ worker \in [Sessions -> Workers \cup {None}]
  /\ link \in [Sessions -> {"unused", "open", "fin", "closed"}]
  /\ fresh \in [HttpSessions -> BOOLEAN]
  /\ queue \in [HttpSessions -> Seq(Calls)]
  /\ pulls \in [HttpSessions -> 0 .. MaxPulls]
  /\ call \in [Calls -> CallStates]
  /\ via \in [Calls -> Sessions \cup {None}]
  /\ place \in [Calls -> Places]
  /\ delivered \in [Calls -> Nat]
  /\ ticketState \in [Tickets -> {"valid", "expired"}]
  /\ consumed \subseteq Tickets
  /\ accepted \in [Tickets -> Nat]
  /\ attempts \in 0 .. RateLimit + 1

Init ==
  /\ registry = [w \in Workers |-> None]
  /\ worker = [s \in Sessions |-> None]
  /\ link = [s \in Sessions |-> "unused"]
  /\ fresh = [s \in HttpSessions |-> FALSE]
  /\ queue = [s \in HttpSessions |-> <<>>]
  /\ pulls = [s \in HttpSessions |-> 0]
  /\ call = [c \in Calls |-> "idle"]
  /\ via = [c \in Calls |-> None]
  /\ place = [c \in Calls |-> "nowhere"]
  /\ delivered = [c \in Calls |-> 0]
  /\ ticketState = [t \in Tickets |-> "valid"]
  /\ consumed = {}
  /\ accepted = [t \in Tickets |-> 0]
  /\ attempts = 0

-----------------------------------------------------------------------------
(* The registry.                                                           *)

Bound == {w \in Workers : registry[w] # None}

(* isAlive of the two session classes.                                     *)
Alive(s) == link[s] = "open" /\ (s \in HttpSessions => fresh[s])

HasLiveSession(w) == registry[w] # None /\ Alive(registry[w])

(* getByToken: a bearer token resolves to an HTTP session the registry     *)
(* still holds.                                                            *)
ByToken(s) == s \in HttpSessions /\ link[s] # "unused" /\ registry[worker[s]] = s

(* _relayAuthedSession: the caller presents the token of its own session.  *)
Authed(s) == ByToken(s)

AtCapacity(w) == registry[w] = None /\ Cardinality(Bound) >= Capacity

(* allowBind counts every attempt that is not a rebind, refused ones too.  *)
CountBind(w) ==
  attempts' = IF RateLimit = 0 \/ registry[w] # None THEN attempts
              ELSE IF attempts > RateLimit THEN attempts ELSE attempts + 1

RateAllows(w) ==
  RateLimit = 0 \/ registry[w] # None \/ attempts < RateLimit

MayReplace(w) == ~ HasLiveSession(w)

\* Slip: the jti is looked up but never stored.
ConsumeWithoutMemory(t) ==
  /\ t \notin consumed
  /\ UNCHANGED <<consumed, ticketState>>

(* RelayBindTicketReplayCache.consume, of a ticket that verified.  It reads*)
(* the clock a second time.  Before exp a jti in the cache is refused; but *)
(* where the second of exp begins between the two readings, the entry is   *)
(* evicted first, and the ticket goes through whether it was used or not.  *)
ConsumeTicket(t) ==
  /\ \/ t \notin consumed /\ UNCHANGED ticketState
     \/ ticketState' = [ticketState EXCEPT ![t] = "expired"]
  /\ consumed' = consumed \cup {t}

(* The tail of an accepted bind: a new session object takes the entry.     *)
Register(s, w) ==
  /\ registry' = [registry EXCEPT ![w] = s]
  /\ worker' = [worker EXCEPT ![s] = w]
  /\ link' = [link EXCEPT ![s] = "open"]
  /\ fresh' = [x \in HttpSessions |-> IF x = s THEN TRUE ELSE fresh[x]]
  /\ UNCHANGED <<queue, pulls>>

(* verifyRelayBindTicket; t is None for a bind without a ticket.           *)
TicketAdmits(w, t) ==
  IF t = None THEN ~ StrictTickets
  ELSE ticketState[t] = "valid" /\ Subject[t] = w

(* The tests of a bind, the same and in the same order on both transports: *)
(* ticket, alive session, rate, capacity, replay.  Nothing else runs while *)
(* they are made, but the clock does: the ticket is tested at the first    *)
(* and taken at the last of them.                                          *)
Bind(s, w, t) ==
  /\ link[s] = "unused"
  /\ TicketAdmits(w, t)
  /\ MayReplace(w)
  /\ CountBind(w)
  /\ \/ /\ ~ RateAllows(w)
        /\ UNCHANGED <<registry, sessionVars, ticketState, consumed, accepted>>
     \/ /\ RateAllows(w) /\ AtCapacity(w)
        /\ UNCHANGED <<registry, sessionVars, ticketState, consumed, accepted>>
     \/ /\ RateAllows(w) /\ ~ AtCapacity(w)
        /\ t # None /\ t \in consumed
        /\ UNCHANGED <<registry, sessionVars, ticketState, consumed, accepted>>
     \/ /\ RateAllows(w) /\ ~ AtCapacity(w)
        /\ \/ t = None /\ UNCHANGED <<ticketState, consumed, accepted>>
           \/ /\ t # None /\ ConsumeTicket(t)
              /\ accepted' = [accepted EXCEPT ![t] = @ + 1]
        /\ Register(s, w)
  /\ UNCHANGED callVars

(* POST /v1/relay/bind.                                                    *)
BindHttp(s, w, t) == s \in HttpSessions /\ Bind(s, w, t)

(* INIT and RELAY_BIND; a handshake that breaks off leaves no trace.       *)
BindTcp(s, w, t) == s \in TcpSessions /\ Bind(s, w, t)

NewRateWindow ==
  /\ attempts > 0
  /\ attempts' = 0
  /\ UNCHANGED <<registry, sessionVars, callVars, ticketState, consumed,
                 accepted>>

(* Past exp a ticket no longer verifies, and its jti may leave the cache.  *)
TicketExpires(t) ==
  /\ ticketState[t] = "valid"
  /\ ticketState' = [ticketState EXCEPT ![t] = "expired"]
  /\ consumed' = consumed \ {t}
  /\ UNCHANGED <<registry, sessionVars, callVars, accepted, attempts>>

-----------------------------------------------------------------------------
(* How a session ends.                                                     *)

(* POST /v1/relay/unbind.                                                  *)
Unbind(s) ==
  /\ Authed(s)
  /\ link' = [link EXCEPT ![s] = "closed"]
  /\ registry' = [registry EXCEPT ![worker[s]] = None]
  /\ UNCHANGED <<worker, fresh, queue, pulls, callVars, bindVars>>

(* No pull for livenessWindowMs; an outstanding long-poll is shorter.      *)
Lapse(s) ==
  /\ s \in HttpSessions /\ fresh[s] /\ pulls[s] = 0
  /\ fresh' = [fresh EXCEPT ![s] = FALSE]
  /\ UNCHANGED <<registry, worker, link, queue, pulls, callVars, bindVars>>

(* The peer ends the socket.  'end' wakes the reader before the socket is  *)
(* destroyed, so readExactly waits again and nothing wakes it any more.    *)
PeerEnds(s) ==
  /\ s \in TcpSessions /\ link[s] = "open"
  /\ link' = [link EXCEPT ![s] = "fin"]
  /\ UNCHANGED <<registry, worker, fresh, queue, pulls, callVars, bindVars>>

\* Slip: the finally block unbinds without looking whose entry it is.
LoopEndsBlindly(s) ==
  /\ s \in TcpSessions /\ link[s] \in {"open", "fin"}
  /\ link' = [link EXCEPT ![s] = "closed"]
  /\ registry' = [registry EXCEPT ![worker[s]] = None]
  /\ UNCHANGED <<worker, fresh, queue, pulls, callVars, bindVars>>

(* A reset, a CLOSE frame, a bad frame or a failed write: the accept loop  *)
(* leaves through its finally block.  A socket that was ended can still    *)
(* fail in the moment before it is destroyed.                              *)
LoopEnds(s) ==
  /\ s \in TcpSessions /\ link[s] \in {"open", "fin"}
  /\ link' = [link EXCEPT ![s] = "closed"]
  /\ registry' = IF registry[worker[s]] = s
                 THEN [registry EXCEPT ![worker[s]] = None] ELSE registry
  /\ UNCHANGED <<worker, fresh, queue, pulls, callVars, bindVars>>

-----------------------------------------------------------------------------
(* Calls.                                                                  *)

(* Handing a call to the worker may fail with the connection it travels on.*)
HandOver(c) ==
  \/ /\ place' = [place EXCEPT ![c] = "worker"]
     /\ delivered' = [delivered EXCEPT ![c] = @ + 1]
  \/ /\ place' = [place EXCEPT ![c] = "dropped"]
     /\ UNCHANGED delivered

(* forwardTask: a waiter takes the call, or it is queued, or written.      *)
Forward(c, s) ==
  /\ call' = [call EXCEPT ![c] = "pending"]
  /\ via' = [via EXCEPT ![c] = s]
  /\ \/ /\ s \in HttpSessions /\ pulls[s] > 0
        /\ pulls' = [pulls EXCEPT ![s] = @ - 1]
        /\ fresh' = [fresh EXCEPT ![s] = TRUE]
        /\ HandOver(c)
        /\ UNCHANGED queue
     \/ /\ s \in HttpSessions /\ pulls[s] = 0
        /\ queue' = [queue EXCEPT ![s] = Append(@, c)]
        /\ place' = [place EXCEPT ![c] = "queued"]
        /\ UNCHANGED <<fresh, pulls, delivered>>
     \/ /\ s \in TcpSessions /\ link[s] = "open"
        /\ HandOver(c)
        /\ UNCHANGED <<fresh, queue, pulls>>
     \/ /\ s \in TcpSessions /\ link[s] # "open"
        /\ place' = [place EXCEPT ![c] = "dropped"]
        /\ UNCHANGED <<fresh, queue, pulls, delivered>>
  /\ UNCHANGED <<registry, worker, link, bindVars>>

(* POST /v1/relay forwards to whatever session is bound, alive or not.     *)
RelayCall(c, w) ==
  /\ call[c] = "idle" /\ registry[w] # None
  /\ Forward(c, registry[w])

(* POST /v1/relay-for/<wid>/v1/task picks the session from the headers...  *)
RelayForCall(c, w) ==
  /\ call[c] = "idle"
  /\ \/ /\ HasLiveSession(w)
        /\ call' = [call EXCEPT ![c] = "reading"]
        /\ via' = [via EXCEPT ![c] = registry[w]]
     \/ /\ ~ HasLiveSession(w)
        /\ call' = [call EXCEPT ![c] = "refused"]
        /\ UNCHANGED via
  /\ UNCHANGED <<registry, sessionVars, place, delivered, bindVars>>

(* ... and forwards to it when the body is complete.                       *)
RelayForBody(c) ==
  /\ call[c] = "reading"
  /\ Forward(c, via[c])

(* The 120 s timer; a queued call stays in the queue.                      *)
ForwardTimesOut(c) ==
  /\ call[c] = "pending"
  /\ call' = [call EXCEPT ![c] = "timed_out"]
  /\ UNCHANGED <<registry, sessionVars, via, place, delivered, bindVars>>

\* Slip: a pull always waits, whatever is queued.
PullWithoutLooking(s) ==
  /\ Authed(s)
  /\ fresh' = [fresh EXCEPT ![s] = TRUE]
  /\ pulls[s] < MaxPulls
  /\ pulls' = [pulls EXCEPT ![s] = @ + 1]
  /\ UNCHANGED <<queue, place, delivered>>
  /\ UNCHANGED <<registry, worker, link, call, via, bindVars>>

\* Slip: the call is read from the queue but not taken off it.
PullByPeeking(s) ==
  /\ Authed(s)
  /\ fresh' = [fresh EXCEPT ![s] = TRUE]
  /\ \/ /\ queue[s] # <<>>
        /\ HandOver(Head(queue[s]))
        /\ UNCHANGED <<queue, pulls>>
     \/ /\ queue[s] = <<>> /\ pulls[s] < MaxPulls
        /\ pulls' = [pulls EXCEPT ![s] = @ + 1]
        /\ UNCHANGED <<queue, place, delivered>>
  /\ UNCHANGED <<registry, worker, link, call, via, bindVars>>

(* GET /v1/relay/pull: the oldest queued call, or a waiter.                *)
Pull(s) ==
  /\ Authed(s)
  /\ fresh' = [fresh EXCEPT ![s] = TRUE]
  /\ \/ /\ queue[s] # <<>>
        /\ queue' = [queue EXCEPT ![s] = Tail(@)]
        /\ HandOver(Head(queue[s]))
        /\ UNCHANGED pulls
     \/ /\ queue[s] = <<>> /\ pulls[s] < MaxPulls
        /\ pulls' = [pulls EXCEPT ![s] = @ + 1]
        /\ UNCHANGED <<queue, place, delivered>>
  /\ UNCHANGED <<registry, worker, link, call, via, bindVars>>

(* The 25 s window of a long-poll ends with 204.                           *)
PullExpires(s) ==
  /\ s \in HttpSessions /\ pulls[s] > 0
  /\ pulls' = [pulls EXCEPT ![s] = @ - 1]
  /\ fresh' = [fresh EXCEPT ![s] = TRUE]
  /\ UNCHANGED <<registry, worker, link, queue, callVars, bindVars>>

\* Slip: the timer leaves the call in the table of pending ones.
ResolveLate(c) == call' = [call EXCEPT ![c] = "answered"]

(* onResponse: only a call that is still pending is answered.              *)
Resolve(c) ==
  call' = IF call[c] = "pending" THEN [call EXCEPT ![c] = "answered"] ELSE call

(* The worker is done.  POST /v1/relay/result checks the token with the    *)
(* headers and resolves the call with the body; a RESPONSE frame on a live *)
(* socket resolves it at once.                                             *)
WorkerAnswers(c) ==
  /\ place[c] = "worker"
  /\ \/ /\ Authed(via[c])
        /\ place' = [place EXCEPT ![c] = "posting"]
        /\ UNCHANGED call
     \/ /\ via[c] \in HttpSessions /\ ~ Authed(via[c])
        /\ place' = [place EXCEPT ![c] = "done"]
        /\ UNCHANGED call
     \/ /\ via[c] \in TcpSessions
        /\ place' = [place EXCEPT ![c] = "done"]
        /\ IF link[via[c]] = "open" THEN Resolve(c) ELSE UNCHANGED call
  /\ UNCHANGED <<registry, sessionVars, via, delivered, bindVars>>

ResultBody(c) ==
  /\ place[c] = "posting"
  /\ place' = [place EXCEPT ![c] = "done"]
  /\ Resolve(c)
  /\ UNCHANGED <<registry, sessionVars, via, delivered, bindVars>>

-----------------------------------------------------------------------------
Next ==
  \/ \E s \in Sessions, w \in Workers, t \in Tickets \cup {None} :
       BindHttp(s, w, t) \/ BindTcp(s, w, t)
  \/ NewRateWindow
  \/ \E t \in Tickets : TicketExpires(t)
  \/ \E s \in Sessions : \/ Unbind(s) \/ Lapse(s) \/ PeerEnds(s)
                         \/ LoopEnds(s) \/ Pull(s) \/ PullExpires(s)
  \/ \E c \in Calls, w \in Workers : RelayCall(c, w) \/ RelayForCall(c, w)
  \/ \E c \in Calls : \/ RelayForBody(c) \/ ForwardTimesOut(c)
                      \/ WorkerAnswers(c) \/ ResultBody(c)

(* Timers fire, and a bound worker keeps polling, as the protocol has it   *)
(* do; nothing else is promised of workers or consumers.                   *)
Fairness ==
  /\ \A c \in Calls : WF_vars(ForwardTimesOut(c))
  /\ \A s \in HttpSessions : WF_vars(Pull(s)) /\ WF_vars(PullExpires(s))

Spec == Init /\ [][Next]_vars /\ Fairness

-----------------------------------------------------------------------------
(* The relay as its consumers know it.                                     *)

StageNames == [idle |-> "new", reading |-> "addressed", pending |-> "waiting",
               answered |-> "answered", timed_out |-> "given_up",
               refused |-> "refused"]

Stage(c) == StageNames[call[c]]

Target(c) == IF via[c] = None THEN None ELSE worker[via[c]]

Promise == INSTANCE RelayPromise WITH
  Nobody <- None,
  stage <- [c \in Calls |-> Stage(c)],
  target <- [c \in Calls |-> Target(c)],
  handed <- delivered

-----------------------------------------------------------------------------
(* Properties.                                                             *)

(* #510: whatever a bind does, and over whichever transport it comes, it   *)
(* never takes the entry of a session that is alive at that moment.        *)
NoAliveSessionDisplaced ==
  [][\A w \in Workers :
       registry[w] # None /\ registry'[w] \notin {None, registry[w]}
         => ~ Alive(registry[w])]_vars

(* The late end of a session that was replaced leaves its successor bound: *)
(* an entry disappears only together with the session it names.            *)
OnlyOwnEntryRemoved ==
  [][\A w \in Workers :
       registry[w] # None /\ registry'[w] = None
         => link'[registry[w]] = "closed"]_vars

(* Both at once: a session ends by its own end only.                       *)
EntriesKept == NoAliveSessionDisplaced /\ OnlyOwnEntryRemoved

(* The session cap, over both transports and all rebinds.                  *)
WithinCapacity == Cardinality(Bound) <= Capacity

(* A bind ticket admits one session, over either transport, also after     *)
(* that session is gone, for as long as it is valid.  The exception is the *)
(* bind under way at the second of its exp: that one may be a second one,  *)
(* and it is the last, for the ticket verifies no more.                    *)
TicketAdmitsOnce ==
  \A t \in Tickets : accepted[t] <= IF ticketState[t] = "valid" THEN 1 ELSE 2

(* What a bind may bring about, however binds, lapses and rebinds overlap. *)
BindsLimited == TypeOK /\ WithinCapacity /\ TicketAdmitsOnce

(* No lost wake-up: a call never sits in the queue of a session that has a *)
(* long-poll waiting.                                                      *)
NoCallQueuedPastWaiter ==
  \A s \in HttpSessions : queue[s] # <<>> => pulls[s] = 0

(* Relay calls keep the promise of RelayPromise, whichever transport their *)
(* session has: the worker a call was captured for stays its worker after  *)
(* a rebind; no call reaches a worker twice, through a waiter, the queue,  *)
(* a second long-poll or a rebind; a call that timed out may still be      *)
(* handed over but is never answered.                                      *)
CallsKeepPromise == Promise!Spec

(* A call is handed over as promised, and at the first occasion.           *)
CallsHandedOver == CallsKeepPromise /\ []NoCallQueuedPastWaiter

(* A queued call of a session that stays bound is taken by the worker.     *)
QueuedCallTaken ==
  \A c \in Calls :
    place[c] = "queued" ~> place[c] # "queued" \/ ~ Authed(via[c])

=============================================================================
