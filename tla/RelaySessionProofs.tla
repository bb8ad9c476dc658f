------------------------- MODULE RelaySessionProofs -------------------------
(***************************************************************************)
(* Proofs about RelaySession for any number of workers, sessions, calls    *)
(* and tickets, any cap and any rate limit.                                *)
(***************************************************************************)
EXTENDS RelaySession, FiniteSetTheorems, TLAPS

(* An entry of the registry names a session that was bound for that worker *)
(* and has not been closed.                                                *)
EntriesOwned ==
  /\ \A w \in Workers : registry[w] # None =>
       worker[registry[w]] = w /\ link[registry[w]] \in {"open", "fin"}
  /\ \A s \in Sessions : link[s] # "unused" => worker[s] \in Workers

(* A valid ticket that was accepted, once, is in the replay cache; a bind  *)
(* that meets its expiry may be the second, and leaves it expired.         *)
TicketsRemembered ==
  \A t \in Tickets :
    \/ accepted[t] = 0
    \/ accepted[t] = 1 /\ (t \in consumed \/ ticketState[t] = "expired")
    \/ accepted[t] = 2 /\ ticketState[t] = "expired"

(* What has become of a call says how often a worker was handed it.        *)
CallsPlaced ==
  \A c \in Calls :
    /\ call[c] \in {"idle", "reading"} => place[c] = "nowhere"
    /\ call[c] = "reading" => via[c] \in Sessions
    /\ place[c] # "nowhere" => via[c] \in Sessions
    /\ place[c] \in {"nowhere", "queued"} => delivered[c] = 0
    /\ delivered[c] \in {0, 1}

(* A queued call is in the queue of its own session, at one place.         *)
QueuesApart ==
  \A s \in HttpSessions :
    /\ \A i \in 1 .. Len(queue[s]) :
         place[queue[s][i]] = "queued" /\ via[queue[s][i]] = s
    /\ \A i, j \in 1 .. Len(queue[s]) : queue[s][i] = queue[s][j] => i = j

Inv ==
  /\ TypeOK /\ EntriesOwned
  /\ WithinCapacity /\ TicketsRemembered
  /\ CallsPlaced /\ QueuesApart /\ NoCallQueuedPastWaiter

LEMMA Constants ==
  /\ None \notin Workers /\ None \notin Sessions /\ None \notin Tickets
  /\ HttpSessions \subseteq Sessions /\ TcpSessions \subseteq Sessions
  /\ \A s \in Sessions : s \in HttpSessions \/ s \in TcpSessions
  /\ HttpSessions \cap TcpSessions = {}
  /\ Capacity \in Nat /\ RateLimit \in Nat /\ MaxPulls \in Nat /\ MaxPulls > 0
  /\ Subject \in [Tickets -> Workers] /\ IsFiniteSet(Workers)
BY RelayAssumption DEF Sessions

LEMMA InvInit == Init => Inv
<1> SUFFICES ASSUME Init PROVE Inv
  OBVIOUS
<1> USE Constants
<1>1. TypeOK
  <2>1. 0 \in 0 .. MaxPulls /\ 0 \in 0 .. RateLimit + 1 /\ <<>> \in Seq(Calls)
    OBVIOUS
  <2> QED
    BY <2>1 DEF Init, TypeOK, CallStates, Places
<1>2. Bound = {}
  BY DEF Init, Bound
<1>3. WithinCapacity
  BY <1>2, FS_EmptySet DEF WithinCapacity
<1>4. EntriesOwned /\ TicketsRemembered /\ CallsPlaced
  BY DEF Init, EntriesOwned, TicketsRemembered, CallsPlaced
<1>5. QueuesApart /\ NoCallQueuedPastWaiter
  BY DEF Init, QueuesApart, NoCallQueuedPastWaiter
<1> QED
  BY <1>1, <1>3, <1>4, <1>5 DEF Inv

-----------------------------------------------------------------------------
(* Binds.                                                                  *)

(* A bind leaves the calls alone; it either changes nothing but the count  *)
(* of attempts or gives an unused session the entry.                       *)
LEMMA BindDoes ==
  ASSUME Inv, NEW s \in Sessions, NEW w \in Workers, NEW t \in Tickets \cup {None},
         Bind(s, w, t)
  PROVE  /\ UNCHANGED <<callVars, queue, pulls>>
         /\ attempts' \in 0 .. RateLimit + 1
         /\ \/ UNCHANGED <<registry, sessionVars, ticketState, consumed, accepted>>
            \/ /\ link[s] = "unused" /\ Register(s, w) /\ ~ HasLiveSession(w)
               /\ registry[w] # None \/ Cardinality(Bound) < Capacity
               /\ \/ UNCHANGED <<ticketState, consumed, accepted>>
                  \/ /\ t \in Tickets /\ ticketState[t] = "valid" /\ ConsumeTicket(t)
                     /\ accepted' = [accepted EXCEPT ![t] = @ + 1]
<1> USE Constants
<1>1. attempts' \in 0 .. RateLimit + 1
  BY DEF Inv, TypeOK, Bind, CountBind
<1>2. UNCHANGED <<callVars, queue, pulls>>
  BY DEF Bind, Register, sessionVars
<1>3. ASSUME ~ UNCHANGED <<registry, sessionVars, ticketState, consumed, accepted>>
      PROVE  /\ link[s] = "unused" /\ Register(s, w) /\ ~ HasLiveSession(w)
             /\ ~ AtCapacity(w)
             /\ \/ UNCHANGED <<ticketState, consumed, accepted>>
                \/ /\ t \in Tickets /\ ticketState[t] = "valid" /\ ConsumeTicket(t)
                   /\ accepted' = [accepted EXCEPT ![t] = @ + 1]
  BY <1>3 DEF Bind, MayReplace, TicketAdmits
<1>4. IsFiniteSet(Bound) /\ Cardinality(Bound) \in Nat
  BY FS_Subset, FS_CardinalityType DEF Bound
<1>5. ~ AtCapacity(w) => registry[w] # None \/ Cardinality(Bound) < Capacity
  BY <1>4 DEF AtCapacity
<1> QED
  BY <1>1, <1>2, <1>3, <1>5

LEMMA BindTypes ==
  ASSUME Inv, NEW s \in Sessions, NEW w \in Workers, NEW t \in Tickets \cup {None},
         Bind(s, w, t)
  PROVE  TypeOK'
<1> USE Constants
<1>1. CASE UNCHANGED <<registry, sessionVars, ticketState, consumed, accepted>>
  BY <1>1, BindDoes DEF Inv, TypeOK, sessionVars, callVars
<1>2. CASE ~ UNCHANGED <<registry, sessionVars, ticketState, consumed, accepted>>
  <2>1. Register(s, w)
    BY <1>2, BindDoes
  <2>2. /\ registry' \in [Workers -> Sessions \cup {None}]
        /\ worker' \in [Sessions -> Workers \cup {None}]
        /\ link' \in [Sessions -> {"unused", "open", "fin", "closed"}]
        /\ fresh' \in [HttpSessions -> BOOLEAN]
    BY <2>1 DEF Register, Inv, TypeOK
  <2>3. /\ consumed' \subseteq Tickets /\ accepted' \in [Tickets -> Nat]
        /\ ticketState' \in [Tickets -> {"valid", "expired"}]
    <3>1. \/ UNCHANGED <<ticketState, consumed, accepted>>
          \/ /\ t \in Tickets /\ ConsumeTicket(t)
             /\ accepted' = [accepted EXCEPT ![t] = @ + 1]
      BY <1>2, BindDoes
    <3>2. CASE UNCHANGED <<ticketState, consumed, accepted>>
      BY <3>2 DEF Inv, TypeOK
    <3>3. ASSUME t \in Tickets, ConsumeTicket(t), accepted' = [accepted EXCEPT ![t] = @ + 1]
          PROVE  /\ consumed' \subseteq Tickets /\ accepted' \in [Tickets -> Nat]
                 /\ ticketState' \in [Tickets -> {"valid", "expired"}]
      <4>1. accepted' \in [Tickets -> Nat] /\ consumed' \subseteq Tickets
        BY <3>3 DEF ConsumeTicket, Inv, TypeOK
      <4>2. ticketState' \in [Tickets -> {"valid", "expired"}]
        BY <3>3 DEF ConsumeTicket, Inv, TypeOK
      <4> QED
        BY <4>1, <4>2
    <3> QED
      BY <3>1, <3>2, <3>3
  <2> QED
    BY <2>2, <2>3, BindDoes DEF Inv, TypeOK, callVars
<1> QED
  BY <1>1, <1>2

LEMMA BindInv ==
  ASSUME Inv, NEW s \in Sessions, NEW w \in Workers, NEW t \in Tickets \cup {None},
         Bind(s, w, t)
  PROVE  Inv'
<1> USE Constants
<1>1. TypeOK'
  BY BindTypes
<1>2. CallsPlaced' /\ QueuesApart' /\ NoCallQueuedPastWaiter'
  BY BindDoes DEF Inv, CallsPlaced, QueuesApart, NoCallQueuedPastWaiter, callVars
<1>3. TicketsRemembered'
  <2>1. CASE UNCHANGED <<ticketState, consumed, accepted>>
    BY <2>1, BindDoes DEF Inv, TicketsRemembered
  <2>2. CASE /\ t \in Tickets /\ ticketState[t] = "valid" /\ ConsumeTicket(t)
             /\ accepted' = [accepted EXCEPT ![t] = @ + 1]
    <3>1. accepted'[t] = accepted[t] + 1 /\ t \in consumed' /\ consumed \subseteq consumed'
      BY <2>2 DEF ConsumeTicket, Inv, TypeOK
    <3>2. \A u \in Tickets : u # t => accepted'[u] = accepted[u] /\ ticketState'[u] = ticketState[u]
      BY <2>2 DEF ConsumeTicket, Inv, TypeOK
    <3>3. CASE t \notin consumed
      <4>1. accepted[t] = 0
        BY <2>2, <3>3 DEF Inv, TicketsRemembered
      <4> QED
        BY <3>1, <3>2, <4>1 DEF Inv, TicketsRemembered
    <3>4. CASE t \in consumed
      <4>1. accepted[t] \in {0, 1} /\ ticketState'[t] = "expired"
        BY <2>2, <3>4 DEF ConsumeTicket, Inv, TypeOK, TicketsRemembered
      <4> QED
        BY <3>1, <3>2, <4>1 DEF Inv, TicketsRemembered
    <3> QED
      BY <3>3, <3>4
  <2> QED
    BY <2>1, <2>2, BindDoes
<1>4. CASE UNCHANGED <<registry, sessionVars, ticketState, consumed, accepted>>
  BY <1>1, <1>2, <1>3, <1>4 DEF Inv, EntriesOwned, WithinCapacity, Bound, sessionVars
<1>5. CASE ~ UNCHANGED <<registry, sessionVars, ticketState, consumed, accepted>>
  <2>1. /\ link[s] = "unused" /\ Register(s, w)
        /\ registry[w] # None \/ Cardinality(Bound) < Capacity
    BY <1>5, BindDoes
  <2>2. EntriesOwned'
    BY <2>1 DEF Register, Inv, TypeOK, EntriesOwned
  <2>3. Bound' = Bound \cup {w} /\ (registry[w] # None => Bound' = Bound)
    BY <2>1 DEF Register, Inv, TypeOK, Bound
  <2>4. IsFiniteSet(Bound) /\ Cardinality(Bound) \in Nat
    BY FS_Subset, FS_CardinalityType DEF Bound
  <2>5. CASE registry[w] # None
    BY <1>1, <1>2, <1>3, <2>2, <2>3, <2>5 DEF Inv, WithinCapacity
  <2>6. CASE registry[w] = None
    <3>1. w \notin Bound
      BY <2>6 DEF Bound
    <3>2. Cardinality(Bound \cup {w}) = Cardinality(Bound) + 1
      BY <2>4, <3>1, FS_AddElement
    <3>3. WithinCapacity'
      BY <2>1, <2>3, <2>4, <2>6, <3>2 DEF WithinCapacity
    <3> QED
      BY <1>1, <1>2, <1>3, <2>2, <3>3 DEF Inv
  <2> QED
    BY <2>5, <2>6
<1> QED
  BY <1>4, <1>5

(* The window that ends and the ticket that expires.                       *)
LEMMA ClockInv ==
  ASSUME Inv, NewRateWindow \/ \E t \in Tickets : TicketExpires(t)
  PROVE  Inv'
<1> USE Constants
<1>1. UNCHANGED <<registry, sessionVars, callVars, accepted>>
  BY DEF NewRateWindow, TicketExpires
<1>2. TypeOK'
  <2>1. CASE NewRateWindow
    BY <1>1, <2>1 DEF NewRateWindow, Inv, TypeOK, sessionVars, callVars
  <2>2. ASSUME NEW t \in Tickets, TicketExpires(t) PROVE TypeOK'
    BY <1>1, <2>2 DEF TicketExpires, Inv, TypeOK, sessionVars, callVars
  <2> QED
    BY <2>1, <2>2
<1>3. TicketsRemembered'
  <2>1. CASE NewRateWindow
    BY <2>1 DEF NewRateWindow, Inv, TicketsRemembered
  <2>2. ASSUME NEW t \in Tickets, TicketExpires(t) PROVE TicketsRemembered'
    BY <2>2 DEF TicketExpires, Inv, TypeOK, TicketsRemembered
  <2> QED
    BY <2>1, <2>2
<1> QED
  BY <1>1, <1>2, <1>3
     DEF Inv, EntriesOwned, WithinCapacity, Bound, CallsPlaced, QueuesApart,
         NoCallQueuedPastWaiter, sessionVars, callVars

-----------------------------------------------------------------------------
(* The end of a session.                                                   *)

(* What a step that only ends sessions leaves of the registry.             *)
LEMMA EndInv ==
  ASSUME Inv, NEW s \in Sessions,
         Unbind(s) \/ Lapse(s) \/ PeerEnds(s) \/ LoopEnds(s)
  PROVE  Inv'
<1> USE Constants
<1>1. UNCHANGED <<worker, queue, pulls, callVars, bindVars>>
  BY DEF Unbind, Lapse, PeerEnds, LoopEnds
<1>2. TypeOK'
  <2>1. CASE Unbind(s)
    BY <1>1, <2>1 DEF Unbind, Inv, TypeOK, callVars, bindVars
  <2>2. CASE Lapse(s)
    BY <1>1, <2>2 DEF Lapse, Inv, TypeOK, callVars, bindVars
  <2>3. CASE PeerEnds(s)
    BY <1>1, <2>3 DEF PeerEnds, Inv, TypeOK, callVars, bindVars
  <2>4. CASE LoopEnds(s)
    BY <1>1, <2>4 DEF LoopEnds, Inv, TypeOK, callVars, bindVars
  <2> QED
    BY <2>1, <2>2, <2>3, <2>4
<1>3. EntriesOwned'
  <2>1. CASE Unbind(s)
    BY <1>1, <2>1 DEF Unbind, Authed, ByToken, Inv, TypeOK, EntriesOwned
  <2>2. CASE Lapse(s)
    BY <1>1, <2>2 DEF Lapse, Inv, TypeOK, EntriesOwned
  <2>3. CASE PeerEnds(s)
    BY <1>1, <2>3 DEF PeerEnds, Inv, TypeOK, EntriesOwned
  <2>4. CASE LoopEnds(s)
    BY <1>1, <2>4 DEF LoopEnds, Inv, TypeOK, EntriesOwned
  <2> QED
    BY <2>1, <2>2, <2>3, <2>4
<1>4. WithinCapacity'
  <2>1. Bound' \subseteq Bound
    BY DEF Unbind, Lapse, PeerEnds, LoopEnds, Inv, TypeOK, Bound
  <2>2. IsFiniteSet(Bound) /\ Cardinality(Bound) \in Nat
    BY FS_Subset, FS_CardinalityType DEF Bound
  <2>3. Cardinality(Bound') <= Cardinality(Bound) /\ Cardinality(Bound') \in Nat
    BY <2>1, <2>2, FS_Subset, FS_CardinalityType
  <2> QED
    BY <2>2, <2>3 DEF Inv, WithinCapacity
<1> QED
  BY <1>1, <1>2, <1>3, <1>4
     DEF Inv, TicketsRemembered, CallsPlaced, QueuesApart, NoCallQueuedPastWaiter,
         callVars, bindVars

-----------------------------------------------------------------------------
(* Calls.                                                                  *)

(* A call that was never handed over is now, or its connection failed.     *)
LEMMA HandOverDoes ==
  ASSUME TypeOK, NEW c \in Calls, HandOver(c), delivered[c] = 0
  PROVE  /\ place' \in [Calls -> Places] /\ place'[c] \in {"worker", "dropped"}
         /\ delivered' \in [Calls -> Nat] /\ delivered'[c] \in {0, 1}
         /\ \A d \in Calls : d # c => place'[d] = place[d] /\ delivered'[d] = delivered[d]
<1>1. CASE /\ place' = [place EXCEPT ![c] = "worker"]
           /\ delivered' = [delivered EXCEPT ![c] = @ + 1]
  <2>1. delivered' = [delivered EXCEPT ![c] = 1]
    BY <1>1
  <2> QED
    BY <1>1, <2>1 DEF TypeOK, Places
<1>2. CASE place' = [place EXCEPT ![c] = "dropped"] /\ UNCHANGED delivered
  BY <1>2 DEF TypeOK, Places
<1> QED
  BY <1>1, <1>2 DEF HandOver

(* What calls and queues need, of a step that leaves everything else.      *)
LEMMA CallInv ==
  ASSUME Inv, UNCHANGED <<registry, worker, link, bindVars>>, TypeOK',
         CallsPlaced', QueuesApart', NoCallQueuedPastWaiter'
  PROVE  Inv'
BY DEF Inv, EntriesOwned, WithinCapacity, Bound, TicketsRemembered, bindVars

LEMMA ForwardInv ==
  ASSUME Inv, NEW c \in Calls, NEW s \in Sessions, Forward(c, s), place[c] = "nowhere"
  PROVE  Inv'
<1> USE Constants
<1>1. /\ call' \in [Calls -> CallStates] /\ call'[c] = "pending"
      /\ via' \in [Calls -> Sessions \cup {None}] /\ via'[c] = s
      /\ \A d \in Calls : d # c => call'[d] = call[d] /\ via'[d] = via[d]
      /\ UNCHANGED <<registry, worker, link, bindVars>>
  BY DEF Forward, Inv, TypeOK, CallStates
<1>2. /\ delivered[c] = 0 /\ TypeOK
      /\ \A q \in HttpSessions : \A i \in 1 .. Len(queue[q]) : queue[q][i] # c
  BY DEF Inv, CallsPlaced, QueuesApart
<1>3. ASSUME HandOver(c), UNCHANGED queue,
             fresh' \in [HttpSessions -> BOOLEAN], pulls' \in [HttpSessions -> 0 .. MaxPulls],
             \A q \in HttpSessions : pulls'[q] <= pulls[q]
      PROVE  Inv'
  <2>1. /\ place' \in [Calls -> Places] /\ place'[c] \in {"worker", "dropped"}
        /\ delivered' \in [Calls -> Nat] /\ delivered'[c] \in {0, 1}
        /\ \A d \in Calls : d # c => place'[d] = place[d] /\ delivered'[d] = delivered[d]
    BY <1>2, <1>3, HandOverDoes
  <2>2. TypeOK'
    BY <1>1, <1>3, <2>1 DEF Inv, TypeOK, bindVars
  <2>3. CallsPlaced'
    BY <1>1, <2>1 DEF Inv, TypeOK, CallsPlaced
  <2>4. QueuesApart'
    BY <1>1, <1>2, <1>3, <2>1 DEF Inv, TypeOK, QueuesApart
  <2>5. NoCallQueuedPastWaiter'
    BY <1>3 DEF Inv, TypeOK, NoCallQueuedPastWaiter
  <2> QED
    BY <1>1, <2>2, <2>3, <2>4, <2>5, CallInv
<1>4. CASE /\ s \in HttpSessions /\ pulls[s] > 0
           /\ pulls' = [pulls EXCEPT ![s] = @ - 1]
           /\ fresh' = [fresh EXCEPT ![s] = TRUE]
           /\ HandOver(c)
           /\ UNCHANGED queue
  <2>1. /\ fresh' \in [HttpSessions -> BOOLEAN] /\ pulls' \in [HttpSessions -> 0 .. MaxPulls]
        /\ \A q \in HttpSessions : pulls'[q] <= pulls[q]
    BY <1>2, <1>4 DEF TypeOK
  <2> QED
    BY <1>3, <1>4, <2>1
<1>5. CASE /\ s \in HttpSessions /\ pulls[s] = 0
           /\ queue' = [queue EXCEPT ![s] = Append(@, c)]
           /\ place' = [place EXCEPT ![c] = "queued"]
           /\ UNCHANGED <<fresh, pulls, delivered>>
  <2>1. /\ queue[s] \in Seq(Calls) /\ queue'[s] = Append(queue[s], c)
        /\ \A q \in HttpSessions : q # s => queue'[q] = queue[q]
    BY <1>2, <1>5 DEF TypeOK
  <2>2. /\ Append(queue[s], c) \in Seq(Calls)
        /\ Len(queue'[s]) = Len(queue[s]) + 1 /\ queue'[s][Len(queue[s]) + 1] = c
        /\ \A i \in 1 .. Len(queue[s]) : queue'[s][i] = queue[s][i]
        /\ Len(queue[s]) \in Nat
    BY <2>1
  <2>3. TypeOK'
    BY <1>1, <1>2, <1>5, <2>1, <2>2 DEF TypeOK, bindVars, Places
  <2>4. CallsPlaced'
    BY <1>1, <1>2, <1>5 DEF Inv, TypeOK, CallsPlaced
  <2>5. /\ place'[c] = "queued" /\ via'[c] = s
        /\ \A d \in Calls : d # c => place'[d] = place[d] /\ via'[d] = via[d]
    BY <1>1, <1>2, <1>5 DEF TypeOK
  <2>6. ASSUME NEW q \in HttpSessions
        PROVE  /\ \A i \in 1 .. Len(queue'[q]) :
                    place'[queue'[q][i]] = "queued" /\ via'[queue'[q][i]] = q
               /\ \A i, j \in 1 .. Len(queue'[q]) : queue'[q][i] = queue'[q][j] => i = j
    <3>0. \A i \in 1 .. Len(queue[q]) : queue[q][i] \in Calls
      BY <1>2 DEF TypeOK
    <3>1. CASE q # s
      BY <1>2, <2>1, <2>5, <3>0, <3>1 DEF Inv, QueuesApart
    <3>2. CASE q = s
      <4>1. \A i \in 1 .. Len(queue'[q]) : i \in 1 .. Len(queue[s]) \/ i = Len(queue[s]) + 1
        BY <2>2, <3>2
      <4>2. \A i \in 1 .. Len(queue[s]) :
              place[queue[s][i]] = "queued" /\ via[queue[s][i]] = s /\ queue[s][i] # c
        BY <1>2, <1>5 DEF Inv, QueuesApart
      <4>3. \A i \in 1 .. Len(queue'[q]) :
              place'[queue'[q][i]] = "queued" /\ via'[queue'[q][i]] = q
        <5> SUFFICES ASSUME NEW i \in 1 .. Len(queue'[q])
                     PROVE  place'[queue'[q][i]] = "queued" /\ via'[queue'[q][i]] = q
          OBVIOUS
        <5>1. CASE i \in 1 .. Len(queue[s])
          <6>1. queue'[q][i] = queue[s][i] /\ queue[s][i] \in Calls
            BY <2>2, <3>0, <3>2, <5>1
          <6>2. QED
            BY <2>5, <3>2, <4>2, <5>1, <6>1
        <5>2. CASE i = Len(queue[s]) + 1
          BY <2>2, <2>5, <3>2, <5>2
        <5> QED
          BY <4>1, <5>1, <5>2
      <4>4. \A i, j \in 1 .. Len(queue[s]) : queue[s][i] = queue[s][j] => i = j
        BY <1>5 DEF Inv, QueuesApart
      <4>5. \A i, j \in 1 .. Len(queue'[q]) : queue'[q][i] = queue'[q][j] => i = j
        <5> SUFFICES ASSUME NEW i \in 1 .. Len(queue'[q]), NEW j \in 1 .. Len(queue'[q]),
                            queue'[q][i] = queue'[q][j]
                     PROVE  i = j
          OBVIOUS
        <5>1. CASE i \in 1 .. Len(queue[s]) /\ j \in 1 .. Len(queue[s])
          <6>1. queue'[q][i] = queue[s][i] /\ queue'[q][j] = queue[s][j]
            BY <2>2, <3>2, <5>1
          <6>2. QED
            BY <4>4, <5>1, <6>1
        <5>2. CASE i \in 1 .. Len(queue[s]) /\ j = Len(queue[s]) + 1
          <6>1. queue'[q][i] = queue[s][i] /\ queue'[q][j] = c
            BY <2>2, <3>2, <5>2
          <6>2. QED
            BY <4>2, <5>2, <6>1
        <5>3. CASE i = Len(queue[s]) + 1 /\ j \in 1 .. Len(queue[s])
          <6>1. queue'[q][i] = c /\ queue'[q][j] = queue[s][j]
            BY <2>2, <3>2, <5>3
          <6>2. QED
            BY <4>2, <5>3, <6>1
        <5>4. QED
          BY <4>1, <5>1, <5>2, <5>3
      <4> QED
        BY <4>3, <4>5
    <3> QED
      BY <3>1, <3>2
  <2>7. QueuesApart'
    BY <2>6 DEF QueuesApart
  <2>8. NoCallQueuedPastWaiter'
    BY <1>5, <2>1 DEF Inv, NoCallQueuedPastWaiter
  <2> QED
    BY <1>1, <2>3, <2>4, <2>7, <2>8, CallInv
<1>6. CASE /\ s \in TcpSessions /\ link[s] = "open"
           /\ HandOver(c)
           /\ UNCHANGED <<fresh, queue, pulls>>
  <2>1. /\ fresh' \in [HttpSessions -> BOOLEAN] /\ pulls' \in [HttpSessions -> 0 .. MaxPulls]
        /\ \A q \in HttpSessions : pulls'[q] <= pulls[q]
    BY <1>2, <1>6 DEF TypeOK
  <2> QED
    BY <1>3, <1>6, <2>1
<1>7. CASE /\ s \in TcpSessions /\ link[s] # "open"
           /\ place' = [place EXCEPT ![c] = "dropped"]
           /\ UNCHANGED <<fresh, queue, pulls, delivered>>
  <2>1. /\ fresh' \in [HttpSessions -> BOOLEAN] /\ pulls' \in [HttpSessions -> 0 .. MaxPulls]
        /\ \A q \in HttpSessions : pulls'[q] <= pulls[q]
        /\ HandOver(c)
    BY <1>2, <1>7 DEF TypeOK, HandOver
  <2> QED
    BY <1>3, <1>7, <2>1
<1> QED
  BY <1>4, <1>5, <1>6, <1>7 DEF Forward

LEMMA ConsumerInv ==
  ASSUME Inv, NEW c \in Calls,
         \/ \E w \in Workers : RelayCall(c, w) \/ RelayForCall(c, w)
         \/ RelayForBody(c) \/ ForwardTimesOut(c)
  PROVE  Inv'
<1> USE Constants
<1>1. ASSUME NEW w \in Workers, RelayCall(c, w) PROVE Inv'
  <2>1. registry[w] \in Sessions /\ place[c] = "nowhere" /\ Forward(c, registry[w])
    BY <1>1 DEF RelayCall, Inv, TypeOK, CallsPlaced
  <2> QED
    BY <2>1, ForwardInv
<1>2. CASE RelayForBody(c)
  <2>1. via[c] \in Sessions /\ place[c] = "nowhere" /\ Forward(c, via[c])
    BY <1>2 DEF RelayForBody, Inv, CallsPlaced
  <2> QED
    BY <2>1, ForwardInv
<1>3. ASSUME NEW w \in Workers, RelayForCall(c, w) PROVE Inv'
  <2>1. /\ UNCHANGED <<registry, sessionVars, place, delivered, bindVars>>
        /\ call[c] = "idle" /\ place[c] = "nowhere"
    BY <1>3 DEF RelayForCall, Inv, CallsPlaced
  <2>2. /\ call' \in [Calls -> CallStates] /\ via' \in [Calls -> Sessions \cup {None}]
        /\ \A d \in Calls : d # c => call'[d] = call[d] /\ via'[d] = via[d]
        /\ (call'[c] = "reading" /\ via'[c] \in Sessions) \/ call'[c] = "refused"
    BY <1>3 DEF RelayForCall, HasLiveSession, Inv, TypeOK, CallStates
  <2>3. TypeOK'
    BY <2>1, <2>2 DEF Inv, TypeOK, sessionVars, bindVars
  <2>4. CallsPlaced'
    BY <2>1, <2>2 DEF Inv, CallsPlaced
  <2>5. QueuesApart' /\ NoCallQueuedPastWaiter'
    <3>1. \A q \in HttpSessions : \A i \in 1 .. Len(queue[q]) :
            queue[q][i] \in Calls /\ queue[q][i] # c
      BY <2>1 DEF Inv, TypeOK, QueuesApart
    <3> QED
      BY <2>1, <2>2, <3>1 DEF Inv, QueuesApart, NoCallQueuedPastWaiter, sessionVars
  <2> QED
    BY <2>1, <2>3, <2>4, <2>5, CallInv DEF sessionVars
<1>4. CASE ForwardTimesOut(c)
  <2>1. TypeOK'
    BY <1>4 DEF ForwardTimesOut, Inv, TypeOK, CallStates, sessionVars, bindVars
  <2>2. CallsPlaced' /\ QueuesApart' /\ NoCallQueuedPastWaiter'
    BY <1>4 DEF ForwardTimesOut, Inv, TypeOK, CallsPlaced, QueuesApart,
                NoCallQueuedPastWaiter, sessionVars
  <2> QED
    BY <1>4, <2>1, <2>2, CallInv DEF ForwardTimesOut, sessionVars
<1> QED
  BY <1>1, <1>2, <1>3, <1>4

LEMMA PullInv ==
  ASSUME Inv, NEW s \in Sessions, Pull(s) \/ PullExpires(s)
  PROVE  Inv'
<1> USE Constants
<1>1. /\ s \in HttpSessions /\ fresh' \in [HttpSessions -> BOOLEAN]
      /\ UNCHANGED <<registry, worker, link, call, via, bindVars>>
      /\ TypeOK /\ queue[s] \in Seq(Calls)
  BY DEF Pull, PullExpires, Authed, ByToken, Inv, TypeOK, callVars
<1>2. CASE Pull(s) /\ queue[s] # <<>>
  <2> DEFINE c == Head(queue[s])
  <2>1. /\ queue' = [queue EXCEPT ![s] = Tail(@)] /\ HandOver(c) /\ UNCHANGED pulls
    BY <1>2 DEF Pull
  <2>2. /\ c = queue[s][1] /\ 1 \in 1 .. Len(queue[s]) /\ Len(queue[s]) \in Nat
        /\ Tail(queue[s]) \in Seq(Calls) /\ Len(Tail(queue[s])) = Len(queue[s]) - 1
        /\ \A i \in 1 .. Len(Tail(queue[s])) :
             Tail(queue[s])[i] = queue[s][i + 1] /\ i + 1 \in 1 .. Len(queue[s]) /\ i + 1 # 1
        /\ c \in Calls
    BY <1>1, <1>2
  <2>3. /\ queue' \in [HttpSessions -> Seq(Calls)] /\ queue'[s] = Tail(queue[s])
        /\ \A q \in HttpSessions : q # s => queue'[q] = queue[q]
    BY <1>1, <2>1, <2>2 DEF TypeOK
  <2> HIDE DEF c
  <2>4. place[c] = "queued" /\ via[c] = s /\ delivered[c] = 0
    BY <1>1, <2>2 DEF Inv, QueuesApart, CallsPlaced
  <2>5. /\ place' \in [Calls -> Places] /\ place'[c] \in {"worker", "dropped"}
        /\ delivered' \in [Calls -> Nat] /\ delivered'[c] \in {0, 1}
        /\ \A d \in Calls : d # c => place'[d] = place[d] /\ delivered'[d] = delivered[d]
    BY <1>1, <2>1, <2>2, <2>4, HandOverDoes
  <2>6. TypeOK'
    BY <1>1, <2>1, <2>3, <2>5 DEF TypeOK, bindVars
  <2>7. CallsPlaced'
    BY <1>1, <2>2, <2>4, <2>5 DEF Inv, CallsPlaced
  <2>8. ASSUME NEW q \in HttpSessions
        PROVE  /\ \A i \in 1 .. Len(queue'[q]) :
                    place'[queue'[q][i]] = "queued" /\ via'[queue'[q][i]] = q
               /\ \A i, j \in 1 .. Len(queue'[q]) : queue'[q][i] = queue'[q][j] => i = j
    <3>1. /\ \A i \in 1 .. Len(queue[q]) :
               queue[q][i] \in Calls /\ place[queue[q][i]] = "queued" /\ via[queue[q][i]] = q
          /\ \A i, j \in 1 .. Len(queue[q]) : queue[q][i] = queue[q][j] => i = j
      BY <1>1 DEF Inv, TypeOK, QueuesApart
    <3>2. CASE q # s
      <4>1. \A i \in 1 .. Len(queue[q]) : queue[q][i] # c
        BY <2>4, <3>1, <3>2
      <4>2. \A i \in 1 .. Len(queue[q]) :
              place'[queue[q][i]] = "queued" /\ via'[queue[q][i]] = q
        BY <1>1, <2>5, <3>1, <4>1
      <4>3. queue'[q] = queue[q]
        BY <2>3, <3>2
      <4> QED
        BY <3>1, <4>2, <4>3
    <3>3. CASE q = s
      <4>1. \A i \in 1 .. Len(Tail(queue[s])) :
              /\ Tail(queue[s])[i] \in Calls /\ Tail(queue[s])[i] # c
              /\ place[Tail(queue[s])[i]] = "queued" /\ via[Tail(queue[s])[i]] = s
        BY <2>2, <3>1, <3>3
      <4>2. \A i, j \in 1 .. Len(Tail(queue[s])) : Tail(queue[s])[i] = Tail(queue[s])[j] => i = j
        BY <2>2, <3>1, <3>3
      <4> DEFINE rest == Tail(queue[s])
      <4>3. \A i \in 1 .. Len(rest) : place'[rest[i]] = "queued" /\ via'[rest[i]] = s
        BY <1>1, <2>5, <4>1
      <4>4. queue'[q] = rest
        BY <2>3, <3>3
      <4> HIDE DEF rest
      <4> QED
        BY <3>3, <4>2, <4>3, <4>4 DEF rest
    <3> QED
      BY <3>2, <3>3
  <2>9. QueuesApart'
    BY <2>8 DEF QueuesApart
  <2>10. NoCallQueuedPastWaiter'
    BY <1>2, <2>1, <2>3 DEF Inv, NoCallQueuedPastWaiter
  <2> QED
    BY <1>1, <2>6, <2>7, <2>9, <2>10, CallInv
<1>3. ASSUME UNCHANGED <<queue, place, delivered>>, pulls' \in [HttpSessions -> 0 .. MaxPulls],
             \A q \in HttpSessions : queue[q] # <<>> => pulls'[q] <= pulls[q]
      PROVE  Inv'
  <2>1. TypeOK'
    BY <1>1, <1>3 DEF TypeOK, bindVars
  <2>2. CallsPlaced' /\ QueuesApart'
    BY <1>1, <1>3 DEF Inv, CallsPlaced, QueuesApart
  <2>3. NoCallQueuedPastWaiter'
    BY <1>1, <1>3 DEF Inv, TypeOK, NoCallQueuedPastWaiter
  <2> QED
    BY <1>1, <2>1, <2>2, <2>3, CallInv
<1>4. CASE Pull(s) /\ queue[s] = <<>>
  <2>1. pulls[s] < MaxPulls /\ pulls' = [pulls EXCEPT ![s] = @ + 1]
          /\ UNCHANGED <<queue, place, delivered>>
    BY <1>4 DEF Pull
  <2>2. pulls' \in [HttpSessions -> 0 .. MaxPulls]
    BY <1>1, <2>1 DEF TypeOK
  <2>3. \A q \in HttpSessions : queue[q] # <<>> => pulls'[q] <= pulls[q]
    BY <1>1, <1>4, <2>1 DEF TypeOK
  <2> QED
    BY <1>3, <2>1, <2>2, <2>3
<1>5. CASE PullExpires(s)
  <2>1. pulls[s] > 0 /\ pulls' = [pulls EXCEPT ![s] = @ - 1]
          /\ UNCHANGED <<queue, place, delivered>>
    BY <1>5 DEF PullExpires, callVars
  <2>2. pulls' \in [HttpSessions -> 0 .. MaxPulls]
    BY <1>1, <2>1 DEF TypeOK
  <2>3. \A q \in HttpSessions : queue[q] # <<>> => pulls'[q] <= pulls[q]
    BY <1>1, <2>1 DEF TypeOK
  <2> QED
    BY <1>3, <2>1, <2>2, <2>3
<1> QED
  BY <1>2, <1>4, <1>5

LEMMA AnswerInv ==
  ASSUME Inv, NEW c \in Calls, WorkerAnswers(c) \/ ResultBody(c)
  PROVE  Inv'
<1> USE Constants
<1>1. UNCHANGED <<registry, sessionVars, via, delivered, bindVars>>
  BY DEF WorkerAnswers, ResultBody
<1>2. /\ place[c] \in {"worker", "posting"}
      /\ place' = [place EXCEPT ![c] = "posting"] \/ place' = [place EXCEPT ![c] = "done"]
  BY DEF WorkerAnswers, ResultBody
<1>3. UNCHANGED call \/ (call[c] = "pending" /\ call' = [call EXCEPT ![c] = "answered"])
  BY DEF WorkerAnswers, ResultBody, Resolve
<1>4. /\ place' \in [Calls -> Places] /\ place'[c] \in {"posting", "done"}
      /\ \A d \in Calls : d # c => place'[d] = place[d]
  BY <1>2 DEF Inv, TypeOK, Places
<1>5. /\ call' \in [Calls -> CallStates]
      /\ \A d \in Calls : call'[d] = call[d] \/ call'[d] = "answered"
  BY <1>3 DEF Inv, TypeOK, CallStates
<1>6. call[c] \notin {"idle", "reading"} /\ call'[c] \notin {"idle", "reading"}
  BY <1>2, <1>5 DEF Inv, CallsPlaced
<1>7. TypeOK'
  BY <1>1, <1>4, <1>5 DEF Inv, TypeOK, sessionVars, bindVars
<1>8. CallsPlaced'
  BY <1>1, <1>2, <1>4, <1>5, <1>6 DEF Inv, CallsPlaced
<1>9. QueuesApart' /\ NoCallQueuedPastWaiter'
  <2>1. \A q \in HttpSessions : \A i \in 1 .. Len(queue[q]) :
          queue[q][i] \in Calls /\ queue[q][i] # c
    BY <1>2 DEF Inv, TypeOK, QueuesApart
  <2> QED
    BY <1>1, <1>4, <2>1 DEF Inv, QueuesApart, NoCallQueuedPastWaiter, sessionVars
<1> QED
  BY <1>1, <1>7, <1>8, <1>9, CallInv DEF sessionVars

-----------------------------------------------------------------------------
LEMMA InvNext == Inv /\ [Next]_vars => Inv'
<1> SUFFICES ASSUME Inv, [Next]_vars PROVE Inv'
  OBVIOUS
<1>1. CASE UNCHANGED vars
  BY <1>1 DEF vars, sessionVars, callVars, bindVars, Inv, TypeOK, EntriesOwned,
              WithinCapacity, Bound, TicketsRemembered, CallsPlaced, QueuesApart,
              NoCallQueuedPastWaiter
<1>2. ASSUME NEW s \in Sessions, NEW w \in Workers, NEW t \in Tickets \cup {None},
             BindHttp(s, w, t) \/ BindTcp(s, w, t)
      PROVE  Inv'
  BY <1>2, BindInv DEF BindHttp, BindTcp
<1> QED
  BY <1>1, <1>2, ClockInv, EndInv, PullInv, ConsumerInv, AnswerInv DEF Next

LEMMA InvHolds == Spec => []Inv
BY InvInit, InvNext, PTL DEF Spec

(* However binds, lapses, unbinds and rebinds overlap, over either         *)
(* transport: the session cap holds, and while a ticket is valid it has    *)
(* admitted at most one session, also after that session is gone; only the *)
(* bind that meets its expiry may be a second one, and it is the last      *)
(* (RelaySessionRegistry, the replay cache).                               *)
THEOREM BindsStayLimited == Spec => []BindsLimited
<1>1. Inv => BindsLimited
  BY DEF Inv, TicketsRemembered, BindsLimited, TicketAdmitsOnce
<1> QED
  BY <1>1, InvHolds, PTL

(* A session ends by its own end only: no bind takes the entry of an alive *)
(* session, and no late end removes the entry of a successor (#510).       *)
THEOREM EntriesAreKept == Spec => EntriesKept
<1> DEFINE Displaces ==
             \E w \in Workers : /\ registry[w] # None /\ registry'[w] \notin {None, registry[w]}
                               /\ Alive(registry[w])
           Removes ==
             \E w \in Workers : /\ registry[w] # None /\ registry'[w] = None
                               /\ link'[registry[w]] # "closed"
<1>1. ASSUME Inv, [Next]_vars PROVE ~ Displaces /\ ~ Removes
  <2> USE Constants
  <2>1. CASE UNCHANGED registry
    BY <2>1
  <2>2. ASSUME NEW s \in Sessions, NEW w \in Workers, NEW t \in Tickets \cup {None},
               Bind(s, w, t), ~ UNCHANGED registry
        PROVE  ~ Displaces /\ ~ Removes
    <3>1. Register(s, w) /\ ~ HasLiveSession(w) /\ s # None
      BY <1>1, <2>2, BindDoes
    <3>2. registry'[w] = s /\ \A v \in Workers : v # w => registry'[v] = registry[v]
      BY <1>1, <3>1 DEF Register, Inv, TypeOK
    <3> QED
      BY <3>1, <3>2 DEF HasLiveSession
  <2>3. ASSUME NEW s \in Sessions, Unbind(s) \/ LoopEnds(s), ~ UNCHANGED registry
        PROVE  ~ Displaces /\ ~ Removes
    <3>1. /\ registry' = [registry EXCEPT ![worker[s]] = None]
          /\ registry[worker[s]] = s /\ link' = [link EXCEPT ![s] = "closed"]
      BY <2>3 DEF Unbind, LoopEnds, Authed, ByToken
    <3>2. \A v \in Workers : registry'[v] = registry[v] \/ (registry[v] = s /\ registry'[v] = None)
      BY <1>1, <3>1 DEF Inv, TypeOK
    <3>3. link'[s] = "closed"
      BY <1>1, <3>1 DEF Inv, TypeOK
    <3> QED
      BY <3>2, <3>3
  <2>4. \/ UNCHANGED registry
        \/ \E s \in Sessions, w \in Workers, t \in Tickets \cup {None} : Bind(s, w, t)
        \/ \E s \in Sessions : Unbind(s) \/ LoopEnds(s)
    BY <1>1 DEF Next, vars, BindHttp, BindTcp, NewRateWindow, TicketExpires, Lapse, PeerEnds,
                Pull, PullExpires, RelayCall, RelayForCall, RelayForBody, Forward,
                ForwardTimesOut, WorkerAnswers, ResultBody
  <2> QED
    BY <2>1, <2>2, <2>3, <2>4
<1>2. ASSUME Inv, [Next]_vars
      PROVE  /\ [\A w \in Workers :
                   registry[w] # None /\ registry'[w] \notin {None, registry[w]}
                     => ~ Alive(registry[w])]_vars
             /\ [\A w \in Workers :
                   registry[w] # None /\ registry'[w] = None
                     => link'[registry[w]] = "closed"]_vars
  BY <1>1, <1>2
<1> QED
  BY <1>2, InvHolds, PTL DEF Spec, EntriesKept, NoAliveSessionDisplaced, OnlyOwnEntryRemoved

-----------------------------------------------------------------------------
(* What consumers see.                                                     *)

(* A captured session was bound, so it never gets another worker; a call   *)
(* that was taken has one; and where it is says who still waits for it.    *)
CallsCaptured ==
  /\ \A c \in Calls : via[c] = None \/ (via[c] \in Sessions /\ link[via[c]] # "unused")
  /\ \A c \in Calls : call[c] = "idle" => via[c] = None
  /\ \A c \in Calls : place[c] = "queued" => call[c] \in {"pending", "timed_out"}
  /\ \A c \in Calls : place[c] \in {"worker", "posting"} => delivered[c] = 1

(* The call keeps its worker through every step but the one that captures  *)
(* it, as only a session that was never bound is given one.                *)
LEMMA BindKeepsTargets ==
  ASSUME Inv, CallsCaptured, NEW s \in Sessions, NEW w \in Workers,
         NEW t \in Tickets \cup {None}, Bind(s, w, t)
  PROVE  CallsCaptured' /\ \A c \in Calls : Target(c)' = Target(c)
<1> USE Constants
<1>1. UNCHANGED callVars
  BY BindDoes
<1>2. CASE UNCHANGED <<registry, sessionVars, ticketState, consumed, accepted>>
  BY <1>1, <1>2 DEF CallsCaptured, Target, callVars, sessionVars
<1>3. CASE ~ UNCHANGED <<registry, sessionVars, ticketState, consumed, accepted>>
  <2>1. link[s] = "unused" /\ Register(s, w)
    BY <1>3, BindDoes
  <2>2. /\ link'[s] = "open"
        /\ \A x \in Sessions : x # s => link'[x] = link[x] /\ worker'[x] = worker[x]
    BY <2>1 DEF Register, Inv, TypeOK
  <2>3. QED
    BY <1>1, <2>1, <2>2 DEF CallsCaptured, Target, callVars
<1>4. QED
  BY <1>2, <1>3

(* Every other step leaves the workers of sessions, and no session unused. *)
LEMMA OthersKeepWorkers ==
  ASSUME Inv, [Next]_vars,
         ~ \E s \in Sessions, w \in Workers, t \in Tickets \cup {None} : Bind(s, w, t)
  PROVE  /\ UNCHANGED worker
         /\ \A s \in Sessions : link[s] # "unused" => link'[s] # "unused"
<1>1. ASSUME NEW s \in Sessions, Unbind(s) \/ PeerEnds(s) \/ LoopEnds(s)
      PROVE  UNCHANGED worker /\ \A x \in Sessions : link[x] # "unused" => link'[x] # "unused"
  BY <1>1 DEF Unbind, PeerEnds, LoopEnds, Inv, TypeOK
<1>2. ASSUME UNCHANGED <<worker, link>>
      PROVE  UNCHANGED worker /\ \A x \in Sessions : link[x] # "unused" => link'[x] # "unused"
  BY <1>2
<1>3. \/ UNCHANGED <<worker, link>>
      \/ \E s \in Sessions : Unbind(s) \/ PeerEnds(s) \/ LoopEnds(s)
  BY DEF Next, vars, sessionVars, BindHttp, BindTcp, NewRateWindow, TicketExpires, Lapse,
         Pull, PullExpires, RelayCall, RelayForCall, RelayForBody, Forward,
         ForwardTimesOut, WorkerAnswers, ResultBody
<1>4. QED
  BY <1>1, <1>2, <1>3

(* The variables of the promise, as the relay has them.                    *)
Stages == [c \in Calls |-> Stage(c)]
Targets == [c \in Calls |-> Target(c)]
Unseen == UNCHANGED <<Stages, Targets, delivered>>

LEMMA Names ==
  /\ StageNames["idle"] = "new" /\ StageNames["reading"] = "addressed"
  /\ StageNames["pending"] = "waiting" /\ StageNames["answered"] = "answered"
  /\ StageNames["timed_out"] = "given_up" /\ StageNames["refused"] = "refused"
BY DEF StageNames

(* A step of one call leaves the stages of the others.                     *)
LEMMA StageMoves ==
  ASSUME TypeOK, NEW c \in Calls, NEW x \in CallStates, call' = [call EXCEPT ![c] = x]
  PROVE  /\ Stages' = [Stages EXCEPT ![c] = StageNames[x]]
         /\ Stages[c] = StageNames[call[c]]
         /\ call'[c] = x /\ \A d \in Calls : d # c => call'[d] = call[d]
<1>1. call'[c] = x /\ \A d \in Calls : d # c => call'[d] = call[d]
  BY DEF TypeOK
<1>2. Stages' = [d \in Calls |-> StageNames[call'[d]]]
  BY DEF Stages, Stage, StageNames
<1>3. Stages = [d \in Calls |-> StageNames[call[d]]]
  BY DEF Stages, Stage
<1>4. QED
  BY <1>1, <1>2, <1>3

LEMMA TargetsKept ==
  ASSUME CallsCaptured, UNCHANGED <<via, worker>>
  PROVE  Targets' = Targets
BY DEF Targets, Target

(* A hand-over counts once or not at all.                                  *)
LEMMA HandOverCounts ==
  ASSUME TypeOK, NEW c \in Calls, delivered[c] = 0, HandOver(c)
  PROVE  /\ \/ place'[c] = "worker" /\ delivered' = [delivered EXCEPT ![c] = 1]
            \/ place'[c] = "dropped" /\ UNCHANGED delivered
         /\ \A d \in Calls : d # c => place'[d] = place[d] /\ delivered'[d] = delivered[d]
         /\ place'[c] = "worker" => delivered'[c] = 1
<1>1. CASE /\ place' = [place EXCEPT ![c] = "worker"]
           /\ delivered' = [delivered EXCEPT ![c] = @ + 1]
  <2>1. delivered' = [delivered EXCEPT ![c] = 1]
    BY <1>1
  <2>2. QED
    BY <1>1, <2>1 DEF TypeOK
<1>2. CASE place' = [place EXCEPT ![c] = "dropped"] /\ UNCHANGED delivered
  BY <1>2 DEF TypeOK
<1>3. QED
  BY <1>1, <1>2 DEF HandOver

(* A forwarded call waits at its session, and may be handed over at once.  *)
LEMMA ForwardTaken ==
  ASSUME Inv, CallsCaptured, NEW c \in Calls, NEW s \in Sessions, Forward(c, s),
         link[s] # "unused", place[c] = "nowhere"
  PROVE  /\ CallsCaptured'
         /\ Stages' = [Stages EXCEPT ![c] = "waiting"]
         /\ Targets' = [Targets EXCEPT ![c] = worker[s]]
         /\ \/ delivered[c] = 0 /\ delivered' = [delivered EXCEPT ![c] = 1]
            \/ UNCHANGED delivered
<1> USE Constants
<1>t. TypeOK /\ delivered[c] = 0
  BY DEF Inv, CallsPlaced
<1>1. /\ call' = [call EXCEPT ![c] = "pending"] /\ "pending" \in CallStates
      /\ via' = [via EXCEPT ![c] = s] /\ UNCHANGED <<worker, link>>
  BY DEF Forward, CallStates
<1>2. /\ Stages' = [Stages EXCEPT ![c] = "waiting"]
      /\ call'[c] = "pending" /\ \A d \in Calls : d # c => call'[d] = call[d]
  <2>1. /\ Stages' = [Stages EXCEPT ![c] = StageNames["pending"]]
        /\ call'[c] = "pending" /\ \A d \in Calls : d # c => call'[d] = call[d]
    BY <1>t, <1>1, StageMoves
  <2>2. QED
    BY <2>1, Names
<1>3. via'[c] = s /\ \A d \in Calls : d # c => via'[d] = via[d]
  BY <1>t, <1>1 DEF TypeOK
<1>4. Targets' = [Targets EXCEPT ![c] = worker[s]]
  <2>1. Targets' = [d \in Calls |-> IF via'[d] = None THEN None ELSE worker[via'[d]]]
    BY <1>1 DEF Targets, Target
  <2>2. Targets = [d \in Calls |-> IF via[d] = None THEN None ELSE worker[via[d]]]
    BY DEF Targets, Target
  <2>3. QED
    BY <1>3, <2>1, <2>2
<1>5. /\ \/ delivered' = [delivered EXCEPT ![c] = 1] /\ delivered'[c] = 1
         \/ UNCHANGED delivered /\ place'[c] \in {"queued", "dropped"}
      /\ \A d \in Calls : d # c => place'[d] = place[d] /\ delivered'[d] = delivered[d]
  <2>1. CASE HandOver(c)
    BY <1>t, <2>1, HandOverCounts DEF TypeOK
  <2>2. CASE UNCHANGED delivered /\ place' = [place EXCEPT ![c] = "queued"]
    BY <1>t, <2>2 DEF TypeOK
  <2>3. CASE UNCHANGED delivered /\ place' = [place EXCEPT ![c] = "dropped"]
    BY <1>t, <2>3 DEF TypeOK
  <2>4. QED
    BY <2>1, <2>2, <2>3 DEF Forward
<1>6. CallsCaptured'
  BY <1>1, <1>2, <1>3, <1>5 DEF CallsCaptured
<1>7. QED
  BY <1>t, <1>2, <1>4, <1>5, <1>6

LEMMA ConsumerKeepsPromise ==
  ASSUME Inv, CallsCaptured, NEW c \in Calls,
         \/ \E w \in Workers : RelayCall(c, w) \/ RelayForCall(c, w)
         \/ RelayForBody(c) \/ ForwardTimesOut(c)
  PROVE  CallsCaptured' /\ Promise!Next
<1> USE Constants
<1>t. TypeOK
  BY DEF Inv
<1>1. ASSUME NEW w \in Workers, RelayCall(c, w) PROVE CallsCaptured' /\ Promise!Accept(c)
  <2> DEFINE s == registry[w]
  <2>1. /\ s \in Sessions /\ place[c] = "nowhere" /\ Forward(c, s)
        /\ link[s] # "unused" /\ worker[s] = w /\ call[c] = "idle"
    <3>1. registry[w] # None /\ call[c] = "idle" /\ Forward(c, s)
      BY <1>1 DEF RelayCall
    <3>2. s \in Sessions /\ place[c] = "nowhere"
      BY <3>1 DEF Inv, TypeOK, CallsPlaced
    <3>3. worker[s] = w /\ link[s] \in {"open", "fin"}
      BY <3>1 DEF Inv, EntriesOwned
    <3>4. QED
      BY <3>1, <3>2, <3>3
  <2>2. Stages[c] = "new"
    BY <2>1, Names DEF Stages, Stage
  <2>3. QED
    BY <2>1, <2>2, ForwardTaken
       DEF Promise!Accept, Promise!Moves, Promise!Chooses, Promise!HandsOver, Stages, Targets
<1>2. CASE RelayForBody(c)
  <2>1. /\ via[c] \in Sessions /\ place[c] = "nowhere" /\ Forward(c, via[c])
        /\ link[via[c]] # "unused" /\ call[c] = "reading"
    BY <1>2 DEF RelayForBody, Inv, CallsPlaced, CallsCaptured
  <2>2. Stages[c] = "addressed" /\ Targets[c] = worker[via[c]]
    BY <2>1, Names DEF Stages, Stage, Targets, Target
  <2>3. Targets' = Targets
    BY <2>1, <2>2, ForwardTaken DEF Targets
  <2>4. CallsCaptured' /\ Promise!Accept(c)
    BY <2>1, <2>2, <2>3, ForwardTaken
       DEF Promise!Accept, Promise!Moves, Promise!HandsOver, Stages, Targets
  <2>5. QED
    BY <2>4 DEF Promise!Next
<1>3. ASSUME NEW w \in Workers, RelayForCall(c, w)
      PROVE  CallsCaptured' /\ (Promise!Address(c) \/ Promise!Refuse(c))
  <2>1. /\ UNCHANGED <<worker, link, place, delivered>>
        /\ call[c] = "idle" /\ place[c] = "nowhere" /\ via[c] = None
    BY <1>3 DEF RelayForCall, Inv, CallsPlaced, CallsCaptured, sessionVars
  <2>2. CASE /\ HasLiveSession(w)
             /\ call' = [call EXCEPT ![c] = "reading"]
             /\ via' = [via EXCEPT ![c] = registry[w]]
    <3>1. /\ registry[w] \in Sessions /\ worker[registry[w]] = w
          /\ link[registry[w]] # "unused"
      BY <2>2 DEF HasLiveSession, Inv, TypeOK, EntriesOwned
    <3>2. /\ Stages' = [Stages EXCEPT ![c] = "addressed"] /\ Stages[c] = "new"
          /\ call'[c] = "reading" /\ \A d \in Calls : d # c => call'[d] = call[d]
      <4>1. "reading" \in CallStates
        BY DEF CallStates
      <4>2. /\ Stages' = [Stages EXCEPT ![c] = StageNames["reading"]] /\ Stages[c] = StageNames["idle"]
            /\ call'[c] = "reading" /\ \A d \in Calls : d # c => call'[d] = call[d]
        BY <1>t, <2>1, <2>2, <4>1, StageMoves
      <4>3. QED
        BY <4>2, Names
    <3>3. via'[c] = registry[w] /\ \A d \in Calls : d # c => via'[d] = via[d]
      BY <1>t, <2>2 DEF TypeOK
    <3>4. Targets' = [Targets EXCEPT ![c] = w]
      BY <2>1, <3>1, <3>3 DEF Targets, Target
    <3>5. CallsCaptured'
      BY <2>1, <3>1, <3>2, <3>3 DEF CallsCaptured
    <3>6. QED
      BY <2>1, <3>2, <3>4, <3>5
         DEF Promise!Address, Promise!Moves, Promise!Chooses, Stages, Targets
  <2>3. CASE call' = [call EXCEPT ![c] = "refused"] /\ UNCHANGED via
    <3>1. /\ Stages' = [Stages EXCEPT ![c] = "refused"] /\ Stages[c] = "new"
          /\ call'[c] = "refused" /\ \A d \in Calls : d # c => call'[d] = call[d]
      <4>1. "refused" \in CallStates
        BY DEF CallStates
      <4>2. /\ Stages' = [Stages EXCEPT ![c] = StageNames["refused"]] /\ Stages[c] = StageNames["idle"]
            /\ call'[c] = "refused" /\ \A d \in Calls : d # c => call'[d] = call[d]
        BY <1>t, <2>1, <2>3, <4>1, StageMoves
      <4>3. QED
        BY <4>2, Names
    <3>2. CallsCaptured' /\ Targets' = Targets
      BY <2>1, <2>3, <3>1, TargetsKept DEF CallsCaptured
    <3>3. QED
      BY <2>1, <3>1, <3>2 DEF Promise!Refuse, Promise!Moves, Stages, Targets
  <2>4. QED
    BY <1>3, <2>2, <2>3 DEF RelayForCall
<1>4. CASE ForwardTimesOut(c)
  <2>1. /\ UNCHANGED <<worker, link, via, place, delivered>>
        /\ call[c] = "pending" /\ call' = [call EXCEPT ![c] = "timed_out"]
    BY <1>4 DEF ForwardTimesOut, sessionVars
  <2>2. /\ Stages' = [Stages EXCEPT ![c] = "given_up"] /\ Stages[c] = "waiting"
        /\ call'[c] = "timed_out" /\ \A d \in Calls : d # c => call'[d] = call[d]
    <3>1. "timed_out" \in CallStates
      BY DEF CallStates
    <3>2. /\ Stages' = [Stages EXCEPT ![c] = StageNames["timed_out"]] /\ Stages[c] = StageNames["pending"]
          /\ call'[c] = "timed_out" /\ \A d \in Calls : d # c => call'[d] = call[d]
      BY <1>t, <2>1, <3>1, StageMoves
    <3>3. QED
      BY <3>2, Names
  <2>3. CallsCaptured' /\ Targets' = Targets
    BY <2>1, <2>2, TargetsKept DEF CallsCaptured
  <2>4. CallsCaptured' /\ Promise!GiveUp(c)
    BY <2>1, <2>2, <2>3 DEF Promise!GiveUp, Promise!Moves, Stages, Targets
  <2>5. QED
    BY <2>4 DEF Promise!Next
<1>5. QED
  BY <1>1, <1>2, <1>3, <1>4 DEF Promise!Next

LEMMA PullKeepsPromise ==
  ASSUME Inv, CallsCaptured, NEW s \in Sessions, Pull(s), ~ UNCHANGED <<place, delivered>>
  PROVE  CallsCaptured' /\ (Promise!Next \/ Unseen)
<1> USE Constants
<1> DEFINE c == Head(queue[s])
<1>1. /\ s \in HttpSessions /\ queue[s] # <<>> /\ HandOver(c) /\ TypeOK
      /\ UNCHANGED <<worker, link, call, via>>
  BY DEF Pull, Authed, ByToken, Inv
<1>2. c \in Calls /\ place[c] = "queued"
  <2>1. queue[s] \in Seq(Calls)
    BY <1>1 DEF TypeOK
  <2>2. c = queue[s][1] /\ 1 \in 1 .. Len(queue[s]) /\ c \in Calls
    BY <1>1, <2>1
  <2>3. QED
    BY <1>1, <2>2 DEF Inv, QueuesApart
<1> HIDE DEF c
<1>3. delivered[c] = 0 /\ call[c] \in {"pending", "timed_out"}
  BY <1>2 DEF Inv, CallsPlaced, CallsCaptured
<1>4. /\ \/ place'[c] = "worker" /\ delivered' = [delivered EXCEPT ![c] = 1]
         \/ place'[c] = "dropped" /\ UNCHANGED delivered
      /\ \A d \in Calls : d # c => place'[d] = place[d] /\ delivered'[d] = delivered[d]
      /\ place'[c] = "worker" => delivered'[c] = 1
  BY <1>1, <1>2, <1>3, HandOverCounts
<1>5. CallsCaptured'
  BY <1>1, <1>2, <1>4 DEF CallsCaptured
<1>6. Stages' = Stages /\ Targets' = Targets
  BY <1>1, TargetsKept DEF Stages, Stage, StageNames
<1>7. Stages[c] \in {"waiting", "given_up"}
  BY <1>2, <1>3, Names DEF Stages, Stage
<1>8. CASE delivered' = [delivered EXCEPT ![c] = 1]
  <2>1. Promise!Hand(c)
    BY <1>3, <1>6, <1>7, <1>8 DEF Promise!Hand, Promise!HandsOver, Stages, Targets
  <2>2. QED
    BY <1>2, <1>5, <2>1 DEF Promise!Next
<1>9. QED
  BY <1>4, <1>5, <1>6, <1>8 DEF Unseen

LEMMA AnswerKeepsPromise ==
  ASSUME Inv, CallsCaptured, NEW c \in Calls, WorkerAnswers(c) \/ ResultBody(c)
  PROVE  CallsCaptured' /\ (Promise!Next \/ Unseen)
<1> USE Constants
<1>1. /\ UNCHANGED <<worker, link, via, delivered>> /\ TypeOK
      /\ place[c] \in {"worker", "posting"}
      /\ place' = [place EXCEPT ![c] = "posting"] \/ place' = [place EXCEPT ![c] = "done"]
  BY DEF WorkerAnswers, ResultBody, sessionVars, Inv
<1>2. /\ delivered[c] = 1 /\ place'[c] \in {"posting", "done"}
      /\ \A d \in Calls : d # c => place'[d] = place[d]
      /\ call[c] # "idle"
  BY <1>1 DEF CallsCaptured, Inv, CallsPlaced, TypeOK
<1>3. Targets' = Targets
  BY <1>1, TargetsKept
<1>4. CASE UNCHANGED call
  <2>1. CallsCaptured'
    BY <1>1, <1>2, <1>4 DEF CallsCaptured
  <2>2. Stages' = Stages
    BY <1>4 DEF Stages, Stage, StageNames
  <2>3. QED
    BY <1>1, <1>3, <2>1, <2>2 DEF Unseen
<1>5. CASE call[c] = "pending" /\ call' = [call EXCEPT ![c] = "answered"]
  <2>1. "answered" \in CallStates
    BY DEF CallStates
  <2>2. /\ Stages' = [Stages EXCEPT ![c] = StageNames["answered"]]
        /\ Stages[c] = StageNames["pending"]
        /\ call'[c] = "answered" /\ \A d \in Calls : d # c => call'[d] = call[d]
    BY <1>1, <1>5, <2>1, StageMoves
  <2>3. CallsCaptured'
    BY <1>1, <1>2, <2>2 DEF CallsCaptured
  <2>4. Promise!Answer(c)
    BY <1>1, <1>2, <1>3, <2>2, Names DEF Promise!Answer, Promise!Moves, Stages, Targets
  <2>5. QED
    BY <2>3, <2>4 DEF Promise!Next
<1>6. QED
  BY <1>4, <1>5 DEF WorkerAnswers, ResultBody, Resolve

(* What a step does to the calls, or that it does nothing to them.         *)
LEMMA StepKeepsPromise ==
  ASSUME Inv, CallsCaptured, [Next]_vars
  PROVE  CallsCaptured' /\ (Promise!Next \/ Unseen)
<1> DEFINE Binds == \E s \in Sessions, w \in Workers, t \in Tickets \cup {None} : Bind(s, w, t)
<1>1. CASE Binds
  <2>1. CallsCaptured' /\ UNCHANGED callVars /\ \A c \in Calls : Target(c)' = Target(c)
    BY <1>1, BindKeepsTargets, BindDoes
  <2>2. Targets' = Targets
    BY <2>1 DEF Targets
  <2>3. Stages' = Stages
    BY <2>1 DEF callVars, Stages, Stage, StageNames
  <2>4. QED
    BY <2>1, <2>2, <2>3 DEF Unseen, callVars
<1>2. CASE ~ Binds
  <2>1. /\ UNCHANGED worker
        /\ \A s \in Sessions : link[s] # "unused" => link'[s] # "unused"
    BY <1>2, OthersKeepWorkers
  <2>2. ASSUME UNCHANGED callVars
        PROVE  CallsCaptured' /\ Unseen
    <3>1. CallsCaptured'
      BY <2>1, <2>2 DEF CallsCaptured, callVars
    <3>2. Targets' = Targets
      BY <2>1, <2>2, TargetsKept DEF callVars
    <3>3. Stages' = Stages
      BY <2>2 DEF callVars, Stages, Stage, StageNames
    <3>4. QED
      BY <2>2, <3>1, <3>2, <3>3 DEF Unseen, callVars
  <2>3. ASSUME NEW s \in Sessions, Pull(s) PROVE CallsCaptured' /\ (Promise!Next \/ Unseen)
    BY <2>2, <2>3, PullKeepsPromise DEF Pull, callVars
  <2>4. \/ UNCHANGED callVars
        \/ \E s \in Sessions : Pull(s)
        \/ \E c \in Calls : \/ \E w \in Workers : RelayCall(c, w) \/ RelayForCall(c, w)
                            \/ RelayForBody(c) \/ ForwardTimesOut(c)
        \/ \E c \in Calls : WorkerAnswers(c) \/ ResultBody(c)
    BY <1>2 DEF Next, vars, BindHttp, BindTcp, NewRateWindow, TicketExpires, Unbind, Lapse,
                PeerEnds, LoopEnds, PullExpires
  <2>5. QED
    BY <2>2, <2>3, <2>4, ConsumerKeepsPromise, AnswerKeepsPromise
<1>3. QED
  BY <1>1, <1>2

(* The relay implements RelayPromise, for any workers, sessions and calls: *)
(* a captured call keeps its worker whoever binds later, it is handed over *)
(* once at most, and it is answered only after that and only while its     *)
(* consumer waits (forwardTask, nextCall, onResponse, _handleRelayForTask).*)
THEOREM CallsKeepTheirPromise == Spec => CallsKeepPromise
<1>1. Init => CallsCaptured /\ Promise!Init
  <2> SUFFICES ASSUME Init PROVE CallsCaptured /\ Promise!Init
    OBVIOUS
  <2>1. CallsCaptured
    BY DEF Init, CallsCaptured
  <2>2. /\ Stages = [c \in Calls |-> "new"] /\ Targets = [c \in Calls |-> None]
        /\ delivered = [c \in Calls |-> 0]
    BY Names DEF Init, Stages, Stage, Targets, Target
  <2>3. QED
    BY <2>1, <2>2 DEF Promise!Init, Stages, Targets
<1>2. Inv /\ CallsCaptured /\ [Next]_vars
        => CallsCaptured' /\ [Promise!Next]_<<[c \in Calls |-> Stage(c)],
                                            [c \in Calls |-> Target(c)], delivered>>
  BY StepKeepsPromise DEF Unseen, Stages, Targets
<1>3. QED
  BY <1>1, <1>2, InvHolds, PTL DEF Spec, CallsKeepPromise, Promise!Spec

(* As promised, and at the first occasion: a call never waits in the queue *)
(* of a session whose worker waits for it (forwardTask, nextCall).         *)
THEOREM CallsAreHandedOver == Spec => CallsHandedOver
<1>1. Inv => NoCallQueuedPastWaiter
  BY DEF Inv
<1>2. QED
  BY <1>1, InvHolds, CallsKeepTheirPromise, PTL DEF CallsHandedOver

=============================================================================
