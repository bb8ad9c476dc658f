------------------------ MODULE TaskAdmissionProofs ------------------------
(***************************************************************************)
(* Proofs about TaskAdmission for every set of requests, every cap and     *)
(* every lifetime of the caches.                                           *)
(***************************************************************************)
EXTENDS TaskAdmission, FiniteSetTheorems, TLAPS

(* The lifetime of a cache entry is a number of clock units.               *)
LEMMA TTLType == TTL \in Nat
BY ParametersAssumption DEF ParametersAssumption

(* Overwriting one value of a function keeps its type.                     *)
LEMMA ExceptType ==
  ASSUME NEW D, NEW V, NEW f \in [D -> V], NEW d \in D, NEW v \in V
  PROVE  [f EXCEPT ![d] = v] \in [D -> V]
OBVIOUS

(* Queueing a request keeps the microtask queue a sequence of requests.    *)
LEMMA AppendType ==
  ASSUME NEW S, NEW s \in Seq(S), NEW e \in S
  PROVE  Append(s, e) \in Seq(S)
OBVIOUS

(* Every variable keeps its type, whoever is scheduled when.               *)
LEMMA TypesKept == Init /\ [][Next]_vars => []TypeOK
<1>1. ASSUME Init PROVE TypeOK
  <2> USE <1>1 DEF Init, PCs, Replies, None, Never
  <2>1. /\ pc \in [Requests -> PCs]
        /\ reply \in [Requests -> Replies]
        /\ attempts \in [Requests -> 0 .. 2]
    OBVIOUS
  <2>2. /\ nonceUntil \in [Nonces -> Int]
        /\ taskUntil \in [TaskIds -> Int]
        /\ enteredAt \in [Requests -> Int]
    OBVIOUS
  <2>3. /\ active \in Int /\ cap \in Caps /\ now \in Nat
        /\ succeeded \in Nat /\ failed \in Nat
        /\ microtasks \in Seq(Requests) /\ twice \subseteq Requests
    BY ParametersAssumption DEF ParametersAssumption
  <2>4. flushing \in BOOLEAN /\ backendDrain \in BOOLEAN
    OBVIOUS
  <2> QED BY <2>1, <2>2, <2>3, <2>4 DEF TypeOK
<1>2. TypeOK /\ [Next]_vars => TypeOK'
  <2> SUFFICES ASSUME TypeOK, [Next]_vars PROVE TypeOK'
    OBVIOUS
  <2> USE DEF TypeOK, PCs, Replies, None, environment, counters, caches, loop
  <2> DEFINE EnterTypes ==
        /\ pc' \in [Requests -> PCs]
        /\ reply' \in [Requests -> Replies]
        /\ attempts' \in [Requests -> 0 .. 2]
        /\ active' \in Int
        /\ nonceUntil' \in [Nonces -> Int]
        /\ taskUntil' \in [TaskIds -> Int]
        /\ enteredAt' \in [Requests -> Int]
  <2>0. ASSUME NEW r \in Requests, Enter(r) PROVE EnterTypes
    <3>1. CASE ~ NonceFresh(r)
      BY <2>0, <3>1 DEF Enter, Refuse, Answer
    <3>2. CASE NonceFresh(r)
      <4>1. /\ nonceUntil' \in [Nonces -> Int]
            /\ enteredAt' \in [Requests -> Int]
        BY <2>0, <3>2, TTLType DEF Enter, RememberNonce
      <4>2. taskUntil' \in [TaskIds -> Int]
        BY <2>0, <3>2, TTLType DEF Enter, RememberTask, Refuse
      <4>3. CASE \E code \in {"E010", "CX"} : Refuse(r, code)
        BY <4>1, <4>2, <4>3 DEF Refuse, Answer
      <4>4. CASE /\ active' = active + 1
                 /\ pc' = [pc EXCEPT ![r] = "running"]
                 /\ attempts' = [attempts EXCEPT ![r] = 1]
                 /\ UNCHANGED reply
        BY <4>1, <4>2, <4>4
      <4> QED BY <2>0, <3>2, <4>3, <4>4 DEF Enter
    <3> QED BY <3>1, <3>2
  <2>1. CASE RunMicrotask
    <3>1. Head(microtasks) \in Requests /\ Tail(microtasks) \in Seq(Requests)
      BY <2>1 DEF RunMicrotask
    <3>2. EnterTypes
      BY <2>0, <2>1, <3>1 DEF RunMicrotask
    <3>3. flushing' \in BOOLEAN
      BY <2>1 DEF RunMicrotask
    <3> QED BY <2>1, <3>1, <3>2, <3>3 DEF RunMicrotask
  <2>2. ASSUME NEW r \in Requests, Arrive(r) PROVE TypeOK'
    <3>1. \E s \in PCs : pc' = [pc EXCEPT ![r] = s]
      BY <2>2 DEF Arrive, Answer
    <3>2. UNCHANGED reply \/ \E c \in Replies : reply' = [reply EXCEPT ![r] = c]
      BY <2>2 DEF Arrive, Answer
    <3>3. UNCHANGED microtasks \/ microtasks' = Append(microtasks, r)
      BY <2>2 DEF Arrive
    <3>4. microtasks' \in Seq(Requests)
      <4>1. microtasks \in Seq(Requests)
        OBVIOUS
      <4>2. Append(microtasks, r) \in Seq(Requests)
        BY <4>1, AppendType
      <4>3. QED BY <3>3, <4>1, <4>2
    <3>5. pc' \in [Requests -> PCs] /\ reply' \in [Requests -> Replies]
      BY <3>1, <3>2
    <3> QED BY <2>2, <3>4, <3>5 DEF Arrive
  <2>3. ASSUME NEW r \in Requests, PollAdmits(r) PROVE TypeOK'
    <3>1. EnterTypes BY <2>0, <2>3 DEF PollAdmits
    <3> QED BY <2>3, <3>1 DEF PollAdmits
  <2>4. ASSUME NEW r \in Requests, PollGivesUp(r) PROVE TypeOK'
    BY <2>4 DEF PollGivesUp, Answer
  <2>5. ASSUME NEW r \in Requests, HandlerReturns(r) PROVE TypeOK'
    <3>1. /\ pc' \in [Requests -> PCs]
          /\ reply' \in [Requests -> Replies]
      BY <2>5 DEF HandlerReturns, Settle, Answer
    <3>2. /\ active' \in Int /\ succeeded' \in Nat /\ failed' \in Nat
          /\ twice' \subseteq Requests
      BY <2>5 DEF HandlerReturns
    <3> QED BY <2>5, <3>1, <3>2 DEF HandlerReturns, Settle
  <2>6. ASSUME NEW r \in Requests, ResultThrows(r) PROVE TypeOK'
    BY <2>6 DEF ResultThrows, Settle, Answer
  <2>7. ASSUME NEW r \in Requests, HandlerRejects(r) PROVE TypeOK'
    <3>1. /\ pc' \in [Requests -> PCs]
          /\ reply' \in [Requests -> Replies]
      BY <2>7 DEF HandlerRejects, Settle, Answer
    <3>4. UNCHANGED attempts \/ attempts' = [attempts EXCEPT ![r] = 2]
      BY <2>7 DEF HandlerRejects, Settle
    <3>2. attempts' \in [Requests -> 0 .. 2]
      <4>1. attempts \in [Requests -> 0 .. 2] /\ 2 \in 0 .. 2
        OBVIOUS
      <4>2. [attempts EXCEPT ![r] = 2] \in [Requests -> 0 .. 2]
        BY <4>1, ExceptType
      <4> QED BY <3>4, <4>1, <4>2
    <3>3. /\ active' \in Int /\ succeeded' \in Nat /\ failed' \in Nat
          /\ twice' \subseteq Requests
      BY <2>7 DEF HandlerRejects
    <3> QED BY <2>7, <3>1, <3>2, <3>3 DEF HandlerRejects, Settle
  <2>8. ASSUME NEW r \in Requests, NativeCall(r) PROVE TypeOK'
    BY <2>8 DEF NativeCall
  <2>9. ASSUME NEW r \in Requests, NativeReply(r) PROVE TypeOK'
    BY <2>9 DEF NativeReply, Answer
  <2>10. CASE ChangeWindow
    BY <2>10 DEF ChangeWindow
  <2>11. CASE ChangeDrain
    BY <2>11 DEF ChangeDrain
  <2>12. CASE Tick
    BY <2>12 DEF Tick
  <2>13. CASE UNCHANGED vars
    BY <2>13 DEF vars
  <2> QED
    BY <2>1, <2>2, <2>3, <2>4, <2>5, <2>6, <2>7, <2>8, <2>9, <2>10, <2>11,
       <2>12, <2>13 DEF Next
<1> QED BY <1>1, <1>2, PTL

(* Every variable keeps its type.                                          *)
THEOREM TypeCorrect == Spec => []TypeOK
BY TypesKept, PTL DEF Spec

-----------------------------------------------------------------------------
(* Slots.                                                                  *)

(* What the event loop guarantees about the requests it holds: each queued *)
(* continuation belongs to a different HTTP request that passed the test.  *)
QueueInv ==
  /\ \A i \in 1 .. Len(microtasks) :
       pc[microtasks[i]] = "passed" /\ ~ microtasks[i].native
  /\ \A i, j \in 1 .. Len(microtasks) :
       microtasks[i] = microtasks[j] => i = j
  /\ \A r \in Requests : pc[r] = "waiting" => ~ r.native

(* A slot is given back twice at the end of a request only.                *)
TwiceInv ==
  \A r \in twice : pc[r] = "answered"

(* The two sets the slot counter is the difference of are finite.          *)
LEMMA TwiceFinite ==
  ASSUME TypeOK
  PROVE  IsFiniteSet(twice) /\ Cardinality(twice) \in Nat
<1>1. IsFiniteSet(Requests) /\ twice \subseteq Requests
  BY RequestsAssumption DEF RequestsAssumption, TypeOK
<1> QED BY <1>1, FS_Subset, FS_CardinalityType

LEMMA HttpExecutingFinite ==
  IsFiniteSet(HttpExecuting) /\ Cardinality(HttpExecuting) \in Nat
<1>1. HttpExecuting \subseteq Requests
  BY DEF HttpExecuting, Executing
<1>2. IsFiniteSet(Requests)
  BY RequestsAssumption DEF RequestsAssumption
<1> QED BY <1>1, <1>2, FS_Subset, FS_CardinalityType

(* The continuation of a queued or polling request leaves one of two       *)
(* states behind.                                                          *)
LEMMA EnterMoves ==
  ASSUME NEW r \in Requests, Enter(r)
  PROVE  \/ pc' = [pc EXCEPT ![r] = "answered"] /\ active' = active
         \/ pc' = [pc EXCEPT ![r] = "running"] /\ active' = active + 1
BY DEF Enter, Refuse, Answer

(* Taking a slot and starting the handler happen together.                 *)
LEMMA EnterSlots ==
  ASSUME TypeOK, SlotAccounting, NEW r \in Requests, Enter(r),
         pc[r] \in {"passed", "waiting"}, ~ r.native, UNCHANGED twice
  PROVE  SlotAccounting'
<1>0. pc \in [Requests -> PCs] /\ active \in Int
  BY DEF TypeOK
<1>1. r \notin HttpExecuting
  BY DEF HttpExecuting, Executing
<1>2. CASE pc' = [pc EXCEPT ![r] = "answered"] /\ active' = active
  <2>1. HttpExecuting' = HttpExecuting
    BY <1>0, <1>2 DEF HttpExecuting, Executing
  <2> QED BY <1>2, <2>1 DEF SlotAccounting
<1>3. CASE pc' = [pc EXCEPT ![r] = "running"] /\ active' = active + 1
  <2>1. HttpExecuting' = HttpExecuting \cup {r}
    BY <1>0, <1>3 DEF HttpExecuting, Executing
  <2>2. Cardinality(HttpExecuting \cup {r}) = Cardinality(HttpExecuting) + 1
    BY <1>1, HttpExecutingFinite, FS_AddElement
  <2> QED
    BY <1>0, <1>3, <2>1, <2>2, HttpExecutingFinite, TwiceFinite DEF SlotAccounting
<1> QED BY <1>2, <1>3, EnterMoves

(* A handler that settles gives back the slot of its request, once or, with*)
(* a result that throws, twice.                                            *)
LEMMA SettleSlots ==
  ASSUME TypeOK, SlotAccounting, NEW r \in Requests, pc[r] = "running",
         ~ r.native, pc' = [pc EXCEPT ![r] = "answered"], TwiceInv,
         \/ active' = active - 1 /\ UNCHANGED twice
         \/ active' = active - 2 /\ twice' = twice \cup {r}
  PROVE  SlotAccounting'
<1>1. pc \in [Requests -> PCs] /\ active \in Int
  BY DEF TypeOK
<1>2. HttpExecuting' = HttpExecuting \ {r} /\ r \in HttpExecuting
  BY <1>1 DEF HttpExecuting, Executing
<1>3. Cardinality(HttpExecuting \ {r}) = Cardinality(HttpExecuting) - 1
  BY <1>2, HttpExecutingFinite, FS_RemoveElement
<1>4. Cardinality(twice \cup {r}) = Cardinality(twice) + 1
  BY TwiceFinite, FS_AddElement DEF TwiceInv
<1>5. /\ Cardinality(HttpExecuting') = Cardinality(HttpExecuting) - 1
      /\ active = Cardinality(HttpExecuting) - Cardinality(twice)
      /\ Cardinality(HttpExecuting) \in Nat /\ Cardinality(twice) \in Nat
  BY <1>2, <1>3, HttpExecutingFinite, TwiceFinite DEF SlotAccounting
<1>6. CASE active' = active - 1 /\ UNCHANGED twice
  BY <1>5, <1>6 DEF SlotAccounting
<1>7. CASE active' = active - 2 /\ twice' = twice \cup {r}
  BY <1>4, <1>5, <1>7 DEF SlotAccounting
<1> QED
  BY <1>6, <1>7

(* A step that moves one request between states in which no HTTP handler   *)
(* runs, and leaves the counter alone, keeps the accounting.               *)
LEMMA OtherSlots ==
  ASSUME TypeOK, SlotAccounting, NEW r \in Requests, NEW s \in PCs,
         r.native \/ (pc[r] # "running" /\ s # "running"),
         pc' = [pc EXCEPT ![r] = s], active' = active, UNCHANGED twice
  PROVE  SlotAccounting'
<1>1. pc \in [Requests -> PCs]
  BY DEF TypeOK
<1>2. HttpExecuting' = HttpExecuting
  BY <1>1 DEF HttpExecuting, Executing
<1> QED BY <1>2 DEF SlotAccounting

(* With no continuation pending, moving one request keeps QueueInv.        *)
LEMMA IdleQueue ==
  ASSUME TypeOK, QueueInv, Idle, UNCHANGED microtasks,
         NEW r \in Requests, NEW s \in PCs \ {"waiting"},
         pc' = [pc EXCEPT ![r] = s]
  PROVE  QueueInv'
<1>1. pc \in [Requests -> PCs]
  BY DEF TypeOK
<1>2. microtasks = <<>> /\ microtasks' = <<>>
  BY DEF Idle
<1>3. \A q \in Requests : pc'[q] = "waiting" => ~ q.native
  BY <1>1 DEF QueueInv
<1> QED BY <1>2, <1>3 DEF QueueInv

(* Draining one continuation keeps QueueInv: the others are other requests.*)
LEMMA DrainQueue ==
  ASSUME TypeOK, QueueInv, RunMicrotask
  PROVE  QueueInv'
<1> DEFINE r == Head(microtasks)
<1>1. /\ pc \in [Requests -> PCs] /\ microtasks \in Seq(Requests)
      /\ microtasks # <<>> /\ microtasks' = Tail(microtasks)
  BY DEF TypeOK, RunMicrotask
<1>2. r \in Requests /\ r = microtasks[1] /\ Len(microtasks) >= 1
  BY <1>1
<1>3. /\ Len(microtasks') = Len(microtasks) - 1
      /\ \A i \in 1 .. Len(microtasks') : microtasks'[i] = microtasks[i + 1]
      /\ \A i \in 1 .. Len(microtasks') : i + 1 \in 1 .. Len(microtasks)
      /\ \A i \in 1 .. Len(microtasks') : microtasks'[i] \in Requests
  BY <1>1
<1>4. \E s \in {"answered", "running"} : pc' = [pc EXCEPT ![r] = s]
  BY <1>2, EnterMoves DEF RunMicrotask
<1>5. \A i \in 1 .. Len(microtasks') : microtasks'[i] # r
  BY <1>2, <1>3 DEF QueueInv
<1>6. \A i \in 1 .. Len(microtasks') :
        pc'[microtasks'[i]] = "passed" /\ ~ microtasks'[i].native
  BY <1>1, <1>3, <1>4, <1>5 DEF QueueInv
<1>7. \A i, j \in 1 .. Len(microtasks') :
        microtasks'[i] = microtasks'[j] => i = j
  <2> SUFFICES ASSUME NEW i \in 1 .. Len(microtasks'),
                      NEW j \in 1 .. Len(microtasks'),
                      microtasks'[i] = microtasks'[j]
               PROVE  i = j
    OBVIOUS
  <2>1. microtasks[i + 1] = microtasks[j + 1]
    BY <1>3
  <2>2. i + 1 = j + 1
    BY <1>3, <2>1 DEF QueueInv
  <2> QED BY <2>2
<1>8. \A q \in Requests : pc'[q] = "waiting" => ~ q.native
  BY <1>1, <1>2, <1>4 DEF QueueInv
<1> QED BY <1>6, <1>7, <1>8 DEF QueueInv

(* An arriving request joins the queue once, or none at all.               *)
LEMMA ArriveQueue ==
  ASSUME TypeOK, QueueInv, NEW r \in Requests, Arrive(r)
  PROVE  QueueInv'
<1>1. /\ pc \in [Requests -> PCs] /\ microtasks \in Seq(Requests)
      /\ pc[r] = "new" /\ ~ r.native
  BY DEF TypeOK, Arrive
<1>2. \A i \in 1 .. Len(microtasks) :
        microtasks[i] \in Requests /\ microtasks[i] # r
  BY <1>1 DEF QueueInv
<1>3. \/ /\ \E s \in {"answered", "waiting"} : pc' = [pc EXCEPT ![r] = s]
         /\ UNCHANGED microtasks
      \/ /\ pc' = [pc EXCEPT ![r] = "passed"]
         /\ microtasks' = Append(microtasks, r)
  BY DEF Arrive, Answer
<1>4. \A q \in Requests : pc'[q] = "waiting" => ~ q.native
  <2> SUFFICES ASSUME NEW q \in Requests, pc'[q] = "waiting"
               PROVE  ~ q.native
    OBVIOUS
  <2>1. CASE q = r
    BY <1>1, <2>1
  <2>2. CASE q # r
    <3>1. pc'[q] = pc[q]
      BY <1>1, <1>3, <2>2
    <3> QED BY <3>1 DEF QueueInv
  <2> QED BY <2>1, <2>2
<1>5. CASE /\ \E s \in {"answered", "waiting"} : pc' = [pc EXCEPT ![r] = s]
           /\ UNCHANGED microtasks
  <2>1. \A i \in 1 .. Len(microtasks) : pc'[microtasks[i]] = pc[microtasks[i]]
    BY <1>1, <1>2, <1>5
  <2> QED BY <1>4, <1>5, <2>1 DEF QueueInv
<1>6. CASE /\ pc' = [pc EXCEPT ![r] = "passed"]
           /\ microtasks' = Append(microtasks, r)
  <2>1. /\ Len(microtasks') = Len(microtasks) + 1
        /\ \A i \in 1 .. Len(microtasks) : microtasks'[i] = microtasks[i]
        /\ microtasks'[Len(microtasks) + 1] = r
        /\ Len(microtasks) \in Nat
    BY <1>1, <1>6
  <2>2. \A i \in 1 .. Len(microtasks') :
          pc'[microtasks'[i]] = "passed" /\ ~ microtasks'[i].native
    <3> SUFFICES ASSUME NEW i \in 1 .. Len(microtasks')
                 PROVE  pc'[microtasks'[i]] = "passed"
                        /\ ~ microtasks'[i].native
      OBVIOUS
    <3>1. CASE i = Len(microtasks) + 1
      BY <1>1, <1>6, <2>1, <3>1
    <3>2. CASE i # Len(microtasks) + 1
      <4>1. i \in 1 .. Len(microtasks) /\ microtasks'[i] = microtasks[i]
        BY <2>1, <3>2
      <4>2. pc'[microtasks[i]] = pc[microtasks[i]]
        BY <1>1, <1>2, <1>6, <4>1
      <4> QED BY <4>1, <4>2 DEF QueueInv
    <3> QED BY <3>1, <3>2
  <2>3. \A i, j \in 1 .. Len(microtasks') :
          microtasks'[i] = microtasks'[j] => i = j
    BY <1>2, <2>1 DEF QueueInv
  <2> QED BY <1>4, <2>2, <2>3 DEF QueueInv
<1> QED BY <1>3, <1>5, <1>6

(* One step of the node keeps the queue.                                   *)
LEMMA QueueStep ==
  ASSUME TypeOK, QueueInv, [Next]_vars
  PROVE  QueueInv'
<1> USE DEF Idle, PCs
<1>1. CASE RunMicrotask
  BY <1>1, DrainQueue
<1>2. ASSUME NEW r \in Requests, Arrive(r) PROVE QueueInv'
  BY <1>2, ArriveQueue
<1>3. ASSUME NEW r \in Requests, PollAdmits(r) PROVE QueueInv'
  <2>1. Idle /\ UNCHANGED microtasks
    BY <1>3 DEF PollAdmits, loop
  <2>2. \E s \in {"answered", "running"} : pc' = [pc EXCEPT ![r] = s]
    BY <1>3, EnterMoves DEF PollAdmits
  <2> QED BY <2>1, <2>2, IdleQueue
<1>4. ASSUME NEW r \in Requests,
             \/ PollGivesUp(r) \/ HandlerReturns(r) \/ ResultThrows(r)
             \/ NativeCall(r) \/ NativeReply(r)
      PROVE  QueueInv'
  <2>1. Idle /\ UNCHANGED microtasks
    BY <1>4 DEF PollGivesUp, HandlerReturns, ResultThrows, NativeCall,
                NativeReply, Settling, Settle, loop
  <2>2. \E s \in {"answered", "running"} : pc' = [pc EXCEPT ![r] = s]
    BY <1>4 DEF PollGivesUp, HandlerReturns, ResultThrows, NativeCall,
                NativeReply, Settle, Answer
  <2> QED BY <2>1, <2>2, IdleQueue
<1>5. ASSUME NEW r \in Requests, HandlerRejects(r) PROVE QueueInv'
  <2>1. /\ Idle /\ UNCHANGED microtasks
        /\ pc' = pc \/ pc' = [pc EXCEPT ![r] = "answered"]
    BY <1>5 DEF HandlerRejects, Settling, Settle, Answer, loop
  <2>2. CASE pc' = pc
    BY <2>1, <2>2 DEF QueueInv
  <2>3. CASE pc' = [pc EXCEPT ![r] = "answered"]
    BY <2>1, <2>3, IdleQueue
  <2> QED BY <2>1, <2>2, <2>3
<1>6. CASE ChangeWindow \/ ChangeDrain \/ Tick \/ UNCHANGED vars
  <2>1. UNCHANGED <<pc, microtasks>>
    BY <1>6 DEF ChangeWindow, ChangeDrain, Tick, vars, loop
  <2> QED BY <2>1 DEF QueueInv
<1> QED BY <1>1, <1>2, <1>3, <1>4, <1>5, <1>6 DEF Next

(* One step of the node keeps the accounting.                              *)
LEMMA SlotsStep ==
  ASSUME TypeOK, QueueInv, TwiceInv, SlotAccounting, [Next]_vars
  PROVE  SlotAccounting'
<1> USE DEF PCs
<1>1. CASE RunMicrotask
  <2>1. Head(microtasks) \in Requests /\ Head(microtasks) = microtasks[1]
        /\ 1 \in 1 .. Len(microtasks)
    BY <1>1 DEF RunMicrotask, TypeOK
  <2> QED BY <1>1, <2>1, EnterSlots DEF RunMicrotask, QueueInv, counters
<1>2. ASSUME NEW r \in Requests, Arrive(r) PROVE SlotAccounting'
  <2>1. \E s \in {"answered", "waiting", "passed"} : pc' = [pc EXCEPT ![r] = s]
    BY <1>2 DEF Arrive, Answer
  <2>2. pc[r] = "new" /\ active' = active /\ UNCHANGED twice
    BY <1>2 DEF Arrive, counters
  <2> QED BY <2>1, <2>2, OtherSlots
<1>3. ASSUME NEW r \in Requests, PollAdmits(r) PROVE SlotAccounting'
  BY <1>3, EnterSlots DEF PollAdmits, QueueInv, counters
<1>4. ASSUME NEW r \in Requests, PollGivesUp(r) PROVE SlotAccounting'
  BY <1>4, OtherSlots DEF PollGivesUp, Answer, counters
<1>5. ASSUME NEW r \in Requests, HandlerReturns(r) \/ ResultThrows(r)
      PROVE  SlotAccounting'
  <2>1. /\ pc[r] = "running" /\ ~ r.native
        /\ pc' = [pc EXCEPT ![r] = "answered"]
        /\ \/ active' = active - 1 /\ UNCHANGED twice
           \/ active' = active - 2 /\ twice' = twice \cup {r}
    BY <1>5 DEF HandlerReturns, ResultThrows, Settling, Settle, Answer
  <2> QED BY <2>1, SettleSlots
<1>6. ASSUME NEW r \in Requests, HandlerRejects(r) PROVE SlotAccounting'
  <2>1. /\ pc[r] = "running" /\ ~ r.native /\ UNCHANGED twice
        /\ \/ UNCHANGED <<pc, active>>
           \/ pc' = [pc EXCEPT ![r] = "answered"] /\ active' = active - 1
    BY <1>6 DEF HandlerRejects, Settling, Settle, Answer, counters
  <2>2. CASE UNCHANGED <<pc, active>>
    BY <2>1, <2>2 DEF SlotAccounting, HttpExecuting, Executing
  <2>3. CASE pc' = [pc EXCEPT ![r] = "answered"] /\ active' = active - 1
    BY <2>1, <2>3, SettleSlots
  <2> QED BY <2>1, <2>2, <2>3
<1>7. ASSUME NEW r \in Requests, NativeCall(r) \/ NativeReply(r)
      PROVE  SlotAccounting'
  <2>1. /\ r.native /\ active' = active /\ UNCHANGED twice
        /\ \E s \in {"answered", "running"} : pc' = [pc EXCEPT ![r] = s]
    BY <1>7 DEF NativeCall, NativeReply, Answer, counters
  <2> QED BY <2>1, OtherSlots
<1>8. CASE ChangeWindow \/ ChangeDrain \/ Tick \/ UNCHANGED vars
  <2>1. UNCHANGED <<pc, active, twice>>
    BY <1>8 DEF ChangeWindow, ChangeDrain, Tick, vars, counters
  <2> QED BY <2>1 DEF SlotAccounting, HttpExecuting, Executing
<1> QED
  BY <1>1, <1>2, <1>3, <1>4, <1>5, <1>6, <1>7, <1>8 DEF Next

(* An answered request moves no more, so its slot is not given back again. *)
LEMMA TwiceStep ==
  ASSUME TypeOK, QueueInv, TwiceInv, [Next]_vars
  PROVE  TwiceInv'
<1>0. pc \in [Requests -> PCs] /\ twice \subseteq Requests
  BY DEF TypeOK
<1>1. ASSUME NEW r \in Requests, pc[r] # "answered", UNCHANGED twice,
             NEW s \in PCs, pc' = [pc EXCEPT ![r] = s]
      PROVE  TwiceInv'
  BY <1>0, <1>1 DEF TwiceInv
<1>2. ASSUME UNCHANGED <<pc, twice>> PROVE TwiceInv'
  BY <1>2 DEF TwiceInv
<1> USE DEF PCs
<1>3. CASE RunMicrotask
  <2>1. /\ Head(microtasks) \in Requests /\ pc[Head(microtasks)] = "passed"
        /\ Enter(Head(microtasks)) /\ UNCHANGED twice
    BY <1>3 DEF RunMicrotask, TypeOK, QueueInv, counters
  <2>2. \E s \in PCs : pc' = [pc EXCEPT ![Head(microtasks)] = s]
    BY <2>1, EnterMoves
  <2> QED BY <1>1, <2>1, <2>2
<1>4. ASSUME NEW r \in Requests, PollAdmits(r) PROVE TwiceInv'
  <2>1. /\ pc[r] = "waiting" /\ UNCHANGED twice
        /\ \E s \in PCs : pc' = [pc EXCEPT ![r] = s]
    BY <1>4, EnterMoves DEF PollAdmits, counters
  <2> QED BY <1>1, <2>1
<1>5. ASSUME NEW r \in Requests,
             \/ Arrive(r) \/ PollGivesUp(r) \/ HandlerReturns(r)
             \/ HandlerRejects(r) \/ NativeCall(r) \/ NativeReply(r)
      PROVE  TwiceInv'
  <2>1. /\ pc[r] # "answered" /\ UNCHANGED twice
        /\ UNCHANGED pc \/ \E s \in PCs : pc' = [pc EXCEPT ![r] = s]
    BY <1>5 DEF Arrive, PollGivesUp, HandlerReturns, HandlerRejects, NativeCall,
                NativeReply, Settling, Settle, Answer, counters
  <2> QED BY <1>1, <1>2, <2>1
<1>6. ASSUME NEW r \in Requests, ResultThrows(r) PROVE TwiceInv'
  <2>1. twice' = twice \cup {r} /\ pc' = [pc EXCEPT ![r] = "answered"]
    BY <1>6 DEF ResultThrows, Settle, Answer
  <2> QED BY <1>0, <2>1 DEF TwiceInv
<1>7. CASE ChangeWindow \/ ChangeDrain \/ Tick \/ UNCHANGED vars
  BY <1>2, <1>7 DEF ChangeWindow, ChangeDrain, Tick, vars, counters
<1> QED
  BY <1>3, <1>4, <1>5, <1>6, <1>7 DEF Next

(* No request runs at the start, and nothing is queued.                    *)
LEMMA SlotsInit == Init => QueueInv /\ TwiceInv /\ SlotAccounting
<1> SUFFICES ASSUME Init PROVE QueueInv /\ TwiceInv /\ SlotAccounting
  OBVIOUS
<1>1. HttpExecuting = {} /\ twice = {} /\ active = 0
  BY DEF Init, HttpExecuting, Executing
<1>2. SlotAccounting /\ TwiceInv
  BY <1>1, FS_EmptySet DEF SlotAccounting, TwiceInv
<1>3. QueueInv
  BY DEF Init, QueueInv
<1> QED BY <1>2, <1>3

LEMMA SlotsKept == Init /\ [][Next]_vars => []SlotAccounting
<1>1. TypeOK /\ QueueInv /\ [Next]_vars => QueueInv'
  BY QueueStep
<1>2. TypeOK /\ QueueInv /\ TwiceInv /\ [Next]_vars => TwiceInv'
  BY TwiceStep
<1>3. TypeOK /\ QueueInv /\ TwiceInv /\ SlotAccounting /\ [Next]_vars
        => SlotAccounting'
  BY SlotsStep
<1> QED BY <1>1, <1>2, <1>3, SlotsInit, TypesKept, PTL

(* Whatever throws or rejects, _activeTasks is the number of running HTTP  *)
(* handlers less the number of slots that were given back twice.           *)
THEOREM SlotsAccounted == Spec => []SlotAccounting
BY SlotsKept, PTL DEF Spec

-----------------------------------------------------------------------------
(* The cap.                                                                *)

(* The slots in use and those promised to queued continuations: the first  *)
(* promise of a drain is made below the cap, and a drain makes no more     *)
(* than SameTick of them.                                                  *)
GateInv == active + Len(microtasks) <= MaxConcurrent + (SameTick - 1)

(* One step keeps the gate's promise.                                      *)
LEMMA GateStep ==
  ASSUME TypeOK, GateInv, [Next]_vars
  PROVE  GateInv'
<1>0. /\ active \in Int /\ cap \in Int /\ cap <= MaxConcurrent
      /\ MaxConcurrent \in Nat /\ microtasks \in Seq(Requests)
      /\ SameTick \in Nat \ {0} /\ Len(microtasks) \in Nat
  BY ParametersAssumption DEF TypeOK, ParametersAssumption
<1> USE DEF Idle
<1>1. CASE RunMicrotask
  <2>1. microtasks # <<>> /\ microtasks' = Tail(microtasks)
    BY <1>1 DEF RunMicrotask
  <2>2. active' = active \/ active' = active + 1
    BY <1>1 DEF RunMicrotask, Enter, Refuse
  <2>3. Len(microtasks') = Len(microtasks) - 1
    BY <1>0, <2>1
  <2> QED BY <1>0, <2>2, <2>3 DEF GateInv
<1>2. ASSUME NEW r \in Requests, Arrive(r) PROVE GateInv'
  <2>1. Len(microtasks) < SameTick /\ active' = active
    BY <1>2 DEF Arrive
  <2>2. \/ microtasks' = microtasks
        \/ microtasks' = Append(microtasks, r) /\ active < cap
    BY <1>2 DEF Arrive
  <2>3. CASE microtasks' = microtasks
    BY <2>1, <2>3 DEF GateInv
  <2>4. CASE microtasks' = Append(microtasks, r) /\ active < cap
    <3>1. Len(microtasks') = Len(microtasks) + 1
      BY <1>0, <2>4
    <3> QED BY <1>0, <2>1, <2>4, <3>1 DEF GateInv
  <2> QED BY <2>2, <2>3, <2>4
<1>3. ASSUME NEW r \in Requests, PollAdmits(r) PROVE GateInv'
  <2>1. Len(microtasks) = 0 /\ microtasks' = microtasks /\ active < cap
    BY <1>3 DEF PollAdmits, loop
  <2>2. active' = active \/ active' = active + 1
    BY <1>3 DEF PollAdmits, Enter, Refuse
  <2> QED BY <1>0, <2>1, <2>2 DEF GateInv
<1>4. ASSUME NEW r \in Requests,
             \/ PollGivesUp(r) \/ HandlerReturns(r) \/ HandlerRejects(r)
             \/ ResultThrows(r) \/ NativeCall(r) \/ NativeReply(r)
      PROVE  GateInv'
  <2>1. microtasks' = microtasks
    BY <1>4 DEF PollGivesUp, HandlerReturns, HandlerRejects, ResultThrows,
                NativeCall, NativeReply, Settle, loop
  <2>2. active' \in {active, active - 1, active - 2}
    BY <1>4 DEF PollGivesUp, HandlerReturns, HandlerRejects, ResultThrows,
                NativeCall, NativeReply
  <2> QED BY <1>0, <2>1, <2>2 DEF GateInv
<1>5. CASE ChangeWindow \/ ChangeDrain \/ Tick \/ UNCHANGED vars
  <2>1. microtasks' = microtasks /\ active' = active
    BY <1>5 DEF ChangeWindow, ChangeDrain, Tick, vars, loop
  <2> QED BY <2>1 DEF GateInv
<1> QED BY <1>1, <1>2, <1>3, <1>4, <1>5 DEF Next

LEMMA OvershootKept == Init /\ [][Next]_vars => []OvershootBounded
<1>1. Init => GateInv
  BY ParametersAssumption DEF Init, GateInv, ParametersAssumption
<1>2. TypeOK /\ GateInv /\ [Next]_vars => GateInv'
  BY GateStep
<1>3. TypeOK /\ GateInv /\ SlotAccounting => OvershootBounded
  <2> SUFFICES ASSUME TypeOK, GateInv, SlotAccounting PROVE OvershootBounded
    OBVIOUS
  <2>1. /\ active \in Int /\ Len(microtasks) \in Nat
        /\ MaxConcurrent \in Nat /\ SameTick \in Nat \ {0}
    BY ParametersAssumption DEF TypeOK, ParametersAssumption
  <2> QED
    BY <2>1, HttpExecutingFinite, TwiceFinite
       DEF GateInv, SlotAccounting, OvershootBounded
<1> QED BY <1>1, <1>2, <1>3, TypesKept, SlotsKept, PTL

(* For every max_concurrent, every availability schedule, every set of     *)
(* requests on both transports and every failure: the HTTP tasks run past  *)
(* the cap by no more than the 'end' events one drain adds to the first,   *)
(* and the slots that were given back twice.                               *)
THEOREM OvershootHolds == Spec => []OvershootBounded
BY OvershootKept, PTL DEF Spec

-----------------------------------------------------------------------------
(* The caches.                                                             *)

(* What the caches remember of a request that got past the nonce check.    *)
CacheInv ==
  \A r \in Requests :
    /\ pc[r] \in {"new", "passed", "waiting"} =>
         attempts[r] = 0 /\ enteredAt[r] = Never
    /\ enteredAt[r] # Never =>
         /\ enteredAt[r] <= now
         /\ r.nonce # NoId => nonceUntil[r.nonce] >= enteredAt[r] + TTL
         /\ Idempotent /\ r.task # NoId /\ attempts[r] > 0
              => taskUntil[r.task] >= enteredAt[r] + TTL

(* A nonce or a task id that is not absent is one the caches are keyed by. *)
LEMMA KeysTyped ==
  ASSUME NEW r \in Requests
  PROVE  /\ r.nonce # NoId => r.nonce \in Nonces
         /\ r.task # NoId => r.task \in TaskIds
BY RequestsAssumption DEF RequestsAssumption, Request

(* What a request that gets past the nonce check does to the nonce cache.  *)
LEMMA EnterNonces ==
  ASSUME TypeOK, NEW r \in Requests, Enter(r), NonceFresh(r)
  PROVE  /\ \A n \in Nonces : nonceUntil'[n] >= nonceUntil[n]
         /\ r.nonce # NoId => /\ nonceUntil[r.nonce] < now
                              /\ nonceUntil'[r.nonce] = now + TTL
         /\ enteredAt' = [enteredAt EXCEPT ![r] = now]
<1>1. /\ nonceUntil \in [Nonces -> Int] /\ now \in Nat /\ TTL \in Nat
  BY TTLType DEF TypeOK
<1>2. RememberNonce(r) /\ enteredAt' = [enteredAt EXCEPT ![r] = now]
  BY DEF Enter
<1>3. CASE r.nonce = NoId
  BY <1>1, <1>2, <1>3 DEF RememberNonce
<1>4. CASE r.nonce # NoId
  <2>1. r.nonce \in Nonces /\ nonceUntil[r.nonce] < now
    BY <1>4, KeysTyped DEF NonceFresh
  <2>2. nonceUntil' = [nonceUntil EXCEPT ![r.nonce] = now + TTL]
    BY <1>2, <1>4 DEF RememberNonce
  <2> QED BY <1>1, <1>2, <2>1, <2>2
<1> QED BY <1>3, <1>4

(* And to the task ids: it runs only when its task id is remembered anew.  *)
LEMMA EnterTasks ==
  ASSUME TypeOK, NEW r \in Requests, Enter(r), NonceFresh(r)
  PROVE  /\ \A t \in TaskIds : taskUntil'[t] >= taskUntil[t]
         /\ \/ attempts' = attempts
            \/ /\ attempts' = [attempts EXCEPT ![r] = 1]
               /\ Idempotent /\ r.task # NoId =>
                    /\ taskUntil[r.task] <= now
                    /\ taskUntil'[r.task] = now + TTL
<1>1. /\ taskUntil \in [TaskIds -> Int] /\ now \in Nat /\ TTL \in Nat
  BY TTLType DEF TypeOK
<1>2. CASE UNCHANGED <<taskUntil, attempts>>
  BY <1>1, <1>2
<1>3. CASE /\ TaskFresh(r) /\ RememberTask(r)
           /\ \/ attempts' = attempts
              \/ attempts' = [attempts EXCEPT ![r] = 1]
  <2>1. CASE ~ Idempotent \/ r.task = NoId
    BY <1>1, <1>3, <2>1 DEF RememberTask
  <2>2. CASE Idempotent /\ r.task # NoId
    <3>1. r.task \in TaskIds /\ taskUntil[r.task] <= now
      BY <1>3, <2>2, KeysTyped DEF TaskFresh
    <3>2. taskUntil' = [taskUntil EXCEPT ![r.task] = now + TTL]
      BY <1>3, <2>2 DEF RememberTask
    <3>3. \A t \in TaskIds : taskUntil'[t] >= taskUntil[t]
      BY <1>1, <3>1, <3>2
    <3> QED BY <1>1, <1>3, <3>1, <3>2, <3>3
  <2> QED BY <2>1, <2>2
<1> QED BY <1>2, <1>3 DEF Enter, Refuse

(* The two cache properties, and what they rest on.                        *)
CachesOK == CacheInv /\ NoReplayWithinTTL /\ NoDuplicateWithinTTL

(* A step that leaves the caches alone keeps them right.                   *)
LEMMA QuietCaches ==
  ASSUME TypeOK, CachesOK, UNCHANGED caches, now' \in Nat, now' >= now,
         \A r \in Requests :
           /\ attempts'[r] > 0 => attempts[r] > 0 \/ enteredAt[r] = Never
           /\ pc'[r] \in {"new", "passed", "waiting"} =>
                attempts'[r] = 0 /\ enteredAt[r] = Never
  PROVE  CachesOK'
<1>1. /\ nonceUntil' = nonceUntil /\ taskUntil' = taskUntil
      /\ enteredAt' = enteredAt /\ enteredAt \in [Requests -> Int]
      /\ now \in Nat
  BY DEF caches, TypeOK
<1>2. CacheInv'
  BY <1>1 DEF CachesOK, CacheInv, Never
<1>3. NoReplayWithinTTL'
  BY <1>1 DEF CachesOK, NoReplayWithinTTL
<1>4. NoDuplicateWithinTTL'
  BY <1>1 DEF CachesOK, NoDuplicateWithinTTL
<1> QED BY <1>2, <1>3, <1>4 DEF CachesOK

(* A request that enters is later than all that the caches remember.       *)
LEMMA EnterCaches ==
  ASSUME TypeOK, CachesOK, NEW r \in Requests, Enter(r),
         pc[r] \in {"passed", "waiting"}, now' = now
  PROVE  CachesOK'
<1>0. /\ pc \in [Requests -> PCs] /\ attempts \in [Requests -> 0 .. 2]
      /\ enteredAt \in [Requests -> Int] /\ now \in Nat /\ TTL \in Nat
      /\ nonceUntil \in [Nonces -> Int] /\ taskUntil \in [TaskIds -> Int]
  BY TTLType DEF TypeOK
<1>1. attempts[r] = 0
  BY DEF CachesOK, CacheInv
<1>2. \E s \in {"answered", "running"} : pc' = [pc EXCEPT ![r] = s]
  BY EnterMoves
<1>3. CASE ~ NonceFresh(r)
  <2>1. UNCHANGED caches /\ attempts' = attempts
    BY <1>3 DEF Enter, Refuse
  <2>2. \A q \in Requests :
          pc'[q] \in {"new", "passed", "waiting"} =>
            attempts'[q] = 0 /\ enteredAt[q] = Never
    BY <1>0, <1>2, <2>1 DEF CachesOK, CacheInv
  <2> QED BY <1>0, <2>1, <2>2, QuietCaches
<1>4. CASE NonceFresh(r)
  <2>1. /\ \A n \in Nonces : /\ nonceUntil'[n] >= nonceUntil[n]
                             /\ nonceUntil'[n] \in Int
        /\ r.nonce # NoId => /\ nonceUntil[r.nonce] < now
                             /\ nonceUntil'[r.nonce] = now + TTL
        /\ enteredAt' = [enteredAt EXCEPT ![r] = now]
    <3>1. nonceUntil' \in [Nonces -> Int]
      BY <1>0, <1>4 DEF Enter, RememberNonce
    <3> QED BY <1>4, <3>1, EnterNonces
  <2>2. /\ \A t \in TaskIds : /\ taskUntil'[t] >= taskUntil[t]
                              /\ taskUntil'[t] \in Int
        /\ \/ attempts' = attempts
           \/ /\ attempts' = [attempts EXCEPT ![r] = 1]
              /\ Idempotent /\ r.task # NoId =>
                   /\ taskUntil[r.task] <= now
                   /\ taskUntil'[r.task] = now + TTL
    <3>1. taskUntil' \in [TaskIds -> Int]
      BY <1>0, <1>4 DEF Enter, RememberTask, Refuse
    <3> QED BY <1>4, <3>1, EnterTasks
  <2>3. /\ enteredAt'[r] = now
        /\ \A q \in Requests : q # r => /\ enteredAt'[q] = enteredAt[q]
                                        /\ attempts'[q] = attempts[q]
                                        /\ pc'[q] = pc[q]
        /\ pc'[r] \in {"answered", "running"}
    BY <1>0, <1>2, <2>1, <2>2
  <2>4. \A q \in Requests : enteredAt[q] # Never =>
          /\ enteredAt[q] <= now
          /\ q.nonce # NoId => nonceUntil[q.nonce] >= enteredAt[q] + TTL
          /\ Idempotent /\ q.task # NoId /\ attempts[q] > 0
               => taskUntil[q.task] >= enteredAt[q] + TTL
    BY DEF CachesOK, CacheInv
  <2>5. CacheInv'
    <3> SUFFICES ASSUME NEW q \in Requests
                 PROVE  /\ pc'[q] \in {"new", "passed", "waiting"} =>
                             attempts'[q] = 0 /\ enteredAt'[q] = Never
                        /\ enteredAt'[q] # Never =>
                           /\ enteredAt'[q] <= now
                           /\ q.nonce # NoId =>
                                nonceUntil'[q.nonce] >= enteredAt'[q] + TTL
                           /\ Idempotent /\ q.task # NoId /\ attempts'[q] > 0
                                => taskUntil'[q.task] >= enteredAt'[q] + TTL
      BY DEF CacheInv, Never
    <3>1. CASE q = r
      <4>1. Idempotent /\ q.task # NoId /\ attempts'[q] > 0
              => taskUntil'[q.task] = now + TTL
        BY <1>0, <1>1, <2>2, <3>1
      <4> QED BY <1>0, <2>1, <2>3, <3>1, <4>1
    <3>2. CASE q # r
      <4>1. pc'[q] \in {"new", "passed", "waiting"} =>
              attempts'[q] = 0 /\ enteredAt'[q] = Never
        BY <2>3, <3>2 DEF CachesOK, CacheInv
      <4>2. enteredAt'[q] = enteredAt[q] /\ attempts'[q] = attempts[q]
        BY <2>3, <3>2
      <4>3. q.nonce # NoId => /\ nonceUntil'[q.nonce] >= nonceUntil[q.nonce]
                              /\ nonceUntil'[q.nonce] \in Int
                              /\ nonceUntil[q.nonce] \in Int
        BY <1>0, <2>1, KeysTyped
      <4>4. q.task # NoId => /\ taskUntil'[q.task] >= taskUntil[q.task]
                             /\ taskUntil'[q.task] \in Int
                             /\ taskUntil[q.task] \in Int
        BY <1>0, <2>2, KeysTyped
      <4>5. enteredAt[q] \in Int
        BY <1>0
      <4> QED BY <1>0, <2>4, <4>1, <4>2, <4>3, <4>4, <4>5
    <3> QED BY <3>1, <3>2
  <2>6. \A q \in Requests :
          q # r /\ q.nonce = r.nonce /\ r.nonce # NoId /\ enteredAt[q] # Never
            => enteredAt[q] + TTL < now
    <3> SUFFICES ASSUME NEW q \in Requests, q # r, q.nonce = r.nonce,
                        r.nonce # NoId, enteredAt[q] # Never
                 PROVE  enteredAt[q] + TTL < now
      OBVIOUS
    <3>1. nonceUntil[r.nonce] \in Int /\ enteredAt[q] \in Int
      BY <1>0, KeysTyped
    <3> QED BY <1>0, <2>1, <2>4, <3>1
  <2>7. NoReplayWithinTTL'
    <3> SUFFICES ASSUME NEW p \in Requests, NEW q \in Requests, p # q,
                        p.nonce = q.nonce, p.nonce # NoId,
                        enteredAt'[p] # Never, enteredAt'[q] # Never,
                        enteredAt'[p] <= enteredAt'[q]
                 PROVE  enteredAt'[q] > enteredAt'[p] + TTL
      BY DEF NoReplayWithinTTL, Never
    <3>0. enteredAt[p] \in Int /\ enteredAt[q] \in Int
      BY <1>0
    <3>1. CASE q = r
      BY <1>0, <2>3, <2>6, <3>0, <3>1
    <3>2. CASE p = r
      BY <1>0, <2>3, <2>6, <3>0, <3>2
    <3>3. CASE p # r /\ q # r
      BY <2>3, <3>3 DEF CachesOK, NoReplayWithinTTL
    <3> QED BY <3>1, <3>2, <3>3
  <2>8. \A q \in Requests :
          Idempotent /\ q # r /\ q.task = r.task /\ r.task # NoId
            /\ enteredAt[q] # Never /\ attempts[q] > 0 /\ attempts'[r] > 0
            => enteredAt[q] + TTL <= now
    <3> SUFFICES ASSUME NEW q \in Requests, Idempotent, q # r,
                        q.task = r.task, r.task # NoId,
                        enteredAt[q] # Never, attempts[q] > 0,
                        attempts'[r] > 0
                 PROVE  enteredAt[q] + TTL <= now
      OBVIOUS
    <3>1. taskUntil[r.task] \in Int /\ enteredAt[q] \in Int
      BY <1>0, KeysTyped
    <3>2. taskUntil[r.task] <= now
      BY <1>1, <2>2
    <3> QED BY <1>0, <2>4, <3>1, <3>2
  <2>9. NoDuplicateWithinTTL'
    <3> SUFFICES ASSUME NEW p \in Requests, NEW q \in Requests, Idempotent,
                        p # q, p.task = q.task, p.task # NoId,
                        enteredAt'[p] # Never, enteredAt'[q] # Never,
                        attempts'[p] > 0, attempts'[q] > 0,
                        enteredAt'[p] <= enteredAt'[q]
                 PROVE  enteredAt'[q] >= enteredAt'[p] + TTL
      BY DEF NoDuplicateWithinTTL, Never
    <3>0. enteredAt[p] \in Int /\ enteredAt[q] \in Int
      BY <1>0
    <3>1. CASE q = r
      BY <1>0, <2>3, <2>8, <3>0, <3>1
    <3>2. CASE p = r
      BY <1>0, <2>3, <2>8, <3>0, <3>2
    <3>3. CASE p # r /\ q # r
      BY <2>3, <3>3 DEF CachesOK, NoDuplicateWithinTTL
    <3> QED BY <3>1, <3>2, <3>3
  <2> QED BY <2>5, <2>7, <2>9 DEF CachesOK
<1> QED BY <1>3, <1>4

(* One step of the node keeps the caches right.                            *)
LEMMA CachesStep ==
  ASSUME TypeOK, QueueInv, CachesOK, [Next]_vars
  PROVE  CachesOK'
<1>0. /\ pc \in [Requests -> PCs] /\ attempts \in [Requests -> 0 .. 2]
      /\ now \in Nat
      /\ \A q \in Requests :
           pc[q] \in {"new", "passed", "waiting"} =>
             attempts[q] = 0 /\ enteredAt[q] = Never
  BY DEF TypeOK, CachesOK, CacheInv
<1>1. CASE RunMicrotask
  <2>1. /\ Head(microtasks) \in Requests /\ Enter(Head(microtasks))
        /\ pc[Head(microtasks)] = "passed" /\ now' = now
    BY <1>1 DEF RunMicrotask, TypeOK, QueueInv, environment
  <2> QED BY <2>1, EnterCaches
<1>2. ASSUME NEW r \in Requests, Arrive(r) PROVE CachesOK'
  <2>1. /\ UNCHANGED caches /\ now' = now /\ attempts' = attempts
        /\ pc[r] = "new"
        /\ \E s \in PCs : pc' = [pc EXCEPT ![r] = s]
    BY <1>2 DEF Arrive, Answer, environment, PCs
  <2> QED BY <1>0, <2>1, QuietCaches
<1>3. ASSUME NEW r \in Requests, PollAdmits(r) PROVE CachesOK'
  BY <1>3, EnterCaches DEF PollAdmits, environment
<1>4. ASSUME NEW r \in Requests,
             \/ PollGivesUp(r) \/ HandlerReturns(r) \/ ResultThrows(r)
             \/ NativeReply(r)
      PROVE  CachesOK'
  <2>1. /\ UNCHANGED caches /\ now' = now /\ attempts' = attempts
        /\ pc' = [pc EXCEPT ![r] = "answered"]
    BY <1>4 DEF PollGivesUp, HandlerReturns, ResultThrows, NativeReply,
                Settle, Answer, environment
  <2> QED BY <1>0, <2>1, QuietCaches
<1>5. ASSUME NEW r \in Requests, HandlerRejects(r) PROVE CachesOK'
  <2>1. UNCHANGED caches /\ now' = now /\ pc[r] = "running"
    BY <1>5 DEF HandlerRejects, Settling, Settle, environment
  <2>2. \/ attempts' = attempts /\ pc' = [pc EXCEPT ![r] = "answered"]
        \/ attempts[r] = 1 /\ attempts' = [attempts EXCEPT ![r] = 2]
             /\ pc' = pc
    BY <1>5 DEF HandlerRejects, Settle, Answer
  <2> QED BY <1>0, <2>1, <2>2, QuietCaches
<1>6. ASSUME NEW r \in Requests, NativeCall(r) PROVE CachesOK'
  <2>1. /\ UNCHANGED caches /\ now' = now /\ pc[r] = "new" /\ r.native
        /\ pc' = [pc EXCEPT ![r] = "running"]
        /\ attempts' = [attempts EXCEPT ![r] = 1]
    BY <1>6 DEF NativeCall, environment
  <2> QED BY <1>0, <2>1, QuietCaches
<1>7. CASE ChangeWindow \/ ChangeDrain \/ Tick \/ UNCHANGED vars
  <2>1. /\ UNCHANGED <<caches, attempts, pc>> /\ (now' = now \/ now' = now + 1)
    BY <1>7 DEF ChangeWindow, ChangeDrain, Tick, vars, environment
  <2> QED BY <1>0, <2>1, QuietCaches
<1> QED BY <1>1, <1>2, <1>3, <1>4, <1>5, <1>6, <1>7 DEF Next

(* For every set of requests, however they interleave, wait and fail: no   *)
(* nonce passes twice within its lifetime, and with the guard on no task   *)
(* id executes twice within its window.                                    *)
THEOREM CachesHold == Spec => []NoRepeatWithinTTL
<1>1. Init => CachesOK
  BY DEF Init, CachesOK, CacheInv, NoReplayWithinTTL, NoDuplicateWithinTTL
<1>2. Init => QueueInv
  BY SlotsInit
<1>3. TypeOK /\ QueueInv /\ [Next]_vars => QueueInv'
  BY QueueStep
<1>4. TypeOK /\ QueueInv /\ CachesOK /\ [Next]_vars => CachesOK'
  BY CachesStep
<1>5. CachesOK => NoRepeatWithinTTL
  BY DEF CachesOK, NoRepeatWithinTTL
<1> QED BY <1>1, <1>2, <1>3, <1>4, <1>5, TypeCorrect, PTL DEF Spec

=============================================================================
