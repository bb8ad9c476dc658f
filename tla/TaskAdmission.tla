--------------------------- MODULE TaskAdmission ---------------------------
(***************************************************************************)
(* The provider's task path: POST /v1/task of IicpNode (src/src/node.ts)   *)
(* from the moment a request body is complete to its reply, together with  *)
(* the tasks the native TCP listener hands to the same handler.            *)
(*                                                                         *)
(* The interesting state is the slot counter _activeTasks, which is tested *)
(* in _admit and incremented only in the promise continuation that follows *)
(* it, and the two caches (nonces, task ids) a task is checked against.    *)
(*                                                                         *)
(* The event loop is kept explicit as far as that window needs it: a       *)
(* request that passed the test waits in the microtask queue, and no other *)
(* event (timer, handler result, window change) runs until the queue is    *)
(* empty.  Several 'end' events run before the queue only when they are in *)
(* the same process.nextTick drain, as pipelined requests of one           *)
(* connection are; SameTick bounds how many.                               *)
(***************************************************************************)
EXTENDS Integers, FiniteSets, Sequences

CONSTANTS
  Requests,       \* the requests of a run, records of Request below
  TaskIds,        \* task_id values
  Nonces,         \* nonce values
  NoId,           \* an absent task_id or nonce
  MaxConcurrent,  \* cfg.maxConcurrent
  Caps,           \* the values availability windows give the effective cap
  TTL,            \* NONCE_TTL_MS and IdempotencyGuard's ttlMs, in clock units
  MaxTime,        \* bound on the clock
  SameTick,       \* how many 'end' events one nextTick drain may run
  Idempotent,     \* cfg.enableIdempotency
  Faults          \* "handler": the handler may reject;
                  \* "result": turning its result into a response may throw

Request == [ id        : Nat,
             task      : TaskIds \cup {NoId},
             nonce     : Nonces \cup {NoId},
             queueable : BOOLEAN,   \* qos realtime or interactive
             native    : BOOLEAN ]  \* arrives on the native TCP listener

ASSUME RequestsAssumption ==
  /\ Requests \subseteq Request
  /\ IsFiniteSet(Requests)
  /\ NoId \notin TaskIds \cup Nonces

ASSUME ParametersAssumption ==
  /\ MaxConcurrent \in Nat
  /\ Caps \subseteq 0 .. MaxConcurrent
  /\ MaxConcurrent \in Caps
  /\ TTL \in Nat /\ MaxTime \in Nat
  /\ SameTick \in Nat \ {0}
  /\ Idempotent \in BOOLEAN
  /\ Faults \subseteq {"handler", "result"}

VARIABLES
  pc,          \* where each request is
  reply,       \* what it was answered
  attempts,    \* how often the handler was called for it
  active,      \* _activeTasks
  cap,         \* _effectiveMaxConcurrent()
  backendDrain,\* the backend stability observation is draining
  nonceUntil,  \* _nonces: expiry of each nonce, Never when it was never seen
  taskUntil,   \* _idempotency.seen: expiry of each task id
  microtasks,  \* admitted requests whose continuation has not run yet
  flushing,    \* the microtask queue is being drained
  now,         \* Date.now()
  enteredAt,   \* when a request got past the nonce check (history)
  succeeded,   \* _tasksSuccessPending
  failed,      \* _tasksFailedPending
  twice        \* the requests whose slot was given back twice (history)

loop == <<microtasks, flushing>>
caches == <<nonceUntil, taskUntil, enteredAt>>
counters == <<succeeded, failed, twice>>
environment == <<cap, backendDrain, now>>
vars == <<pc, reply, attempts, active, loop, caches, counters, environment>>

Never == -1
None == "none"

PCs == {"new", "passed", "waiting", "running", "answered"}
Replies == {None, "completed", "response_too_large", "backend_error",
            "refused", "E010", "E011", "E021", "E024", "CX"}

Executing == {r \in Requests : pc[r] = "running"}
HttpExecuting == {r \in Executing : ~ r.native}

TypeOK ==
  /\ pc \in [Requests -> PCs]
  /\ reply \in [Requests -> Replies]
  /\ attempts \in [Requests -> 0 .. 2]
  /\ active \in Int
  /\ cap \in Caps
  /\ backendDrain \in BOOLEAN
  /\ nonceUntil \in [Nonces -> Int]
  /\ taskUntil \in [TaskIds -> Int]
  /\ microtasks \in Seq(Requests)
  /\ flushing \in BOOLEAN
  /\ now \in Nat
  /\ enteredAt \in [Requests -> Int]
  /\ succeeded \in Nat
  /\ failed \in Nat
  /\ twice \subseteq Requests

Init ==
  /\ pc = [r \in Requests |-> "new"]
  /\ reply = [r \in Requests |-> None]
  /\ attempts = [r \in Requests |-> 0]
  /\ active = 0
  /\ cap = MaxConcurrent
  /\ backendDrain = FALSE
  /\ nonceUntil = [n \in Nonces |-> Never]
  /\ taskUntil = [t \in TaskIds |-> Never]
  /\ microtasks = <<>>
  /\ flushing = FALSE
  /\ now = 0
  /\ enteredAt = [r \in Requests |-> Never]
  /\ succeeded = 0
  /\ failed = 0
  /\ twice = {}

-----------------------------------------------------------------------------
(* Replies and the two caches.                                             *)

Answer(r, code) ==
  /\ pc' = [pc EXCEPT ![r] = "answered"]
  /\ reply' = [reply EXCEPT ![r] = code]

\* Slip: the early return forgets its decrement.
RefuseKeepingSlot(r, code) ==
  /\ Answer(r, code)
  /\ active' = active + 1
  /\ UNCHANGED attempts

(* A refusal after _activeTasks++ gives the slot back in the same step.    *)
Refuse(r, code) ==
  /\ Answer(r, code)
  /\ UNCHANGED <<active, attempts>>

\* Slip: a nonce is evicted at its expiry instant.
NonceFreshTooEarly(r) == r.nonce # NoId => nonceUntil[r.nonce] <= now

(* _checkNonce evicts what expired before now, then looks the nonce up: an *)
(* entry that is still there at its expiry instant is a replay.            *)
NonceFresh(r) == r.nonce # NoId => nonceUntil[r.nonce] < now

(* checkAndRegister evicts entries that expire now or earlier.             *)
TaskFresh(r) == Idempotent /\ r.task # NoId => taskUntil[r.task] <= now

RememberNonce(r) ==
  nonceUntil' = IF r.nonce = NoId THEN nonceUntil
                ELSE [nonceUntil EXCEPT ![r.nonce] = now + TTL]

RememberTask(r) ==
  taskUntil' = IF ~ Idempotent \/ r.task = NoId THEN taskUntil
               ELSE [taskUntil EXCEPT ![r.task] = now + TTL]

-----------------------------------------------------------------------------
(* The continuation of _admit: take a slot, check, start the handler.      *)

Enter(r) ==
  \/ /\ ~ NonceFresh(r)
     /\ Refuse(r, "E011")
     /\ UNCHANGED caches
  \/ /\ NonceFresh(r)
     /\ RememberNonce(r)
     /\ enteredAt' = [enteredAt EXCEPT ![r] = now]
     /\ \/ /\ ~ TaskFresh(r)
           /\ Refuse(r, "E010")
           /\ UNCHANGED taskUntil
        \/ /\ TaskFresh(r)
           /\ RememberTask(r)
           /\ \/ Refuse(r, "CX")   \* IICP-CX-01, -02 or -03
              \/ /\ active' = active + 1
                 /\ pc' = [pc EXCEPT ![r] = "running"]
                 /\ attempts' = [attempts EXCEPT ![r] = 1]
                 /\ UNCHANGED reply

(* No continuation is pending: the loop may take its next event.           *)
Idle == microtasks = <<>>

(* The 'end' event: door checks, the drain guard, then the synchronous     *)
(* part of _admit.                                                         *)
Arrive(r) ==
  /\ pc[r] = "new" /\ ~ r.native
  /\ ~ flushing /\ Len(microtasks) < SameTick
  /\ \/ /\ Answer(r, "refused")  \* headers, size, JSON, rate, CIP policy
        /\ UNCHANGED microtasks
     \/ /\ backendDrain
        /\ Answer(r, "E024")
        /\ UNCHANGED microtasks
     \/ /\ ~ backendDrain /\ active < cap
        /\ pc' = [pc EXCEPT ![r] = "passed"]
        /\ microtasks' = Append(microtasks, r)
        /\ UNCHANGED reply
     \/ /\ ~ backendDrain /\ active >= cap /\ r.queueable
        /\ pc' = [pc EXCEPT ![r] = "waiting"]
        /\ UNCHANGED <<reply, microtasks>>
     \/ /\ ~ backendDrain /\ active >= cap /\ ~ r.queueable
        /\ Answer(r, "E021")
        /\ UNCHANGED microtasks
  /\ UNCHANGED <<attempts, active, flushing, caches, counters, environment>>

RunMicrotask ==
  /\ microtasks # <<>>
  /\ Enter(Head(microtasks))
  /\ microtasks' = Tail(microtasks)
  /\ flushing' = (Len(microtasks) > 1)
  /\ UNCHANGED <<counters, environment>>

\* Slip: the poll admits whatever the counter says.
PollAdmitsBlindly(r) ==
  /\ pc[r] = "waiting" /\ Idle
  /\ Enter(r)
  /\ UNCHANGED <<loop, counters, environment>>

\* Slip: the poll loop has no deadline.
PollForever(r) ==
  /\ pc[r] = "waiting" /\ Idle
  /\ UNCHANGED vars

(* A poll of a queue-eligible request.  The 50 ms timer resumes _admit in  *)
(* a drain of its own, so test and increment are one step here; a poll     *)
(* that finds no slot before the deadline changes nothing.                 *)
PollAdmits(r) ==
  /\ pc[r] = "waiting" /\ Idle
  /\ active < cap
  /\ Enter(r)
  /\ UNCHANGED <<loop, counters, environment>>

PollGivesUp(r) ==
  /\ pc[r] = "waiting" /\ Idle
  /\ active >= cap
  /\ Answer(r, "E021")
  /\ UNCHANGED <<attempts, active, loop, caches, counters, environment>>

-----------------------------------------------------------------------------
(* The handler settles.                                                    *)

Settle(r, code) ==
  /\ Answer(r, code)
  /\ UNCHANGED <<attempts, loop, caches, environment>>

Settling(r) == pc[r] = "running" /\ ~ r.native /\ Idle

HandlerReturns(r) ==
  /\ Settling(r)
  /\ \/ /\ Settle(r, "completed")
        /\ active' = active - 1
        /\ succeeded' = succeeded + 1
        /\ UNCHANGED <<failed, twice>>
     \/ /\ Settle(r, "response_too_large")
        /\ active' = active - 1
        /\ failed' = failed + 1
        /\ UNCHANGED <<succeeded, twice>>

(* The first .then gave the slot back before it threw; .catch gives it     *)
(* back again.                                                             *)
ResultThrows(r) ==
  /\ Settling(r) /\ "result" \in Faults
  /\ Settle(r, "backend_error")
  /\ active' = active - 2
  /\ twice' = twice \cup {r}
  /\ failed' = failed + 1
  /\ UNCHANGED succeeded

(* A rejection of the first call reaches .catch(() => handler(task)), put  *)
(* there for a failing otel import, and runs the task again.               *)
HandlerRejects(r) ==
  /\ Settling(r) /\ "handler" \in Faults
  /\ \/ /\ attempts[r] = 1
        /\ attempts' = [attempts EXCEPT ![r] = 2]
        /\ UNCHANGED <<pc, reply, active, loop, caches, counters, environment>>
     \/ /\ attempts[r] = 2
        /\ Settle(r, "backend_error")
        /\ active' = active - 1
        /\ failed' = failed + 1
        /\ UNCHANGED <<succeeded, twice>>

-----------------------------------------------------------------------------
(* The native listener of serve() calls the handler without gate, nonce or *)
(* task id check, and without touching _activeTasks.                       *)

NativeCall(r) ==
  /\ pc[r] = "new" /\ r.native /\ Idle
  /\ pc' = [pc EXCEPT ![r] = "running"]
  /\ attempts' = [attempts EXCEPT ![r] = 1]
  /\ UNCHANGED <<reply, active, loop, caches, counters, environment>>

NativeReply(r) ==
  /\ pc[r] = "running" /\ r.native /\ Idle
  /\ \E code \in {"completed", "backend_error"} : Answer(r, code)
  /\ UNCHANGED <<attempts, active, loop, caches, counters, environment>>

-----------------------------------------------------------------------------
(* The environment: availability windows, backend drain, the clock.        *)

ChangeWindow ==
  /\ Idle
  /\ cap' \in Caps \ {cap}
  /\ UNCHANGED <<pc, reply, attempts, active, loop, caches, counters,
                 backendDrain, now>>

ChangeDrain ==
  /\ Idle
  /\ backendDrain' = ~ backendDrain
  /\ UNCHANGED <<pc, reply, attempts, active, loop, caches, counters,
                 cap, now>>

Tick ==
  /\ Idle
  /\ now < MaxTime
  /\ now' = now + 1
  /\ UNCHANGED <<pc, reply, attempts, active, loop, caches, counters,
                 cap, backendDrain>>

Poll(r) == PollAdmits(r) \/ PollGivesUp(r)

HandlerSettles(r) ==
  HandlerReturns(r) \/ ResultThrows(r) \/ HandlerRejects(r) \/ NativeReply(r)

Next ==
  \/ RunMicrotask
  \/ \E r \in Requests :
       \/ Arrive(r)
       \/ PollAdmits(r)
       \/ PollGivesUp(r)
       \/ HandlerReturns(r)
       \/ ResultThrows(r)
       \/ HandlerRejects(r)
       \/ NativeCall(r)
       \/ NativeReply(r)
  \/ ChangeWindow
  \/ ChangeDrain
  \/ Tick

(* The event loop runs its queue and fires its timers.  That a handler     *)
(* settles is assumed of the operator's code: the node sets no timeout.    *)
Fairness ==
  /\ WF_vars(RunMicrotask)
  /\ \A r \in Requests : WF_vars(Poll(r)) /\ WF_vars(HandlerSettles(r))

Spec == Init /\ [][Next]_vars /\ Fairness

-----------------------------------------------------------------------------
(* Properties.                                                             *)

(* _activeTasks, which /iicp/health reports as active_jobs and the gate    *)
(* tests, counts the HTTP tasks whose handler is running, less one for     *)
(* every request whose result threw on its way to a response: every early  *)
(* return after the increment and every other way a handler settles gives  *)
(* back the one slot that was taken.                                       *)
SlotAccounting ==
  active = Cardinality(HttpExecuting) - Cardinality(twice)

(* How far the HTTP tasks can run past max_concurrent: by the 'end' events *)
(* that one drain runs between the test of the first and the increments,   *)
(* less one, and by every slot that was given back twice; no window, wait, *)
(* failure or early return adds to that.                                   *)
OvershootBounded ==
  Cardinality(HttpExecuting)
    <= MaxConcurrent + (SameTick - 1) + Cardinality(twice)

(* Never more tasks execute at once than max_concurrent, over every        *)
(* transport (concurrency.ts: the cap holds "on whichever transport        *)
(* carries the CALL"; node.ts of the gate's test and increment:            *)
(* "non-atomic but safe in the single-threaded event loop").               *)
WithinMaxConcurrent == Cardinality(Executing) <= MaxConcurrent

(* Two requests with one nonce never both get past the nonce check within  *)
(* the nonce's lifetime, however their admission interleaves or waits.     *)
NoReplayWithinTTL ==
  \A r, s \in Requests :
    r # s /\ r.nonce = s.nonce /\ r.nonce # NoId
      /\ enteredAt[r] # Never /\ enteredAt[s] # Never
      /\ enteredAt[r] <= enteredAt[s]
    => enteredAt[s] > enteredAt[r] + TTL

(* With the idempotency guard on, two HTTP requests for one task id never  *)
(* both execute within the guard's window.                                 *)
NoDuplicateWithinTTL ==
  \A r, s \in Requests :
    Idempotent /\ r # s /\ r.task = s.task /\ r.task # NoId
      /\ enteredAt[r] # Never /\ enteredAt[s] # Never
      /\ attempts[r] > 0 /\ attempts[s] > 0
      /\ enteredAt[r] <= enteredAt[s]
    => enteredAt[s] >= enteredAt[r] + TTL

(* A retry or a replay that overtakes the request it repeats, waits beside *)
(* it or follows it is executed no more than the caches allow.             *)
NoRepeatWithinTTL == NoReplayWithinTTL /\ NoDuplicateWithinTTL

(* The handler is called at most once for a task (idempotency.ts: the      *)
(* guard "prevents duplicate task execution").                             *)
ExecutedOnce == Idempotent => \A r \in Requests : attempts[r] <= 1

(* Every request that arrives is answered, also one that waits for a slot  *)
(* while the window is closed.                                             *)
EveryRequestAnswered ==
  \A r \in Requests : pc[r] # "new" ~> pc[r] = "answered"

=============================================================================
