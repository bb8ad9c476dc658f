# IICP client (TypeScript): verification project

TLA+ models of the provider node and of what surrounds it in `src/src`, the TLC
runs that check them on small instances, and TLAPS proofs of the results that
hold for every instance. `PROJECT.json` maps every definition to the lines it
translates and lists runs, mutants, findings, hazards and theorems; this file
explains them.

How to run, inside `tla/`:

    tlasany MCTaskAdmission.tla
    tlc -workers 2 -config TaskAdmission.cfg MCTaskAdmission
    for m in *Proofs.tla; do tlapm $m; done

## 1. Inventory

A provider (`iicp-node serve`) is one Node.js process around an `IicpNode`: an
HTTP server and a native TCP listener on one port, a heartbeat interval that
keeps the node listed at the directory, and optional relay, tunnel and gossip
duties. A consumer (`IicpClient`) discovers providers through the directory and
posts tasks to them, directly or through a relay that holds a session of the
provider. Nothing runs in parallel inside a process, but almost every handler
awaits (a body, a timer, a fetch, an import), and other handlers run then.
Several processes of one operator share files without locks, or with lock files
that crashes leave behind.

| Component (src/src) | State it keeps | Operations | What is hard | Correct means | Module |
|---|---|---|---|---|---|
| provider task path (`node.ts`, `availability.ts`, `scheduler.ts`, `idempotency.ts`) | `_activeTasks`, nonce cache, task id cache, effective cap, counters | admit, queue and poll, run handler, reply, drain, native call | test of the slot and its increment are apart; many early returns; a queued request meets caches late | every slot is accounted for; the overshoot over the cap is bounded; no replay or duplicate in a cache's lifetime; every request answered | `TaskAdmission` |
| heartbeat counters (`node.ts`) | pending counts, the outstanding batch | form a batch, send, settle | overlapping ticks, lost and late replies, retries | every finished task reported exactly once | `MetricsBatch`, `TaskReport` |
| registration (`node.ts`, `cli.ts`, `recovery.ts`) | four copies of the token, the endpoint, recovery failures | register, tick, heal, drift, recovery check, relay and tunnel callbacks, deregister | overlapping registrations, replies out of order, restart, shutdown beside a tick | the proof of ownership follows the directory's token; no registration storm; listed again; gone after shutdown | `Registration` |
| operator handoff (`cli.ts`) | a marker file shared by processes | rotate, claim a restart, complete, remove | read-modify-write without a lock, crash between truncate and fill | removed only when done; everyone moves over; nobody restarts twice | `OperatorHandoff` |
| operator key commands (`cli.ts`, `identity.ts`) | operator file, backups, receipts | rotate, revoke | the directory decides before or after the command gave up; kills between files | file and directory agree; the key in force is never lost | `KeyRotation` |
| relay sessions (`relay_session.ts`, `relay_ticket.ts`, routes in `node.ts`) | registry, sessions of two kinds, queues and waiters, ticket cache | bind, unbind, lapse, pull, result, forward, forward after body | replaced sessions that end late, parked long-polls, calls that outlive their consumer | cap, one admission per valid ticket, one delivery per call, no lost wake-up, no answer after giving up | `RelaySession`, `RelayPromise` |
| relay worker client (`relay_worker_client.ts`) | socket, parked reader, backoff, bound flag | connect, handshake, bind, serve, reconnect | FIN without close, two sessions at once | reconnects; one connection at a time; no plain text where encryption was asked for | `RelayWorker` |
| service lifecycle (`service_lifecycle.ts`) | record per task, event window | submit, transition, cancel, read events, snapshot, restore | trimmed windows, expiry on read, restoring older records | one record per key, no silent gap, terminal is terminal | `ServiceLifecycle`, `TaskLife` |
| backends (`backends/*.ts`) | abort controller and timer per request, cancel registry | execute, stream, cancel | timeout released at the headers; shared registry entries; a flush beside a read | a cancel is honest; no text lost | `BackendCall`, `BackendStream` |
| dispatch admission (`dispatch_admission.ts`, `dispatch_ticket_trust.ts`) | ledger of redeemed tickets, replay caches, bundle file with its lock | verify, redeem, end, clean up, install, recover | clocks apart, cleanup, crash during commit, lock left behind | a ticket is redeemed once; trust is not set back | `DispatchAdmission`, `TrustStore` |
| backend stability (`backend_stability.ts`, `node.ts`) | the drain a node keeps | observe, keep, report | overlapping probes that miss | only time ends a drain | `BackendStability` |
| native transport (`iicp_tcp.ts`, `native_*.ts`, `concurrency.ts`) | session per connection, a read buffer per client, the gate's count | INIT, PING, DISCOVER, CALL, streams, CLOSE, sequence check | late answers after a timeout, streams that end early or late, a shared gate | an answer goes to its call, one final frame per call, slots balance | `NativeSession` |
| client submit and routing (`client.ts`, `routing_policy.ts`, `selection.ts`, ...) | per call: candidates, attempts | discover, order, try, retry, fall back | retries of non-idempotent work | order and bounds of attempts; the prompt goes only where it may | `ClientSubmit` |
| quick tunnel (`tunnel.ts`) | child process, URL, lease, gate and rate-limit files | create, watch, probe, respawn, close | lease races, overlapping recoveries, orphaned child | one creation at a time; announced URL serves; it heals | `TunnelGate`, `TunnelWatch` |
| instance lock and updater (`instance_lock.ts`, `updater.ts`) | pid file, state file | acquire, release, tick, install, re-execute | check then write, release of another's file, shared backoff | one process serves; it gets to the newest release | `HostProcess` |
| reachability (`nat_detection.ts`, `cli.ts`, `node.ts`) | profile, pinhole and its lease | detect, map, fall back, renew, revoke | a ladder of fallbacks that overrule each other; missed renewals | unproven routes only as a last resort; a held pinhole is open | `Reachability`, `PinholeLease` |
| peer gossip (`peer_manager.ts`) | peer table | bootstrap, exchange, prune, answer | hearsay refreshes entries | the living meet | `PeerGossip` |
| CIP policy and proxy, command line, identity files, MCP gateway, policy checks, encoding, reports, telemetry | files or none | one-shot commands and pure functions | little | see PROJECT.json | none |

How they interact: the task path counts finished tasks which the heartbeat
reports; the heartbeat asks the backend for its stability, whose drain closes the
task path; the heartbeat, the relay worker's `onBind` and the tunnel's watchdog
all call `register()`; `serve` in `cli.ts` climbs the reachability ladder, starts
and stops all of them, watches for handoff markers that the key commands leave,
and is replaced by its updater; relay routes forward consumers' calls into
sessions bound by workers; `submit` is the consumer's end of the task path.

The hazards, one by one and at their lines, are in PROJECT.json.

## 2. Plan

Done, most important first: the task path (`TaskAdmission`), the relay registry
(`RelaySession`), the heartbeat (`MetricsBatch`, `TaskReport`, `Registration`),
the handoff (`OperatorHandoff`), the client (`ClientSubmit`), the native
transport (`NativeSession`), then the relay worker, the tunnel, the backends, the
service lifecycle, tickets and trust, reachability, the host's processes, the key
commands and gossip.

Every safety property, action property and refinement of a passing run is a theorem by
now; liveness is left to the runs, as section 5 says. To come:

1. State a client keeps across submits (token cache, directory key); the waiting
   mode `IICP_TUNNEL_WAIT_FOR_CAPACITY=0` of the tunnel; two clients' operations
   at once on one native connection.
2. Pure algorithms (selection scores, accounting, rate limits) as operators
   against reference definitions.

## 3. Runs

Six runs pass. Four are about one module each: `task_admission`, `relay_session`,
`client_submit`, `registration`. Two are sums: `MCProvider`
has the parts of a provider whose steps must never do something, `MCProgress` the
parts that must get somewhere. In a sum the variable `part` chooses in the initial
state the one part that runs; the parts share no variable and no step, so a
property of one part holds of all of them together iff it holds of that part
alone, and the states are the sum of the parts' states and not their product.
A liveness property of a sum has the fairness of its part as its premise
(`part = "worker" /\ RwFairness => RwRebindsOrDeaf`), so no part is given fairness
its own specification does not state. TLC counts a sum's steps by part; that every
action of every part is taken shows in the counts of `tlc -coverage`. The theorems
about the sums (`MCProviderProofs`, the end of `ProgressProofs`) state this as what it
is: a behaviour of the sum is a behaviour of each part (`ProviderRuns`, `Projects`), so
the theorems of the parts hold in it.

| Run | Properties | Instance |
|---|---|---|
| `task_admission` | `SlotAccounting`, `OvershootBounded`, `NoRepeatWithinTTL`, `EveryRequestAnswered` | three HTTP requests and a native call, one slot |
| `relay_session` | `BindsLimited`, `CallsHandedOver`, `EntriesKept`, `QueuedCallTaken` | two workers, three sessions, one place, one ticket, one call |
| `client_submit` | `ExecutedOncePerGuard`, `PromptGuarded`, `NoVerdictPassedOver`, `SubmitEnds` | five nodes, two attempts, five configurations |
| `registration` | `RegistrationSound`, `Recovers` | two ticks that overlap, both callbacks, two things that go wrong |
| `provider` | `GateBalanced`, `AnswersMatched`, `StreamsApart`, `SlOnceWithoutGap`, `SlKeepsPromise`, `DaRedeemedOnce`, `DtHighWater`, `BkCancelHonest`, `BsNothingLost`, `StHoldsDrain`, `RcLastResort`, `KrInStep`, and the parts' types | nine parts, see below |
| `progress` | `ErasedWhenDone`, `HpOneServing`, `TunnelsInOrder`, `RwSafe`, `PhOpenWhileHeld`, `WorkEnds`, `TasksCounted`, `WorkerReturns`, `NodesHandOver`, `ProcessGetsCurrent`, `PeersMeet`, `TunnelsServe`, and the parts' types | nine parts, see below |

What the code does against what the repository says of it:

| Property that does not hold | What contradicts it | What the repository says | Instance |
|---|---|---|---|
| `WithinMaxConcurrent` | native calls run beside a full set of HTTP tasks | concurrency.ts:6-9, the cap holds on "whichever transport carries the CALL" | run `admission_native` |
| `ExecutedOnce` | a handler that rejects is called again | idempotency.ts:5-6 | run `admission_rerun` |
| `GoneAfterShutdown` | deregistering with the token of the startup | node.ts:1016 | run `registration_shutdown` |
| `NeverRestartsTwice` | two processes that write back the marker they read | cli.ts:2535 | run `operator_handoff_twice` |
| `RwRebinds` | a FIN between two reads | relay_worker_client.ts:6-9, "auto-reconnect" | run `relay_worker_rebinds` |
| `KrSafely` | the answer to a rotation is lost | cli.ts:2361, "Safely" | run `key_rotation_safely` |
| `WithinMaxConcurrent` | two requests that end in one drain pass the test of one slot | node.ts:1711-1712, "safe in the single-threaded event loop" | `TaskAdmissionPipelined.cfg`, module `MCTaskAdmission` |
| `EndpointAccepted` | a request that carries the token another registration is replacing | node.ts:682-683, "so an endpoint change ... is accepted" | `RegistrationEndpoint.cfg`, module `Registration` |
| `TgOneCreator` | a lease that was created and not written yet | tunnel.ts:635-636, "share one host-wide budget" | `TunnelGateOneCreator.cfg`, module `TunnelGate` |
| `TwNoOrphan` | an exit while a respawn opens its successor | tunnel.ts:14-15, "a normal exit never orphans the child" | `TunnelWatchOrphan.cfg`, module `TunnelWatch` |
| `PhSurvivesOneMiss` | one renewal that is missed | node.ts:584, "Retry sooner"; nat_detection.ts:1215 | `PinholeRetriesSooner.cfg`, module `MCProgress` |

The first six are runs with a finding each in PROJECT.json. The other five are set up in
the same way and violated within seconds: `tlc -workers 2 -config <cfg> <module>`.

### Bounds, and why they are enough

| Run or part | Bounds | Why |
|---|---|---|
| `task_admission` | three HTTP requests (one retries a task id, one replays a nonce) and a native call, one slot, `TTL = 1`, `MaxTime = 2`, `SameTick = 2`, both faults | two pipelined requests pass the test of the one slot, and a third observes what they left; a request can wait, be overtaken and be poisoned by either fault; the times reach before, at and after an expiry |
| `relay_session` | two workers, two long-poll sessions and a TCP one, a place for one, one call, `MaxPulls = 2` | "old and new" of a session needs two objects; with one place every bind contends for it |
| `client_submit` | a node of each kind that matters, `MaxRetries = 2` | two is the least that has a retry at a node and a turn to the next, each with a late post behind it |
| `sessions` | one connection with three operations of every kind beside one with a single call, one slot, one partial event | a handshake, an operation that fails, one that meets what was left behind, and a competitor for the slot |
| `lifecycle` | two tasks, one key, three events of one task and one of the other, a window of two, reads of one event, one restart | three events in a window of two leave behind a reader who has read nothing; two tasks contend for a key |
| `dispatch` | two processes, two tickets that expire one after the other, skew and drift of one, a cleanup of one row | clocks can disagree by more than a ticket's remaining life, and the cleanup must choose |
| `trust` | two processes, two versions, two faults | an install beside a recovery, one of which fails or dies |
| `calls` | two tasks' three calls (two calls in `progress`) | two calls under one task id share a registry entry |
| `stream` | three reads, a batch of each shape, text passed on at three units | a flush before, in and after a read |
| `stability` | two overlapping heartbeats, every backend and setting | one probe can overtake another |
| `keys` | two commands, two successors, one fault | commands that meet at the directory, and one loss |
| `metrics` | two heartbeats, two tasks | a late reply beside the next batch; a heartbeat carries the current batch or a settled one, so a third adds nothing |
| `registration` | two ticks, both callbacks, `Attempts = 2`, `Grace = 2`, `Budget = 2`, twenty tokens | two ticks overlap at the cost of one unit and meet one thing more that goes wrong; what is granted never comes near twenty tokens |
| `handoff` | two supervised nodes, two crashes or refusals | a writer between the other's read and write |
| `worker` | two faults, three ways for a connection to end | a reconnect that fails again; three connections |
| `gate` | two processes, two faults | an expired lease that both of them judge |
| `watch` | two faults, two respawns, all three policies | a recovery that overlaps the next one |
| `host` | two processes, two releases, a backoff of two, two faults | an install that fails while the next release appears |
| `gossip` | three nodes, lists of two, one death, one miss | hearsay needs a teller, a hearer and the one spoken of; a list of two can be one's own name and a dead peer's, which counts as a miss |
| `pinhole` | two addresses, half a lease of three, a discovery of one, two misses | a renewal that is late and one that is missed |
| `reach` | every option the ladder reads, every answer of the world | nothing is bounded |

`CHECK_DEADLOCK FALSE` is set where a run comes to rest: all requests answered, all
faults and restarts spent, the process gone.

### Fairness

Timers fire and the event loop runs what is ready: weak fairness of the steps the
process takes by itself. Of the network, an external server or an operator nothing
is assumed unless this says so. `RelaySession`: the server's timers, and a worker that
keeps polling. `Registration`: requests are answered or time out, and a silent node
expires at the directory (`Expire`; the heal of an E050 refusal depends on it).
`MetricsBatch`: the interval fires and a heartbeat is answered in the end.
`ClientSubmit`: every request ends. `RelayWorker`: a relay that has accepted the connection answers. `TunnelWatch`: a child sent SIGTERM exits.
`BackendCall`: the timer alone; the backend owes nothing. `PeerGossip`: fetches settle
and timers fire, but a node that died need not start again.

## 4. Modules

### TaskAdmission (proofs: TaskAdmissionProofs)

One action per turn of the event loop in `_handleTask` and around it: `Arrive`
(body complete, `_admit` tests the slot), `RunMicrotask` (the continuation that
increments `_activeTasks` and runs the checks that may return early), the 50 ms
poll (`PollAdmits`, `PollGivesUp`), the ways a handler settles, native calls, and
the environment (`ChangeWindow`, `ChangeDrain`, `Tick`). The microtask queue is
explicit because the slot is tested in one event and taken in a continuation:
`SameTick` says how many `end` events may share one nextTick drain. The clock has
the width the caches' expiries need. `Faults` selects whether the operator's
handler may reject and whether encoding its result may throw.

The run has two `end` events per drain, a native call and both faults.
The cap as the repository states it, `WithinMaxConcurrent`, does not hold,
for three reasons: native calls are not counted (`admission_native`), and two pipelined
requests pass the test of the last slot before either takes it
(`TaskAdmissionPipelined.cfg`). The third is a result that cannot be encoded:
its slot is given back at node.ts:1958 and again in the trailing catch
(node.ts:2002), so that `_activeTasks` is one too low from then on. What the code does
keep is stated instead, with these cases in it. `SlotAccounting`: the counter is the
number of running HTTP tasks less the requests whose slot was given back twice
(`twice`, a history variable), so no early return, wait, window or rejecting handler
loses or doubles a slot. `OvershootBounded`: the HTTP tasks pass the cap by at most the
`end` events of one drain, less one, and the slots given back twice. A rejecting
handler that runs twice is a finding too (`admission_rerun`).

Proved for any requests, windows, drain width and faults, without a condition on any
of them: `TypeCorrect`, `SlotsAccounted`, `OvershootHolds`, `CachesHold`. The
overshoot's inductive invariant (`GateInv`) bounds the counter together with the
admissions still in the microtask queue: there are at most `SameTick` of them, and each
was let in when the counter was below the cap. With `SlotsAccounted` the bound on the
counter becomes one on the tasks. The caches' invariant ties each cache's expiry to the
entry time of the requests that passed it.

### RelaySession (proofs: RelaySessionProofs)

The registry, the two kinds of session and the four HTTP routes. A call keeps the
session object it captured (`via`) whatever happens to the registry, as the code's
closures do. Clocks are replaced by what they decide. `Bind` is one action for
both transports because everything between its checks and the registration is
synchronous; time passes in it all the same: the ticket is verified with one reading of
the clock and consumed with another (relay_session.ts:516 and 568, node.ts:1479 and
1517), and the replay cache first evicts what has expired by the second reading
(relay_ticket.ts:26). So `ConsumeTicket` may find the ticket expired since it was
verified, its entry evicted, and let it through, used or not. What a request does
across an await is split (`RelayForCall`, `RelayForBody`; `WorkerAnswers`,
`ResultBody`).

`BindsLimited` is the cap and the tickets: a ticket admits one bind for as long as it
is valid, and a second and last one in the bind that meets the second of its `exp`.
That the second reading is not earlier than the first is taken for granted (a wall clock
set back in the middle of a bind is not modelled).
`CallsHandedOver` is the promise below and no
lost wake-up, `EntriesKept` who may remove or displace whom, and `QueuedCallTaken` that a
queued call of a session that stays bound is taken as long as its worker polls.

`RelayPromise` is what a consumer may count on, without sessions, transports, queues or
long-polls: a call is addressed to one worker and stays so, is handed over once at most
(perhaps only after its consumer gave up, for a timeout leaves the queue as it is), and
is answered only after that and only while its consumer waits. `CallsKeepPromise` is
the refinement: the worker of a call is that of the session it captured, whoever has
bound since. `CallsHandedOver` adds that no call is queued beside a waiting long-poll.

A bind is refused at capacity although the bound session is dead: nothing reaps a
lapsed long-poll session, or one whose peer sent FIN (relay_session.ts:473 waits on,
so the frame loop never reaches its `finally`). The model behaves so; `BindsLimited`
is about the cap alone.

Proved for any workers, sessions, tickets, calls and limits: `BindsStayLimited`,
`CallsAreHandedOver`, `EntriesAreKept`. The cap itself is not inductive: the step that
breaks it would be a bind that finds an entry of a session closed long ago. So the
invariant says that an entry names a session that was bound for that worker and has not
been closed (`EntriesOwned`), that a ticket once accepted is in the replay cache while it is
valid, and was accepted at most once until then (`TicketsRemembered`), and, for calls, that a queued call lies in the queue of
the session it captured, in one place (`QueuesApart`), and was delivered as often as its
state says (`CallsPlaced`).

`CallsKeepTheirPromise` is the refinement, step by step: capturing a call addresses or
accepts it, a pull hands one over, and every bind, end, lapse and clock is a stutter.
For a bind that takes `CallsCaptured`: a session that captured a call was bound before,
and only a session that never was is given a worker.

### RelayWorker (proofs: ProgressProofs)

The other end: the loop `_run`, a session per connection, its handshake and frame
loop, and the node's two callbacks. A socket is open, ended (its FIN was seen) or
destroyed, and these are different states because `readExact` looks at `destroyed`
before it parks and is woken by 'data' and 'end' only. A reader parked in the middle
of a frame is told of the end; one parked again after the FIN never is. That is
`RwDeaf`: the loop waits for a session that will not settle. `RwRebindsOrDeaf` says
that everything else is recovered from, and `relay_worker_rebinds` shows the promise
of the file's header failing with a FIN. `RwSafe` has one connection at a time (the
relay refuses a bind while the older one lives) and no result in clear where the
consumer asked for encryption.

Proved for any number of faults and calls: `RwSafely`. That one connection lives at a
time needs two more facts (`RwCurOnly`): a connection being made or open is the one the
loop waits for, so that the loop's next step cannot overtake it, and each connection the
loop has finished has cost a fault, so that the numbers of the model suffice.

### MetricsBatch implements TaskReport (proofs: MetricsBatchProofs)

`TaskReport` says what the directory is promised: each finished task is counted
once. `MetricsBatch` is the code: counters, an outstanding batch with an id,
overlapping heartbeats that carry it, replies lost, late, or of any status. The
refinement maps counted batches to the report.

Proved for any number of heartbeats and tasks: `MbTypes`, `NothingLost`,
`ReportsExactlyOnce` (every step is a step or a stutter of TaskReport); the part
`metrics` of `progress` adds `AllCounted`, its liveness. The inductive invariant says
that only batches with the current id can still be counted, and that the directory
has counted a batch iff its id is recorded.

### Registration (proofs: ProgressProofs)

Every place that registers, and every copy of the token: `_runtimeToken`
(`runtimeToken`, also the saved file), the interval's `currentToken`
(`loopToken`), the relay callback's (`relayToken`), the CLI's (`cliToken`). A
caller has at most one request under way; the directory handles requests and the
caller hears of it in separate steps, so replies to different callers come in any
order. A recovery check, a failed request, a change of models or of the endpoint
and a crash each spend one unit of `Budget`.

The directory is external. It is modelled from what src assumes of it: each
accepted registration rotates the token (`instance_lock.ts`, the E050 fixture),
another endpoint needs the current token, silent nodes expire.

The heartbeat's interval has no overlap guard (node.ts:1199-1204): a tick starts
whether or not the one before has returned. `StartTick` allows that for any number of
ticks. A tick that is still under way when the next is due has outlasted the 30 s of the
interval, which is one of the things that go wrong, so it spends a unit of `Budget`.

`RegistrationSound` has two parts. `ProofFollows` speaks of every state, not only of
those at rest: the token the directory knows is the one in `_runtimeToken` or in a reply
that is still to be taken up. Two things can break that, and the history variables name
them exactly: a granted reply that got lost (`muddled`), by a timeout or by a restart
that came before it, and a reply taken up after that of a later registration, so that
node.ts:760 stashes a token the directory has replaced (`overtaken`, set at the step that
does it). `NoRegistrationStorm`: the granted registrations are bounded by what went
wrong: the first, three more for each unit of `Budget` spent (a callback's registration,
the heal of a tick that met its deregistration, the heal of the loop's stale token; a
bound of two is violated), and one for a shutdown. `Recovers`: the node ends up listed
under its heartbeat's token, or has shut down, also after a reply was overtaken or lost.
After the recovery exhausts itself the process restarts under a supervisor or is gone;
both are explored.

`registration_shutdown` is a finding, and `RegistrationEndpoint.cfg` another. That a
node's stash follows the directory does not mean that its requests carry the current
token: one that is built while another registration is under way carries the token
that one replaces, and when the endpoint has changed the directory refuses it.

Proved for any number of overlapping ticks, callbacks, losses, restarts and tokens:
`RgRegistersSoundly`, that is both parts. For `ProofFollows` the invariant says
that the directory's current token is either in an answer on its way or in
`_runtimeToken`, or the directory does not know the node. A tick that registers twice
(for a drift, then because its recovery check asks for it) proves the second time with
what the first one stashed, as node.ts does. `RegistrationAssumption` asks for enough
tokens that one nobody holds is always left; an infinite set is the plain case, and a
directory that handed out a token somebody still holds is none src could work with.

What was granted does not follow from the present state, so for `NoRegistrationStorm`
the invariant (`RgStormInv`) adds what may still come of what is under way and says that
both together are paid for (`RgPaid`). A loop whose next heartbeat will not be one of a
listed node owes one registration, unless it is calm (`RgCalm`); while ticks overlap each
open one owes one and the loop one more (`RgCrowdDue`), since each may meet the refusal
of the same token and make the others' stale; a callback that is about to register owes
two, its own and the heal of the loop's token that goes stale with it, and three while
its deregistration is still to be heard; a shutdown owes one. Each loss, callback, missed
reply and overlapping tick spends a unit of `Budget` and adds three at most; every other
step grants no more than it takes off what is due.

### OperatorHandoff (proofs: ProgressProofs)

The marker file after a key rotation. Each process reads it, truncates it and
fills it in three steps with the others in between, as `readFileSync` and
`writeFileSync` do; a crash leaves it torn, and two writers may. `ErasedWhenDone`:
the marker is removed only when every node has moved over. `HandsOver`: every
supervised node ends up with the successor identity. `operator_handoff_twice` is a
finding: a lost claim makes a successor restart again.

Proved for any number of nodes: `HoTypes`, `ErasedOnlyWhenDone`. The invariant
says that no text, in the file or in the memory of a process, is ahead of what
happened: a node named as requested is down or its own successor, a node named as
completed is its own successor. `HandsOver` leaves out a marker that stays
unreadable: nothing in the code repairs it.

### KeyRotation (proofs: ProviderProofs)

The command that writes the marker: backup, challenge, request, receipt, the torn save
of `operator.json`, and the cleanup whatever failed, for two commands at once with a
directory that may decide after a command has given up. `KrInStep`: between
commands, file and directory agree unless the operator is revoked or a command did
not live to save a successor that the directory accepted. How bad that exception is
shows `key_rotation_safely`, a finding: the cleanup has removed the backup
and discarded the successor's key, so no copy is left of the key in force.

Proved for any commands, keys and faults: `KrKeysInStep`. Between its steps a command
knows what nobody else does; the invariant says so. Keys are numbered as they are
generated and a successor that is not saved is known to its command alone
(`KrNumbered`, `KrSecret`), a request on its way belongs to a command that still waits
or its key is an orphan (`KrAwaited`), and the directory has the key of the file, none,
an orphan, or what the one command it has accepted will save (`KrFollows`).

### ClientSubmit (proofs: ClientSubmitProofs)

One `submit`: ticket requests or legacy discovery, the routing policy, and for each
candidate a consumer token and up to `MAX_RETRIES` posts. The directory's order and
the four selection strategies only decide which eligible nodes are tried when, so
the route is a set and the candidates are any list of it. A post is a place
(candidate, attempt) that travels, executes and answers whether or not the client
still listens: after a timeout the client moves on while the task runs, after a
502 or 504 from a tunnel or a relay it posts again to a node that may be executing
it. Nodes in `Guarded` run with `enableIdempotency`, which is off by default; a
relay's worker has no guard at all, since the relay handler (node.ts:1260) calls the
operator's handler directly.

The run has a node that is good and guarded; one that is good but sloppy with its
answers; one without a key; one at a refused endpoint; one refused by the policy;
and five configurations.

Proved for any nodes, retries and settings: `TypeCorrect`, `GuardedOnce`,
`PromptIsGuarded`, `VerdictsEndTheSubmit`. The invariant adds that candidates and
prompted nodes are eligible nodes of the route, that the route is wholly ticketed
where tickets are needed, that a verdict is heard of the last candidate only, and
that an execution is in the guard's memory from its start.

Known limits of the properties, which are those of the code. `PromptGuarded`
asks for browser nodes on the legacy path only: ticketed discovery drops
`browser_usable_only` and a request's `profile_request`, although README.md:150-152
of the repository names both. A configured `profile_request` takes the legacy path
even in ticketed mode. An answer the client cannot accept (no JSON, plaintext where
encryption was promised) has no status, so the client turns to the next node although
this one executed the task; `NoVerdictPassedOver` does not count it as a verdict. (An answer that
fails to decrypt with a plain `Error` ends the submit instead, client.ts:642; `Heed`
has both.)
`SubmitEnds` assumes that every request ends: the timeout of a post is one of
inactivity (`req.setTimeout`), which a node that keeps sending can put off.

### NativeSession (proofs: NativeSessionProofs)

An `IicpTcpClient` and the server's `_handleConnection` over two FIFO queues, `up`
and `down`; any number of such connections share a `ConcurrencyGate`. An operation
is its number on the connection, which stands for its session, call and task id. One
action per frame read and per way an operation, a handler or a stream ends. A queue
holds frames on the wire and frames already in a buffer; destroying a socket keeps a
prefix of it, since what had arrived stays readable. The awaits of the CBOR encodings
are merged with the write they precede: in between, nothing else of the connection
runs, and the gate has been released already.

The client is used as documented, one operation after the other. Two operations at
once on one client would share `_buf`: the second reader's header may be gone when its
payload wait ends. That use, frames no `IicpTcpClient` sends, a server without handler
or gate, and events that contradict their status are not modelled. `serve()` itself
passes neither a gate nor a streaming handler (see `admission_native`).

`AnswersMatched`: an operation takes the answer that is its own, and each call read
has one final frame. The first half holds only until an operation of the
connection has failed, and must: a `call` whose read timed out leaves its answer on
the connection, and the next operation takes it (iicp_tcp.ts:848 compares no id;
frames in `_buf` even survive a destroyed socket). What the code does guarantee then
is `StreamsApart`: a failed stream destroys its socket, so that its events reach no
operation of a live connection, and a stream accepts no foreign event.

Observed, without a property: a stream refused by the gate ends with
`backend_error`, where a plain call gets 429 IICP-E021; the queued calls of a client
that is gone are still executed; `stop()` closes the listener and only unrefs open
connections, although its comment says "Force-close".

Proved for any connections, operations, cap and number of events: `TypeCorrect`,
`GateIsBalanced`, `AnswersCorrespond`, `StreamsStayApart`. The invariants: the server has read a prefix of
the operations issued, in their order (`InTurn`); each operation before the one in
hand has one final frame, the one in hand has one iff the server is done with it,
later ones none (`Ledger`); and while no operation has failed, every frame on its way
down, every operation on its way up and whatever the server is busy with belong to
the last operation, and a final frame has nothing behind it (`Quiet`). `GateBalanced`
is inductive with these types: each step moves at most one connection into or out of
`Executing`.

`Quiet` says nothing once an operation has failed, so `StreamsStayApart` has an
invariant of its own, which holds as long as the socket is open (`StreamAlone`): events
on their way down, events still to be written and a call that asks for a stream all
belong to the last operation, which is a stream that waits, and nothing but frames
without a lifecycle comes behind a final event. It is the failing stream's own destroyed
socket that keeps it true. With it the events a stream took are its own, numbered
from 0, with the final one last (`EventsInOrder`).

### ServiceLifecycle implements TaskLife (proofs: ProviderProofs)

`TaskLife` is the promise: events are numbered without a gap, a final event is the
last, a record is forgotten only when it is final, and a restart resumes what the
snapshot had. `ServiceLifecycle` is the store: windows of `SlWindow` events, reads of
`SlLimit`, records that expire when somebody looks, idempotency keys, snapshots and
restores. `SlKeepsPromise` is the refinement, checked by TLC with the whole of
`Life!Spec`. `SlOnceWithoutGap` adds that a key is held by one task, that a task is not
run again while its final record is kept, and that a consumer who resumes is told
when its window is gone instead of skipping numbers. After a restart from an older
snapshot the store numbers new events as it had numbered lost ones: a consumer that
had heard of these reads on from a number that now means something else. Its numbers
are contiguous all the same; no property compares what the events say.

Proved for any tasks, keys, windows, limits and restarts: `SlOnce` and the refinement,
`SlImplementsLife`: each step of the store maps to a step of `TaskLife` or to a stutter.
The invariant: keys differ in the records and in the snapshot (`SlKeysApart`), since a
restore brings the snapshot's keys back; the final event of a kept record is as old as
the record (`SlEndedAt`); and a consumer has heard everything from where it started to
where it is (`SlHeardAll`). `SlWindow >= 2` is the code's `Math.max(2, maxEvents)`.

### BackendCall, BackendStream, BackendStability (proofs: ProviderProofs)

`BackendCall`: a request with its timer and cancel handle until its headers, and
without either while its body is read. Calls of one task id share an entry, which the first to end
removes. `BkCancelHonest` says that a call cancelled while it awaited headers ends as
499 and no other does; `BkHeadersBounded` that the wait for headers ends. That a *call*
ends (`BkCallEnds`) does not hold: a backend that stops in the middle of a body
holds the handler, and with it a slot, for ever.

`BackendStream`: gathered text is passed on when there is enough of it, when a 25 ms
timer fires beside an outstanding read, and at the end. `BsNothingLost`: between a
read and a flush nothing is lost or doubled, and a stream that says it succeeded or
ended early has passed everything on. Text gathered before a line that is no JSON, or
before the stream's timeout, is dropped; the property does not cover these ends.

`BackendStability`: what the node makes of its backend's answers. `StHoldsDrain`: no
overlapping, late or missed probe ends a drain before its time. The reverse, that the
directory was told of a drain, does not hold (`StToldWhileDraining`): a heartbeat
carries its own observation and not the one kept, so after a probe that misses, the
node refuses tasks while the directory believes it merely degraded.

Proved: `BkCancels`, for any calls and any sharing of task ids: an entry of the registry
is of a call of its task that is under way (`BkReaches`), and where a call can be follows
from when it was signalled and from whether its engine listens (`BkFollows`).
`BsNothingGetsLost`, for any batches and any size of what is gathered: what has come is
what was got and what the batch in hand has. The loop over a batch's lines is a recursive
function; that it computes what the counts say, for a batch of any length, is proved by
induction, with an induction rule over sets that `LeastOf` derives from the library's
theorem on least elements. `StDrainHeld`, for any number of overlapping probes.

### DispatchAdmission, TrustStore (proofs: ProviderProofs)

`DispatchAdmission`: processes with clocks of their own verify tickets against a replay
cache each and redeem them in one database. `DaRedeemedOnce` needs `DaAssumption`, that
the cleanup keeps a row longer than skew and drift together: retention is a parameter of
`cleanup`, left to the caller, and nothing in the code compares the two. A ticket that was verified and could not be redeemed (database busy) is lost for
its process: the replay cache remembers it.

`TrustStore`: the bundle file under its lock file, with commits that fail or die
before or after the rename, damage, and a recovery by the operator. `DtHighWater`: the
stored high water never falls, and what an install replaces is what it was judged
against. A lock file whose holder died stays, and every later install is locked out
until somebody removes it; the model has it so, and no property asks for more.

Proved for any processes, tickets, versions and faults: `DaOnce` and `DtHighWaterHolds`.
For `DaOnce` the one fact that matters is that a ticket whose row is gone has run out on
every clock (`DaGoneIsPast`); this is where `DaAssumption` is used and the only place.
For `DtHighWaterHolds` it is that who is past `acquireLock` holds the lock, so that the
file is still the one it was judged against (`DtHolds`), and that the file's high water
covers each commit that was not damaged (`DtCovers`). `DtAssumption` asks that "nobody"
and "left behind" are no process.

### Reachability, PinholeLease (proofs: ProviderProofs, ProgressProofs)

`Reachability` is `serve`'s way from its options to a registration: the pinhole of an
operator's IPv6 endpoint, the tiers of `detectNat`, the ladder of tunnel and relay, the
forced tunnel, the fallback for routes that look unreachable, and the guard that may
skip registering. `RcLastResort` relates what is registered to what was tried. A node
whose operator's endpoint has a verified pinhole still opens a tunnel nobody asked for:
`directTunnelFallbackReason` knows the pinhole of the detected address only
(`RcTunnelWhereNeeded` does not hold).

`PinholeLease` is the IPv6 pinhole after that: opened on the first address the router
accepts, renewed every half lease, closed at shutdown although a renewal may be under
way. `PhOpenWhileHeld` holds while the router answers. One missed renewal is one too
many, although the code speaks of retrying sooner (`PinholeRetriesSooner.cfg`): the next timer starts when the
discovery of the missed one is over, so the lease ends first, and renewing does not
reopen. `PhClosedForGood` is what the shutdown leaves. A UPnP port mapping is never
renewed by anybody; it has no module, for there is nothing to interleave.

Proved: `RcLastResortHolds`. A registration is judged by what was tried many stages
before, so the invariant carries that along the ladder: how often a tunnel may have been
asked for by each stage (`RcCounted`), that it is advertised once there is one
(`RcAdvertised`), that a relay is elected only behind the tunnel (`RcTunnelFirst`), and that
whoever is past the fallback with a reason for it has tried (`RcTried`). And
`PhHeldIsOpen`, for any addresses and lease: a held pinhole has a renewal to come, by
its timer or under way, and the lease lasts longer than until then (`PhRenewsInTime`).
`PhAssumption` asks that the candidate addresses differ (they are the interfaces'), and
that a discovery is shorter than half a lease (seconds against half an hour in the code).

### TunnelGate, TunnelWatch (proofs: ProgressProofs)

`TunnelGate`: the processes of a host pace the creation of tunnels through a lock file
with a lease, a gate and a rate-limit file. Every file operation is a step.
A lock file that was created and is not written yet reads as expired, and one that
another has just replaced is unlinked with its predecessor's verdict, so two processes
may both create a tunnel: `TgOneCreator`, which the comment in `openQuickTunnel`
promises, fails (`TunnelGateOneCreator.cfg`). That no other history leads
there is a theorem and not a property of a run: `TgOneBudget` holds as long as no two
processes were between the same two awaits at once (`tgRaced`). `TgEveryoneServed` holds
throughout.

`TunnelWatch`: one tunnel's child, the probe and the recoveries that each child's exit
starts, which overlap each other, the probe and `close()`. `TwAnnounced`: the URL the
directory has is that of the tunnel that serves, once no recovery is under way; it is
what `TunnelsInOrder` of the run `progress` says. `TwHeals` holds under the retry policy and with creations further apart than a
verification takes (`paced`, the default interval): with closer ones the late verdict
of a recovery kills the child of the next. `TwNoOrphan` does not hold: a child whose
tunnel is still being opened when the process exits is not terminated, although the
header of tunnel.ts says that a normal exit never orphans the child (`TunnelWatchOrphan.cfg`).

Proved for any processes, faults and respawns: `TgOne` (with the condition above),
`TwAnnounces`, and the latter for the sum in `TunnelsKeepOrder`. That one process creates a tunnel rests on the lock or on the
pacing: while it creates, the lock is its own and either its lease still runs or the
interval keeps everybody from judging it (`TgLocked`). Therefore `TgAssumption` asks
for a start that is shorter than the lease or than the interval. The defaults (20 s
against 45 s and 120 s) satisfy both; all three can be set in the environment, and with
a start longer than both, two creations overlap. For `TwAnnounces` the invariant adds
that each recovery opens a child of its own (`TwOneEach`) and that the current child is
announced, about to be killed or gone, unless a verification has yet to say
(`TwSettled`).

### HostProcess (proofs: ProgressProofs)

Processes of one saved node: the pid file that is read, judged and written in separate
steps, and the updater that installs a release and starts a copy of the process. The copy
has a pid of its own: until it has written that, the file names a dead process and keeps
nobody out.
`HpOneServing` leaves out what `hpExcused` names (a forced start, two starts at once, a
lock that cannot be written) and shows that updates, deaths and stops do not bring two
processes to serve. `HpGetsCurrent`: a process gets to the newest release through failed
installs and their backoff, or its copy is refused or dies.

Proved for any processes, releases and faults: `HpOne`. The invariant says of the window
between the check and the write what the lock would: who serves is in the file, and who
has judged the file and has not written it yet is alone, while nobody serves
(`HpHolds`). `HpAssumption` asks that "nobody" is no process.

### PeerGossip (proofs: ProgressProofs)

Tables, bootstrap, rounds, the answering route, pruning, deaths and restarts. The
directory names at most `PgLimit` nodes; that dead ones crowd out every live one is
counted among the misses. `PgMeets`:
once misses and deaths are over, every live node has a live peer again and again.
`PgDropsDead` does not hold: a merge refreshes what others have heard of, dead or not,
and two nodes keep a dead third alive in each other's tables. Its types are proved
(`PgTypes`); it has no safety property worth the name.

## 5. What the rest rests on, and what is not modelled

Properties that do not hold are defined in their modules and are not in a run, except
for those of section 3 that are; all of section 3's contradict a line of the repository.
The others (`BkCallEnds`, `StToldWhileDraining`, `RcTunnelWhereNeeded`, `PgDropsDead`)
are promised nowhere; they were found violated with TLC on the constants of
`Provider.cfg` or `Progress.cfg`.

Only model-checked: everything under fairness (`EveryRequestAnswered`,
`QueuedCallTaken`, `SubmitEnds`, `Recovers` and the liveness properties of
`progress`), since liveness needs `ENABLED`, which the prover does not handle. All other
properties of passing runs are theorems, none of them with a condition of its own but
for `TgOne`, which says so. Every constant named in the bounds is one of a cfg; none is
in a theorem's way.

Some properties that hold name an exception, which is the code's: the bind that meets
the second of a ticket's `exp` (`BindsLimited`), the overtaken or lost reply
(`RegistrationSound`), the starts in `hpExcused` (`HpOneServing`), the lost answer to a
rotation (`KrInStep`), the FIN (`WorkerReturns`), the torn marker (`NodesHandOver`), the
renewals that are missed (`PhOpenWhileHeld`). Where the repository promises more,
section 3 shows what the exception costs.

The theorems rest on the ASSUMEs of the modules alone, which TLC evaluates on the
constants of the runs. Most say that a number is natural, that a set is finite or that a
"nobody" is not a member; those that say more are named where they are used:
`DaAssumption` (retention), `TgAssumption` (start, lease and interval), `PhAssumption`
(discovery and lease), `RegistrationAssumption` (fresh tokens), `SlAssumption` (window).
`ProviderProofs` and `ProgressProofs` hold the proofs about the modules of the two sums,
one section for each; the other proof modules are about the module they are named after.

Left out inside modelled components:

- `tunnel.ts`: the mode `IICP_TUNNEL_WAIT_FOR_CAPACITY=0`, and the verdict of DNS over
  HTTPS inside a probe;
- backends: payload mapping per engine, and the cap of 256 kept evidences;
- `updater.ts`: writes of the state file are taken to succeed, and two ticks of one
  process do not overlap;
- operator keys: `init` while a rotation runs; a kill between the files a migration
  writes is one step, before which or after which a process may die;
- relay: `PendingRelayStream` and `forwardStream`, which nothing in src calls;
- service lifecycle: `BoundedObserverBuffer`, one list with a bound;
- client: what lives across submits (token cache, directory key). A directory key that
  was rotated is a hazard in PROJECT.json without a property;
- task path: the door checks (headers, size, per-origin rate, CIP policy) are one
  refusal.

Left out as a whole, since they keep no state between two steps and nothing
interleaves: cryptography, canonical JSON, address checks and body limits, document
validators, the MCP gateway's and the policies' evaluations, the local proxy (one
request becomes one `submit`), one-shot commands and reports, logging, tracing and types.
