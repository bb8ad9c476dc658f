----------------------------- MODULE TunnelGate -----------------------------
(***************************************************************************)
(* openQuickTunnel (src/src/tunnel.ts): the IICP processes of a host share *)
(* one budget for creating Quick Tunnels through three files, a rate-limit *)
(* cooldown, a pacing gate and an exclusive lock with a lease.  Every file *)
(* operation is a step; a process may stop for good, or restart, while it  *)
(* holds the lock.                                                         *)
(*                                                                         *)
(* Times are what is left of them, in ticks.  The steps between two awaits *)
(* take no time: a tick waits until no process is inside them.             *)
(***************************************************************************)
EXTENDS Naturals, FiniteSets

CONSTANTS
  TgProcs,     \* the processes of the host
  TgNobody,    \* the lock file is absent
  TgLease,     \* TUNNEL_CREATE_LEASE_MS
  TgInterval,  \* TUNNEL_CREATE_MIN_INTERVAL_MS
  TgCooldown,  \* TUNNEL_RATE_LIMIT_COOLDOWN_MS
  TgStart,     \* TUNNEL_START_TIMEOUT_MS
  TgFaults     \* bound on failed attempts and crashes

ASSUME TgAssumption ==
  /\ TgNobody \notin TgProcs
  /\ TgLease \in Nat /\ TgInterval \in Nat /\ TgCooldown \in Nat
  /\ TgStart \in Nat /\ TgFaults \in Nat
  /\ TgStart < TgLease \/ TgStart < TgInterval

VARIABLES
  tgAt,       \* where each process is
  tgWait,     \* how long it still sleeps, or its cloudflared may still take
  tgRetry,    \* it is at the second try of acquireQuickTunnelCreateLease
  tgMem,      \* quickTunnelRateLimitUntil of each process
  tgLimit,    \* the rate-limit file
  tgGate,     \* the pacing file
  tgLock,     \* the lock file: who made it and what is left of its lease
  tgSince,    \* what is left of the interval after the last spawn (history)
  tgRaced,    \* two processes were in the unawaited steps at once (history)
  tgEarly,    \* a spawn came inside the interval (history)
  tgLeft      \* faults left

TgFiles == <<tgLimit, tgGate, tgLock>>
TgHistory == <<tgSince, tgRaced, tgEarly>>
TgVars == <<tgAt, tgWait, tgRetry, tgMem, TgFiles, TgHistory, tgLeft>>

TgSteps == {"limit", "unlimit", "gate", "ungate", "open", "write", "judge",
            "unlink", "mark", "settle", "limited"}
TgPlaces == TgSteps \cup {"start", "asleep", "running", "up", "dead"}

TgTypeOK ==
  /\ tgAt \in [TgProcs -> TgPlaces]
  /\ tgWait \in [TgProcs -> Nat]
  /\ tgRetry \subseteq TgProcs
  /\ tgMem \in [TgProcs -> 0 .. TgCooldown]
  /\ tgLimit \in 0 .. TgCooldown
  /\ tgGate \in 0 .. TgInterval
  /\ tgLock \in [by : TgProcs \cup {TgNobody}, left : 0 .. TgLease]
  /\ tgSince \in 0 .. TgInterval
  /\ tgRaced \in BOOLEAN
  /\ tgEarly \in BOOLEAN
  /\ tgLeft \in 0 .. TgFaults

TgFree == [by |-> TgNobody, left |-> 0]

TgInit ==
  /\ tgAt = [p \in TgProcs |-> "start"]
  /\ tgWait = [p \in TgProcs |-> 0]
  /\ tgRetry = {}
  /\ tgMem = [p \in TgProcs |-> 0]
  /\ tgLimit = 0
  /\ tgGate = 0
  /\ tgLock = TgFree
  /\ tgSince = 0
  /\ tgRaced = FALSE
  /\ tgEarly = FALSE
  /\ tgLeft = TgFaults

TgMax(a, b) == IF a > b THEN a ELSE b
TgFault == tgLeft > 0 /\ tgLeft' = tgLeft - 1
TgSpawned(p) == tgAt[p] \in {"running", "settle", "limited"}

(* p goes on to place a, and is in the way of whoever is in the steps too. *)
TgGo(p, a) ==
  /\ tgAt' = [tgAt EXCEPT ![p] = a]
  /\ tgRaced' = (tgRaced \/ (a \in TgSteps /\ \E q \in TgProcs \ {p} : tgAt[q] \in TgSteps))

(* sleep(n) plus a jitter, which is as long as it likes.                   *)
TgSleep(p, n) ==
  /\ TgGo(p, "asleep")
  /\ tgWait' = [tgWait EXCEPT ![p] = n]

-----------------------------------------------------------------------------
(* The head of the loop, entered first and after every sleep.              *)
TgTries(p) ==
  /\ tgAt[p] = "start" \/ (tgAt[p] = "asleep" /\ tgWait[p] = 0)
  /\ TgGo(p, "limit")
  /\ tgRetry' = tgRetry \ {p}
  /\ UNCHANGED <<tgWait, tgMem, TgFiles, tgSince, tgEarly, tgLeft>>

(* quickTunnelRateLimitRemainingMs: the process's own cooldown and the     *)
(* host's; a file that has run out is removed.                             *)
TgReadLimit(p) ==
  /\ tgAt[p] = "limit"
  /\ \/ /\ tgLimit > 0
        /\ TgSleep(p, TgMax(tgMem[p], tgLimit))
     \/ /\ tgLimit = 0
        /\ TgGo(p, "unlimit")
        /\ UNCHANGED tgWait
  /\ UNCHANGED <<tgRetry, tgMem, TgFiles, tgSince, tgEarly, tgLeft>>

TgClearLimit(p) ==
  /\ tgAt[p] = "unlimit"
  /\ tgLimit' = 0
  /\ \/ /\ tgMem[p] > 0
        /\ TgSleep(p, tgMem[p])
     \/ /\ tgMem[p] = 0
        /\ TgGo(p, "gate")
        /\ UNCHANGED tgWait
  /\ UNCHANGED <<tgRetry, tgMem, tgGate, tgLock, tgSince, tgEarly, tgLeft>>

(* quickTunnelCreateGateRemainingMs.                                       *)
TgReadGate(p) ==
  /\ tgAt[p] = "gate"
  /\ \/ /\ tgGate > 0
        /\ TgSleep(p, tgGate)
     \/ /\ tgGate = 0
        /\ TgGo(p, "ungate")
        /\ UNCHANGED tgWait
  /\ UNCHANGED <<tgRetry, tgMem, TgFiles, tgSince, tgEarly, tgLeft>>

TgClearGate(p) ==
  /\ tgAt[p] = "ungate"
  /\ tgGate' = 0
  /\ TgGo(p, "open")
  /\ UNCHANGED <<tgWait, tgRetry, tgMem, tgLimit, tgLock, tgSince, tgEarly, tgLeft>>

(* acquireQuickTunnelCreateLease: the file is created empty ...            *)
TgOpen(p) ==
  /\ tgAt[p] = "open"
  /\ \/ /\ tgLock = TgFree
        /\ tgLock' = [by |-> p, left |-> 0]
        /\ TgGo(p, "write")
     \/ /\ tgLock # TgFree
        /\ TgGo(p, "judge")
        /\ UNCHANGED tgLock
  /\ UNCHANGED <<tgWait, tgRetry, tgMem, tgLimit, tgGate, tgSince, tgEarly, tgLeft>>

(* ... and written through its descriptor, which may no longer be the file *)
(* at that path.                                                           *)
TgWrite(p) ==
  /\ tgAt[p] = "write"
  /\ tgLock' = IF tgLock.by = p THEN [tgLock EXCEPT !.left = TgLease] ELSE tgLock
  /\ TgGo(p, "mark")
  /\ UNCHANGED <<tgWait, tgRetry, tgMem, tgLimit, tgGate, tgSince, tgEarly, tgLeft>>

\* Slip: a lock whose lease has run out is respected too.
TgJudgeOwner(p) ==
  /\ tgAt[p] = "judge"
  /\ \/ /\ tgLock.by # TgNobody
        /\ TgSleep(p, TgMax(tgLock.left, 1))
     \/ /\ tgLock.by = TgNobody
        /\ TgGo(p, "unlink")
        /\ UNCHANGED tgWait
  /\ UNCHANGED <<tgRetry, tgMem, TgFiles, tgSince, tgEarly, tgLeft>>

(* EEXIST: wait for a lease that still runs.                               *)
TgJudge(p) ==
  /\ tgAt[p] = "judge"
  /\ \/ /\ tgLock.left > 0
        /\ TgSleep(p, tgLock.left)
     \/ /\ tgLock.left = 0
        /\ TgGo(p, "unlink")
        /\ UNCHANGED tgWait
  /\ UNCHANGED <<tgRetry, tgMem, TgFiles, tgSince, tgEarly, tgLeft>>

(* An expired or unreadable lock is removed, whoever's it is by now; one   *)
(* more try, then a wait for a whole lease.                                *)
TgUnlink(p) ==
  /\ tgAt[p] = "unlink"
  /\ tgLock' = TgFree
  /\ \/ /\ p \notin tgRetry
        /\ tgRetry' = tgRetry \cup {p}
        /\ TgGo(p, "open")
        /\ UNCHANGED tgWait
     \/ /\ p \in tgRetry
        /\ TgSleep(p, TgLease)
        /\ UNCHANGED tgRetry
  /\ UNCHANGED <<tgMem, tgLimit, tgGate, tgSince, tgEarly, tgLeft>>

(* markQuickTunnelCreateAttempt, and cloudflared is spawned.               *)
TgMark(p) ==
  /\ tgAt[p] = "mark"
  /\ tgGate' = TgInterval
  /\ tgEarly' = (tgEarly \/ tgSince > 0)
  /\ tgSince' = TgInterval
  /\ TgGo(p, "running")
  /\ tgWait' = [tgWait EXCEPT ![p] = TgStart]
  /\ UNCHANGED <<tgRetry, tgMem, tgLimit, tgLock, tgLeft>>

(* cloudflared prints its URL: the lease file is removed, whoever's it is. *)
TgUp(p) ==
  /\ tgAt[p] = "running"
  /\ TgGo(p, "up")
  /\ tgLock' = TgFree
  /\ UNCHANGED <<tgWait, tgRetry, tgMem, tgLimit, tgGate, tgSince, tgEarly, tgLeft>>

(* It exits, errs or prints no URL in time.                                *)
TgFails(p) ==
  /\ tgAt[p] = "running"
  /\ TgFault
  /\ TgGo(p, "settle")
  /\ tgLock' = TgFree
  /\ UNCHANGED <<tgWait, tgRetry, tgMem, tgLimit, tgGate, tgSince, tgEarly>>

(* errorWithOutput: a rate limit starts the cooldown.  The caller tries    *)
(* again later (handleDead), or gives up.                                  *)
TgReports(p) ==
  /\ tgAt[p] = "settle"
  /\ \/ /\ tgMem' = [tgMem EXCEPT ![p] = TgCooldown]
        /\ TgGo(p, "limited")
     \/ /\ UNCHANGED tgMem
        /\ \E a \in {"start", "dead"} : TgGo(p, a)
  /\ UNCHANGED <<tgWait, tgRetry, TgFiles, tgSince, tgEarly, tgLeft>>

TgPersistLimit(p) ==
  /\ tgAt[p] = "limited"
  /\ tgLimit' = tgMem[p]
  /\ TgGo(p, "start")
  /\ UNCHANGED <<tgWait, tgRetry, tgMem, tgGate, tgLock, tgSince, tgEarly, tgLeft>>

(* The process is killed, and restarted or not; its lock file stays.       *)
TgCrash(p) ==
  /\ tgAt[p] \in {"write", "running"}
  /\ TgFault
  /\ \E a \in {"start", "dead"} : TgGo(p, a)
  /\ tgMem' = [tgMem EXCEPT ![p] = 0]
  /\ UNCHANGED <<tgWait, tgRetry, TgFiles, tgSince, tgEarly>>

TgPass(n) == IF n > 0 THEN n - 1 ELSE 0

(* Time passes between the steps; a start attempt ends within its timeout. *)
TgTick ==
  /\ \A p \in TgProcs : /\ tgAt[p] \notin TgSteps
                        /\ tgAt[p] = "running" => tgWait[p] > 0
  /\ tgWait' = [p \in TgProcs |-> TgPass(tgWait[p])]
  /\ tgMem' = [p \in TgProcs |-> TgPass(tgMem[p])]
  /\ tgLimit' = TgPass(tgLimit)
  /\ tgGate' = TgPass(tgGate)
  /\ tgLock' = [tgLock EXCEPT !.left = TgPass(tgLock.left)]
  /\ tgSince' = TgPass(tgSince)
  /\ UNCHANGED <<tgAt, tgRetry, tgRaced, tgEarly, tgLeft>>

TgStep(p) ==
  \/ TgTries(p) \/ TgReadLimit(p) \/ TgClearLimit(p) \/ TgReadGate(p)
  \/ TgClearGate(p) \/ TgOpen(p) \/ TgWrite(p) \/ TgJudge(p) \/ TgUnlink(p)
  \/ TgMark(p) \/ TgUp(p) \/ TgReports(p) \/ TgPersistLimit(p)

TgNext ==
  \/ TgTick
  \/ \E p \in TgProcs : TgStep(p) \/ TgFails(p) \/ TgCrash(p)

TgFairness ==
  WF_TgVars(TgTick) /\ \A p \in TgProcs : WF_TgVars(TgStep(p))

TgSpec == TgInit /\ [][TgNext]_TgVars /\ TgFairness

-----------------------------------------------------------------------------
(* One host-wide budget (openQuickTunnel): as long as no two processes     *)
(* were between the same two awaits at once, at most one tunnel is being   *)
(* created and creations keep the interval, through expired leases, leaked *)
(* locks and restarts.  Without that condition it fails: a lock that was   *)
(* created and not written yet reads as expired.                           *)
TgOneBudget ==
  tgRaced \/ (~tgEarly /\ Cardinality({p \in TgProcs : tgAt[p] = "running"}) <= 1)

(* Waiting for capacity ends: every process that wants a tunnel gets one   *)
(* or gives up, although holders crash and files of others are removed.    *)
TgEveryoneServed == \A p \in TgProcs : <>(tgAt[p] \in {"up", "dead"})

(* The budget without the condition, as the comment in openQuickTunnel     *)
(* states it.                                                              *)
TgOneCreator == Cardinality({p \in TgProcs : tgAt[p] = "running"}) <= 1
=============================================================================
