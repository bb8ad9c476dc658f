---------------------------- MODULE HostProcess -----------------------------
(***************************************************************************)
(* The processes of one saved node on its host: the pid file that keeps a  *)
(* second one out (src/src/instance_lock.ts), and the updater that         *)
(* installs a newer release and starts the process anew                    *)
(* (src/src/updater.ts, startProviderAutoUpdate in src/src/cli.ts).        *)
(*                                                                         *)
(* A process and the copy it starts of itself share a name here but not a  *)
(* pid: the pid in the file is that of a process that runs, or of a dead   *)
(* one, which the lock treats like no file.                                *)
(***************************************************************************)
EXTENDS Naturals, FiniteSets

CONSTANTS
  HpProcs,    \* processes of the node
  HpReleases, \* the last release
  HpBackoff,  \* longest retryDelayMs, in ticks
  HpFaults    \* bound on deaths, failed installs and unwritten lock files

HpNobody == "nobody"

ASSUME HpAssumption ==
  /\ HpNobody \notin HpProcs
  /\ HpReleases \in Nat /\ HpBackoff \in Nat \ {0} /\ HpFaults \in Nat

VARIABLES
  hpAt,        \* where each process is
  hpFile,      \* whose pid the lock file holds; nobody's when it is a dead one
  hpRuns,      \* release each process runs
  hpGoal,      \* release each process is installing
  hpInstalled, \* release of the installed package
  hpLatest,    \* release the registry names
  hpTried,     \* update-status.json: the last release that failed to install,
               \* how often in a row, and how long it is not tried again
  hpExcused,   \* the lock was forced, missed or raced (history)
  hpFaults

HpVars ==
  <<hpAt, hpFile, hpRuns, hpGoal, hpInstalled, hpLatest, hpTried, hpExcused, hpFaults>>

HpTypeOK ==
  /\ hpAt \in [HpProcs -> {"off", "starting", "checked", "serving", "installing"}]
  /\ hpFile \in HpProcs \cup {HpNobody}
  /\ hpRuns \in [HpProcs -> 0 .. HpReleases]
  /\ hpGoal \in [HpProcs -> 0 .. HpReleases]
  /\ hpInstalled \in 0 .. HpReleases /\ hpLatest \in 0 .. HpReleases
  /\ hpTried \in [release : 0 .. HpReleases, failures : Nat, wait : 0 .. HpBackoff]
  /\ hpExcused \in BOOLEAN
  /\ hpFaults \in 0 .. HpFaults

HpInit ==
  /\ hpAt = [p \in HpProcs |-> "off"]
  /\ hpFile = HpNobody
  /\ hpRuns = [p \in HpProcs |-> 0]
  /\ hpGoal = [p \in HpProcs |-> 0]
  /\ hpInstalled = 0 /\ hpLatest = 0
  /\ hpTried = [release |-> 0, failures |-> 0, wait |-> 0]
  /\ hpExcused = FALSE
  /\ hpFaults = 0

HpGo(p, at) == hpAt' = [hpAt EXCEPT ![p] = at]
HpAlive(p) == hpAt[p] # "off"
HpServes(p) == hpAt[p] \in {"serving", "installing"}
HpTaken(p) == hpFile \notin {HpNobody, p}
HpPidDies(p) == hpFile' = IF hpFile = p THEN HpNobody ELSE hpFile
HpFault == hpFaults < HpFaults /\ hpFaults' = hpFaults + 1
HpOthers(p) == HpProcs \ {p}

-----------------------------------------------------------------------------
(* A process is started by its operator or its supervisor, on the package  *)
(* that is installed.                                                      *)
HpStart(p) ==
  /\ hpAt[p] = "off"
  /\ HpGo(p, "starting")
  /\ hpRuns' = [hpRuns EXCEPT ![p] = hpInstalled]
  /\ UNCHANGED <<hpFile, hpGoal, hpInstalled, hpLatest, hpTried, hpExcused, hpFaults>>

\* Slip: a process that is refused removes the lock file on its way out.
HpRefusedReleases(p) ==
  /\ hpAt[p] = "starting" /\ HpTaken(p)
  /\ HpGo(p, "off")
  /\ hpFile' = HpNobody
  /\ UNCHANGED <<hpRuns, hpGoal, hpInstalled, hpLatest, hpTried, hpExcused, hpFaults>>

(* acquire: another live process holds the node: exit 2.                   *)
HpRefused(p) ==
  /\ hpAt[p] = "starting" /\ HpTaken(p)
  /\ HpGo(p, "off")
  /\ UNCHANGED <<hpFile, hpRuns, hpGoal, hpInstalled, hpLatest, hpTried, hpExcused, hpFaults>>

(* acquire: no file, a dead process's, or --force; the file is written in  *)
(* a later step.                                                           *)
HpCheck(p, force) ==
  /\ hpAt[p] = "starting"
  /\ force \/ ~HpTaken(p)
  /\ HpGo(p, "checked")
  /\ hpExcused' = (hpExcused \/ (force /\ HpTaken(p))
                     \/ \E q \in HpOthers(p) : hpAt[q] = "checked")
  /\ UNCHANGED <<hpFile, hpRuns, hpGoal, hpInstalled, hpLatest, hpTried, hpFaults>>

HpHold(p) ==
  /\ hpAt[p] = "checked"
  /\ HpGo(p, "serving")
  /\ hpFile' = p
  /\ UNCHANGED <<hpRuns, hpGoal, hpInstalled, hpLatest, hpTried, hpExcused, hpFaults>>

(* acquire fails open: without a lock file the process serves all the same.*)
HpHoldFails(p) ==
  /\ hpAt[p] = "checked" /\ HpFault
  /\ HpGo(p, "serving")
  /\ hpExcused' = TRUE
  /\ UNCHANGED <<hpFile, hpRuns, hpGoal, hpInstalled, hpLatest, hpTried>>

\* The npm a process has started goes on without it, and succeeds or fails.
HpLeaveInstall(p) ==
  /\ hpInstalled' \in {hpInstalled} \cup (IF hpAt[p] = "installing" THEN {hpGoal[p]} ELSE {})
  /\ hpGoal' = [hpGoal EXCEPT ![p] = 0]

(* Shutdown: release unlinks the file, whoever's pid it holds; a process   *)
(* that serves without a lock has nothing to release.                      *)
HpStop(p) ==
  /\ HpServes(p)
  /\ HpGo(p, "off")
  /\ hpFile' = HpNobody \/ (hpExcused /\ UNCHANGED hpFile)
  /\ HpLeaveInstall(p)
  /\ UNCHANGED <<hpRuns, hpLatest, hpTried, hpExcused, hpFaults>>

HpDies(p) ==
  /\ HpAlive(p) /\ HpFault
  /\ HpGo(p, "off")
  /\ HpPidDies(p)
  /\ HpLeaveInstall(p)
  /\ UNCHANGED <<hpRuns, hpLatest, hpTried, hpExcused>>

HpPublish ==
  /\ hpLatest < HpReleases
  /\ hpLatest' = hpLatest + 1
  /\ UNCHANGED <<hpAt, hpFile, hpRuns, hpGoal, hpInstalled, hpTried, hpExcused, hpFaults>>

\* Slip: a release that failed once is not tried again.
HpBlockedForGood(v) == hpTried.release = v /\ hpTried.failures > 0

(* candidateRetryBlocked, from the state file.                             *)
HpBlocked(v) == hpTried.release = v /\ hpTried.failures > 0 /\ hpTried.wait > 0

(* startProviderAutoUpdate: a tick of a serving process hears from the     *)
(* registry of a release that is newer than the one it runs.               *)
HpOutdated(p) == hpAt[p] = "serving" /\ hpLatest > hpRuns[p]

(* autoUpdateTick, when that release is not in its backoff;                *)
(* performSelfUpdate is under way.                                         *)
HpUpdate(p) ==
  /\ HpOutdated(p) /\ ~HpBlocked(hpLatest)
  /\ HpGo(p, "installing")
  /\ hpGoal' = [hpGoal EXCEPT ![p] = hpLatest]
  /\ UNCHANGED <<hpFile, hpRuns, hpInstalled, hpLatest, hpTried, hpExcused, hpFaults>>

HpRecord(p, failures, wait) ==
  /\ hpTried' = [release |-> hpGoal[p], failures |-> failures, wait |-> wait]
  /\ hpGoal' = [hpGoal EXCEPT ![p] = 0]

(* It succeeds: recorded, and reexecCli starts a copy and exits, without a *)
(* release of the lock; until the copy has written its own pid the file    *)
(* keeps nobody out.                                                       *)
HpUpdated(p) ==
  /\ hpAt[p] = "installing"
  /\ HpGo(p, "starting")
  /\ hpInstalled' = hpGoal[p]
  /\ hpRuns' = [hpRuns EXCEPT ![p] = hpGoal[p]]
  /\ HpRecord(p, 0, 0)
  /\ HpPidDies(p)
  /\ UNCHANGED <<hpLatest, hpExcused, hpFaults>>

(* It fails or takes longer than ten minutes: recorded with its backoff.   *)
HpUpdateFails(p) ==
  LET again == IF hpTried.release = hpGoal[p] THEN hpTried.failures + 1 ELSE 1
      wait == 2 ^ (again - 1) IN
  /\ hpAt[p] = "installing" /\ HpFault
  /\ HpGo(p, "serving")
  /\ HpRecord(p, again, IF wait \in 0 .. HpBackoff THEN wait ELSE HpBackoff)
  /\ UNCHANGED <<hpFile, hpRuns, hpInstalled, hpLatest, hpExcused>>

HpTick ==
  /\ hpTried.wait > 0
  /\ hpTried' = [hpTried EXCEPT !.wait = @ - 1]
  /\ UNCHANGED <<hpAt, hpFile, hpRuns, hpGoal, hpInstalled, hpLatest, hpExcused, hpFaults>>

HpNext ==
  \/ \E p \in HpProcs :
       \/ HpStart(p) \/ HpRefused(p) \/ HpHold(p) \/ HpHoldFails(p)
       \/ HpStop(p) \/ HpDies(p) \/ HpUpdate(p) \/ HpUpdated(p) \/ HpUpdateFails(p)
       \/ \E force \in BOOLEAN : HpCheck(p, force)
  \/ HpPublish \/ HpTick

HpFairness ==
  /\ WF_HpVars(HpTick)
  /\ \A p \in HpProcs :
       /\ WF_HpVars(HpRefused(p) \/ HpCheck(p, FALSE))
       /\ WF_HpVars(HpHold(p) \/ HpHoldFails(p))
       /\ WF_HpVars(HpUpdate(p))
       /\ WF_HpVars(HpUpdated(p) \/ HpUpdateFails(p))

HpSpec == HpInit /\ [][HpNext]_HpVars /\ HpFairness

-----------------------------------------------------------------------------
(* One process serves the node, through restarts, deaths and updates, as   *)
(* long as nobody forces the lock, two do not start at once, and the lock  *)
(* can be written.                                                         *)
HpOneServing == hpExcused \/ Cardinality({p \in HpProcs : HpServes(p)}) <= 1

(* A process that stays up gets to a newer release, whatever installs      *)
(* fail before, unless the copy it starts is refused or dies.              *)
HpGetsCurrent ==
  \A p \in HpProcs :
    (hpAt[p] = "serving" /\ hpRuns[p] < hpLatest)
      ~> (hpAt[p] = "serving" /\ hpRuns[p] = hpLatest) \/ hpAt[p] = "off"
=============================================================================
