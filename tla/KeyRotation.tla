----------------------------- MODULE KeyRotation -----------------------------
(***************************************************************************)
(* `iicp-node operator key rotate` and `revoke` (runOperatorKey,           *)
(* src/src/cli.ts): a backup of the old key, the directory's challenge and *)
(* its verdict, a receipt, the successor in operator.json                  *)
(* (src/src/identity.ts), its id in the saved nodes, and the handoff       *)
(* marker.  Two terminals may run a command at once; replies are lost,     *)
(* files cannot be written, and a command may be killed at any step.       *)
(*                                                                         *)
(* A key is its number.  Of the saved nodes and the marker only the chance *)
(* that they cannot be written is here; OperatorHandoff has the marker.    *)
(***************************************************************************)
EXTENDS Naturals

CONSTANTS
  KrCmds,   \* terminals
  KrKeys,   \* bound on the keys generated
  KrFaults  \* bound on lost replies, failed writes and kills

ASSUME KrAssumption == KrKeys \in Nat \ {0} /\ KrFaults \in Nat

VARIABLES
  krAt,        \* step of each command
  krOld,       \* the key it has loaded
  krNew,       \* the successor it has generated, none when it revokes
  krSays,      \* the answer it has got from the directory
  krAsked,     \* requests on their way to the directory
  krDirectory, \* the operator's key at the directory
  krFile,      \* key in operator.json
  krBackups,   \* encrypted backups: the key, and the successor it made way for
  krLast,      \* keys generated so far
  krOrphans,   \* successors whose command ended without them in the file (history)
  krFaults

KrVars ==
  <<krAt, krOld, krNew, krSays, krAsked, krDirectory, krFile, krBackups, krLast,
    krOrphans, krFaults>>

KrNone == 0   \* no key: a torn file, a revoked operator, no successor
KrAnyKey == 0 .. KrKeys
KrRequests == [by : KrCmds, old : KrAnyKey, new : KrAnyKey]
KrRunning == {"loaded", "asked", "answered", "receipted", "truncated", "saved"}

KrTypeOK ==
  /\ krAt \in [KrCmds -> {"idle"} \cup KrRunning]
  /\ krOld \in [KrCmds -> KrAnyKey] /\ krNew \in [KrCmds -> KrAnyKey]
  /\ krSays \in [KrCmds -> {"nothing", "accepted", "refused"}]
  /\ krAsked \subseteq KrRequests
  /\ krDirectory \in KrAnyKey /\ krFile \in KrAnyKey
  /\ krBackups \subseteq [of : KrAnyKey, for : KrAnyKey]
  /\ krLast \in KrAnyKey /\ krOrphans \subseteq KrAnyKey
  /\ krFaults \in 0 .. KrFaults

KrInit ==
  /\ krAt = [p \in KrCmds |-> "idle"]
  /\ krOld = [p \in KrCmds |-> KrNone] /\ krNew = [p \in KrCmds |-> KrNone]
  /\ krSays = [p \in KrCmds |-> "nothing"]
  /\ krAsked = {} /\ krBackups = {} /\ krOrphans = {}
  /\ krDirectory = 1 /\ krFile = 1 /\ krLast = 1
  /\ krFaults = 0

KrGo(p, at) == krAt' = [krAt EXCEPT ![p] = at]
KrFault == krFaults < KrFaults /\ krFaults' = krFaults + 1

(* A command ends; a successor that is not in the file is nowhere.         *)
KrEnd(p) ==
  /\ KrGo(p, "idle")
  /\ krOrphans' = krOrphans \cup ({krNew[p]} \ {KrNone, krFile})

(* The catch: whatever failed, the backup is removed.                      *)
KrAbandon(p) ==
  /\ KrEnd(p)
  /\ krBackups' = {b \in krBackups : b.for # krNew[p]}

-----------------------------------------------------------------------------
(* loadOperator, which throws on a torn file; for a rotation the backup,   *)
(* under a name of its own, and generateOperator.                          *)
KrBegin(p, new) ==
  /\ krAt[p] = "idle" /\ krFile # KrNone
  /\ KrGo(p, "loaded")
  /\ krOld' = [krOld EXCEPT ![p] = krFile]
  /\ krNew' = [krNew EXCEPT ![p] = new]
  /\ krSays' = [krSays EXCEPT ![p] = "nothing"]
  /\ UNCHANGED <<krAsked, krDirectory, krFile, krOrphans, krFaults>>

KrRotate(p) ==
  /\ krLast < KrKeys
  /\ KrBegin(p, krLast + 1)
  /\ krLast' = krLast + 1
  /\ krBackups' = krBackups \cup {[of |-> krFile, for |-> krLast + 1]}

KrRevoke(p) == KrBegin(p, KrNone) /\ UNCHANGED <<krLast, krBackups>>

(* The challenge for the loaded key, and the signed request.               *)
KrAsk(p) ==
  /\ krAt[p] = "loaded" /\ krOld[p] = krDirectory
  /\ KrGo(p, "asked")
  /\ krAsked' = krAsked \cup {[by |-> p, old |-> krOld[p], new |-> krNew[p]]}
  /\ UNCHANGED <<krOld, krNew, krSays, krDirectory, krFile, krBackups, krLast, krOrphans, krFaults>>

KrNoChallenge(p) ==
  /\ krAt[p] = "loaded" /\ krOld[p] # krDirectory
  /\ KrAbandon(p)
  /\ UNCHANGED <<krOld, krNew, krSays, krAsked, krDirectory, krFile, krLast, krFaults>>

(* The directory, to whose key a request must be signed; the command may   *)
(* have given up.                                                          *)
KrDecide(r) ==
  LET ok == r.old = krDirectory
      waits == krAt[r.by] = "asked" /\ krOld[r.by] = r.old /\ krNew[r.by] = r.new IN
  /\ r \in krAsked
  /\ krAsked' = krAsked \ {r}
  /\ krDirectory' = IF ok THEN r.new ELSE krDirectory
  /\ krSays' = IF waits
               THEN [krSays EXCEPT ![r.by] = IF ok THEN "accepted" ELSE "refused"]
               ELSE krSays
  /\ UNCHANGED <<krAt, krOld, krNew, krFile, krBackups, krLast, krOrphans, krFaults>>

KrAccepted(p) ==
  /\ krAt[p] = "asked" /\ krSays[p] = "accepted"
  /\ KrGo(p, "answered")
  /\ UNCHANGED <<krOld, krNew, krSays, krAsked, krDirectory, krFile, krBackups, krLast, krOrphans, krFaults>>

\* Slip: the status of the reply is not looked at.
KrRefusedIgnored(p) ==
  /\ krAt[p] = "asked" /\ krSays[p] = "refused"
  /\ KrGo(p, "answered")
  /\ UNCHANGED <<krOld, krNew, krSays, krAsked, krDirectory, krFile, krBackups, krLast, krOrphans, krFaults>>

KrRefused(p) ==
  /\ krAt[p] = "asked" /\ krSays[p] = "refused"
  /\ KrAbandon(p)
  /\ UNCHANGED <<krOld, krNew, krSays, krAsked, krDirectory, krFile, krLast, krFaults>>

(* No answer in fifteen seconds.                                           *)
KrUnanswered(p) ==
  /\ krAt[p] = "asked" /\ KrFault
  /\ KrAbandon(p)
  /\ UNCHANGED <<krOld, krNew, krSays, krAsked, krDirectory, krFile, krLast>>

(* The receipt; a revocation ends with it.                                 *)
KrReceipt(p) ==
  /\ krAt[p] = "answered"
  /\ IF krNew[p] = KrNone
     THEN KrEnd(p)
     ELSE KrGo(p, "receipted") /\ UNCHANGED krOrphans
  /\ UNCHANGED <<krOld, krNew, krSays, krAsked, krDirectory, krFile, krBackups, krLast, krFaults>>

(* saveOperator: writeFileSync truncates the file, and fills it.           *)
KrTruncate(p) ==
  /\ krAt[p] = "receipted"
  /\ KrGo(p, "truncated")
  /\ krFile' = KrNone
  /\ UNCHANGED <<krOld, krNew, krSays, krAsked, krDirectory, krBackups, krLast, krOrphans, krFaults>>

KrFill(p) ==
  /\ krAt[p] = "truncated"
  /\ KrGo(p, "saved")
  /\ krFile' = krNew[p]
  /\ UNCHANGED <<krOld, krNew, krSays, krAsked, krDirectory, krBackups, krLast, krOrphans, krFaults>>

(* The nodes of the old key are saved, and the marker written.             *)
KrMigrated(p) ==
  /\ krAt[p] = "saved"
  /\ KrEnd(p)
  /\ UNCHANGED <<krOld, krNew, krSays, krAsked, krDirectory, krFile, krBackups, krLast, krFaults>>

(* A write fails: of the backup, the receipt, operator.json, a node or the *)
(* marker.                                                                 *)
KrWriteFails(p) ==
  /\ krAt[p] \in {"loaded", "answered", "truncated", "saved"} /\ KrFault
  /\ KrAbandon(p)
  /\ UNCHANGED <<krOld, krNew, krSays, krAsked, krDirectory, krFile, krLast>>

KrKilled(p) ==
  /\ krAt[p] # "idle" /\ KrFault
  /\ KrEnd(p)
  /\ UNCHANGED <<krOld, krNew, krSays, krAsked, krDirectory, krFile, krBackups, krLast>>

KrNext ==
  \/ \E p \in KrCmds :
       \/ KrRotate(p) \/ KrRevoke(p) \/ KrAsk(p) \/ KrNoChallenge(p)
       \/ KrAccepted(p) \/ KrRefused(p) \/ KrUnanswered(p) \/ KrReceipt(p)
       \/ KrTruncate(p) \/ KrFill(p) \/ KrMigrated(p) \/ KrWriteFails(p) \/ KrKilled(p)
  \/ \E r \in krAsked : KrDecide(r)

KrSpec == KrInit /\ [][KrNext]_KrVars

-----------------------------------------------------------------------------
(* When no command runs, operator.json holds the key the directory knows   *)
(* the operator by, unless the operator is revoked or the directory has    *)
(* accepted the successor of a command that did not live to save it:       *)
(* nothing else, and no two commands between them, part the two.           *)
KrInStep ==
  (\A p \in KrCmds : krAt[p] = "idle")
    => krDirectory \in {krFile, KrNone} \cup krOrphans

(* "Safely migrate or revoke your cryptographic operator key": whatever    *)
(* fails, the operator still has the key the directory knows, in its file, *)
(* in a backup, or in a command that is running.                           *)
KrSafely ==
  \/ krDirectory \in {krFile, KrNone} \cup {b.of : b \in krBackups}
  \/ \E p \in KrCmds : krAt[p] # "idle" /\ krDirectory \in {krOld[p], krNew[p]}
=============================================================================
