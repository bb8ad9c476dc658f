------------------------- MODULE DispatchAdmission --------------------------
(***************************************************************************)
(* A dispatch ticket at its provider: its verification against a trust     *)
(* bundle with the process's replay cache (verifyDispatchTicketV2,         *)
(* src/src/dispatch_ticket_trust.ts), and its redemption in a database     *)
(* that all processes of the provider share                                *)
(* (src/src/dispatch_admission.ts).                                        *)
(*                                                                         *)
(* Clocks differ between processes.  A verification that fails for the     *)
(* ticket's claims, its key or its signature changes nothing and is the    *)
(* verdict FALSE.                                                          *)
(***************************************************************************)
EXTENDS Integers, FiniteSets

CONSTANTS
  DaProcs,     \* processes of the provider
  DaTickets,   \* tickets, by jti
  DaExpires,   \* expires_at of a ticket
  DaSkew,      \* clockSkewSeconds
  DaDrift,     \* how far one process's clock is ahead of another's at most
  DaRetention, \* retentionSeconds of the cleanup
  DaLimit,     \* rows a cleanup removes at most
  DaEnd,       \* bound on the time
  DaFaults     \* bound on restarts and database errors

(* A row outlives every clock on which its ticket could still be redeemed. *)
ASSUME DaAssumption ==
  /\ DaExpires \in [DaTickets -> Nat]
  /\ DaSkew \in Nat /\ DaDrift \in Nat /\ DaEnd \in Nat /\ DaFaults \in Nat
  /\ DaRetention \in Nat /\ DaRetention >= DaSkew + DaDrift
  /\ DaLimit \in Nat \ {0}

VARIABLES
  daNow,     \* the slowest clock
  daAhead,   \* by how much each process's clock is ahead of it
  daRevoked, \* the key of the tickets is revoked in the bundle
  daCache,   \* replayCache of each process
  daAt,      \* the ticket each process has verified and not yet redeemed
  daRows,    \* the table dispatch_admissions
  daWins,    \* redemptions of each ticket (history)
  daEnd,     \* the state each ticket was first ended with (history)
  daFaults

DaVars == <<daNow, daAhead, daRevoked, daCache, daAt, daRows, daWins, daEnd, daFaults>>

DaTerminal == {"completed", "failed"}   \* of the five
DaNone == "none"

DaTypeOK ==
  /\ daNow \in 0 .. DaEnd
  /\ daAhead \in [DaProcs -> 0 .. DaDrift]
  /\ daRevoked \in BOOLEAN
  /\ daCache \in [DaProcs -> SUBSET DaTickets]
  /\ daAt \in [DaProcs -> DaTickets \cup {DaNone}]
  /\ daRows \in [DaTickets -> {DaNone, "accepted"} \cup DaTerminal]
  /\ daWins \in [DaTickets -> Nat]
  /\ daEnd \in [DaTickets -> {DaNone} \cup DaTerminal]
  /\ daFaults \in 0 .. DaFaults

DaInit ==
  /\ daNow = 0
  /\ daAhead \in [DaProcs -> 0 .. DaDrift]
  /\ daRevoked = FALSE
  /\ daCache = [p \in DaProcs |-> {}]
  /\ daAt = [p \in DaProcs |-> DaNone]
  /\ daRows = [t \in DaTickets |-> DaNone]
  /\ daWins = [t \in DaTickets |-> 0]
  /\ daEnd = [t \in DaTickets |-> DaNone]
  /\ daFaults = 0

DaClock(p) == daNow + daAhead[p]

-----------------------------------------------------------------------------
(* verifyDispatchTicketV2: the ticket is remembered by the process before  *)
(* anybody has redeemed it.  Expiry knows no skew here.                    *)
DaVerify(p, t) ==
  /\ daAt[p] = DaNone /\ ~daRevoked
  /\ DaExpires[t] > DaClock(p)
  /\ t \notin daCache[p]
  /\ daCache' = [daCache EXCEPT ![p] = {u \in @ : DaExpires[u] > DaClock(p)} \cup {t}]
  /\ daAt' = [daAt EXCEPT ![p] = t]
  /\ UNCHANGED <<daNow, daAhead, daRevoked, daRows, daWins, daEnd, daFaults>>

(* evaluateDispatchAdmission, consume: in one transaction, refused when    *)
(* the ticket has a row or the skewed clock is past it.                    *)
DaConsume(p) ==
  LET t == daAt[p] IN
  /\ t # DaNone
  /\ daAt' = [daAt EXCEPT ![p] = DaNone]
  /\ IF daRows[t] = DaNone /\ DaClock(p) - DaSkew < DaExpires[t]
     THEN /\ daRows' = [daRows EXCEPT ![t] = "accepted"]
          /\ daWins' = [daWins EXCEPT ![t] = @ + 1]
     ELSE UNCHANGED <<daRows, daWins>>
  /\ UNCHANGED <<daNow, daAhead, daRevoked, daCache, daEnd, daFaults>>

(* The database is busy or broken: reject_store_unavailable; the process   *)
(* still remembers the ticket.                                             *)
DaUnavailable(p) ==
  /\ daAt[p] # DaNone /\ daFaults < DaFaults
  /\ daAt' = [daAt EXCEPT ![p] = DaNone]
  /\ daFaults' = daFaults + 1
  /\ UNCHANGED <<daNow, daAhead, daRevoked, daCache, daRows, daWins, daEnd>>

DaEndWith(t, s) ==
  /\ daRows' = [daRows EXCEPT ![t] = s]
  /\ daEnd' = IF daEnd[t] = DaNone THEN [daEnd EXCEPT ![t] = s] ELSE daEnd
  /\ UNCHANGED <<daNow, daAhead, daRevoked, daCache, daAt, daWins, daFaults>>

(* transition: the same terminal state again changes nothing, another one  *)
(* throws.                                                                 *)
DaTransition(t, s) == daRows[t] = "accepted" /\ DaEndWith(t, s)

DaOldest(S) ==
  {t \in S : Cardinality({u \in S : DaExpires[u] < DaExpires[t]}) < DaLimit}

DaRemove(S) ==
  /\ S # {} /\ Cardinality(S) <= DaLimit
  /\ daRows' = [t \in DaTickets |-> IF t \in S THEN DaNone ELSE daRows[t]]
  /\ UNCHANGED <<daNow, daAhead, daRevoked, daCache, daAt, daWins, daEnd, daFaults>>

\* Slip: a row is removed as soon as its ticket has expired.
DaCleanupAtExpiry(p) ==
  \E S \in SUBSET DaOldest({t \in DaTickets :
        daRows[t] # DaNone /\ DaExpires[t] < DaClock(p)}) : DaRemove(S)

(* cleanup, on the clock of the process that runs it: the oldest rows, the *)
(* choice among equals being the database's.                               *)
DaCleanup(p) ==
  LET due == {t \in DaTickets :
                daRows[t] # DaNone /\ DaExpires[t] < DaClock(p) - DaRetention} IN
  \E S \in SUBSET DaOldest(due) :
    /\ Cardinality(S) = DaLimit \/ S = due
    /\ DaRemove(S)

(* A process starts anew; what it had verified is given up.                *)
DaRestart(p) ==
  /\ daFaults < DaFaults
  /\ daCache' = [daCache EXCEPT ![p] = {}]
  /\ daAt' = [daAt EXCEPT ![p] = DaNone]
  /\ daFaults' = daFaults + 1
  /\ UNCHANGED <<daNow, daAhead, daRevoked, daRows, daWins, daEnd>>

DaRevoke ==
  /\ ~daRevoked
  /\ daRevoked' = TRUE
  /\ UNCHANGED <<daNow, daAhead, daCache, daAt, daRows, daWins, daEnd, daFaults>>

DaTick ==
  /\ daNow < DaEnd
  /\ daNow' = daNow + 1
  /\ UNCHANGED <<daAhead, daRevoked, daCache, daAt, daRows, daWins, daEnd, daFaults>>

DaNext ==
  \/ \E p \in DaProcs :
       \/ DaConsume(p) \/ DaUnavailable(p) \/ DaCleanup(p) \/ DaRestart(p)
       \/ \E t \in DaTickets : DaVerify(p, t)
  \/ \E t \in DaTickets, s \in DaTerminal : DaTransition(t, s)
  \/ DaRevoke \/ DaTick

DaSpec == DaInit /\ [][DaNext]_DaVars

-----------------------------------------------------------------------------
(* A ticket is redeemed once and ends one way, over all processes, their   *)
(* clocks and their restarts, and after the cleanup has removed its row.   *)
DaRedeemedOnce ==
  \A t \in DaTickets :
    /\ daWins[t] <= 1
    /\ daRows[t] \in DaTerminal => daRows[t] = daEnd[t]
=============================================================================
