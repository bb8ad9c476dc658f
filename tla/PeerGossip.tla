----------------------------- MODULE PeerGossip ------------------------------
(***************************************************************************)
(* Peer gossip between nodes (PeerManager in src/src/peer_manager.ts,      *)
(* IicpNode._handlePeers in src/src/node.ts): a node fills an empty table  *)
(* from the directory, and every thirty seconds exchanges tables with one  *)
(* of its peers and drops those it has not heard of for ninety.            *)
(*                                                                         *)
(* Time passes in gossip intervals; an exchange, of five seconds at most,  *)
(* ends within one.  Nodes die and are started again, with an empty table. *)
(***************************************************************************)
EXTENDS Integers, FiniteSets

CONSTANTS
  PgNodes,   \* nodes of the mesh
  PgLimit,   \* BOOTSTRAP_LIMIT
  PgExpiry,  \* PEER_EXPIRY_MS, in intervals
  PgDeaths,  \* bound on deaths
  PgMisses   \* bound on exchanges lost or late, and on unheard or useless bootstraps

ASSUME PgAssumption ==
  /\ IsFiniteSet(PgNodes) /\ PgLimit \in Nat
  /\ PgExpiry \in Nat \ {0} /\ PgDeaths \in Nat /\ PgMisses \in Nat

VARIABLES
  pgAlive,    \* nodes that run
  pgTable,    \* intervals since a node last heard of each other one
  pgDue,      \* nodes whose timer has fired and whose round has not begun
  pgExchange, \* the exchange of each node: with whom, and the table under way
  pgDeaths, pgMisses

PgVars == <<pgAlive, pgTable, pgDue, pgExchange, pgDeaths, pgMisses>>

PgUnknown == -1
PgOld == PgExpiry + 1   \* longer ago than the expiry, or last_contact 0
PgIdle == [with |-> {}, at |-> "idle", says |-> {}]

PgTypeOK ==
  /\ pgAlive \subseteq PgNodes
  /\ pgTable \in [PgNodes -> [PgNodes -> PgUnknown .. PgOld]]
  /\ pgDue \subseteq PgNodes
  /\ pgExchange \in [PgNodes -> [with : SUBSET PgNodes, at : {"idle", "sent", "answered"},
                                 says : SUBSET PgNodes]]
  /\ pgDeaths \in 0 .. PgDeaths /\ pgMisses \in 0 .. PgMisses

PgNobody == [m \in PgNodes |-> PgUnknown]

PgInit ==
  /\ pgAlive = PgNodes
  /\ pgTable = [n \in PgNodes |-> PgNobody]
  /\ pgDue = PgNodes   \* start bootstraps at once
  /\ pgExchange = [n \in PgNodes |-> PgIdle]
  /\ pgDeaths = 0 /\ pgMisses = 0

PgPeers(n) == {m \in PgNodes : pgTable[n][m] # PgUnknown}
PgMiss == pgMisses < PgMisses /\ pgMisses' = pgMisses + 1

-----------------------------------------------------------------------------
(* mergePeers: what is heard of now, itself excepted, whoever says so.     *)
PgMerged(n, says) ==
  [m \in PgNodes |-> IF m \in says \ {n} THEN 0 ELSE pgTable[n][m]]

(* prune.                                                                  *)
PgPruned(table) ==
  [m \in PgNodes |-> IF table[m] > PgExpiry THEN PgUnknown ELSE table[m]]

PgBegins(n) ==
  /\ n \in pgAlive \cap pgDue
  /\ pgDue' = pgDue \ {n}

\* Slip: an empty table is left empty.
PgBootstrapNever(n) ==
  /\ PgBegins(n) /\ PgPeers(n) = {}
  /\ UNCHANGED <<pgAlive, pgTable, pgExchange, pgDeaths, pgMisses>>

(* bootstrap: the directory names as many nodes as it is asked for, or all *)
(* the live ones if they are fewer.  The asking node may be among them,    *)
(* and dead ones it has not noticed; that they leave no room for a live    *)
(* other is a miss.                                                        *)
PgBootstrap(n) ==
  /\ PgBegins(n) /\ PgPeers(n) = {}
  /\ \E named \in SUBSET PgNodes :
       /\ Cardinality(named) <= PgLimit
       /\ pgAlive \subseteq named \/ Cardinality(named) = PgLimit
       /\ IF pgAlive \subseteq named \cup {n} \/ named \cap (pgAlive \ {n}) # {}
            THEN UNCHANGED pgMisses ELSE PgMiss
       /\ pgTable' = [pgTable EXCEPT ![n] = PgMerged(n, named)]
  /\ UNCHANGED <<pgAlive, pgExchange, pgDeaths>>

PgBootstrapFails(n) ==
  /\ PgBegins(n) /\ PgPeers(n) = {} /\ PgMiss
  /\ UNCHANGED <<pgAlive, pgTable, pgExchange, pgDeaths>>

(* gossipRound: one peer, at random, is sent the table and the node itself.*)
PgRound(n) ==
  /\ PgBegins(n)
  /\ \E m \in PgPeers(n) :
       pgExchange' = [pgExchange EXCEPT ![n] =
                        [with |-> {m}, at |-> "sent", says |-> PgPeers(n) \cup {n}]]
  /\ UNCHANGED <<pgAlive, pgTable, pgDeaths, pgMisses>>

(* _handlePeers: a signed exchange is merged and answered with the table.  *)
PgAnswer(n, m) ==
  /\ m \in pgAlive /\ pgExchange[n].at = "sent" /\ pgExchange[n].with = {m}
  /\ pgTable' = [pgTable EXCEPT ![m] = PgMerged(m, pgExchange[n].says)]
  /\ pgExchange' = [pgExchange EXCEPT ![n] =
       [@ EXCEPT !.at = "answered",
                 !.says = {k \in PgNodes : pgTable'[m][k] # PgUnknown}]]
  /\ UNCHANGED <<pgAlive, pgDue, pgDeaths, pgMisses>>

PgEnds(n, table) ==
  /\ pgTable' = [pgTable EXCEPT ![n] = PgPruned(table)]
  /\ pgExchange' = [pgExchange EXCEPT ![n] = PgIdle]
  /\ UNCHANGED <<pgAlive, pgDue, pgDeaths>>

PgTarget(n) == CHOOSE m \in PgNodes : pgExchange[n].with = {m}

(* exchange: the answer is merged, and the peer itself heard of if it is   *)
(* in the table.                                                           *)
PgHeard(n) ==
  LET merged == PgMerged(n, pgExchange[n].says)
      m == PgTarget(n) IN
  /\ pgExchange[n].at = "answered"
  /\ PgEnds(n, IF merged[m] = PgUnknown THEN merged ELSE [merged EXCEPT ![m] = 0])
  /\ UNCHANGED pgMisses

(* verifyExchange: the signature is made with the sender's token and       *)
(* checked with the receiver's, which need not agree; nothing is learned.  *)
PgRefused(n) ==
  /\ pgExchange[n].at = "sent" /\ PgTarget(n) \in pgAlive
  /\ PgEnds(n, pgTable[n])
  /\ UNCHANGED pgMisses

(* No answer in five seconds: last_contact 0.                              *)
PgUnheard(n) ==
  LET m == PgTarget(n) IN
  /\ pgExchange[n].at # "idle"
  /\ IF m \in pgAlive THEN PgMiss ELSE UNCHANGED pgMisses
  /\ PgEnds(n, IF pgTable[n][m] = PgUnknown THEN pgTable[n]
               ELSE [pgTable[n] EXCEPT ![m] = PgOld])

PgDies(n) ==
  /\ n \in pgAlive /\ pgDeaths < PgDeaths
  /\ pgAlive' = pgAlive \ {n}
  /\ pgDeaths' = pgDeaths + 1
  /\ pgTable' = [pgTable EXCEPT ![n] = PgNobody]
  /\ pgExchange' = [pgExchange EXCEPT ![n] = PgIdle]
  /\ pgDue' = pgDue \ {n}
  /\ UNCHANGED pgMisses

PgStarts(n) ==
  /\ n \notin pgAlive
  /\ pgAlive' = pgAlive \cup {n}
  /\ pgDue' = pgDue \cup {n}
  /\ UNCHANGED <<pgTable, pgExchange, pgDeaths, pgMisses>>

PgTick ==
  /\ pgDue = {} /\ \A n \in PgNodes : pgExchange[n] = PgIdle
  /\ pgDue' = pgAlive
  /\ pgTable' = [n \in PgNodes |-> [m \in PgNodes |->
       IF pgTable[n][m] \in 0 .. PgExpiry THEN pgTable[n][m] + 1 ELSE pgTable[n][m]]]
  /\ UNCHANGED <<pgAlive, pgExchange, pgDeaths, pgMisses>>

PgNext ==
  \/ \E n \in PgNodes :
       \/ PgBootstrap(n) \/ PgBootstrapFails(n) \/ PgRound(n) \/ PgHeard(n)
       \/ PgRefused(n) \/ PgUnheard(n) \/ PgDies(n) \/ PgStarts(n)
       \/ \E m \in PgNodes : PgAnswer(n, m)
  \/ PgTick

PgRuns(n) ==
  \/ PgBootstrap(n) \/ PgBootstrapFails(n) \/ PgRound(n)
  \/ PgHeard(n) \/ PgRefused(n) \/ PgUnheard(n) \/ \E m \in PgNodes : PgAnswer(n, m)

(* Timers fire and fetches settle; a dead node need not start again.       *)
PgFairness ==
  /\ WF_PgVars(PgTick)
  /\ \A n \in PgNodes : WF_PgVars(PgRuns(n))

PgSpec == PgInit /\ [][PgNext]_PgVars /\ PgFairness

-----------------------------------------------------------------------------
PgPeersAlive(n) == PgPeers(n) \cap pgAlive

(* No node is left alone with the dead: once the deaths and misses are     *)
(* over, every live node has a live peer again and again, although its     *)
(* table may have been empty, wrong, or dead to the last entry.            *)
PgMeets ==
  \A n \in PgNodes :
    []<>(n \notin pgAlive \/ pgAlive = {n} \/ PgPeersAlive(n) # {})

(* "prunes peers idle for 90s": a table has no peer that has been dead for *)
(* an expiry and a round.                                                  *)
PgDropsDead ==
  \A d \in PgNodes :
    []<>(d \in pgAlive \/ \A n \in pgAlive : pgTable[n][d] = PgUnknown)
=============================================================================
