--------------------------- MODULE OperatorHandoff ---------------------------
(***************************************************************************)
(* The handoff after an operator key rotation (src/src/cli.ts).  `operator *)
(* key rotate` saves the successor identity and leaves a marker file; each *)
(* supervised `serve` process claims a restart in the marker once the      *)
(* grace period is over and exits; its successor registers, completes its  *)
(* part, and the last one removes the marker.                              *)
(*                                                                         *)
(* The processes share nothing but the file, which each of them reads, and *)
(* then truncates and fills, with the others running in between.           *)
(***************************************************************************)
EXTENDS Naturals, FiniteSets

CONSTANTS
  Nodes,       \* saved nodes of the operator: the affected_node_names
  Supervised,  \* those whose process runs under a supervisor
  HoBudget     \* bound on crashes and failed registrations

ASSUME HandoffAssumption ==
  /\ IsFiniteSet(Nodes)
  /\ Supervised \subseteq Nodes
  /\ HoBudget \in Nat

VARIABLES
  rotation,  \* of the key: none, saved (operator file), marked, due (grace over)
  marker,    \* the file: its state and what it says
  hoAt,      \* of each process
  hoSeen,    \* the marker as the process last read it
  key,       \* the identity the process loaded
  claims,    \* restarts of a node for this handoff (history)
  hoBudget   \* what is left of HoBudget

HoVars == <<rotation, marker, hoAt, hoSeen, key, claims, hoBudget>>

Contents == [requested : SUBSET Nodes, completed : SUBSET Nodes]
Nothing == [requested |-> {}, completed |-> {}]

Absent == [state |-> "absent", says |-> Nothing]
Torn == [state |-> "torn", says |-> Nothing]
Written(says) == [state |-> "written", says |-> says]

HoTypeOK ==
  /\ rotation \in {"none", "saved", "marked", "due"}
  /\ marker \in {Absent, Torn} \cup {Written(c) : c \in Contents}
  /\ hoAt \in [Nodes -> {"down", "registering", "completing", "completed",
                         "serving", "claiming", "claimed"}]
  /\ hoSeen \in [Nodes -> Contents]
  /\ key \in [Nodes -> {"old", "successor"}]
  /\ claims \in [Nodes -> Nat]
  /\ hoBudget \in 0 .. HoBudget

HoInit ==
  /\ rotation = "none"
  /\ marker = Absent
  /\ hoAt = [n \in Nodes |-> "serving"]
  /\ hoSeen = [n \in Nodes |-> Nothing]
  /\ key = [n \in Nodes |-> "old"]
  /\ claims = [n \in Nodes |-> 0]
  /\ hoBudget = HoBudget

HoSpend == hoBudget > 0 /\ hoBudget' = hoBudget - 1

Goto(n, place) == hoAt' = [hoAt EXCEPT ![n] = place]

-----------------------------------------------------------------------------
(* operator key rotate: the identity first, the marker last.               *)

SaveSuccessor ==
  /\ rotation = "none"
  /\ rotation' = "saved"
  /\ UNCHANGED <<marker, hoAt, hoSeen, key, claims, hoBudget>>

WriteMarker ==
  /\ rotation = "saved"
  /\ rotation' = "marked"
  /\ marker' = Written(Nothing)
  /\ UNCHANGED <<hoAt, hoSeen, key, claims, hoBudget>>

GraceEnds ==
  /\ rotation = "marked"
  /\ rotation' = "due"
  /\ UNCHANGED <<marker, hoAt, hoSeen, key, claims, hoBudget>>

-----------------------------------------------------------------------------
(* The file.  writeFileSync truncates it, or makes a new one, and then     *)
(* fills what is still linked; over the longer text of another writer it   *)
(* leaves a tail.                                                          *)

Truncate == marker' = Torn

Fill(says) ==
  \/ marker.state = "absent" /\ UNCHANGED marker
  \/ marker.state # "absent" /\ marker' = Written(says)
  \/ marker.state = "written" /\ marker' = Torn

-----------------------------------------------------------------------------
(* A process.                                                              *)

Start(n) ==
  /\ hoAt[n] = "down"
  /\ Goto(n, "registering")
  /\ key' = [key EXCEPT ![n] = IF rotation = "none" THEN "old" ELSE "successor"]
  /\ UNCHANGED <<rotation, marker, hoSeen, claims, hoBudget>>

\* Slip: any registered node completes its part, claimed or not.
MayCompleteUnclaimed(n) == marker.state = "written"

(* Only the successor that claimed a restart may complete.                 *)
MayComplete(n) == marker.state = "written" /\ n \in marker.says.requested

Registered(n) ==
  /\ hoAt[n] = "registering"
  /\ IF MayComplete(n)
     THEN Goto(n, "completing") /\ hoSeen' = [hoSeen EXCEPT ![n] = marker.says]
     ELSE Goto(n, "serving") /\ UNCHANGED hoSeen
  /\ UNCHANGED <<rotation, marker, key, claims, hoBudget>>

RegistrationFails(n) ==
  /\ hoAt[n] = "registering"
  /\ HoSpend
  /\ Goto(n, "serving")
  /\ UNCHANGED <<rotation, marker, hoSeen, key, claims>>

WithCompletion(n) ==
  [hoSeen[n] EXCEPT !.completed = @ \cup {n}]

Complete(n) ==
  /\ hoAt[n] = "completing"
  /\ IF WithCompletion(n).completed = Nodes
     THEN marker' = Absent /\ Goto(n, "serving")
     ELSE Truncate /\ Goto(n, "completed")
  /\ UNCHANGED <<rotation, hoSeen, key, claims, hoBudget>>

FillCompleted(n) ==
  /\ hoAt[n] = "completed"
  /\ Fill(WithCompletion(n))
  /\ Goto(n, "serving")
  /\ UNCHANGED <<rotation, hoSeen, key, claims, hoBudget>>

(* handoffRestartDelay is 0.                                               *)
Due(n) ==
  /\ rotation = "due" /\ marker.state = "written"
  /\ n \notin marker.says.requested \cup marker.says.completed

Check(n) ==
  /\ hoAt[n] = "serving" /\ n \in Supervised
  /\ Due(n)
  /\ Goto(n, "claiming")
  /\ hoSeen' = [hoSeen EXCEPT ![n] = marker.says]
  /\ UNCHANGED <<rotation, marker, key, claims, hoBudget>>

Claim(n) ==
  /\ hoAt[n] = "claiming"
  /\ Truncate
  /\ Goto(n, "claimed")
  /\ UNCHANGED <<rotation, hoSeen, key, claims, hoBudget>>

\* Slip: the claim is written and the process goes on serving.
ExitNever(n) ==
  /\ hoAt[n] = "claimed"
  /\ Fill([hoSeen[n] EXCEPT !.requested = @ \cup {n}])
  /\ Goto(n, "serving")
  /\ UNCHANGED <<rotation, hoSeen, key, claims, hoBudget>>

(* The claim is written and the process exits, to be started again.        *)
Exit(n) ==
  /\ hoAt[n] = "claimed"
  /\ Fill([hoSeen[n] EXCEPT !.requested = @ \cup {n}])
  /\ Goto(n, "down")
  /\ claims' = [claims EXCEPT ![n] = @ + 1]
  /\ UNCHANGED <<rotation, hoSeen, key, hoBudget>>

ProcessCrashes(n) ==
  /\ hoAt[n] # "down"
  /\ HoSpend
  /\ Goto(n, "down")
  /\ UNCHANGED <<rotation, marker, hoSeen, key, claims>>

Process(n) ==
  \/ Start(n) \/ Registered(n) \/ Complete(n) \/ FillCompleted(n)
  \/ Check(n) \/ Claim(n) \/ Exit(n)

HoNext ==
  \/ SaveSuccessor \/ WriteMarker \/ GraceEnds
  \/ \E n \in Nodes : \/ Start(n) \/ Registered(n) \/ RegistrationFails(n)
                      \/ Complete(n) \/ FillCompleted(n)
                      \/ Check(n) \/ Claim(n) \/ Exit(n) \/ ProcessCrashes(n)

(* The rotation finishes, a process runs and checks again, the supervisor  *)
(* starts it again.                                                        *)
HoFairness ==
  /\ WF_HoVars(SaveSuccessor)
  /\ WF_HoVars(WriteMarker)
  /\ WF_HoVars(GraceEnds)
  /\ \A n \in Nodes : WF_HoVars(Process(n))

HoSpec == HoInit /\ [][HoNext]_HoVars /\ HoFairness

-----------------------------------------------------------------------------
(* Properties.                                                             *)

(* The marker is gone only after every affected node runs the successor    *)
(* identity: an unclaimed handoff is not erased.                           *)
ErasedWhenDone ==
  rotation \in {"marked", "due"} /\ marker = Absent
    => \A n \in Nodes : key[n] = "successor"

(* In the end every supervised node runs the successor identity, unless    *)
(* the marker stays unreadable.                                            *)
HandsOver ==
  <>[](marker = Torn \/ \A n \in Supervised : key[n] = "successor")

(* "completed/restarted services never restart twice"                      *)
NeverRestartsTwice == \A n \in Nodes : claims[n] <= 1
=============================================================================
