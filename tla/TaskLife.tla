------------------------------ MODULE TaskLife ------------------------------
(***************************************************************************)
(* What the service lifecycle promises of a task (service_lifecycle.ts):   *)
(* its events are numbered without a gap, its final event is its last, and *)
(* its record is forgotten only when it is final.  A store that restarts   *)
(* from a snapshot resumes every task where the snapshot had it.           *)
(***************************************************************************)
EXTENDS Naturals

CONSTANTS Tasks, States, Final, Absent

VARIABLES
  life,    \* the state of each task, or Absent
  number,  \* the number of its last event
  kept     \* what the last snapshot has of each task

Alive(t) == life[t] \in States \ Final

Init ==
  /\ life = [t \in Tasks |-> Absent]
  /\ number = [t \in Tasks |-> 0]
  /\ kept = [life |-> life, number |-> number]

Begin(t) ==
  /\ life[t] = Absent
  /\ \E s \in States \ Final : life' = [life EXCEPT ![t] = s]
  /\ number' = [number EXCEPT ![t] = 0]
  /\ UNCHANGED kept

Move(t) ==
  /\ Alive(t)
  /\ \E s \in States : life' = [life EXCEPT ![t] = s]
  /\ number' = [number EXCEPT ![t] = number[t] + 1]
  /\ UNCHANGED kept

Forget(t) ==
  /\ life[t] \in Final
  /\ life' = [life EXCEPT ![t] = Absent]
  /\ number' = [number EXCEPT ![t] = 0]
  /\ UNCHANGED kept

Save ==
  /\ kept' = [life |-> life, number |-> number]
  /\ UNCHANGED <<life, number>>

Restart ==
  /\ life' = kept.life
  /\ number' = kept.number
  /\ UNCHANGED kept

Next ==
  \/ \E t \in Tasks : Begin(t) \/ Move(t) \/ Forget(t)
  \/ Save \/ Restart

Spec == Init /\ [][Next]_<<life, number, kept>>
=============================================================================
