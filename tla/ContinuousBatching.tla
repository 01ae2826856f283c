-------------------------- MODULE ContinuousBatching --------------------------
(***************************************************************************)
(* What the scheduler promises, whatever loop drives it: requests wait in  *)
(* arrival order, a replica takes the oldest one when it has a free slot,  *)
(* any number of active requests make progress together, and a request     *)
(* keeps its slot until it has no work left and loses it at once then.     *)
(***************************************************************************)
EXTENDS Integers, FiniteSets, Sequences

CONSTANTS
  Seqs,       \* identities of requests
  Replicas,   \* the replicas
  Slots       \* requests one replica can work on

VARIABLES
  waiting,    \* requests without a slot, oldest first
  active,     \* requests each replica works on
  left        \* tokens each request still needs

vars == <<waiting, active, left>>

Active == UNION {active[r] : r \in Replicas}
Queued == {waiting[i] : i \in 1 .. Len(waiting)}

Init ==
  /\ waiting = << >>
  /\ active = [r \in Replicas |-> {}]
  /\ left \in [Seqs -> Nat]

Arrive(s) ==
  /\ s \notin Active \cup Queued
  /\ waiting' = Append(waiting, s)
  /\ \A u \in Seqs \ {s} : left'[u] = left[u]
  /\ left'[s] \in Nat
  /\ UNCHANGED active

Admit(r) ==
  /\ waiting # << >>
  /\ Cardinality(active[r]) < Slots
  /\ active' = [active EXCEPT ![r] = @ \cup {Head(waiting)}]
  /\ waiting' = Tail(waiting)
  /\ UNCHANGED left

Progress ==
  /\ \A s \in Seqs :
       IF s \in Active THEN left'[s] \in 0 .. left[s] ELSE left'[s] = left[s]
  /\ active' = [r \in Replicas |-> {s \in active[r] : left'[s] # 0}]
  /\ UNCHANGED waiting

Next ==
  \/ \E s \in Seqs : Arrive(s)
  \/ \E r \in Replicas : Admit(r)
  \/ Progress

Spec == Init /\ [][Next]_vars

=============================================================================
