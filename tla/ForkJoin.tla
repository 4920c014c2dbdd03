------------------------------ MODULE ForkJoin ------------------------------
(***************************************************************************)
(* What a call of li_par_pool_fork_join promises its caller, whatever the  *)
(* schedule and the team: the body runs once for every iteration of the    *)
(* call, in any order and in any grouping, and the call returns after all  *)
(* of them ran and not before.                                             *)
(***************************************************************************)
EXTENDS Integers

CONSTANT MaxTrip       \* the largest number of iterations of a call

Indices == 0 .. (MaxTrip - 1)

VARIABLES
  phase,               \* "idle" between calls, "running" during one
  trip,                \* the number of iterations of the last call
  ran                  \* how often the body ran for each index in that call

vars == <<phase, trip, ran>>

Init ==
  /\ phase = "idle"
  /\ trip = 0
  /\ ran = [i \in Indices |-> 0]

Call ==
  /\ phase = "idle"
  /\ phase' = "running"
  /\ trip' \in 1 .. MaxTrip
  /\ ran' = [i \in Indices |-> 0]

\* Some iterations that did not run yet run.
Run ==
  /\ phase = "running"
  /\ \E S \in SUBSET {i \in Indices : i < trip /\ ran[i] = 0} :
       /\ S # {}
       /\ ran' = [i \in Indices |-> ran[i] + (IF i \in S THEN 1 ELSE 0)]
  /\ UNCHANGED <<phase, trip>>

Return ==
  /\ phase = "running"
  /\ \A i \in Indices : i < trip => ran[i] = 1
  /\ phase' = "idle"
  /\ UNCHANGED <<trip, ran>>

Next == Call \/ Run \/ Return

Spec == Init /\ [][Next]_vars

\* A caller may stop calling; a call that was made runs and returns.
FairSpec == Spec /\ WF_vars(Run) /\ WF_vars(Return)
=============================================================================
