------------------------------- MODULE MCDpar -------------------------------
(* The jobs of the runs of Dpar.                                           *)
EXTENDS Dpar

Job(w, root, program, exits) ==
  [world |-> w, root |-> root, program |-> program, exits |-> exits]

\* Every operation in a world of two; in larger worlds barriers, with ranks that
\* do not get connected, and the sequence of test/li_dpar_collective_smoke.c.
SoundJobs ==
  {Job(2, root, <<"bcast", "allreduce", "scatter", "gather", "scan", "barrier">>, 1) :
     root \in {0, 1}}
  \cup {Job(w, 0, <<"barrier", "barrier">>, 2) : w \in {3, 4}}
  \cup {Job(w, 0, <<"scatter", "gather", "scan", "barrier">>, 0) : w \in {3, 4}}

ThreeAllreduce == {Job(3, 0, <<"allreduce">>, 0)}
GatherAtLast == {Job(3, 2, <<"gather">>, 0)}
=============================================================================
