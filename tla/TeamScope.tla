------------------------------ MODULE TeamScope ------------------------------
(***************************************************************************)
(* Scoped teams: a compiled `team(cores=N)` block calls                    *)
(* li_exec_team_push(N) before its body and li_exec_team_pop() after it    *)
(* (runtime/li_exec_plan.c), and the loops in the body ask for a team      *)
(* where they start: `parallel for` through li_parallel_for_i64            *)
(* (runtime/li_par_pool.c), `reduce` through runtime/li_par_reduce.c. Both *)
(* get the team size that was baked in by the compiler; 0 if no flag set   *)
(* one.                                                                    *)
(***************************************************************************)
EXTENDS Integers, Sequences

CONSTANTS
  MaxCores,            \* li_par_max_threads()
  HostCores,           \* li_par_env_team_size(): the default of the host
  Baked,               \* runtime_team_size of the build
  StackSize,           \* LI_EXEC_TEAM_STACK
  MaxDepth,            \* bound: how deep blocks are nested
  Trips                \* the iterations a loop may have

VARIABLES
  g_li_par_pool_team,  \* 0: not set
  g_saved_team,        \* the teams below g_team_depth
  scopes,              \* history: the cores of the blocks that are open
  last                 \* history: the last loop, its team and what it asked for

vars == <<g_li_par_pool_team, g_saved_team, scopes, last>>

Smaller(a, b) == IF a < b THEN a ELSE b

\* li_par_pool_team_size
TeamSize == IF g_li_par_pool_team > 0 THEN g_li_par_pool_team ELSE HostCores

\* The cores of the innermost open block; cores=0 inherits.
Scope == IF scopes = <<>> THEN HostCores ELSE scopes[Len(scopes)]

\* The clamps of li_parallel_for_i64 and of li_parallel_for_reduce_f64 differ in
\* what stands for a team size of 0.
ClampFor(trip) ==
  Smaller(trip, Smaller(MaxCores, IF Baked > 0 THEN Baked ELSE HostCores))
ClampReduce(trip) ==
  Smaller(trip, Smaller(MaxCores, IF Baked > 0 THEN Baked ELSE TeamSize))

Init ==
  /\ g_li_par_pool_team = 0
  /\ g_saved_team = <<>>
  /\ scopes = <<>>
  /\ last = [kind |-> "none", team |-> 0, trip |-> 0, scope |-> 0]

\* li_exec_team_push, called for a block that opens.
Push(cores) ==
  /\ Len(scopes) < MaxDepth
  /\ scopes' = Append(scopes, IF cores > 0 THEN cores ELSE Scope)
  /\ g_li_par_pool_team' = IF cores > 0 THEN cores ELSE TeamSize
  /\ g_saved_team' = IF Len(g_saved_team) < StackSize
                     THEN Append(g_saved_team, TeamSize)
                     ELSE g_saved_team
  /\ UNCHANGED last

\* li_exec_team_pop, called for a block that ends.
Pop ==
  /\ scopes # <<>>
  /\ scopes' = SubSeq(scopes, 1, Len(scopes) - 1)
  /\ IF g_saved_team = <<>>
     THEN /\ g_li_par_pool_team' = 0
          /\ UNCHANGED g_saved_team
     ELSE /\ g_li_par_pool_team' = g_saved_team[Len(g_saved_team)]
          /\ g_saved_team' = SubSeq(g_saved_team, 1, Len(g_saved_team) - 1)
  /\ UNCHANGED last

ParallelFor(trip) ==
  /\ last' = [kind |-> "for", team |-> ClampFor(trip), trip |-> trip,
              scope |-> Scope]
  /\ UNCHANGED <<g_li_par_pool_team, g_saved_team, scopes>>

Reduce(trip) ==
  /\ last' = [kind |-> "reduce", team |-> ClampReduce(trip), trip |-> trip,
              scope |-> Scope]
  /\ UNCHANGED <<g_li_par_pool_team, g_saved_team, scopes>>

Next ==
  \/ \E cores \in 0 .. MaxCores : Push(cores)
  \/ Pop
  \/ \E trip \in Trips : ParallelFor(trip) \/ Reduce(trip)

Spec == Init /\ [][Next]_vars

-----------------------------------------------------------------------------
\* A loop in a team block runs on no more threads than the innermost open block
\* gives it.
LoopsInScope ==
  last.kind # "none" => last.team <= last.scope
=============================================================================
