---------------------------- MODULE MCPlanLoop ----------------------------
(* Two todos of each kind of plan, in a file order that is not that of the *)
(* ids.  What an agent leaves in the checkout never decides what a loop    *)
(* does next, so agents that leave work behind come without an operator.   *)
EXTENDS PlanLoop

MCTodos == 1..2
MCPlaces == [t \in MCTodos |-> 3 - t]
MCPlans == {<<"pending", "in_progress">>, <<"in_progress", "completed">>}

Base(l) == [gapOnly |-> FALSE, closeServer |-> FALSE, blockers |-> FALSE, limit |-> "number",
            token |-> TRUE, agents |-> "tidy", operator |-> FALSE, label |-> l]
Marking(l)   == [Base(l) EXCEPT !.operator = TRUE]
Messy(l)     == [Base(l) EXCEPT !.agents = "messy", !.limit = "garbled"]
Detaching(l) == [Base(l) EXCEPT !.agents = "detaching"]
Endless(l)   == [Base(l) EXCEPT !.limit = "off", !.token = FALSE]

HttpdLabels == {<<"gap", "m1">>, <<"m1", "m15">>, <<"prob", "m1">>, <<"m15", "w0">>}

MCSettings ==
  [k \in Kinds |->
    CASE k = "httpd" ->
           {Base(l) : l \in HttpdLabels}
           \cup {[Base(l) EXCEPT !.blockers = TRUE] : l \in HttpdLabels}
           \cup {[Base(l) EXCEPT !.closeServer = TRUE, !.gapOnly = g] :
                  l \in HttpdLabels, g \in BOOLEAN}
           \cup {Marking(<<"m1", "m15">>)}
      [] k = "compiler" ->
           {Base(<<"studio", "wave-a">>), Marking(<<"wave-a", "wave-a-7e">>),
            Messy(<<"wave-a", "wave-b">>), Endless(<<"wave-a", "wave-b">>)}
      [] k = "world" ->
           {Base(<<"other", "w1">>), Marking(<<"w0", "w1">>), Detaching(<<"w1", "other">>)}
      [] k = "uiux" ->
           {Base(<<"other", "studio-ux">>), Marking(<<"studio-ux", "studio-ux">>)}
      [] k = "sim" ->
           {Base(<<"backlog", "md">>), Base(<<"pde", "md">>), Messy(<<"backlog", "backlog">>)}
      [] k = "research" -> {Base(<<"r", "r">>)}
      [] k = "security" -> {Base(<<"r", "r">>)}
      [] k = "swarm"    -> {Messy(<<"r", "r">>)}]
===========================================================================
