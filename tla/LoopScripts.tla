---------------------------- MODULE LoopScripts ----------------------------
(***************************************************************************)
(* The eight plan loops, scripts/...-plan-loop.py: each picks a todo       *)
(* of a plan file, lets an agent work on it, runs gates and records the    *)
(* todo as completed in its state.json.  This module holds what differs    *)
(* between the scripts: how each picks, the order of the steps of its main *)
(* loop, the exit codes of its agent, what it tells the agent to write and *)
(* how it rescues unpushed work.  PlanLoop runs them.                      *)
(*                                                                         *)
(* Todos are numbered in the lexicographic order of their ids, and a plan  *)
(* is a function from todos to statuses.  What a script reads off an id    *)
(* (its prefix, wave or algorithm family) is the todo's label.             *)
(***************************************************************************)
EXTENDS Integers, Sequences, FiniteSets

Kinds == {"httpd", "compiler", "world", "uiux",
          "sim", "research", "security", "swarm"}

NoTodo == 0

Open == {"pending", "in_progress"}

(* A plausible bug: the ids of state.json are not looked at. *)
StillOpen(plan, done) == {t \in DOMAIN plan : plan[t] \in Open}
OpenTodos(plan, done) == {t \in DOMAIN plan : plan[t] \in Open /\ t \notin done}

Labelled(S, label, L) == {t \in S : label[t] \in L}

(* The first of S in the order of a sort key, NoTodo when S is empty. *)
LeastBy(S, key) ==
  IF S = {} THEN NoTodo
  ELSE CHOOSE t \in S : \A u \in S : key[t] <= key[u]

Urgency(status) == IF status = "in_progress" THEN 0 ELSE 1

-----------------------------------------------------------------------------
(* Picking a todo. *)

(* An id m15-... starts with m1 and so never reaches a tier of its own. *)
ServerTier(l) ==
  CASE l = "w0" -> 0 [] l = "w1" -> 1 [] l = "m0" -> 2 [] l \in {"m1", "m15"} -> 3
    [] l = "m2" -> 5 [] l = "m3" -> 6 [] l = "h" -> 7 [] l = "gap" -> 8
    [] OTHER -> 9

ServerMilestones == {"w0", "w1", "m0", "m1", "m15", "m2", "m3", "gap", "nginx"}

(* A plausible bug: without GAP_ONLY nothing but gaps is picked either. *)
HttpdPickGaps(plan, done, label, env) ==
  LET gaps == Labelled(OpenTodos(plan, done), label, {"gap"})
  IN LeastBy(gaps, [t \in gaps |-> 1000 * Urgency(plan[t]) + t])

(* env holds the switches GAP_ONLY, CLOSE_SERVER_MILESTONES and            *)
(* INCLUDE_BLOCKERS of the environment.                                    *)
HttpdPick(plan, done, label, env) ==
  LET open   == OpenTodos(plan, done)
      gaps   == Labelled(open, label, {"gap"})
      server == Labelled(open, label, ServerMilestones)
      m1     == Labelled(open, label, {"m1", "m15"})
      scope  == CASE env.gapOnly \/ gaps # {} -> gaps
                  [] env.closeServer -> IF server # {} THEN server ELSE open
                  [] ~env.blockers /\ m1 # {} -> m1
                  [] OTHER -> open
  IN LeastBy(scope, [t \in scope |-> 1000 * Urgency(plan[t])
                                       + 100 * ServerTier(label[t]) + t])

(* Inside wave A, ids that name 7e or 2f come first. *)
CompilerTier(l) ==
  CASE l = "wave-a-7e" -> 0 [] l = "wave-a" -> 1 [] l = "wave-b" -> 2
    [] l = "wave-c" -> 3 [] l = "studio" -> 4 [] OTHER -> 5

CompilerPick(plan, done, label) ==
  LET open == OpenTodos(plan, done)
  IN LeastBy(open, [t \in open |-> 1000 * Urgency(plan[t])
                                     + 100 * CompilerTier(label[t]) + t])

WaveTier(l) == CASE l = "w0" -> 0 [] l = "w1" -> 1 [] OTHER -> 99

WorldPick(plan, done, label, pos) ==
  LET open == Labelled(OpenTodos(plan, done), label, {"w0", "w1"})
  IN LeastBy(open, [t \in open |-> 10000 * Urgency(plan[t])
                                     + 100 * WaveTier(label[t]) + pos[t]])

UiUxPick(plan, done, label) ==
  LET open == Labelled(OpenTodos(plan, done), label, {"studio-ux"})
  IN LeastBy(open, [t \in open |-> 100 * Urgency(plan[t]) + t])

(* An algorithm of the registry is a todo that is "completed" once its     *)
(* implemented_smoke is set.  The registry is searched by family, and the  *)
(* search does not look at the completed ids.                              *)
Families == <<"md", "pde">>
FamilyRank(l) == CHOOSE i \in DOMAIN Families : Families[i] = l

NextRegistryAlgo(plan, label) ==
  LET algos == {t \in DOMAIN plan : /\ \E i \in DOMAIN Families : Families[i] = label[t]
                                    /\ plan[t] # "completed"}
  IN LeastBy(algos, [t \in algos |-> 100 * FamilyRank(label[t]) + t])

Backlog(S, label) == Labelled(S, label, {"backlog"})

FirstInFile(S, pos) == LeastBy(S, [t \in S |-> pos[t]])

SimPick(plan, done, label, pos) ==
  LET todo == FirstInFile(Backlog(OpenTodos(plan, done), label), pos)
  IN IF todo # NoTodo THEN todo ELSE NextRegistryAlgo(plan, label)

Registry(plan, label) == DOMAIN plan \ Backlog(DOMAIN plan, label)
RegistryComplete(plan, label) == \A t \in Registry(plan, label) : plan[t] = "completed"

ResearchPick(plan, done, pos) == FirstInFile(OpenTodos(plan, done), pos)
SecurityPick(plan, done, pos) == FirstInFile(OpenTodos(plan, done), pos)
SwarmPick(plan, done, pos)    == FirstInFile(OpenTodos(plan, done), pos)

-----------------------------------------------------------------------------
(* The order of the steps of an iteration, one list for each script. *)

HttpdMain ==
  <<"pick", "precheck", "agent", "recover", "stop-agent-saving", "gates", "history",
    "stop-gates", "refresh", "append", "save", "reload">>

(* No gates between the agent and the record of completion. *)
CompilerMain ==
  <<"pick", "precheck", "agent", "recover", "history", "stop-agent",
    "refresh", "append", "save", "reload">>

(* A plausible bug: completion is recorded before the gates are looked at. *)
WorldRecordsFirst ==
  <<"pick", "agent", "recover", "stop-agent", "gates", "report", "push", "mark",
    "history", "append", "save", "stop-gates", "reload">>
WorldMain ==
  <<"pick", "agent", "recover", "stop-agent", "gates", "report", "push", "mark",
    "history", "stop-gates", "append", "save", "reload">>

UiUxMain ==
  <<"pick", "agent", "recover", "stop-agent", "gates", "report", "push",
    "history", "refresh", "stop-gates", "append", "save", "reload">>

SimMain ==
  <<"pick", "agent", "recover", "gates", "push", "history", "stop-agent", "stop-gates",
    "append", "save", "registry", "reload">>

ResearchMain ==
  <<"pick", "agent", "gates", "history", "stop-agent", "stop-gates", "handoff",
    "append", "mark", "save", "push", "refresh", "reload">>

SecurityMain ==
  <<"pick", "agent", "gates", "history", "stop-agent", "stop-gates",
    "append", "mark", "save", "push", "refresh", "reload">>

SwarmMain ==
  <<"pick", "prep", "agent", "gates", "history", "stop-agent", "stop-gates",
    "append", "mark", "save", "push", "refresh", "reload">>

-----------------------------------------------------------------------------
(* The agent: its time limit, its exit codes and what it is told to write. *)

(* The variable of the environment may switch the limit off; a value that  *)
(* is no number falls back to the default.                                 *)
HttpdDeadline(raw)    == raw # "off"
CompilerDeadline(raw) == raw # "off"
WorldDeadline(raw)    == raw # "off"
UiUxDeadline(raw)     == raw # "off"
SimDeadline(raw)      == raw # "off"
ResearchDeadline(raw) == raw # "off"
SecurityDeadline(raw) == raw # "off"
SwarmDeadline(raw)    == raw # "off"

(* What the exit code of a killed agent is: 124, or that of the signal.    *)
HttpdTimeout == 124
CompilerTimeout == 124
WorldTimeout == -9
UiUxTimeout == -9

(* 2 when the agents' checkout or the key is missing, else that of the agent. *)
HttpdCodes    == {0, 1, 2, HttpdTimeout}
CompilerCodes == {0, 1, 2, CompilerTimeout}
WorldCodes    == {0, 1, 2, WorldTimeout}
UiUxCodes     == {0, 1, 2, UiUxTimeout}
SimCodes      == {0, 1, 2, 124}
ResearchCodes == {0, 1, 2, 124}
SecurityCodes == {0, 1, 2, 124}
SwarmCodes    == {0, 1, 2, 124}

(* The statuses the instruction asks the agent to write for its todo; the  *)
(* agent may also leave the plan alone.                                    *)
HttpdTold    == {"completed"}
CompilerTold == {"completed"}
WorldTold    == {"done"}
UiUxTold     == {"completed"}
SimTold      == {"completed"}
ResearchTold == {}
SecurityTold == {}
SwarmTold    == {}

(* What the script itself writes into the plan at its "mark" step. *)
WorldMark    == "done"
ResearchMark == "completed"
SecurityMark == "completed"
SwarmMark    == "completed"

-----------------------------------------------------------------------------
(* Rescue of unpushed work: a checkout has a head (on the loop's branch,   *)
(* on another branch or detached), edits that are not committed, the heads *)
(* with commits no remote has, and the heads whose commits were dropped.   *)

Heads == {"loop", "other", "detached"}
Checkout == [head: Heads, dirty: BOOLEAN, ahead: SUBSET Heads, lost: SUBSET Heads]

Committed(c) == [c EXCEPT !.dirty = FALSE,
                          !.ahead = IF c.dirty THEN @ \cup {c.head} ELSE @]

(* git checkout -B branch origin/branch drops what the local branch had    *)
(* and the remote one had not, and what only a detached head had.          *)
Reset(c) ==
  LET dropped == c.ahead \cap (IF c.head = "detached" THEN {"loop", "detached"} ELSE {"loop"})
  IN [c EXCEPT !.head = "loop", !.ahead = @ \ dropped, !.lost = @ \cup dropped]

(* git refuses when it would overwrite edits, and nobody reads its result. *)
Reattached(c) ==
  IF c.head = "loop" THEN {c}
  ELSE IF c.dirty THEN {c, Reset(c)} ELSE {Reset(c)}

(* The branch is pushed when the head, whatever it is, has new commits. *)
PushBranch(c) == IF c.head \in c.ahead THEN {c, [c EXCEPT !.ahead = @ \ {"loop"}]} ELSE {c}
PushHead(c)   == IF c.head \in c.ahead THEN {c, [c EXCEPT !.ahead = @ \ {c.head}]} ELSE {c}

(* A plausible bug: a checkout on another branch is not skipped. *)
PushAnyBranch(c) == UNION {PushBranch(Committed(d)) : d \in Reattached(c)}
PushRepo(c) ==
  IF c.head = "other" THEN {c}
  ELSE UNION {PushBranch(Committed(d)) : d \in Reattached(c)}

HttpdRecover(c)    == PushRepo(c)
CompilerRecover(c) == PushRepo(c)
WorldRecover(c)    == PushRepo(c)
UiUxRecover(c)     == PushRepo(c)

(* The simulation loop pushes its head, whatever branch that is. *)
SimRecover(c) == PushHead(Committed(c))

(* The research loops commit everything and push their head. *)
ResearchPush(c) == PushHead(Committed(c))
SecurityPush(c) == PushHead(Committed(c))
SwarmPush(c)    == PushHead(Committed(c))

(* The commit scripts of the other loops first move to the loop's branch:  *)
(* they reset it to the remote one, or keep the head when that fails.      *)
CommitScript(c) ==
  LET onBranch == IF c.head = "loop" THEN {c} ELSE {Reset(c), [c EXCEPT !.head = "loop"]}
  IN UNION {PushHead(Committed(d)) : d \in onBranch}

WorldPush(c) == CommitScript(c)
UiUxPush(c)  == CommitScript(c)
SimPush(c)   == CommitScript(c)
=============================================================================
