------------------------------ MODULE PlanLoop ------------------------------
(***************************************************************************)
(* One plan loop at work: the loop's process, which may be killed and      *)
(* started again at any time, its plan file, its checkout, its state.json, *)
(* and an operator who runs the same script with --mark-done meanwhile.    *)
(* The loop is a program: the list of steps LoopScripts gives its script.  *)
(***************************************************************************)
EXTENDS LoopScripts

CONSTANTS
  Todos,    \* the todos of a plan, 1..n
  Settings, \* [Kinds -> set of environments], see Environment
  Plans,    \* the plans to begin with, a set of [Todos -> status]
  Places    \* [Todos -> Nat]: where in the file a todo stands

(* The statuses an entry has; "gone" is a todo whose entry a cut-off write  *)
(* of the plan file lost.                                                  *)
Statuses == Open \cup {"completed", "done", "gone"}

(* The switches of the environment, what the ids look like, and how the    *)
(* agents and the operator behave: tidy agents push everything and stay on *)
(* the loop's branch, messy ones need not, detaching ones may leave the    *)
(* head detached.                                                          *)
Environment ==
  [gapOnly: BOOLEAN, closeServer: BOOLEAN, blockers: BOOLEAN,
   limit: {"off", "number", "garbled"}, token: BOOLEAN,
   agents: {"tidy", "messy", "detaching"}, operator: BOOLEAN,
   label: [Todos -> STRING]]

ASSUME TodosAssumption == Todos \subseteq Nat \ {0} /\ IsFiniteSet(Todos)
(* An algorithm of the registry belongs to a family of the loop's list:    *)
(* build_algo_registry.py writes no other.                                 *)
ASSUME SettingsAssumption ==
  \A k \in Kinds : \A e \in Settings[k] :
    /\ e.agents \in {"tidy", "messy", "detaching"}
    /\ k # "httpd" => ~e.gapOnly /\ ~e.closeServer /\ ~e.blockers
    /\ k = "sim" => \A t \in Todos :
         e.label[t] \in {"backlog"} \cup {Families[i] : i \in DOMAIN Families}
ASSUME PlacesAssumption == Places \in [Todos -> Nat]
ASSUME PlansAssumption == \A p \in Plans : p \in [Todos -> Statuses]

VARIABLES
  kind,     \* which of the eight loops
  env,      \* the switches of the environment and what the ids look like
  plan,     \* the plan file: [Todos -> status]
  checkout, \* the repository the agent works in
  disk,     \* state.json
  pc,       \* the step the process is at; 0: no process
  mem,      \* the process's copy of state.json
  todos,    \* the process's copy of the plan
  work,     \* the todo of this iteration
  code,     \* the agent's exit code
  ok,       \* the result of the last gates
  after,    \* the last gates ran after the agent
  once,     \* --once
  said,     \* how the last process ended
  op,       \* the --mark-done process: its todo and its copy of state.json
  marked,   \* the todos an operator marked
  raced,    \* the operator and the loop wrote files from overlapping copies
  recorded  \* a history variable: all that state.json ever recorded

params  == <<kind, env>>
process == <<pc, mem, todos, work, code, ok, after, once, said>>
files   == <<plan, checkout, disk>>
operator == <<op, marked>>
audit   == <<raced, recorded>>
vars == <<params, process, files, operator, audit>>

-----------------------------------------------------------------------------
(* The script of this loop. *)

Main ==
  CASE kind = "httpd" -> HttpdMain       [] kind = "compiler" -> CompilerMain
    [] kind = "world" -> WorldMain       [] kind = "uiux" -> UiUxMain
    [] kind = "sim" -> SimMain           [] kind = "research" -> ResearchMain
    [] kind = "security" -> SecurityMain [] kind = "swarm" -> SwarmMain

Pick(p, done) ==
  CASE kind = "httpd"    -> HttpdPick(p, done, env.label, env)
    [] kind = "compiler" -> CompilerPick(p, done, env.label)
    [] kind = "world"    -> WorldPick(p, done, env.label, Places)
    [] kind = "uiux"     -> UiUxPick(p, done, env.label)
    [] kind = "sim"      -> SimPick(p, done, env.label, Places)
    [] kind = "research" -> ResearchPick(p, done, Places)
    [] kind = "security" -> SecurityPick(p, done, Places)
    [] kind = "swarm"    -> SwarmPick(p, done, Places)

Codes ==
  CASE kind = "httpd" -> HttpdCodes       [] kind = "compiler" -> CompilerCodes
    [] kind = "world" -> WorldCodes       [] kind = "uiux" -> UiUxCodes
    [] kind = "sim" -> SimCodes           [] kind = "research" -> ResearchCodes
    [] kind = "security" -> SecurityCodes [] kind = "swarm" -> SwarmCodes

HasDeadline ==
  CASE kind = "httpd" -> HttpdDeadline(env.limit)       [] kind = "compiler" -> CompilerDeadline(env.limit)
    [] kind = "world" -> WorldDeadline(env.limit)       [] kind = "uiux" -> UiUxDeadline(env.limit)
    [] kind = "sim" -> SimDeadline(env.limit)           [] kind = "research" -> ResearchDeadline(env.limit)
    [] kind = "security" -> SecurityDeadline(env.limit) [] kind = "swarm" -> SwarmDeadline(env.limit)

Told ==
  CASE kind = "httpd" -> HttpdTold       [] kind = "compiler" -> CompilerTold
    [] kind = "world" -> WorldTold       [] kind = "uiux" -> UiUxTold
    [] kind = "sim" -> SimTold           [] kind = "research" -> ResearchTold
    [] kind = "security" -> SecurityTold [] kind = "swarm" -> SwarmTold

Recovered(c) ==
  CASE kind = "httpd" -> HttpdRecover(c) [] kind = "compiler" -> CompilerRecover(c)
    [] kind = "world" -> WorldRecover(c) [] kind = "uiux" -> UiUxRecover(c)
    [] kind = "sim" -> SimRecover(c)

CommittedAndPushed(c) ==
  CASE kind = "world" -> WorldPush(c)       [] kind = "uiux" -> UiUxPush(c)
    [] kind = "sim" -> SimPush(c)           [] kind = "research" -> ResearchPush(c)
    [] kind = "security" -> SecurityPush(c) [] kind = "swarm" -> SwarmPush(c)

MarkStatus ==
  CASE kind = "world" -> WorldMark       [] kind = "research" -> ResearchMark
    [] kind = "security" -> SecurityMark [] kind = "swarm" -> SwarmMark

-----------------------------------------------------------------------------
(* The steps of an iteration. *)

NoPlan == [t \in Todos |-> "completed"]
Fresh == [completed |-> {}, passed |-> {}]

Init ==
  /\ kind \in Kinds
  /\ env \in Settings[kind]
  /\ plan \in Plans
  /\ checkout = [head |-> "loop", dirty |-> FALSE, ahead |-> {}, lost |-> {}]
  /\ disk = [readable |-> TRUE, state |-> Fresh]
  /\ pc = 0 /\ mem = Fresh /\ todos = NoPlan /\ work = NoTodo
  /\ code = 0 /\ ok = FALSE /\ after = FALSE /\ once = FALSE /\ said = ""
  /\ op = [at |-> "idle", todo |-> NoTodo, mem |-> Fresh]
  /\ marked = {} /\ raced = FALSE /\ recorded = Fresh

At(step) == pc # 0 /\ Main[pc] = step
Locals == <<mem, todos, work, code, ok, after, once>>
Advance == pc' = pc + 1 /\ said' = said

(* The process ends and its memory is gone. *)
NoLocals == /\ mem' = Fresh /\ todos' = NoPlan /\ work' = NoTodo
            /\ code' = 0 /\ ok' = FALSE /\ after' = FALSE /\ once' = FALSE
Exit(how) == pc' = 0 /\ said' = how /\ NoLocals

(* The simulation loop does not begin when its registry, if any, is complete. *)
MayBegin ==
  kind = "sim" /\ Registry(plan, env.label) # {} => ~RegistryComplete(plan, env.label)

(* What a process takes over from the file, and a plausible bug: the        *)
(* completed ids start afresh with every process.                          *)
LoadedAfresh(d) == [d.state EXCEPT !.completed = {}]
Loaded(d) == d.state

Start ==
  /\ pc = 0 /\ disk.readable /\ MayBegin
  /\ pc' = 1 /\ said' = ""
  /\ mem' = Loaded(disk)
  /\ todos' = plan
  /\ once' \in BOOLEAN
  /\ work' = NoTodo /\ code' = 0 /\ ok' = FALSE /\ after' = FALSE
  /\ UNCHANGED <<params, files, operator, audit>>

PickTodo ==
  /\ At("pick")
  /\ LET t == Pick(todos, mem.completed)
     IN IF t = NoTodo
        THEN Exit("complete")
        ELSE /\ Advance /\ work' = t
             /\ UNCHANGED <<mem, todos, code, ok, after, once>>
  /\ UNCHANGED <<params, files, operator, audit>>

(* --dry-run and --skip-agent end the process before the agent. *)
LeaveEarly ==
  /\ At("agent")
  /\ Exit("stopped")
  /\ UNCHANGED <<params, files, operator, audit>>

Gates ==
  /\ At("precheck") \/ At("gates")
  /\ ok' \in BOOLEAN
  /\ after' = At("gates")
  /\ Advance
  /\ UNCHANGED <<mem, todos, work, code, once, params, files, operator, audit>>

(* swarm-gap-ingest and swarm-gap-apply-actions; a failure ends the loop. *)
Prep ==
  /\ At("prep")
  /\ \/ Advance /\ UNCHANGED Locals
     \/ Exit("failed")
  /\ UNCHANGED <<params, files, operator, audit>>

(* The agent edits, commits or pushes, may leave the branch, and may write *)
(* the status of its todo.  With code 2 it never ran.                      *)
AgentEdits(c) ==
  IF env.agents = "tidy" THEN {[c EXCEPT !.dirty = FALSE, !.ahead = @ \ {c.head}]}
  ELSE {[head |-> h, dirty |-> d, lost |-> c.lost,
         ahead |-> IF a THEN c.ahead \cup {h} ELSE c.ahead] :
          h \in IF env.agents = "messy" THEN {"loop", "other"} ELSE Heads,
          d \in BOOLEAN, a \in BOOLEAN}

RunAgent ==
  /\ At("agent")
  /\ code' \in Codes
  /\ IF code' = 2
     THEN UNCHANGED <<plan, checkout>>
     ELSE /\ \E s \in Told \cup {"in_progress", plan[work]} :
               plan' = [plan EXCEPT ![work] = s]
          /\ checkout' \in AgentEdits(checkout)
  /\ after' = FALSE
  /\ Advance
  /\ UNCHANGED <<mem, todos, work, ok, once, disk, params, operator, audit>>

Recover ==
  /\ At("recover")
  /\ IF env.token /\ code # 2
     THEN checkout' \in Recovered(checkout)
     ELSE checkout' = checkout
  /\ Advance
  /\ UNCHANGED <<Locals, plan, disk, params, operator, audit>>

Joined(m, n) == [completed |-> m.completed \cup n.completed, passed |-> m.passed \cup n.passed]

(* Writing state.json from the process's copy. *)
SaveState(m) ==
  /\ disk' = [readable |-> TRUE, state |-> m]
  /\ recorded' = Joined(recorded, m)
  /\ raced' = (raced \/ op.at = "loaded")

(* The entry of the iteration: passed holds the todos with an entry whose  *)
(* agent exited 0 and whose gates passed after it.                         *)
Recorded ==
  IF code = 0 /\ ok /\ after THEN [mem EXCEPT !.passed = @ \cup {work}] ELSE mem

History ==
  /\ At("history")
  /\ mem' = Recorded
  /\ SaveState(mem')
  /\ Advance
  /\ UNCHANGED <<todos, work, code, ok, after, once, plan, checkout, params, operator>>

StopIfAgentFailed ==
  /\ At("stop-agent") \/ At("stop-agent-saving")
  /\ IF code = 0 THEN Advance /\ UNCHANGED <<Locals, disk, audit>>
     ELSE /\ Exit("failed")
          /\ IF At("stop-agent-saving") THEN SaveState(mem) ELSE UNCHANGED <<disk, audit>>
  /\ UNCHANGED <<plan, checkout, params, operator>>

StopIfGatesFailed ==
  /\ At("stop-gates")
  /\ IF ok THEN Advance /\ UNCHANGED Locals ELSE Exit("failed")
  /\ UNCHANGED <<params, files, operator, audit>>

(* The iteration report, the capture and the refreshed canvases are files  *)
(* of the checkout; the pages of the httpd and compiler loops are not.     *)
WriteReports ==
  /\ At("report") \/ At("refresh")
  /\ checkout' = [checkout EXCEPT !.dirty = @ \/ kind \notin {"httpd", "compiler"}]
  /\ Advance
  /\ UNCHANGED <<Locals, plan, disk, params, operator, audit>>

(* Before the completion is recorded it is pushed only if the gates passed. *)
Push ==
  /\ At("push")
  /\ IF ok THEN checkout' \in CommittedAndPushed(checkout) ELSE checkout' = checkout
  /\ Advance
  /\ UNCHANGED <<Locals, plan, disk, params, operator, audit>>

(* The status is replaced where the entry of the todo is found. *)
Marked(p, t) == IF p[t] = "gone" THEN p ELSE [p EXCEPT ![t] = MarkStatus]
Changed(c) == [c EXCEPT !.dirty = @ \/ plan' # plan]

MarkPlan ==
  /\ At("mark")
  /\ plan' = IF ok THEN Marked(plan, work) ELSE plan
  /\ checkout' = Changed(checkout)
  /\ Advance
  /\ UNCHANGED <<Locals, disk, params, operator, audit>>

(* The backlog it writes belongs to another checkout. *)
Handoff ==
  /\ At("handoff")
  /\ Advance
  /\ UNCHANGED <<Locals, files, params, operator, audit>>

AppendCompleted ==
  /\ At("append")
  /\ mem' = [mem EXCEPT !.completed = @ \cup {work}]
  /\ Advance
  /\ UNCHANGED <<todos, work, code, ok, after, once, files, params, operator, audit>>

SaveCompleted ==
  /\ At("save")
  /\ SaveState(mem)
  /\ Advance
  /\ UNCHANGED <<Locals, plan, checkout, params, operator>>

StopIfRegistryComplete ==
  /\ At("registry")
  /\ IF RegistryComplete(plan, env.label) THEN Exit("registry")
     ELSE Advance /\ UNCHANGED Locals
  /\ UNCHANGED <<files, params, operator, audit>>

Reload ==
  /\ At("reload")
  /\ IF once THEN Exit("stopped")
     ELSE /\ pc' = 1 /\ todos' = plan
          /\ work' = NoTodo /\ code' = 0 /\ ok' = FALSE /\ after' = FALSE
          /\ UNCHANGED <<said, mem, once>>
  /\ UNCHANGED <<files, params, operator, audit>>

Step ==
  \/ PickTodo \/ LeaveEarly \/ Gates \/ Prep \/ RunAgent \/ Recover \/ History
  \/ StopIfAgentFailed \/ StopIfGatesFailed \/ WriteReports \/ Push \/ MarkPlan
  \/ Handoff \/ AppendCompleted \/ SaveCompleted \/ StopIfRegistryComplete \/ Reload

-----------------------------------------------------------------------------
(* Kills and the operator. *)

(* write_text truncates a file before it writes it.  What a process that   *)
(* is killed in between leaves of state.json holds no record and is no     *)
(* JSON: load_state raises.  Of a plan file it leaves the entries before   *)
(* the cut; the world loop reads none without the line that ends them.     *)
Torn == [readable |-> FALSE, state |-> Fresh]
TornPlans(p) ==
  IF kind = "world" THEN {[t \in Todos |-> "gone"]}
  ELSE {[t \in Todos |-> IF Places[cut] <= Places[t] THEN "gone" ELSE p[t]] : cut \in Todos}

Saves == At("history") \/ At("save") \/ At("stop-agent-saving")
Marks == At("mark") /\ ok

Kill ==
  /\ pc # 0
  /\ Exit("killed")
  /\ disk' = disk \/ (Saves /\ disk' = Torn)
  /\ plan' = plan \/ (Marks /\ plan' \in TornPlans(Marked(plan, work)))
  /\ checkout' = Changed(checkout)
  /\ UNCHANGED <<params, operator, audit>>

MarksDone == {"httpd", "compiler", "world", "uiux"}

MarkDoneLoads ==
  /\ kind \in MarksDone /\ env.operator /\ op.at = "idle" /\ disk.readable
  /\ \E t \in Todos : op' = [at |-> "loaded", todo |-> t, mem |-> Loaded(disk)]
  /\ UNCHANGED <<params, process, files, marked, audit>>

Ended == [at |-> "ended", todo |-> NoTodo, mem |-> Fresh]

MarkDoneSaves ==
  /\ op.at = "loaded"
  /\ disk' = [readable |-> TRUE, state |-> [op.mem EXCEPT !.completed = @ \cup {op.todo}]]
  /\ recorded' = Joined(recorded, disk'.state)
  /\ raced' = (raced \/ pc # 0)
  /\ marked' = marked \cup {op.todo}
  /\ op' = IF kind = "world" THEN [op EXCEPT !.at = "saved"] ELSE Ended
  /\ UNCHANGED <<params, process, plan, checkout>>

(* The world loop's --mark-done goes on to its plan. *)
MarkDoneMarks ==
  /\ op.at = "saved"
  /\ plan' = Marked(plan, op.todo)
  /\ checkout' = Changed(checkout)
  /\ raced' = (raced \/ pc # 0)
  /\ op' = Ended
  /\ UNCHANGED <<params, process, disk, marked, recorded>>

(* A --mark-done that is killed inside a write, or before its second. *)
MarkDoneKilled ==
  /\ \/ op.at = "loaded" /\ disk' = Torn /\ plan' = plan
     \/ op.at = "saved" /\ disk' = disk /\ plan' \in {plan} \cup TornPlans(plan)
  /\ checkout' = Changed(checkout)
  /\ raced' = (raced \/ pc # 0)
  /\ op' = Ended
  /\ UNCHANGED <<params, process, marked, recorded>>

Next == Start \/ Step \/ Kill \/ MarkDoneLoads \/ MarkDoneSaves \/ MarkDoneMarks \/ MarkDoneKilled

(* A process is scheduled; an agent without a time limit may run for ever. *)
Fairness == WF_vars(Step /\ (At("agent") => HasDeadline))

Spec == Init /\ [][Next]_vars /\ Fairness

-----------------------------------------------------------------------------
(* Properties. *)

State == [completed: SUBSET Todos, passed: SUBSET Todos]
(* Every variable keeps its range; a process that runs is at a step of its *)
(* script, and one past the pick has a todo of the plan.                   *)
TypeOK ==
  /\ kind \in Kinds
  /\ plan \in [Todos -> Statuses] /\ todos \in [Todos -> Statuses]
  /\ checkout \in Checkout
  /\ disk \in [readable: BOOLEAN, state: State] /\ mem \in State
  /\ pc \in 0..Len(Main)
  /\ work \in Todos \cup {NoTodo} /\ (pc > 1 => work # NoTodo)
  /\ code \in Codes /\ ok \in BOOLEAN /\ after \in BOOLEAN /\ once \in BOOLEAN
  /\ op \in [at: {"idle", "loaded", "saved", "ended"}, todo: Todos \cup {NoTodo}, mem: State]
  /\ marked \subseteq Todos /\ raced \in BOOLEAN /\ recorded \in State

(* A todo that state.json records as completed and no operator marked has  *)
(* an entry in the history of the same file that says its agent exited 0   *)
(* and the gates passed after it, whatever was killed and started again in *)
(* between.  The compiler loop, which runs no gates after its agent, is    *)
(* the exception.                                                          *)
CompletedPassedGates ==
  kind # "compiler" => disk.state.completed \subseteq disk.state.passed \cup marked
RecordsSound == TypeOK /\ CompletedPassedGates

(* A state.json that can be read holds every record that was ever written  *)
(* to it, whatever was killed and started in between, unless the loop and  *)
(* an operator wrote it from copies that overlapped.  A write that is cut  *)
(* off does lose the records, all of them; but no loop and no --mark-done  *)
(* takes what is left for a file without records and writes it anew.       *)
NothingForgotten ==
  disk.readable /\ ~raced =>
    /\ recorded.completed \subseteq disk.state.completed
    /\ recorded.passed \subseteq disk.state.passed

(* A loop that says all its todos are complete has left none of its scope  *)
(* open in the plan file that state.json does not record, while that can   *)
(* be read and no overlapping copies were written.  A todo whose entry a   *)
(* cut-off write of the plan file lost is not open there any more: of      *)
(* those the loops say that they are complete.                             *)
Scope ==
  CASE kind = "httpd" /\ env.gapOnly -> Labelled(Todos, env.label, {"gap"})
    [] kind = "world" -> Labelled(Todos, env.label, {"w0", "w1"})
    [] kind = "uiux"  -> Labelled(Todos, env.label, {"studio-ux"})
    [] OTHER -> Todos

CompleteMeansDone ==
  said = "complete" /\ disk.readable /\ ~raced =>
    \A t \in Scope : plan[t] \in Open => t \in disk.state.completed

(* No rescue and no push ever drops the commits of a branch an agent       *)
(* started; and while agents never leave the head detached none drops any  *)
(* commit, except for the commit scripts, which reset the loop's branch    *)
(* while another one is checked out.                                       *)
CommitsKept ==
  /\ "other" \notin checkout.lost
  /\ env.agents # "detaching" /\ kind \notin {"world", "uiux", "sim"} => checkout.lost = {}

(* A loop whose agents have a time limit ends by itself: it finds nothing  *)
(* to do or stops at a failure.  The one way to run for ever is the        *)
(* simulation loop's: to pick an algorithm again that it has completed but *)
(* that the agent left unimplemented.                                      *)
Redoing == kind = "sim" /\ work \in mem.completed
LoopEnds == pc # 0 /\ HasDeadline ~> pc = 0 \/ Redoing
=============================================================================
