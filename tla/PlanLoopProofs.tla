--------------------------- MODULE PlanLoopProofs ---------------------------
(***************************************************************************)
(* What state.json and the checkout of a plan loop keep, for every plan,   *)
(* any number of todos and all settings, whatever is killed and started    *)
(* again, whichever write is cut off, and whenever an operator marks a     *)
(* todo.                                                                   *)
(*                                                                         *)
(* Five invariants are inductive. Copies: while nothing raced, state.json, *)
(* if it can be read, and the copies of it in a process and in the         *)
(* operator's hold all that it ever recorded. Passed: what the steps       *)
(* behind the process (Past) have shown of its todo, which the order of    *)
(* the script (Guarded) makes enough to record it. Branches: where the     *)
(* head of the checkout may be. Typed: the ranges, which need that a pick  *)
(* is a todo of the plan (LoopPicks). Current: the copies that a pick      *)
(* looks at are those of the files; it needs Found, what an operator that  *)
(* is about to save finds.                                                 *)
(***************************************************************************)
EXTENDS PlanLoop, WellFoundedInduction, TLAPS

-----------------------------------------------------------------------------
(* The scripts.                                                            *)

Stops == {"stop-agent", "stop-agent-saving"}
Before(s, q, steps) == \E p \in 1 .. (q - 1) : s[p] \in steps

\* An iteration goes from its pick to its reload.
Framed(s) ==
  /\ Len(s) \in Nat \ {0} /\ s[Len(s)] = "reload"
  /\ \A q \in 1 .. Len(s) : s[q] = "pick" => q = 1

\* The record comes after the gates, the entry of the history and both stops;
\* nothing that these looked at changes between them.
Guarded(s) ==
  \A q \in 1 .. Len(s) :
    /\ s[q] = "agent" => ~Before(s, q, {"gates", "history", "stop-gates"} \cup Stops)
    /\ s[q] \in {"precheck", "gates"} => ~Before(s, q, {"history", "stop-gates"})
    /\ s[q] = "precheck" => ~Before(s, q, {"gates"})
    /\ s[q] = "append" => /\ Before(s, q, {"gates"}) /\ Before(s, q, {"history"})
                          /\ Before(s, q, {"stop-gates"}) /\ Before(s, q, Stops)

Rescuing == {"httpd", "compiler", "world", "uiux", "sim"}
Pushing  == {"world", "uiux", "sim", "research", "security", "swarm"}

LEMMA ScriptsFramed == kind \in Kinds => Framed(Main)
<1>1. /\ Framed(HttpdMain) /\ Framed(CompilerMain) /\ Framed(WorldMain) /\ Framed(UiUxMain)
      /\ Framed(SimMain) /\ Framed(ResearchMain) /\ Framed(SecurityMain) /\ Framed(SwarmMain)
  BY DEF Framed, HttpdMain, CompilerMain, WorldMain, UiUxMain, SimMain, ResearchMain,
     SecurityMain, SwarmMain
<1> QED BY <1>1 DEF Kinds, Main

LEMMA ScriptsGuarded == kind \in Kinds \ {"compiler"} => Guarded(Main)
<1> USE DEF Guarded, Before, Stops
<1>1. Guarded(HttpdMain)
  BY DEF HttpdMain
<1>2. Guarded(WorldMain)
  BY DEF WorldMain
<1>3. Guarded(UiUxMain)
  BY DEF UiUxMain
<1>4. Guarded(SimMain)
  BY DEF SimMain
<1>5. Guarded(ResearchMain)
  BY DEF ResearchMain
<1>6. Guarded(SecurityMain)
  BY DEF SecurityMain
<1>7. Guarded(SwarmMain)
  BY DEF SwarmMain
<1> HIDE DEF Guarded
<1> QED BY <1>1, <1>2, <1>3, <1>4, <1>5, <1>6, <1>7 DEF Kinds, Main

LEMMA ScriptsRescue ==
  ASSUME kind \in Kinds, NEW p \in 1 .. Len(Main)
  PROVE  /\ Main[p] = "recover" => kind \in Rescuing
         /\ Main[p] = "push" => kind \in Pushing
BY DEF Kinds, Main, Rescuing, Pushing, HttpdMain, CompilerMain, WorldMain, UiUxMain,
   SimMain, ResearchMain, SecurityMain, SwarmMain

-----------------------------------------------------------------------------
(* Where a process is.                                                     *)

InScript == kind \in Kinds /\ pc \in 0 .. Len(Main)

LEMMA MainSame ==
  ASSUME kind' = kind PROVE Main' = Main
BY DEF Main

LEMMA NextInScript == InScript /\ [Next]_vars => InScript'
<1> SUFFICES ASSUME InScript, [Next]_vars PROVE InScript'
  OBVIOUS
<1>1. kind' = kind /\ Main' = Main
  BY MainSame DEF Next, Step, vars, params, Start, PickTodo, LeaveEarly, Gates, Prep,
     RunAgent, Recover, History, StopIfAgentFailed, StopIfGatesFailed, WriteReports, Push,
     MarkPlan, Handoff, AppendCompleted, SaveCompleted, StopIfRegistryComplete, Reload,
     Kill, MarkDoneLoads, MarkDoneSaves, MarkDoneMarks,
     MarkDoneKilled
<1>2. Framed(Main)
  BY ScriptsFramed DEF InScript
<1>3. \/ pc' \in {0, 1, pc}
      \/ pc # 0 /\ Main[pc] # "reload" /\ pc' = pc + 1
  BY DEF Next, Step, vars, process, Start, PickTodo, LeaveEarly, Gates, Prep,
     RunAgent, Recover, History, StopIfAgentFailed, StopIfGatesFailed, WriteReports, Push,
     MarkPlan, Handoff, AppendCompleted, SaveCompleted, StopIfRegistryComplete, Reload,
     Kill, MarkDoneLoads, MarkDoneSaves, MarkDoneMarks,
     MarkDoneKilled, At, Advance, Exit
<1> QED BY <1>1, <1>2, <1>3 DEF InScript, Framed

-----------------------------------------------------------------------------
(* The copies of state.json.                                               *)

Holds(m, n) == n.completed \subseteq m.completed /\ n.passed \subseteq m.passed

StateFile ==
  /\ DOMAIN disk = {"readable", "state"}
  /\ DOMAIN disk.state = {"completed", "passed"}
  /\ DOMAIN mem = {"completed", "passed"}
  /\ DOMAIN op.mem = {"completed", "passed"}

Copies ==
  /\ StateFile
  /\ Holds(recorded, disk.state)
  /\ disk.readable /\ ~raced => Holds(disk.state, recorded)
  /\ pc # 0 /\ ~raced => Holds(mem, recorded)
  /\ op.at = "loaded" /\ ~raced => Holds(op.mem, recorded)

LEMMA InitCopies == Init => Copies
<1> SUFFICES ASSUME Init PROVE Copies
  OBVIOUS
<1>1. /\ disk.state = Fresh /\ mem = Fresh /\ op.mem = Fresh /\ op.at = "idle" /\ pc = 0
      /\ recorded = Fresh
  BY DEF Init
<1>2. DOMAIN disk = {"readable", "state"} /\ DOMAIN Fresh = {"completed", "passed"}
  BY DEF Init, Fresh
<1> QED BY <1>1, <1>2 DEF Copies, StateFile, Holds

LEMMA ExitCopies ==
  ASSUME Copies, pc' = 0, mem' = Fresh, UNCHANGED <<disk, operator, audit>>
  PROVE  Copies'
BY DEF Copies, StateFile, Holds, Fresh, operator, audit

\* A step that leaves the copies alone.
LEMMA QuietCopies ==
  ASSUME Copies, UNCHANGED <<mem, disk, operator, audit>>, pc' # 0 => pc # 0
  PROVE  Copies'
BY DEF Copies, StateFile, Holds, operator, audit

\* What holds m and all of n holds their join.
LEMMA JoinHeld ==
  ASSUME NEW l, NEW m, NEW n, Holds(l, m), Holds(l, n)
  PROVE  Holds(l, Joined(m, n))
BY DEF Holds, Joined

LEMMA JoinHolds ==
  ASSUME NEW m, NEW n PROVE Holds(Joined(m, n), n)
BY DEF Holds, Joined

\* The loop saves a copy that holds its own.
LEMMA SaveCopies ==
  ASSUME Copies, pc # 0, NEW m, Holds(m, mem), DOMAIN m = {"completed", "passed"},
         SaveState(m), UNCHANGED operator,
         mem' = m \/ (pc' = 0 /\ mem' = Fresh)
  PROVE  Copies'
<1>1. disk' = [readable |-> TRUE, state |-> m] /\ recorded' = Joined(recorded, m)
  BY DEF SaveState
<1>2. DOMAIN mem' = {"completed", "passed"}
  BY DEF Fresh
<1>3. StateFile'
  BY <1>1, <1>2 DEF Copies, StateFile, operator
<1>4. raced' = (raced \/ op.at = "loaded") /\ op' = op
  BY DEF SaveState, operator
<1>5. ~raced => Holds(m, recorded) /\ Holds(m, m)
  BY DEF Copies, Holds
<1>6. ~raced => Holds(m, recorded')
  BY <1>1, <1>5, JoinHeld
<1>7. Holds(recorded', disk'.state)
  BY <1>1, JoinHolds
<1> QED BY <1>1, <1>3, <1>4, <1>6, <1>7 DEF Copies

LEMMA StepCopies ==
  ASSUME Copies, Step PROVE Copies'
<1>1. CASE \/ Gates \/ RunAgent \/ Recover \/ WriteReports \/ Push \/ MarkPlan \/ Handoff
  <2>1. UNCHANGED <<mem, disk, operator, audit>> /\ pc # 0
    BY <1>1 DEF Gates, RunAgent, Recover, WriteReports, Push, MarkPlan, Handoff, files,
       Locals, At
  <2> QED BY <2>1, QuietCopies
<1>2. CASE \/ PickTodo \/ Prep \/ StopIfGatesFailed \/ StopIfRegistryComplete \/ Reload
           \/ LeaveEarly
  <2>1. pc # 0 /\ UNCHANGED <<disk, operator, audit>>
    BY <1>2 DEF PickTodo, Prep, StopIfGatesFailed, StopIfRegistryComplete, Reload,
       LeaveEarly, files, At
  <2>2. (pc' = 0 /\ mem' = Fresh) \/ mem' = mem
    BY <1>2 DEF PickTodo, Prep, StopIfGatesFailed, StopIfRegistryComplete, Reload,
       LeaveEarly, Locals, Exit, NoLocals
  <2> QED BY <2>1, <2>2, ExitCopies, QuietCopies
<1>3. CASE History
  <2>1. Holds(Recorded, mem) /\ DOMAIN Recorded = {"completed", "passed"}
    BY DEF Holds, Recorded, Copies, StateFile
  <2> QED BY <1>3, <2>1, SaveCopies DEF History, At
<1>4. CASE StopIfAgentFailed
  <2>1. pc # 0 /\ UNCHANGED operator
    BY <1>4 DEF StopIfAgentFailed, At
  <2>2. CASE code = 0
    BY <1>4, <2>1, <2>2, QuietCopies DEF StopIfAgentFailed, Locals
  <2>3. CASE code # 0 /\ At("stop-agent-saving")
    <3>1. SaveState(mem) /\ pc' = 0 /\ mem' = Fresh
      BY <1>4, <2>3 DEF StopIfAgentFailed, Exit, NoLocals
    <3>2. Holds(mem, mem) /\ DOMAIN mem = {"completed", "passed"}
      BY DEF Holds, Copies, StateFile
    <3> QED BY <2>1, <3>1, <3>2, SaveCopies
  <2>4. CASE code # 0 /\ ~At("stop-agent-saving")
    BY <1>4, <2>1, <2>4, ExitCopies DEF StopIfAgentFailed, Exit, NoLocals
  <2> QED BY <2>2, <2>3, <2>4
<1>5. CASE AppendCompleted
  <2>1. /\ UNCHANGED <<disk, operator, audit>> /\ pc # 0
        /\ mem' = [mem EXCEPT !.completed = @ \cup {work}]
    BY <1>5 DEF AppendCompleted, files, At
  <2>2. Holds(mem', mem) /\ DOMAIN mem' = {"completed", "passed"}
    BY <2>1 DEF Holds, Copies, StateFile
  <2> QED BY <2>1, <2>2 DEF Copies, StateFile, Holds, operator, audit
<1>6. CASE SaveCompleted
  <2>1. Holds(mem, mem) /\ DOMAIN mem = {"completed", "passed"}
    BY DEF Holds, Copies, StateFile
  <2> QED BY <1>6, <2>1, SaveCopies DEF SaveCompleted, At, Locals
<1> QED BY <1>1, <1>2, <1>3, <1>4, <1>5, <1>6 DEF Step

LEMMA NextCopies ==
  ASSUME Copies, [Next]_vars PROVE Copies'
<1>1. CASE Start
  <2>1. disk.readable /\ mem' = disk.state /\ UNCHANGED <<disk, op, raced, recorded>>
    BY <1>1 DEF Start, Loaded, files, operator, audit
  <2> QED BY <2>1 DEF Copies, StateFile, Holds
<1>2. CASE Kill
  <2>1. /\ UNCHANGED <<op, raced, recorded>> /\ mem' = Fresh /\ pc' = 0
        /\ disk' = disk \/ disk' = Torn
    BY <1>2 DEF Kill, Exit, NoLocals, operator, audit
  <2> QED BY <2>1 DEF Copies, StateFile, Holds, Torn, Fresh
<1>3. CASE MarkDoneLoads
  <2>1. UNCHANGED <<pc, mem, disk, raced, recorded>> /\ op'.mem = disk.state /\ disk.readable
    BY <1>3 DEF MarkDoneLoads, Loaded, process, files, audit
  <2> QED BY <2>1 DEF Copies, StateFile, Holds
<1>4. CASE MarkDoneSaves
  <2> DEFINE m == [op.mem EXCEPT !.completed = @ \cup {op.todo}]
  <2>1. /\ op.at = "loaded" /\ UNCHANGED <<pc, mem>>
        /\ op' = Ended \/ op' = [op EXCEPT !.at = "saved"]
        /\ raced' = (raced \/ pc # 0)
        /\ disk' = [readable |-> TRUE, state |-> m]
        /\ recorded' = Joined(recorded, m)
    BY <1>4 DEF MarkDoneSaves, process
  <2>2. Holds(m, op.mem) /\ Holds(m, m) /\ DOMAIN m = {"completed", "passed"}
    BY DEF Copies, StateFile, Holds
  <2>3. ~raced => Holds(m, recorded')
    <3>1. ~raced => Holds(m, recorded)
      BY <2>1, <2>2 DEF Copies, Holds
    <3> QED BY <2>1, <2>2, <3>1, JoinHeld
  <2>4. Holds(recorded', disk'.state)
    BY <2>1, JoinHolds
  <2>5. op'.at # "loaded" /\ DOMAIN op'.mem = {"completed", "passed"}
    <3>1. CASE op' = Ended
      BY <3>1 DEF Ended, Fresh
    <3>2. CASE op' = [op EXCEPT !.at = "saved"]
      <4>1. op'.mem = op.mem
        BY <3>2
      <4>2. op'.at = "saved" \/ op'.at # "loaded"
        BY <3>2, <2>1
      <4> QED BY <4>1, <4>2 DEF Copies, StateFile
    <3> QED BY <2>1, <3>1, <3>2
  <2> HIDE DEF m
  <2> QED BY <2>1, <2>2, <2>3, <2>5, <2>4 DEF Copies, StateFile
<1>5. CASE MarkDoneMarks \/ MarkDoneKilled
  <2>1. /\ UNCHANGED <<pc, mem, recorded>> /\ op' = Ended /\ raced' = (raced \/ pc # 0)
        /\ disk' = disk \/ disk' = Torn
    BY <1>5 DEF MarkDoneMarks, MarkDoneKilled, process
  <2>2. op'.at = "ended" /\ DOMAIN op'.mem = {"completed", "passed"}
    BY <2>1 DEF Ended, Fresh
  <2>3. op'.at # "loaded" /\ (~raced' => ~raced)
    BY <2>1, <2>2
  <2>4. CASE disk' = disk
    BY <2>1, <2>2, <2>3, <2>4 DEF Copies, StateFile
  <2>5. CASE disk' = Torn
    <3>1. ~disk'.readable /\ disk'.state = Fresh /\ DOMAIN disk' = {"readable", "state"}
      BY <2>5 DEF Torn
    <3>2. Holds(recorded, Fresh) /\ DOMAIN Fresh = {"completed", "passed"}
      BY DEF Holds, Fresh
    <3> QED BY <2>1, <2>2, <2>3, <3>1, <3>2 DEF Copies, StateFile
  <2> QED BY <2>1, <2>4, <2>5
<1>6. CASE UNCHANGED vars
  BY <1>6, QuietCopies DEF vars, process, files
<1> QED BY <1>1, <1>2, <1>3, <1>4, <1>5, <1>6, StepCopies DEF Next

\* While the loop and the operator do not write state.json from copies that overlap,
\* a state.json that can be read holds all that was ever written to it: what a write
\* that is cut off leaves is never taken for a file without records (load_state and
\* save_state of the eight scripts, and their --mark-done).
THEOREM RecordsKept == Spec => []NothingForgotten
<1>1. Copies /\ [Next]_vars => Copies'
  BY NextCopies
<1>2. Copies => NothingForgotten
  BY DEF Copies, Holds, NothingForgotten
<1> QED BY <1>1, <1>2, InitCopies, PTL DEF Spec

-----------------------------------------------------------------------------
(* What was shown of a todo before it is recorded.                         *)

Past(steps) == Before(Main, pc, steps)

Sound(m) == m.completed \subseteq m.passed \cup marked

Shown ==
  /\ Past({"gates"}) => after
  /\ Past({"stop-gates"}) => ok
  /\ Past(Stops) => code = 0
  /\ Past({"history"}) /\ code = 0 /\ ok /\ after => work \in mem.passed

Passed ==
  kind # "compiler" =>
    /\ Sound(disk.state) /\ Sound(mem) /\ Sound(op.mem)
    /\ pc # 0 => Shown

LEMMA PastNext ==
  ASSUME InScript, pc # 0, kind' = kind, pc' = pc + 1, NEW steps
  PROVE  Past(steps)' <=> Past(steps) \/ Main[pc] \in steps
<1>1. Main' = Main /\ pc \in Nat \ {0}
  BY MainSame DEF InScript
<1>2. \A p : p \in 1 .. (pc' - 1) <=> p \in 1 .. (pc - 1) \/ p = pc
  BY <1>1
<1> QED BY <1>1, <1>2 DEF Past, Before

\* A step that sets none of what the others look at, and is none of them.
LEMMA QuietPassed ==
  ASSUME InScript, Passed, kind # "compiler", pc # 0, UNCHANGED <<kind, operator, disk>>,
         pc' = pc + 1, UNCHANGED <<mem, work, code, ok, after>>,
         Main[pc] \notin {"gates", "history", "stop-gates"} \cup Stops
  PROVE  Passed'
<1>1. /\ Past({"gates"})' <=> Past({"gates"})
      /\ Past({"stop-gates"})' <=> Past({"stop-gates"})
      /\ Past(Stops)' <=> Past(Stops)
      /\ Past({"history"})' <=> Past({"history"})
  BY PastNext
<1> QED BY <1>1 DEF Passed, Shown, Sound, operator

\* A process that ends, begins or goes round has shown nothing yet.
LEMMA AnewPassed ==
  ASSUME Passed, kind # "compiler", kind' = kind, UNCHANGED marked, pc' \in {0, 1},
         Sound(disk'.state), Sound(mem'), Sound(op'.mem)
  PROVE  Passed'
<1>1. pc' = 1 => \A steps : ~Past(steps)'
  BY DEF Past, Before
<1>2. pc' = 1 => Shown'
  BY <1>1 DEF Shown
<1> QED BY <1>2 DEF Passed, Sound

LEMMA SoundFresh == Sound(Fresh)
BY DEF Sound, Fresh

LEMMA StepPassed ==
  ASSUME InScript, StateFile, Passed, kind # "compiler", Step PROVE Passed'
<1>1. /\ Guarded(Main) /\ Framed(Main) /\ pc \in 1 .. Len(Main)
  BY ScriptsGuarded, ScriptsFramed DEF InScript, Step, PickTodo, LeaveEarly, Gates, Prep,
     RunAgent, Recover, History, StopIfAgentFailed, StopIfGatesFailed, WriteReports, Push,
     MarkPlan, Handoff, AppendCompleted, SaveCompleted, StopIfRegistryComplete, Reload, At
<1>2. /\ Sound(disk.state) /\ Sound(mem) /\ Sound(op.mem) /\ Shown /\ pc # 0
  BY <1>1 DEF Passed
<1>3. kind' = kind /\ marked' = marked /\ op' = op
  BY DEF Step, PickTodo, LeaveEarly, Gates, Prep, RunAgent, Recover, History,
     StopIfAgentFailed, StopIfGatesFailed, WriteReports, Push, MarkPlan, Handoff,
     AppendCompleted, SaveCompleted, StopIfRegistryComplete, Reload, params, operator
<1>4. ASSUME pc' = 0, mem' = Fresh, disk'.state \in {disk.state, mem} PROVE Passed'
  BY <1>2, <1>3, <1>4, AnewPassed, SoundFresh
<1>5. ASSUME NEW steps PROVE Past(steps) <=> Before(Main, pc, steps)
  BY DEF Past
<1>6. CASE \/ Recover \/ WriteReports \/ Push \/ MarkPlan \/ Handoff
  <2>1. /\ pc' = pc + 1 /\ UNCHANGED <<mem, work, code, ok, after, disk>>
        /\ Main[pc] \in {"recover", "report", "refresh", "push", "mark", "handoff"}
    BY <1>6 DEF Recover, WriteReports, Push, MarkPlan, Handoff, Advance, Locals, files, At
  <2> QED BY <1>2, <1>3, <2>1, QuietPassed DEF Stops, operator
<1>7. CASE \/ Prep \/ StopIfRegistryComplete \/ LeaveEarly
  <2>1. /\ disk' = disk
        /\ \/ pc' = 0 /\ mem' = Fresh
           \/ /\ pc' = pc + 1 /\ UNCHANGED <<mem, work, code, ok, after>>
              /\ Main[pc] \in {"prep", "registry"}
    BY <1>7 DEF Prep, StopIfRegistryComplete, LeaveEarly, Advance, Locals, files, At, Exit,
       NoLocals
  <2> QED BY <1>2, <1>3, <1>4, <2>1, QuietPassed DEF Stops, operator
<1>8. CASE PickTodo
  <2>1. /\ disk' = disk /\ pc = 1
        /\ \/ pc' = 0 /\ mem' = Fresh
           \/ pc' = pc + 1 /\ mem' = mem /\ Main[pc] = "pick"
    BY <1>1, <1>8 DEF PickTodo, Advance, files, At, Exit, NoLocals, Framed
  <2>2. CASE pc' = pc + 1
    <3>1. /\ ~Past({"gates"}) /\ ~Past({"stop-gates"}) /\ ~Past(Stops) /\ ~Past({"history"})
      BY <2>1 DEF Past, Before
    <3>2. /\ ~Past({"gates"})' /\ ~Past({"stop-gates"})' /\ ~Past(Stops)'
          /\ ~Past({"history"})'
      BY <1>2, <1>3, <2>1, <2>2, <3>1, PastNext DEF Stops
    <3>3. mem' = mem
      BY <2>1, <2>2
    <3> QED BY <1>2, <1>3, <2>1, <3>2, <3>3 DEF Passed, Shown, Sound
  <2> QED BY <1>4, <2>1, <2>2
<1>9. CASE Gates
  <2>1. /\ pc' = pc + 1 /\ UNCHANGED <<mem, work, code, disk>>
        /\ Main[pc] \in {"precheck", "gates"} /\ after' = (Main[pc] = "gates")
    BY <1>2, <1>9 DEF Gates, Advance, files, At
  <2>2. /\ ~Past({"history"}) /\ ~Past({"stop-gates"})
        /\ Main[pc] = "precheck" => ~Past({"gates"})
    BY <1>1, <2>1 DEF Past, Before, Guarded
  <2>3. /\ ~Past({"history"})' /\ ~Past({"stop-gates"})' /\ (Past(Stops)' <=> Past(Stops))
        /\ Past({"gates"})' => Main[pc] = "gates"
    BY <1>2, <1>3, <2>1, <2>2, PastNext DEF Stops
  <2> QED BY <1>2, <1>3, <2>1, <2>3 DEF Passed, Shown, Sound
<1>10. CASE RunAgent
  <2>1. pc' = pc + 1 /\ UNCHANGED <<mem, disk>> /\ Main[pc] = "agent"
    BY <1>10 DEF RunAgent, Advance, At
  <2>2. /\ ~Past({"history"}) /\ ~Past({"stop-gates"}) /\ ~Past({"gates"}) /\ ~Past(Stops)
    BY <1>1, <2>1 DEF Past, Before, Guarded
  <2>3. /\ ~Past({"history"})' /\ ~Past({"stop-gates"})' /\ ~Past({"gates"})'
        /\ ~Past(Stops)'
    BY <1>2, <1>3, <2>1, <2>2, PastNext DEF Stops
  <2> QED BY <1>2, <1>3, <2>1, <2>3 DEF Passed, Shown, Sound
<1>11. CASE History
  <2>1. /\ pc' = pc + 1 /\ UNCHANGED <<work, code, ok, after>> /\ Main[pc] = "history"
        /\ mem' = Recorded /\ disk'.state = mem'
    BY <1>11 DEF History, SaveState, Advance, At, StateFile
  <2>2. /\ mem'.completed = mem.completed /\ mem.passed \subseteq mem'.passed
        /\ code = 0 /\ ok /\ after => work \in mem'.passed
    BY <2>1 DEF Recorded, StateFile
  <2>3. /\ Past({"gates"})' <=> Past({"gates"})
        /\ Past({"stop-gates"})' <=> Past({"stop-gates"})
        /\ Past(Stops)' <=> Past(Stops)
    BY <1>2, <1>3, <2>1, PastNext DEF Stops
  <2> QED BY <1>2, <1>3, <2>1, <2>2, <2>3 DEF Passed, Shown, Sound
<1>12. CASE StopIfAgentFailed
  <2>1. CASE code = 0
    <3>1. /\ pc' = pc + 1 /\ UNCHANGED <<mem, work, code, ok, after, disk>>
          /\ Main[pc] \in Stops
      BY <1>12, <2>1 DEF StopIfAgentFailed, Advance, At, Locals, Stops
    <3>2. /\ Past({"gates"})' <=> Past({"gates"})
          /\ Past({"stop-gates"})' <=> Past({"stop-gates"})
          /\ Past({"history"})' <=> Past({"history"})
      BY <1>2, <1>3, <3>1, PastNext DEF Stops
    <3> QED BY <1>2, <1>3, <2>1, <3>1, <3>2 DEF Passed, Shown, Sound
  <2>2. CASE code # 0
    <3>1. pc' = 0 /\ mem' = Fresh /\ disk'.state \in {disk.state, mem}
      BY <1>12, <2>2 DEF StopIfAgentFailed, Exit, NoLocals, SaveState, StateFile
    <3> QED BY <1>4, <3>1
  <2> QED BY <2>1, <2>2
<1>13. CASE StopIfGatesFailed
  <2>1. CASE ok
    <3>1. /\ pc' = pc + 1 /\ UNCHANGED <<mem, work, code, ok, after, disk>>
          /\ Main[pc] = "stop-gates"
      BY <1>13, <2>1 DEF StopIfGatesFailed, Advance, At, Locals, files
    <3>2. /\ Past({"gates"})' <=> Past({"gates"})
          /\ Past(Stops)' <=> Past(Stops)
          /\ Past({"history"})' <=> Past({"history"})
      BY <1>2, <1>3, <3>1, PastNext DEF Stops
    <3> QED BY <1>2, <1>3, <2>1, <3>1, <3>2 DEF Passed, Shown, Sound
  <2>2. CASE ~ok
    <3>1. pc' = 0 /\ mem' = Fresh /\ disk' = disk
      BY <1>13, <2>2 DEF StopIfGatesFailed, Exit, NoLocals, files
    <3> QED BY <1>4, <3>1
  <2> QED BY <2>1, <2>2
<1>14. CASE AppendCompleted
  <2>1. /\ pc' = pc + 1 /\ UNCHANGED <<work, code, ok, after, disk>>
        /\ Main[pc] = "append" /\ mem' = [mem EXCEPT !.completed = @ \cup {work}]
    BY <1>14 DEF AppendCompleted, Advance, files, At
  <2>2. Past({"gates"}) /\ Past({"history"}) /\ Past({"stop-gates"}) /\ Past(Stops)
    BY <1>1, <2>1 DEF Past, Guarded
  <2>3. after /\ ok /\ code = 0 /\ work \in mem.passed
    BY <1>2, <2>2 DEF Shown
  <2>4. mem'.completed = mem.completed \cup {work} /\ mem'.passed = mem.passed
    BY <2>1 DEF StateFile
  <2> QED BY <1>2, <1>3, <2>1, <2>3, <2>4 DEF Passed, Shown, Sound
<1>15. CASE SaveCompleted
  <2>1. /\ pc' = pc + 1 /\ UNCHANGED <<mem, work, code, ok, after>>
        /\ Main[pc] = "save" /\ disk'.state = mem
    BY <1>15 DEF SaveCompleted, SaveState, Advance, Locals, At, StateFile
  <2>2. /\ Past({"gates"})' <=> Past({"gates"})
        /\ Past({"stop-gates"})' <=> Past({"stop-gates"})
        /\ Past(Stops)' <=> Past(Stops)
        /\ Past({"history"})' <=> Past({"history"})
    BY <1>2, <1>3, <2>1, PastNext DEF Stops
  <2> QED BY <1>2, <1>3, <2>1, <2>2 DEF Passed, Shown, Sound
<1>16. CASE Reload
  <2>1. pc' \in {0, 1} /\ mem' \in {Fresh, mem} /\ disk' = disk
    BY <1>16 DEF Reload, Exit, NoLocals, files
  <2> QED BY <1>2, <1>3, <2>1, AnewPassed, SoundFresh
<1> QED BY <1>6, <1>7, <1>8, <1>9, <1>10, <1>11, <1>12, <1>13, <1>14, <1>15, <1>16 DEF Step

LEMMA NextPassed ==
  ASSUME InScript, StateFile, Passed, [Next]_vars PROVE Passed'
<1>1. kind' = kind
  BY DEF Next, Step, vars, params, Start, PickTodo, LeaveEarly, Gates, Prep, RunAgent,
     Recover, History, StopIfAgentFailed, StopIfGatesFailed, WriteReports, Push, MarkPlan,
     Handoff, AppendCompleted, SaveCompleted, StopIfRegistryComplete, Reload, Kill,
     MarkDoneLoads, MarkDoneSaves, MarkDoneMarks,
     MarkDoneKilled
<1> SUFFICES ASSUME kind # "compiler" PROVE Passed'
  BY <1>1 DEF Passed
<1>2. Sound(disk.state) /\ Sound(mem) /\ Sound(op.mem)
  BY DEF Passed
<1>3. CASE Start
  <2>1. pc' = 1 /\ mem' = disk.state /\ UNCHANGED <<disk, op, marked>>
    BY <1>3 DEF Start, Loaded, files, operator
  <2> QED BY <1>1, <1>2, <2>1, AnewPassed
<1>4. CASE Kill
  <2>1. /\ pc' = 0 /\ mem' = Fresh /\ UNCHANGED <<op, marked>>
        /\ disk'.state = disk.state \/ disk'.state = Fresh
    BY <1>4 DEF Kill, Exit, NoLocals, operator, Torn
  <2> QED BY <1>1, <1>2, <2>1, AnewPassed, SoundFresh
<1>5. CASE MarkDoneLoads
  <2>1. /\ UNCHANGED <<disk, marked>> /\ op'.mem = disk.state
        /\ UNCHANGED <<pc, mem, work, code, ok, after>>
    BY <1>5 DEF MarkDoneLoads, Loaded, process, files
  <2> QED BY <1>1, <1>2, <2>1, MainSame DEF Passed, Shown, Sound, Past, Before
<1>6. CASE MarkDoneSaves
  <2>1. /\ marked' = marked \cup {op.todo} /\ op'.mem \in {Fresh, op.mem}
        /\ UNCHANGED <<pc, mem, work, code, ok, after>>
        /\ disk'.state = [op.mem EXCEPT !.completed = @ \cup {op.todo}]
    BY <1>6 DEF MarkDoneSaves, process, Ended
  <2>2. /\ disk'.state.completed = op.mem.completed \cup {op.todo}
        /\ disk'.state.passed = op.mem.passed
    BY <2>1 DEF StateFile
  <2> QED BY <1>1, <1>2, <2>1, <2>2, MainSame, SoundFresh
          DEF Passed, Shown, Sound, Past, Before, Fresh
<1>7. CASE MarkDoneMarks \/ MarkDoneKilled
  <2>1. /\ marked' = marked /\ op'.mem = Fresh
        /\ UNCHANGED <<pc, mem, work, code, ok, after>>
        /\ disk'.state = disk.state \/ disk'.state = Fresh
    BY <1>7 DEF MarkDoneMarks, MarkDoneKilled, process, Ended, Torn
  <2> QED BY <1>1, <1>2, <2>1, MainSame, SoundFresh DEF Passed, Shown, Sound, Past, Before
<1>8. CASE UNCHANGED vars
  BY <1>8, MainSame DEF vars, params, process, files, operator, Passed, Shown, Sound, Past,
     Before
<1> QED BY <1>3, <1>4, <1>5, <1>6, <1>7, <1>8, StepPassed DEF Next

\* No loop but the compiler's records a todo as completed that its agent failed or
\* whose gates did not pass after the agent, unless an operator marked it: for every
\* plan and number of todos, and whatever is killed and started again in between.
THEOREM OnlyPassedRecorded == Spec => []CompletedPassedGates
<1>1. Init => InScript /\ Copies /\ Passed
  <2>1. Init => Passed
    <3> SUFFICES ASSUME Init PROVE Passed
      OBVIOUS
    <3>1. disk.state = Fresh /\ mem = Fresh /\ op.mem = Fresh /\ pc = 0
      BY DEF Init
    <3> QED BY <3>1, SoundFresh DEF Passed
  <2>2. Init => InScript
    <3> SUFFICES ASSUME Init PROVE InScript
      OBVIOUS
    <3>1. kind \in Kinds /\ pc = 0
      BY DEF Init
    <3>2. Len(Main) \in Nat
      BY <3>1, ScriptsFramed DEF Framed
    <3> QED BY <3>1, <3>2 DEF InScript
  <2> QED BY <2>1, <2>2, InitCopies
<1>2. InScript /\ Copies /\ Passed /\ [Next]_vars => (InScript /\ Copies /\ Passed)'
  BY NextInScript, NextCopies, NextPassed DEF Copies
<1>3. Passed => CompletedPassedGates
  BY DEF Passed, Sound, CompletedPassedGates
<1> QED BY <1>1, <1>2, <1>3, PTL DEF Spec

-----------------------------------------------------------------------------
(* The checkout.                                                           *)

\* d comes from c without losing commits, or without losing those of a branch
\* an agent started.
Keeps(c, d) == /\ d \in Checkout /\ d.lost = c.lost /\ d.head = c.head
Spares(c, d) ==
  /\ d \in Checkout /\ d.head \in {c.head, "loop"}
  /\ "other" \in d.lost => "other" \in c.lost

LEMMA PushKeeps ==
  ASSUME NEW c \in Checkout
  PROVE  /\ Keeps(c, Committed(c))
         /\ \A d \in PushHead(c) \cup PushBranch(c) : Keeps(c, d)
<1>1. Keeps(c, Committed(c))
  BY DEF Checkout, Keeps, Committed
<1>2. \A h : Keeps(c, [c EXCEPT !.ahead = @ \ {h}])
  BY DEF Checkout, Keeps
<1>3. Keeps(c, c)
  BY DEF Keeps
<1> QED BY <1>1, <1>2, <1>3 DEF PushHead, PushBranch

LEMMA CommitAndPushKeeps ==
  ASSUME NEW c \in Checkout, NEW d \in PushHead(Committed(c)) \cup PushBranch(Committed(c))
  PROVE  Keeps(c, d)
<1>1. Keeps(c, Committed(c)) /\ Committed(c) \in Checkout
  BY PushKeeps DEF Keeps
<1>2. Keeps(Committed(c), d)
  BY <1>1, PushKeeps
<1> QED BY <1>1, <1>2 DEF Keeps

LEMMA ResetSpares ==
  ASSUME NEW c \in Checkout
  PROVE  Spares(c, Reset(c))
<1> DEFINE dropped == c.ahead \cap (IF c.head = "detached" THEN {"loop", "detached"} ELSE {"loop"})
<1>1. Reset(c) = [c EXCEPT !.head = "loop", !.ahead = @ \ dropped, !.lost = @ \cup dropped]
  BY DEF Reset
<1>2. "other" \notin dropped /\ dropped \subseteq Heads
  BY DEF Heads
<1> HIDE DEF dropped
<1>3. Reset(c) \in Checkout
  <2>1. "loop" \in Heads
    BY DEF Heads
  <2>2. c.ahead \ dropped \in SUBSET Heads /\ c.lost \cup dropped \in SUBSET Heads
    BY <1>2 DEF Checkout
  <2> HIDE DEF Heads
  <2> QED BY <1>1, <2>1, <2>2 DEF Checkout
<1>4. Reset(c).head = "loop" /\ Reset(c).lost = c.lost \cup dropped
  BY <1>1 DEF Checkout
<1> QED BY <1>2, <1>3, <1>4 DEF Spares

LEMMA PushRepoSpares ==
  ASSUME NEW c \in Checkout, NEW d \in PushRepo(c)
  PROVE  Spares(c, d) /\ (c.head # "detached" => Keeps(c, d))
<1>1. CASE c.head = "other"
  BY <1>1 DEF PushRepo, Spares, Keeps
<1>2. CASE c.head # "other"
  <2>1. PICK e \in Reattached(c) : d \in PushBranch(Committed(e))
    BY <1>2 DEF PushRepo
  <2>2. Spares(c, e) /\ (c.head = "loop" => e = c)
    BY <2>1, ResetSpares DEF Reattached, Spares
  <2>3. Keeps(e, d)
    BY <2>1, <2>2, CommitAndPushKeeps DEF Spares
  <2>4. c.head # "detached" => c.head = "loop"
    BY <1>2 DEF Checkout, Heads
  <2> QED BY <2>2, <2>3, <2>4 DEF Spares, Keeps
<1> QED BY <1>1, <1>2

LEMMA CommitScriptSpares ==
  ASSUME NEW c \in Checkout, NEW d \in CommitScript(c)
  PROVE  Spares(c, d)
<1> DEFINE moved == [c EXCEPT !.head = "loop"]
<1>1. PICK e \in {c, Reset(c), moved} : d \in PushHead(Committed(e))
  BY DEF CommitScript
<1>2. Spares(c, moved) /\ Spares(c, c)
  BY DEF Spares, Checkout, Heads
<1>3. Spares(c, e)
  BY <1>1, <1>2, ResetSpares
<1>4. Keeps(e, d)
  BY <1>1, <1>3, CommitAndPushKeeps DEF Spares
<1> QED BY <1>3, <1>4 DEF Spares, Keeps

Branches ==
  /\ checkout \in Checkout
  /\ env \in Settings[kind]
  /\ CommitsKept
  /\ env.agents # "detaching" => checkout.head # "detached"

LEMMA AgentsKeep ==
  ASSUME Branches, kind \in Kinds, NEW d \in AgentEdits(checkout)
  PROVE  /\ d \in Checkout /\ d.lost = checkout.lost
         /\ env.agents # "detaching" => d.head # "detached"
<1>1. CASE env.agents = "tidy"
  <2>1. d = [checkout EXCEPT !.dirty = FALSE, !.ahead = @ \ {checkout.head}]
    BY <1>1 DEF AgentEdits
  <2> QED BY <2>1 DEF Branches, Checkout
<1>2. CASE env.agents # "tidy"
  <2>1. PICK h \in IF env.agents = "messy" THEN {"loop", "other"} ELSE Heads,
             b \in BOOLEAN, a \in BOOLEAN :
          d = [head |-> h, dirty |-> b, lost |-> checkout.lost,
               ahead |-> IF a THEN checkout.ahead \cup {h} ELSE checkout.ahead]
    BY <1>2 DEF AgentEdits
  <2>2. h \in Heads /\ checkout.lost \subseteq Heads /\ checkout.ahead \subseteq Heads
    BY <2>1 DEF Branches, Checkout, Heads
  <2>3. d \in Checkout
    BY <2>1, <2>2 DEF Checkout
  <2>4. env.agents \in {"tidy", "messy", "detaching"}
    BY SettingsAssumption DEF Branches
  <2> QED BY <1>2, <2>1, <2>3, <2>4
<1> QED BY <1>1, <1>2

\* The checkout changes as one of these says.
LEMMA ChangeKeeps ==
  ASSUME Branches, UNCHANGED params,
         checkout' = checkout
           \/ Keeps(checkout, checkout')
           \/ /\ Spares(checkout, checkout')
              /\ \/ kind \in {"world", "uiux", "sim"}
                 \/ checkout.head # "detached" => Keeps(checkout, checkout')
  PROVE  Branches'
BY DEF Branches, Keeps, Spares, CommitsKept, params

LEMMA NextBranches ==
  ASSUME InScript, Branches, [Next]_vars PROVE Branches'
<1>1. UNCHANGED params
  BY DEF Next, Step, vars, Start, PickTodo, LeaveEarly, Gates, Prep, RunAgent, Recover,
     History, StopIfAgentFailed, StopIfGatesFailed, WriteReports, Push, MarkPlan, Handoff,
     AppendCompleted, SaveCompleted, StopIfRegistryComplete, Reload, Kill, MarkDoneLoads,
     MarkDoneSaves, MarkDoneMarks, MarkDoneKilled
<1>2. checkout \in Checkout
  BY DEF Branches
<1>3. CASE RunAgent
  <2>1. checkout' = checkout \/ checkout' \in AgentEdits(checkout)
    BY <1>3 DEF RunAgent
  <2>2. CASE checkout' \in AgentEdits(checkout)
    <3>1. /\ checkout' \in Checkout /\ checkout'.lost = checkout.lost
          /\ env.agents # "detaching" => checkout'.head # "detached"
      BY <2>2, AgentsKeep DEF InScript
    <3> QED BY <1>1, <3>1 DEF Branches, CommitsKept, params
  <2> QED BY <1>1, <2>1, <2>2, ChangeKeeps
<1>4. CASE Recover
  <2>1. pc \in 1 .. Len(Main) /\ Main[pc] = "recover"
    BY <1>4 DEF Recover, At, InScript
  <2>2. kind \in Rescuing
    BY <2>1, ScriptsRescue DEF InScript
  <2>3. CASE checkout' \in Recovered(checkout)
    <3>1. CASE kind = "sim"
      <4>1. checkout' \in PushHead(Committed(checkout))
        BY <2>3, <3>1 DEF Recovered, SimRecover
      <4> QED BY <1>1, <1>2, <4>1, CommitAndPushKeeps, ChangeKeeps
    <3>2. CASE kind # "sim"
      <4>1. checkout' \in PushRepo(checkout)
        BY <2>2, <2>3, <3>2 DEF Recovered, Rescuing, HttpdRecover, CompilerRecover,
           WorldRecover, UiUxRecover
      <4> QED BY <1>1, <1>2, <4>1, PushRepoSpares, ChangeKeeps
    <3> QED BY <3>1, <3>2
  <2> QED BY <1>1, <1>4, <2>3, ChangeKeeps DEF Recover
<1>5. CASE Push
  <2>1. pc \in 1 .. Len(Main) /\ Main[pc] = "push"
    BY <1>5 DEF Push, At, InScript
  <2>2. kind \in Pushing
    BY <2>1, ScriptsRescue DEF InScript
  <2>3. CASE checkout' \in CommittedAndPushed(checkout)
    <3>1. CASE kind \in {"world", "uiux", "sim"}
      <4>1. checkout' \in CommitScript(checkout)
        BY <2>3, <3>1 DEF CommittedAndPushed, WorldPush, UiUxPush, SimPush
      <4> QED BY <1>1, <1>2, <3>1, <4>1, CommitScriptSpares, ChangeKeeps
    <3>2. CASE kind \in {"research", "security", "swarm"}
      <4>1. checkout' \in PushHead(Committed(checkout))
        BY <2>3, <3>2 DEF CommittedAndPushed, ResearchPush, SecurityPush, SwarmPush
      <4> QED BY <1>1, <1>2, <4>1, CommitAndPushKeeps, ChangeKeeps
    <3> QED BY <2>2, <3>1, <3>2 DEF Pushing
  <2> QED BY <1>1, <1>5, <2>3, ChangeKeeps DEF Push
<1>6. CASE WriteReports \/ MarkPlan \/ Kill \/ MarkDoneMarks \/ MarkDoneKilled
  <2>1. \E b \in BOOLEAN : checkout' = [checkout EXCEPT !.dirty = b]
    BY <1>2, <1>6 DEF WriteReports, MarkPlan, Kill, MarkDoneMarks, MarkDoneKilled, Changed,
       Checkout
  <2>2. \A b \in BOOLEAN : Keeps(checkout, [checkout EXCEPT !.dirty = b])
    BY <1>2 DEF Keeps, Checkout
  <2> QED BY <1>1, <2>1, <2>2, ChangeKeeps
<1>7. CASE ~(\/ RunAgent \/ Recover \/ Push \/ WriteReports \/ MarkPlan \/ Kill
             \/ MarkDoneMarks \/ MarkDoneKilled)
  <2>1. checkout' = checkout
    BY <1>7 DEF Next, Step, vars, Start, PickTodo, LeaveEarly, Gates, Prep, History,
       StopIfAgentFailed, StopIfGatesFailed, Handoff, AppendCompleted, SaveCompleted,
       StopIfRegistryComplete, Reload, MarkDoneLoads, MarkDoneSaves, files
  <2> QED BY <1>1, <2>1, ChangeKeeps
<1> QED BY <1>3, <1>4, <1>5, <1>6, <1>7

\* No rescue of unpushed work and no commit script drops the commits of a branch that
\* an agent started, in any loop.  Of the loop's own branch the same is shown only for
\* httpd, compiler, research, security and swarm, while no agent leaves the head
\* detached: the commit scripts of world, uiux and sim reset it while another branch
\* is checked out, and drop what it had (recover_unpushed_work and commit_push).
THEOREM CommitsSurvive == Spec => []CommitsKept
<1>1. Init => InScript /\ Branches
  <2> SUFFICES ASSUME Init PROVE InScript /\ Branches
    OBVIOUS
  <2>1. kind \in Kinds /\ pc = 0 /\ env \in Settings[kind]
    BY DEF Init
  <2>2. Len(Main) \in Nat
    BY <2>1, ScriptsFramed DEF Framed
  <2>3. checkout = [head |-> "loop", dirty |-> FALSE, ahead |-> {}, lost |-> {}]
    BY DEF Init
  <2>4. checkout \in Checkout
    BY <2>3 DEF Checkout, Heads
  <2> QED BY <2>1, <2>2, <2>3, <2>4 DEF InScript, Branches, CommitsKept
<1>2. InScript /\ Branches /\ [Next]_vars => (InScript /\ Branches)'
  BY NextInScript, NextBranches
<1>3. Branches => CommitsKept
  BY DEF Branches
<1> QED BY <1>1, <1>2, <1>3, PTL DEF Spec

-----------------------------------------------------------------------------
(* Picking a todo.                                                         *)

\* A set of numbers has a least one.
LEMMA LeastNatural ==
  ASSUME NEW S \in SUBSET Nat, S # {}
  PROVE  \E n \in S : \A k \in S : n <= k
<1> DEFINE less == {p \in Nat \X Nat : p[1] < p[2]}
<1>1. IsWellFoundedOn(less, Nat)
  BY NatLessThanWellFounded DEF OpToRel
<1>2. PICK n \in S : \A k \in S : ~(<<k, n>> \in less)
  BY <1>1, WFMin
<1>3. ASSUME NEW k \in S, k < n
      PROVE  FALSE
  <2>1. <<k, n>> \in Nat \X Nat /\ <<k, n>>[1] < <<k, n>>[2]
    BY <1>3
  <2> QED BY <1>2, <2>1
<1> QED BY <1>3

\* What a sort and its first element give: a member, unless there is none.
LEMMA LeastByPicks ==
  ASSUME NEW S \in SUBSET Todos, NEW key, \A t \in S : key[t] \in Nat
  PROVE  /\ LeastBy(S, key) \in S \cup {NoTodo}
         /\ LeastBy(S, key) = NoTodo => S = {}
<1>1. NoTodo \notin S
  BY TodosAssumption DEF NoTodo
<1>2. ASSUME S # {}
      PROVE  LeastBy(S, key) \in S
  <2> DEFINE keys == {key[t] : t \in S}
  <2>1. keys \in SUBSET Nat /\ keys # {}
    BY <1>2
  <2>2. PICK n \in keys : \A k \in keys : n <= k
    BY <2>1, LeastNatural
  <2>3. PICK t \in S : key[t] = n
    BY <2>2
  <2>4. \A u \in S : key[t] <= key[u]
    BY <2>2, <2>3
  <2> QED BY <1>2, <2>4 DEF LeastBy
<1> QED BY <1>1, <1>2 DEF LeastBy

PlanType == [Todos -> Statuses]

LEMMA OpenAreTodos ==
  ASSUME NEW p \in PlanType, NEW done, NEW label, NEW L
  PROVE  /\ OpenTodos(p, done) \in SUBSET Todos
         /\ Labelled(OpenTodos(p, done), label, L) \in SUBSET Todos
BY DEF OpenTodos, Labelled, PlanType

LEMMA UrgencyNatural == \A status : Urgency(status) \in {0, 1}
BY DEF Urgency

LEMMA TodosNatural == Todos \subseteq Nat
BY TodosAssumption

LEMMA HttpdPicks ==
  ASSUME NEW p \in PlanType, NEW done, NEW label, NEW e
  PROVE  LET t == HttpdPick(p, done, label, e)
         IN /\ t \in Todos \cup {NoTodo}
            /\ t = NoTodo => Labelled(OpenTodos(p, done), label, {"gap"}) = {}
            /\ t = NoTodo /\ ~e.gapOnly => OpenTodos(p, done) = {}
<1> DEFINE open   == OpenTodos(p, done)
           gaps   == Labelled(open, label, {"gap"})
           server == Labelled(open, label, ServerMilestones)
           m1     == Labelled(open, label, {"m1", "m15"})
           scope  == CASE e.gapOnly \/ gaps # {} -> gaps
                       [] e.closeServer -> IF server # {} THEN server ELSE open
                       [] ~e.blockers /\ m1 # {} -> m1
                       [] OTHER -> open
           key == [t \in scope |-> 1000 * Urgency(p[t]) + 100 * ServerTier(label[t]) + t]
<1>1. HttpdPick(p, done, label, e) = LeastBy(scope, key)
  BY DEF HttpdPick
<1>2. \A l : ServerTier(l) \in Nat
  BY DEF ServerTier
<1>3. open \subseteq Todos /\ gaps \subseteq open /\ server \subseteq open /\ m1 \subseteq open
  BY OpenAreTodos DEF Labelled
<1>4. scope \in {gaps, server, m1, open}
  OBVIOUS
<1>5. scope = {} => gaps = {} /\ (~e.gapOnly => open = {})
  BY <1>3
<1>6. scope \in SUBSET Todos
  BY <1>3, <1>4
<1> HIDE DEF scope, gaps, open
<1>7. \A t \in scope : key[t] \in Nat
  BY <1>2, <1>6, UrgencyNatural, TodosNatural
<1> HIDE DEF key
<1>8. LeastBy(scope, key) \in scope \cup {NoTodo} /\ (LeastBy(scope, key) = NoTodo => scope = {})
  BY <1>6, <1>7, LeastByPicks
<1> QED BY <1>1, <1>5, <1>6, <1>8 DEF gaps, open

LEMMA CompilerPicks ==
  ASSUME NEW p \in PlanType, NEW done, NEW label
  PROVE  LET t == CompilerPick(p, done, label)
         IN t \in Todos \cup {NoTodo} /\ (t = NoTodo => OpenTodos(p, done) = {})
<1> DEFINE open == OpenTodos(p, done)
           key  == [t \in open |-> 1000 * Urgency(p[t]) + 100 * CompilerTier(label[t]) + t]
<1>1. CompilerPick(p, done, label) = LeastBy(open, key)
  BY DEF CompilerPick
<1>2. \A l : CompilerTier(l) \in Nat
  BY DEF CompilerTier
<1>3. open \in SUBSET Todos
  BY OpenAreTodos
<1> HIDE DEF open
<1>4. \A t \in open : key[t] \in Nat
  BY <1>2, <1>3, UrgencyNatural, TodosNatural
<1> HIDE DEF key
<1>5. LeastBy(open, key) \in open \cup {NoTodo} /\ (LeastBy(open, key) = NoTodo => open = {})
  BY <1>3, <1>4, LeastByPicks
<1> QED BY <1>1, <1>3, <1>5 DEF open

LEMMA WorldPicks ==
  ASSUME NEW p \in PlanType, NEW done, NEW label
  PROVE  LET t == WorldPick(p, done, label, Places)
         IN /\ t \in Todos \cup {NoTodo}
            /\ t = NoTodo => Labelled(OpenTodos(p, done), label, {"w0", "w1"}) = {}
<1> DEFINE open == Labelled(OpenTodos(p, done), label, {"w0", "w1"})
           key  == [t \in open |-> 10000 * Urgency(p[t]) + 100 * WaveTier(label[t]) + Places[t]]
<1>1. WorldPick(p, done, label, Places) = LeastBy(open, key)
  BY DEF WorldPick
<1>2. \A l : WaveTier(l) \in Nat
  BY DEF WaveTier
<1>3. open \in SUBSET Todos
  BY OpenAreTodos
<1> HIDE DEF open
<1>4. \A t \in open : key[t] \in Nat
  BY <1>2, <1>3, UrgencyNatural, PlacesAssumption
<1> HIDE DEF key
<1>5. LeastBy(open, key) \in open \cup {NoTodo} /\ (LeastBy(open, key) = NoTodo => open = {})
  BY <1>3, <1>4, LeastByPicks
<1> QED BY <1>1, <1>3, <1>5 DEF open

LEMMA UiUxPicks ==
  ASSUME NEW p \in PlanType, NEW done, NEW label
  PROVE  LET t == UiUxPick(p, done, label)
         IN /\ t \in Todos \cup {NoTodo}
            /\ t = NoTodo => Labelled(OpenTodos(p, done), label, {"studio-ux"}) = {}
<1> DEFINE open == Labelled(OpenTodos(p, done), label, {"studio-ux"})
           key  == [t \in open |-> 100 * Urgency(p[t]) + t]
<1>1. UiUxPick(p, done, label) = LeastBy(open, key)
  BY DEF UiUxPick
<1>2. open \in SUBSET Todos
  BY OpenAreTodos
<1> HIDE DEF open
<1>3. \A t \in open : key[t] \in Nat
  BY <1>2, UrgencyNatural, TodosNatural
<1> HIDE DEF key
<1>4. LeastBy(open, key) \in open \cup {NoTodo} /\ (LeastBy(open, key) = NoTodo => open = {})
  BY <1>2, <1>3, LeastByPicks
<1> QED BY <1>1, <1>2, <1>4 DEF open

LEMMA FirstInFilePicks ==
  ASSUME NEW S \in SUBSET Todos
  PROVE  /\ FirstInFile(S, Places) \in S \cup {NoTodo}
         /\ FirstInFile(S, Places) = NoTodo => S = {}
<1> DEFINE key == [t \in S |-> Places[t]]
<1>1. \A t \in S : key[t] \in Nat
  BY PlacesAssumption
<1>2. FirstInFile(S, Places) = LeastBy(S, key)
  BY DEF FirstInFile
<1> HIDE DEF key
<1> QED BY <1>1, <1>2, LeastByPicks

\* The families of the registry, in the order they are searched in.
FamilyNames == {Families[i] : i \in DOMAIN Families}

LEMMA SimPicks ==
  ASSUME NEW p \in PlanType, NEW done, NEW label,
         \A t \in Todos : label[t] \in {"backlog"} \cup FamilyNames
  PROVE  LET t == SimPick(p, done, label, Places)
         IN t \in Todos \cup {NoTodo} /\ (t = NoTodo => OpenTodos(p, done) = {})
<1> DEFINE open  == OpenTodos(p, done)
           ours  == Backlog(open, label)
           algos == {t \in DOMAIN p : /\ \E i \in DOMAIN Families : Families[i] = label[t]
                                      /\ p[t] # "completed"}
           key   == [t \in algos |-> 100 * FamilyRank(label[t]) + t]
<1>1. NextRegistryAlgo(p, label) = LeastBy(algos, key)
  BY DEF NextRegistryAlgo
<1>2. open \in SUBSET Todos /\ ours \in SUBSET Todos
  BY OpenAreTodos DEF Backlog
<1>3. algos \in SUBSET Todos
  BY DEF PlanType
<1>4. \A t \in algos : FamilyRank(label[t]) \in Nat
  BY DEF FamilyRank, Families
<1>5. open \subseteq ours \cup algos
  BY <1>2 DEF OpenTodos, Open, Backlog, Labelled, FamilyNames, PlanType
<1> HIDE DEF algos, open, ours
<1>6. \A t \in algos : key[t] \in Nat
  BY <1>3, <1>4, TodosNatural
<1> HIDE DEF key
<1>7. /\ LeastBy(algos, key) \in algos \cup {NoTodo}
      /\ LeastBy(algos, key) = NoTodo => algos = {}
  BY <1>3, <1>6, LeastByPicks
<1>8. /\ FirstInFile(ours, Places) \in ours \cup {NoTodo}
      /\ FirstInFile(ours, Places) = NoTodo => ours = {}
  BY <1>2, FirstInFilePicks
<1>9. SimPick(p, done, label, Places)
        = IF FirstInFile(ours, Places) # NoTodo THEN FirstInFile(ours, Places)
          ELSE LeastBy(algos, key)
  BY <1>1 DEF SimPick, ours, open
<1> QED BY <1>2, <1>3, <1>5, <1>7, <1>8, <1>9 DEF open

\* Whatever a loop picks is a todo of the plan, and when it picks none its scope has
\* none that is open and not recorded.
LEMMA LoopPicks ==
  ASSUME kind \in Kinds, env \in Settings[kind], NEW p \in PlanType, NEW done
  PROVE  /\ Pick(p, done) \in Todos \cup {NoTodo}
         /\ Pick(p, done) = NoTodo => Scope \cap OpenTodos(p, done) = {}
<1>1. CASE kind = "httpd"
  <2>1. Pick(p, done) = HttpdPick(p, done, env.label, env)
    BY <1>1 DEF Pick
  <2>2. Scope = IF env.gapOnly THEN Labelled(Todos, env.label, {"gap"}) ELSE Todos
    BY <1>1 DEF Scope
  <2> QED BY <2>1, <2>2, HttpdPicks DEF Labelled
<1>2. CASE kind = "compiler"
  BY <1>2, CompilerPicks DEF Pick
<1>3. CASE kind = "world"
  <2>1. Pick(p, done) = WorldPick(p, done, env.label, Places)
    BY <1>3 DEF Pick
  <2>2. Scope = Labelled(Todos, env.label, {"w0", "w1"})
    BY <1>3 DEF Scope
  <2> QED BY <2>1, <2>2, WorldPicks DEF Labelled
<1>4. CASE kind = "uiux"
  <2>1. Pick(p, done) = UiUxPick(p, done, env.label)
    BY <1>4 DEF Pick
  <2>2. Scope = Labelled(Todos, env.label, {"studio-ux"})
    BY <1>4 DEF Scope
  <2> QED BY <2>1, <2>2, UiUxPicks DEF Labelled
<1>5. CASE kind = "sim"
  <2>1. Pick(p, done) = SimPick(p, done, env.label, Places)
    BY <1>5 DEF Pick
  <2>2. \A t \in Todos : env.label[t] \in {"backlog"} \cup FamilyNames
    BY <1>5, SettingsAssumption DEF FamilyNames
  <2> QED BY <2>1, <2>2, SimPicks
<1>6. CASE kind \in {"research", "security", "swarm"}
  <2>1. Pick(p, done) = FirstInFile(OpenTodos(p, done), Places)
    BY <1>6 DEF Pick, ResearchPick, SecurityPick, SwarmPick
  <2> QED BY <2>1, OpenAreTodos, FirstInFilePicks
<1> QED BY <1>1, <1>2, <1>3, <1>4, <1>5, <1>6 DEF Kinds

-----------------------------------------------------------------------------
(* Types.                                                                  *)

PlanTypes == plan \in [Todos -> Statuses] /\ todos \in [Todos -> Statuses]
RecordTypes ==
  /\ disk \in [readable: BOOLEAN, state: State] /\ mem \in State
  /\ op \in [at: {"idle", "loaded", "saved", "ended"}, todo: Todos \cup {NoTodo}, mem: State]
  /\ op.at \in {"loaded", "saved"} => op.todo \in Todos
  /\ op.at = "saved" => kind = "world"
  /\ marked \subseteq Todos /\ raced \in BOOLEAN /\ recorded \in State
LocalTypes ==
  /\ work \in Todos \cup {NoTodo} /\ (pc > 1 => work # NoTodo)
  /\ code \in Codes /\ ok \in BOOLEAN /\ after \in BOOLEAN /\ once \in BOOLEAN

Typed == InScript /\ Branches /\ PlanTypes /\ RecordTypes /\ LocalTypes

LEMMA ScriptsBegin == kind \in Kinds => Len(Main) > 1 /\ Main[1] = "pick"
BY DEF Kinds, Main, HttpdMain, CompilerMain, WorldMain, UiUxMain, SimMain, ResearchMain,
   SecurityMain, SwarmMain

\* A process past its pick has a todo.
LEMMA HasTodo ==
  ASSUME Typed, NEW step, At(step), step # "pick"
  PROVE  pc > 1 /\ work \in Todos
<1>1. pc \in Nat /\ pc # 0 /\ pc # 1
  BY ScriptsBegin DEF Typed, InScript, At
<1> QED BY <1>1 DEF Typed, LocalTypes

LEMMA FreshTypes == Fresh \in State /\ NoPlan \in [Todos -> Statuses]
BY DEF Fresh, State, NoPlan, Statuses

LEMMA WordsAreStatuses ==
  ASSUME kind \in Kinds
  PROVE  /\ Told \cup {"in_progress"} \subseteq Statuses
         /\ WorldMark \in Statuses
         /\ kind \in {"world", "research", "security", "swarm"} => MarkStatus \in Statuses
BY DEF Kinds, Told, MarkStatus, Statuses, Open, HttpdTold, CompilerTold, WorldTold, UiUxTold,
   SimTold, ResearchTold, SecurityTold, SwarmTold, WorldMark, ResearchMark, SecurityMark,
   SwarmMark

LEMMA ScriptsMark ==
  ASSUME kind \in Kinds, NEW p \in 1 .. Len(Main), Main[p] = "mark"
  PROVE  kind \in {"world", "research", "security", "swarm"}
BY DEF Kinds, Main, HttpdMain, CompilerMain, WorldMain, UiUxMain, SimMain, ResearchMain,
   SecurityMain, SwarmMain

\* Marking a todo and cutting the plan file off leave it a plan.
LEMMA MarkedTypes ==
  ASSUME NEW p \in [Todos -> Statuses], NEW t, MarkStatus \in Statuses
  PROVE  Marked(p, t) \in [Todos -> Statuses]
BY DEF Marked

LEMMA TornTypes ==
  ASSUME NEW p \in [Todos -> Statuses], NEW q \in TornPlans(p)
  PROVE  q \in [Todos -> Statuses]
<1>1. "gone" \in Statuses
  BY DEF Statuses
<1> QED BY <1>1 DEF TornPlans

LEMMA NextPlanTypes ==
  ASSUME Typed, [Next]_vars PROVE PlanTypes'
<1>1. PlanTypes /\ kind \in Kinds
  BY DEF Typed, InScript
<1>2. todos' \in {todos, plan, NoPlan}
  BY DEF Next, Step, vars, process, Start, PickTodo, LeaveEarly, Gates, Prep, RunAgent, Recover,
     History, StopIfAgentFailed, StopIfGatesFailed, WriteReports, Push, MarkPlan, Handoff,
     AppendCompleted, SaveCompleted, StopIfRegistryComplete, Reload, Kill, MarkDoneLoads,
     MarkDoneSaves, MarkDoneMarks, MarkDoneKilled, Locals, Exit, NoLocals
<1>3. \/ plan' = plan \/ plan' \in [Todos -> Statuses]
      \/ \E t, s : plan' = [plan EXCEPT ![t] = s] /\ (t \in Todos => s \in Statuses)
  <2>1. CASE RunAgent
    <3>1. CASE code' = 2
      BY <2>1, <3>1 DEF RunAgent
    <3>2. CASE code' # 2
      <4>1. PICK s \in Told \cup {"in_progress", plan[work]} : plan' = [plan EXCEPT ![work] = s]
        BY <2>1, <3>2 DEF RunAgent
      <4>2. work \in Todos => s \in Statuses
        BY <1>1, <4>1, WordsAreStatuses DEF PlanTypes
      <4> QED BY <4>1, <4>2
    <3> QED BY <3>1, <3>2
  <2>2. CASE plan' = plan
    BY <2>2
  <2>3. ASSUME At("mark"), plan' = Marked(plan, work) \/ plan' \in TornPlans(Marked(plan, work))
        PROVE  plan' \in [Todos -> Statuses]
    <3>1. pc \in 1 .. Len(Main) /\ Main[pc] = "mark"
      BY <2>3 DEF At, Typed, InScript
    <3>2. MarkStatus \in Statuses
      BY <1>1, <3>1, ScriptsMark, WordsAreStatuses
    <3>3. Marked(plan, work) \in [Todos -> Statuses]
      BY <1>1, <3>2, MarkedTypes DEF PlanTypes
    <3> QED BY <2>3, <3>3, TornTypes
  <2>4. CASE MarkPlan \/ Kill
    BY <2>2, <2>3, <2>4 DEF MarkPlan, Kill, Marks
  <2>5. CASE MarkDoneMarks
    <3>1. kind = "world"
      BY <2>5 DEF MarkDoneMarks, Typed, RecordTypes
    <3>2. MarkStatus \in Statuses
      BY <1>1, <3>1, WordsAreStatuses
    <3> QED BY <1>1, <2>5, <3>2, MarkedTypes DEF MarkDoneMarks, PlanTypes
  <2>6. CASE MarkDoneKilled
    BY <1>1, <2>6, TornTypes DEF MarkDoneKilled, PlanTypes
  <2>7. CASE ~(RunAgent \/ MarkPlan \/ Kill \/ MarkDoneMarks \/ MarkDoneKilled)
    BY <2>7 DEF Next, Step, vars, files, Start, PickTodo, LeaveEarly, Gates, Prep, Recover,
       History, StopIfAgentFailed, StopIfGatesFailed, WriteReports, Push, Handoff,
       AppendCompleted, SaveCompleted, StopIfRegistryComplete, Reload, MarkDoneLoads,
       MarkDoneSaves
  <2> QED BY <2>1, <2>4, <2>5, <2>6, <2>7
<1> QED BY <1>1, <1>2, <1>3, FreshTypes DEF PlanTypes

\* What is written to state.json is a state, and the flag of a race a truth value.
LEMMA SavedTypes ==
  ASSUME RecordTypes, NEW m \in State, SaveState(m)
  PROVE  /\ disk' \in [readable: BOOLEAN, state: State] /\ raced' \in BOOLEAN
         /\ recorded' \in State
BY DEF RecordTypes, SaveState, Joined, State

LEMMA TornIsFile == Torn \in [readable: BOOLEAN, state: State]
BY FreshTypes DEF Torn

LEMMA NextRecordTypes ==
  ASSUME Typed, [Next]_vars PROVE RecordTypes'
<1>0. kind' = kind
  BY DEF Next, Step, vars, params, Start, PickTodo, LeaveEarly, Gates, Prep, RunAgent,
     Recover, History, StopIfAgentFailed, StopIfGatesFailed, WriteReports, Push, MarkPlan,
     Handoff, AppendCompleted, SaveCompleted, StopIfRegistryComplete, Reload, Kill,
     MarkDoneLoads, MarkDoneSaves, MarkDoneMarks,
     MarkDoneKilled
<1>1. RecordTypes
  BY DEF Typed
<1>2. CASE History
  <2>1. work \in Todos
    BY <1>2, HasTodo DEF History
  <2>2. Recorded \in State
    BY <1>1, <2>1 DEF Recorded, RecordTypes, State
  <2>3. mem' = Recorded /\ SaveState(Recorded) /\ UNCHANGED <<op, marked>>
    BY <1>2 DEF History, operator
  <2> QED BY <1>0, <1>1, <2>2, <2>3, SavedTypes DEF RecordTypes
<1>3. CASE AppendCompleted
  <2>1. work \in Todos
    BY <1>3, HasTodo DEF AppendCompleted
  <2>2. mem' = [mem EXCEPT !.completed = @ \cup {work}]
        /\ UNCHANGED <<disk, op, marked, raced, recorded>>
    BY <1>3 DEF AppendCompleted, operator, files, audit
  <2>3. mem' \in State
    BY <1>1, <2>1, <2>2 DEF RecordTypes, State
  <2> QED BY <1>0, <1>1, <2>2, <2>3 DEF RecordTypes
<1>4. CASE MarkDoneLoads
  <2>1. PICK t \in Todos : op' = [at |-> "loaded", todo |-> t, mem |-> disk.state]
    BY <1>4 DEF MarkDoneLoads, Loaded
  <2>2. UNCHANGED <<disk, mem, marked, raced, recorded>>
    BY <1>4 DEF MarkDoneLoads, files, process, audit
  <2> QED BY <1>0, <1>1, <2>1, <2>2 DEF RecordTypes
<1>5. CASE MarkDoneSaves
  <2> DEFINE m == [op.mem EXCEPT !.completed = @ \cup {op.todo}]
  <2>1. /\ disk' = [readable |-> TRUE, state |-> m] /\ recorded' = Joined(recorded, m)
        /\ marked' = marked \cup {op.todo} /\ raced' = (raced \/ pc # 0) /\ mem' = mem
        /\ op' = Ended \/ op' = [op EXCEPT !.at = "saved"]
    BY <1>5 DEF MarkDoneSaves, process
  <2>2. op.todo \in Todos /\ op.mem \in State
    BY <1>1, <1>5 DEF RecordTypes, MarkDoneSaves
  <2>3. m \in State /\ Joined(recorded, m) \in State
    BY <1>1, <2>2 DEF RecordTypes, State, Joined
  <2>4. /\ op' \in [at: {"idle", "loaded", "saved", "ended"}, todo: Todos \cup {NoTodo}, mem: State]
        /\ op'.at \in {"loaded", "saved"} => op'.todo \in Todos
    BY <1>1, <2>1, <2>2, FreshTypes DEF RecordTypes, Ended
  <2>5. op'.at = "saved" => kind' = "world"
    BY <1>5 DEF MarkDoneSaves, Ended, params
  <2> HIDE DEF m
  <2> QED BY <1>1, <2>1, <2>2, <2>3, <2>4, <2>5 DEF RecordTypes
<1>6. CASE Start
  <2>1. mem' = disk.state /\ UNCHANGED <<disk, op, marked, raced, recorded>>
    BY <1>6 DEF Start, Loaded, files, operator, audit
  <2> QED BY <1>0, <1>1, <2>1 DEF RecordTypes
<1>7. CASE SaveCompleted \/ StopIfAgentFailed
  <2>1. mem' \in {mem, Fresh} /\ UNCHANGED <<op, marked>>
    BY <1>7 DEF SaveCompleted, StopIfAgentFailed, Locals, Exit, NoLocals, operator
  <2>2. SaveState(mem) \/ UNCHANGED <<disk, raced, recorded>>
    BY <1>7 DEF SaveCompleted, StopIfAgentFailed, audit
  <2> QED BY <1>0, <1>1, <2>1, <2>2, SavedTypes, FreshTypes DEF RecordTypes
<1>8. CASE \/ Kill \/ UNCHANGED vars
           \/ Step /\ ~(History \/ AppendCompleted \/ SaveCompleted \/ StopIfAgentFailed)
  <2>1. mem' \in {mem, Fresh} /\ UNCHANGED <<op, marked, raced, recorded>>
    BY <1>8 DEF Kill, vars, process, files, operator, audit, Step, PickTodo, LeaveEarly, Gates,
       Prep, RunAgent, Recover, StopIfGatesFailed, WriteReports, Push, MarkPlan, Handoff,
       StopIfRegistryComplete, Reload, Locals, Exit, NoLocals
  <2>2. disk' = disk \/ disk' = Torn
    BY <1>8 DEF Kill, vars, process, files, operator, Step, PickTodo, LeaveEarly, Gates, Prep,
       RunAgent, Recover, StopIfGatesFailed, WriteReports, Push, MarkPlan, Handoff,
       StopIfRegistryComplete, Reload
  <2> QED BY <1>0, <1>1, <2>1, <2>2, FreshTypes, TornIsFile DEF RecordTypes
<1>9. CASE MarkDoneMarks \/ MarkDoneKilled
  <2>1. /\ UNCHANGED <<mem, marked, recorded>> /\ op' = Ended /\ raced' = (raced \/ pc # 0)
        /\ disk' = disk \/ disk' = Torn
    BY <1>9 DEF MarkDoneMarks, MarkDoneKilled, process
  <2>2. /\ op' \in [at: {"idle", "loaded", "saved", "ended"}, todo: Todos \cup {NoTodo}, mem: State]
        /\ op'.at = "ended"
    BY <2>1, FreshTypes DEF Ended
  <2>3. op'.at \notin {"loaded", "saved"}
    BY <2>2
  <2>4. disk' \in [readable: BOOLEAN, state: State] /\ raced' \in BOOLEAN
    BY <1>1, <2>1, TornIsFile DEF RecordTypes
  <2> QED BY <1>0, <1>1, <2>1, <2>2, <2>3, <2>4 DEF RecordTypes
<1> QED BY <1>2, <1>3, <1>4, <1>5, <1>6, <1>7, <1>8, <1>9 DEF Next

LEMMA NextLocalTypes ==
  ASSUME Typed, [Next]_vars PROVE LocalTypes'
<1>1. LocalTypes /\ InScript /\ PlanTypes
  BY DEF Typed
<1>2. UNCHANGED params
  BY DEF Next, Step, vars, Start, PickTodo, LeaveEarly, Gates, Prep, RunAgent, Recover,
     History, StopIfAgentFailed, StopIfGatesFailed, WriteReports, Push, MarkPlan, Handoff,
     AppendCompleted, SaveCompleted, StopIfRegistryComplete, Reload, Kill, MarkDoneLoads,
     MarkDoneSaves, MarkDoneMarks, MarkDoneKilled
<1>3. Codes' = Codes /\ 0 \in Codes
  BY <1>1, <1>2 DEF params, Codes, InScript, Kinds, HttpdCodes, CompilerCodes, WorldCodes,
     UiUxCodes, SimCodes, ResearchCodes, SecurityCodes, SwarmCodes
<1>4. NoTodo \in Todos \cup {NoTodo}
  OBVIOUS
<1>5. ASSUME pc' \in {0, 1}, work' = NoTodo, code' = 0, ok' = FALSE, after' = FALSE,
             once' \in BOOLEAN
      PROVE  LocalTypes'
  <2>1. ~(pc' > 1) /\ code' \in Codes' /\ work' \in Todos \cup {NoTodo}
    BY <1>3, <1>5
  <2>2. ok' \in BOOLEAN /\ after' \in BOOLEAN /\ once' \in BOOLEAN
    BY <1>5
  <2> QED BY <2>1, <2>2 DEF LocalTypes
<1>6. ASSUME NoLocals, pc' = 0
      PROVE  LocalTypes'
  BY <1>5, <1>6 DEF NoLocals
<1>7. CASE PickTodo
  <2> DEFINE t == Pick(todos, mem.completed)
  <2>1. t \in Todos \cup {NoTodo}
    BY <1>1, LoopPicks DEF PlanTypes, PlanType, InScript, Typed, Branches
  <2>2. \/ NoLocals /\ pc' = 0
        \/ t # NoTodo /\ work' = t /\ UNCHANGED <<code, ok, after, once>>
    BY <1>7 DEF PickTodo, Exit
  <2> HIDE DEF t
  <2> QED BY <1>1, <1>3, <1>6, <2>1, <2>2 DEF LocalTypes
<1>8. CASE Start \/ Reload
  <2>1. \/ NoLocals /\ pc' = 0
        \/ /\ pc' = 1 /\ work' = NoTodo /\ code' = 0 /\ ok' = FALSE /\ after' = FALSE
           /\ once' = once \/ once' \in BOOLEAN
    BY <1>8 DEF Start, Reload, Exit
  <2> QED BY <1>1, <1>5, <1>6, <2>1 DEF LocalTypes
<1>9. CASE Step /\ ~PickTodo /\ ~Reload
  <2>1. pc \in Nat /\ pc > 1 /\ work \in Todos
    <3>1. PICK step \in {"agent", "precheck", "gates", "prep", "recover", "history",
                         "stop-agent", "stop-agent-saving", "stop-gates", "report", "refresh",
                         "push", "mark", "handoff", "append", "save", "registry"} : At(step)
      BY <1>9 DEF Step, LeaveEarly, Gates, Prep, RunAgent, Recover, History,
         StopIfAgentFailed, StopIfGatesFailed, WriteReports, Push, MarkPlan, Handoff,
         AppendCompleted, SaveCompleted, StopIfRegistryComplete
    <3> QED BY <1>1, <3>1, HasTodo DEF InScript
  <2>2. \/ NoLocals /\ pc' = 0
        \/ /\ pc' = pc + 1 /\ work' = work /\ once' = once
           /\ code' = code \/ code' \in Codes
           /\ ok' = ok \/ ok' \in BOOLEAN
           /\ after' = after \/ after' \in BOOLEAN
    BY <1>9 DEF Step, LeaveEarly, Gates, Prep, RunAgent, Recover, History,
       StopIfAgentFailed, StopIfGatesFailed, WriteReports, Push, MarkPlan, Handoff,
       AppendCompleted, SaveCompleted, StopIfRegistryComplete, Locals, Advance, Exit, At
  <2> QED BY <1>1, <1>3, <1>6, <2>1, <2>2 DEF LocalTypes
<1>10. CASE Kill
  BY <1>6, <1>10 DEF Kill, Exit
<1>11. CASE \/ MarkDoneLoads \/ MarkDoneSaves \/ MarkDoneMarks \/ MarkDoneKilled
            \/ UNCHANGED vars
  <2>1. UNCHANGED process
    BY <1>11 DEF MarkDoneLoads, MarkDoneSaves, MarkDoneMarks,
     MarkDoneKilled, vars
  <2> QED BY <1>1, <1>3, <2>1 DEF process, LocalTypes
<1> QED BY <1>7, <1>8, <1>9, <1>10, <1>11 DEF Next

LEMMA InitTyped == Init => Typed
<1> SUFFICES ASSUME Init PROVE Typed
  OBVIOUS
<1>1. kind \in Kinds /\ pc = 0 /\ env \in Settings[kind]
  BY DEF Init
<1>2. Len(Main) \in Nat
  BY <1>1, ScriptsFramed DEF Framed
<1>3. Branches
  <2>1. checkout = [head |-> "loop", dirty |-> FALSE, ahead |-> {}, lost |-> {}]
    BY DEF Init
  <2>2. checkout \in Checkout
    BY <2>1 DEF Checkout, Heads
  <2> QED BY <1>1, <2>1, <2>2 DEF Branches, CommitsKept
<1>4. PlanTypes
  BY FreshTypes, PlansAssumption DEF Init, PlanTypes
<1>5. RecordTypes
  <2>1. /\ disk = [readable |-> TRUE, state |-> Fresh] /\ mem = Fresh
        /\ op = [at |-> "idle", todo |-> NoTodo, mem |-> Fresh] /\ marked = {} /\ raced = FALSE
        /\ recorded = Fresh
    BY DEF Init
  <2> QED BY <2>1, FreshTypes DEF RecordTypes
<1>6. LocalTypes
  <2>1. 0 \in Codes
    BY <1>1 DEF Codes, Kinds, HttpdCodes, CompilerCodes, WorldCodes, UiUxCodes, SimCodes,
       ResearchCodes, SecurityCodes, SwarmCodes
  <2>2. code = 0 /\ work = NoTodo
    BY DEF Init
  <2>3. ~(pc > 1)
    BY <1>1
  <2>4. ok \in BOOLEAN /\ after \in BOOLEAN /\ once \in BOOLEAN
    BY DEF Init
  <2> QED BY <2>1, <2>2, <2>3, <2>4 DEF LocalTypes
<1> QED BY <1>1, <1>2, <1>3, <1>4, <1>5, <1>6 DEF Typed, InScript

LEMMA NextTyped == Typed /\ [Next]_vars => Typed'
BY NextInScript, NextBranches, NextPlanTypes, NextRecordTypes, NextLocalTypes DEF Typed

\* state.json, the plan and the checkout stay well formed, a process past its pick has
\* a todo of the plan, and no loop but the compiler's records a todo as completed
\* without an agent that exited 0 and gates that passed after it, or an operator.
THEOREM RecordsAreSound == Spec => []RecordsSound
<1>1. Spec => []Typed
  BY InitTyped, NextTyped, PTL DEF Spec
<1>2. Typed => TypeOK
  BY DEF Typed, InScript, Branches, PlanTypes, RecordTypes, LocalTypes, TypeOK
<1>3. TypeOK /\ CompletedPassedGates => RecordsSound
  BY DEF RecordsSound
<1> QED BY <1>1, <1>2, <1>3, OnlyPassedRecorded, PTL

-----------------------------------------------------------------------------
(* What a loop says at its end.                                            *)

\* The record is saved before the next iteration, and after it is made.
Recording(s) ==
  \A q \in 1 .. Len(s) :
    /\ s[q] = "append" => ~Before(s, q, {"save"})
    /\ s[q] = "reload" => Before(s, q, {"save"})

LEMMA ScriptsRecord == kind \in Kinds => Recording(Main)
<1> USE DEF Recording, Before
<1>1. Recording(HttpdMain)
  BY DEF HttpdMain
<1>2. Recording(CompilerMain)
  BY DEF CompilerMain
<1>3. Recording(WorldMain)
  BY DEF WorldMain
<1>4. Recording(UiUxMain)
  BY DEF UiUxMain
<1>5. Recording(SimMain)
  BY DEF SimMain
<1>6. Recording(ResearchMain)
  BY DEF ResearchMain
<1>7. Recording(SecurityMain)
  BY DEF SecurityMain
<1>8. Recording(SwarmMain)
  BY DEF SwarmMain
<1> HIDE DEF Recording
<1> QED BY <1>1, <1>2, <1>3, <1>4, <1>5, <1>6, <1>7, <1>8 DEF Kinds, Main

\* The copies that the next pick looks at are those of the files.
Written == mem.completed \subseteq disk.state.completed
Current ==
  /\ pc # 0 => said = ""
  /\ pc = 1 /\ ~raced => plan = todos
  /\ pc # 0 /\ ~raced /\ (Past({"append"}) => Past({"save"})) => Written
  /\ CompleteMeansDone

\* An operator that is about to save finds state.json as it was, or a killed loop's.
Found == op.at = "loaded" /\ ~disk.readable => pc = 0 /\ said # "complete"

LEMMA StepFound ==
  ASSUME Found, Step PROVE Found'
<1>1. pc # 0 /\ op' = op
  BY DEF Step, PickTodo, LeaveEarly, Gates, Prep, RunAgent, Recover, History,
     StopIfAgentFailed, StopIfGatesFailed, WriteReports, Push, MarkPlan, Handoff,
     AppendCompleted, SaveCompleted, StopIfRegistryComplete, Reload, At, operator
<1>2. disk' = disk \/ disk'.readable
  BY DEF Step, PickTodo, LeaveEarly, Gates, Prep, RunAgent, Recover, History,
     StopIfAgentFailed, StopIfGatesFailed, WriteReports, Push, MarkPlan, Handoff,
     AppendCompleted, SaveCompleted, StopIfRegistryComplete, Reload, SaveState, files
<1> QED BY <1>1, <1>2 DEF Found

LEMMA NextFound ==
  ASSUME Found, [Next]_vars PROVE Found'
<1>1. CASE Start
  <2>1. disk.readable /\ disk' = disk
    BY <1>1 DEF Start, files
  <2> QED BY <2>1 DEF Found
<1>2. CASE Kill
  <2>1. pc' = 0 /\ said' = "killed"
    BY <1>2 DEF Kill, Exit
  <2>2. said' # "complete"
    BY <2>1
  <2> QED BY <2>1, <2>2 DEF Found
<1>3. CASE MarkDoneLoads
  <2>1. disk.readable /\ disk' = disk
    BY <1>3 DEF MarkDoneLoads, files
  <2> QED BY <2>1 DEF Found
<1>4. CASE MarkDoneSaves
  BY <1>4 DEF MarkDoneSaves, Found
<1>5. CASE MarkDoneMarks \/ MarkDoneKilled
  BY <1>5 DEF MarkDoneMarks, MarkDoneKilled, Ended, Found
<1>6. CASE UNCHANGED vars
  BY <1>6 DEF vars, process, files, operator, Found
<1> QED BY <1>1, <1>2, <1>3, <1>4, <1>5, <1>6, StepFound DEF Next

LEMMA EndCurrent ==
  ASSUME pc' = 0, said' # "complete"
  PROVE  Current'
BY DEF Current, CompleteMeansDone

\* A step forward that neither records nor saves.
LEMMA OnwardCurrent ==
  ASSUME InScript, Current, pc # 0, kind' = kind, pc' = pc + 1,
         UNCHANGED <<said, mem, disk, audit>>, Main[pc] \notin {"append", "save"}
  PROVE  Current'
<1>1. /\ Past({"append"})' <=> Past({"append"})
      /\ Past({"save"})' <=> Past({"save"})
  BY PastNext
<1>2. pc' # 1
  BY DEF InScript
<1>3. said = ""
  BY DEF Current
<1> QED BY <1>1, <1>2, <1>3 DEF Current, Written, CompleteMeansDone, audit

\* A step forward that leaves state.json as the process has it.
LEMMA WrittenCurrent ==
  ASSUME InScript, Current, pc # 0, pc' = pc + 1, said' = said, mem' = disk'.state
  PROVE  Current'
<1>1. pc' # 1
  BY DEF InScript
<1>2. said = ""
  BY DEF Current
<1> QED BY <1>1, <1>2 DEF Current, Written, CompleteMeansDone

LEMMA NothingPast ==
  ASSUME NEW steps PROVE /\ pc = 1 => ~Past(steps)
                         /\ pc' = 1 => ~Past(steps)'
BY DEF Past, Before

LEMMA ScopeSame == UNCHANGED params => Scope' = Scope
BY DEF params, Scope

LEMMA ScopeTodos == Scope \subseteq Todos
BY DEF Scope, Labelled

LEMMA StepCurrent ==
  ASSUME Typed, Current, Step
  PROVE  Current'
<1>1. /\ InScript /\ RecordTypes /\ PlanTypes /\ pc # 0
      /\ DOMAIN disk = {"readable", "state"}
  BY DEF Typed, RecordTypes, Step, PickTodo, LeaveEarly, Gates, Prep, RunAgent, Recover,
     History, StopIfAgentFailed, StopIfGatesFailed, WriteReports, Push, MarkPlan, Handoff,
     AppendCompleted, SaveCompleted, StopIfRegistryComplete, Reload, At
<1>2. /\ pc \in 1 .. Len(Main) /\ Framed(Main) /\ Recording(Main)
  BY <1>1, ScriptsFramed, ScriptsRecord DEF InScript
<1>3. UNCHANGED params
  BY DEF Step, PickTodo, LeaveEarly, Gates, Prep, RunAgent, Recover, History,
     StopIfAgentFailed, StopIfGatesFailed, WriteReports, Push, MarkPlan, Handoff,
     AppendCompleted, SaveCompleted, StopIfRegistryComplete, Reload
<1>4. CASE PickTodo
  <2> DEFINE t == Pick(todos, mem.completed)
  <2>1. pc = 1 /\ Main[pc] = "pick" /\ UNCHANGED <<plan, disk, audit>>
    BY <1>2, <1>4 DEF PickTodo, At, Framed, files
  <2>2. CASE t = NoTodo
    <3>1. ~(pc' # 0) /\ pc' # 1
      <4>1. pc' = 0
        BY <1>4, <2>2 DEF PickTodo, Exit
      <4> QED BY <4>1
    <3>2. Scope \cap OpenTodos(todos, mem.completed) = {}
      BY <1>1, <2>2, LoopPicks DEF PlanTypes, PlanType, InScript, Typed, Branches
    <3>3. ~raced => plan = todos /\ Written
      <4>1. ~Past({"append"}) /\ pc # 0
        BY <1>1, <2>1, NothingPast
      <4> QED BY <2>1, <4>1 DEF Current
    <3>4. ASSUME ~raced, NEW u \in Scope, plan[u] \in Open
          PROVE  u \in disk.state.completed
      <4>1. u \in DOMAIN todos /\ todos[u] \in Open
        BY <1>1, <3>3, <3>4, ScopeTodos DEF PlanTypes
      <4>2. u \in mem.completed
        BY <3>2, <4>1 DEF OpenTodos
      <4> QED BY <3>3, <3>4, <4>2 DEF Written
    <3>5. CompleteMeansDone'
      BY <1>3, <2>1, <3>4, ScopeSame DEF CompleteMeansDone, audit
    <3> QED BY <3>1, <3>5 DEF Current
  <2>3. CASE t # NoTodo
    <3>1. pc' = pc + 1 /\ UNCHANGED <<said, mem>>
      BY <1>4, <2>3 DEF PickTodo, Advance
    <3> QED BY <1>1, <1>3, <2>1, <3>1, OnwardCurrent DEF params
  <2> QED BY <2>2, <2>3
<1>5. CASE \/ LeaveEarly \/ Gates \/ Prep \/ RunAgent \/ Recover \/ StopIfGatesFailed
           \/ WriteReports \/ Push \/ MarkPlan \/ Handoff \/ StopIfRegistryComplete
  <2>1. \/ pc' = 0 /\ said' \in {"stopped", "failed", "registry"}
        \/ /\ pc' = pc + 1 /\ UNCHANGED <<said, mem, disk, audit>>
           /\ Main[pc] \notin {"append", "save"}
    BY <1>5 DEF LeaveEarly, Gates, Prep, RunAgent, Recover, StopIfGatesFailed, WriteReports,
       Push, MarkPlan, Handoff, StopIfRegistryComplete, Exit, Advance, At, Locals, files
  <2> QED BY <1>1, <1>3, <2>1, EndCurrent, OnwardCurrent DEF params
<1>6. CASE StopIfAgentFailed
  <2>1. \/ pc' = 0 /\ said' = "failed"
        \/ /\ pc' = pc + 1 /\ UNCHANGED <<said, mem, disk, audit>>
           /\ Main[pc] \notin {"append", "save"}
    BY <1>6 DEF StopIfAgentFailed, Exit, Advance, At, Locals
  <2> QED BY <1>1, <1>3, <2>1, EndCurrent, OnwardCurrent DEF params
<1>7. CASE History \/ SaveCompleted
  <2>1. pc' = pc + 1 /\ said' = said /\ SaveState(mem')
    BY <1>7 DEF History, SaveCompleted, Advance, Locals, SaveState
  <2>2. disk'.state = mem'
    BY <1>1, <2>1 DEF SaveState
  <2> QED BY <1>1, <2>1, <2>2, WrittenCurrent
<1>8. CASE AppendCompleted
  <2>1. pc' = pc + 1 /\ said' = said /\ Main[pc] = "append"
    BY <1>8 DEF AppendCompleted, Advance, At
  <2>2. Past({"append"})' /\ ~Past({"save"})'
    <3>1. Past({"append"})'
      BY <1>1, <1>3, <2>1, PastNext DEF params
    <3>2. ~Past({"save"})
      BY <1>2, <2>1 DEF Recording, Past
    <3> QED BY <1>1, <1>3, <2>1, <3>1, <3>2, PastNext DEF params
  <2>3. pc' # 1
    BY <1>1, <2>1 DEF InScript
  <2>4. said = ""
    BY <1>1 DEF Current
  <2> QED BY <2>1, <2>2, <2>3, <2>4 DEF Current, CompleteMeansDone
<1>9. CASE Reload
  <2>1. CASE once
    BY <1>9, <2>1, EndCurrent DEF Reload, Exit
  <2>2. CASE ~once
    <3>1. /\ pc' = 1 /\ todos' = plan /\ UNCHANGED <<said, mem, plan, disk, audit>>
          /\ Main[pc] = "reload"
      BY <1>9, <2>2 DEF Reload, files, At
    <3>2. Past({"save"})
      BY <1>2, <3>1 DEF Recording, Past
    <3>3. said = "" /\ (~raced => Written)
      BY <1>1, <3>2 DEF Current
    <3> QED BY <3>1, <3>3 DEF Current, Written, CompleteMeansDone, audit
  <2> QED BY <2>1, <2>2
<1> QED BY <1>4, <1>5, <1>6, <1>7, <1>8, <1>9 DEF Step

\* Marking and cutting off the plan file open no todo.
LEMMA OnlyCloses ==
  ASSUME Typed, kind = "world", plan' \in {plan, Marked(plan, op.todo)} \cup TornPlans(plan)
  PROVE  \A u \in Todos : plan'[u] \in Open => plan[u] \in Open
<1>1. plan \in [Todos -> Statuses] /\ MarkStatus = "done"
  BY DEF Typed, PlanTypes, MarkStatus, WorldMark
<1>2. "gone" \notin Open /\ "done" \notin Open
  BY DEF Open
<1>3. CASE plan' = plan
  BY <1>3
<1>4. CASE plan' = Marked(plan, op.todo)
  BY <1>1, <1>2, <1>4 DEF Marked
<1>5. CASE plan' \in TornPlans(plan)
  BY <1>2, <1>5 DEF TornPlans
<1> QED BY <1>3, <1>4, <1>5

LEMMA NextCurrent ==
  ASSUME Typed, Copies, Found, Current, [Next]_vars
  PROVE  Current'
<1>1. CASE Start
  <2>1. pc' = 1 /\ said' = "" /\ mem' = disk.state /\ todos' = plan /\ UNCHANGED <<plan, disk>>
    BY <1>1 DEF Start, Loaded, files
  <2> QED BY <2>1 DEF Current, Written, CompleteMeansDone
<1>2. CASE Kill
  BY <1>2, EndCurrent DEF Kill, Exit
<1>3. CASE MarkDoneLoads \/ UNCHANGED vars
  <2>1. UNCHANGED <<params, process, files, raced>>
    BY <1>3 DEF MarkDoneLoads, vars, audit
  <2>2. /\ Main' = Main /\ Scope' = Scope
        /\ UNCHANGED <<pc, said, raced, plan, todos, mem, disk>>
    BY <2>1, MainSame, ScopeSame DEF params, process, files
  <2> QED BY <2>2 DEF Current, Written, CompleteMeansDone, Past
<1>4. CASE MarkDoneSaves
  <2>1. /\ op.at = "loaded" /\ UNCHANGED <<pc, said, plan>> /\ Scope' = Scope
        /\ raced' = (raced \/ pc # 0)
        /\ disk' = [readable |-> TRUE, state |-> [op.mem EXCEPT !.completed = @ \cup {op.todo}]]
    BY <1>4, ScopeSame DEF MarkDoneSaves, process
  <2>2. ASSUME ~raced' PROVE pc = 0 /\ ~raced /\ Holds(op.mem, recorded)
    BY <2>1, <2>2 DEF Copies
  <2>3. disk'.state.completed = op.mem.completed \cup {op.todo}
    BY <2>1 DEF Typed, RecordTypes, State
  <2>4. ASSUME said = "complete", ~raced', NEW u \in Scope, plan[u] \in Open
        PROVE  u \in disk'.state.completed
    <3>1. disk.readable /\ u \in disk.state.completed
      BY <2>1, <2>2, <2>4 DEF Found, Current, CompleteMeansDone
    <3>2. ~raced /\ Holds(op.mem, disk.state)
      BY <2>2, <2>4 DEF Copies, Holds
    <3> QED BY <2>3, <3>1, <3>2 DEF Holds
  <2>5. CompleteMeansDone'
    BY <2>1, <2>4 DEF CompleteMeansDone
  <2>6. pc' # 0 => said' = ""
    BY <2>1 DEF Current
  <2>7. pc' # 0 => raced'
    BY <2>1
  <2>8. pc' = 1 => pc' # 0
    OBVIOUS
  <2> QED BY <2>5, <2>6, <2>7, <2>8 DEF Current
<1>5. CASE MarkDoneMarks \/ MarkDoneKilled
  <2>1. /\ UNCHANGED <<pc, said>> /\ Scope' = Scope /\ raced' = (raced \/ pc # 0)
        /\ disk' = disk \/ disk' = Torn
    BY <1>5, ScopeSame DEF MarkDoneMarks, MarkDoneKilled, process
  <2>2. \A u \in Scope : plan'[u] \in Open => plan[u] \in Open
    <3>1. CASE plan' = plan
      BY <3>1
    <3>2. CASE plan' # plan
      <4>1. op.at = "saved" /\ plan' \in {plan, Marked(plan, op.todo)} \cup TornPlans(plan)
        BY <1>5, <3>2 DEF MarkDoneMarks, MarkDoneKilled
      <4>2. kind = "world"
        BY <4>1 DEF Typed, RecordTypes
      <4> QED BY <4>1, <4>2, OnlyCloses, ScopeTodos
    <3> QED BY <3>1, <3>2
  <2>3. ~raced' => ~raced
    BY <2>1
  <2>4. ASSUME disk' = disk PROVE CompleteMeansDone'
    <3>1. ASSUME said = "complete", disk.readable, ~raced', NEW u \in Scope, plan'[u] \in Open
          PROVE  u \in disk.state.completed
      <4>1. plan[u] \in Open /\ ~raced
        BY <2>2, <2>3, <3>1
      <4> QED BY <3>1, <4>1 DEF Current, CompleteMeansDone
    <3> QED BY <2>1, <2>4, <3>1 DEF CompleteMeansDone
  <2>5. ASSUME disk' = Torn PROVE CompleteMeansDone'
    <3>1. ~disk'.readable
      BY <2>5 DEF Torn
    <3> QED BY <3>1 DEF CompleteMeansDone
  <2>6. CompleteMeansDone'
    BY <2>1, <2>4, <2>5
  <2>7. pc' # 0 => said' = ""
    BY <2>1 DEF Current
  <2>8. pc' # 0 => raced'
    BY <2>1
  <2>9. pc' = 1 => pc' # 0
    OBVIOUS
  <2> QED BY <2>6, <2>7, <2>8, <2>9 DEF Current
<1> QED BY <1>1, <1>2, <1>3, <1>4, <1>5, StepCurrent DEF Next

\* A loop that ends because it found nothing to pick has left no todo of its scope
\* open in the plan file that state.json does not record, unless the operator and
\* the loop wrote it from overlapping copies (pick_todo and the ends of main).
THEOREM CompletionIsTrue == Spec => []CompleteMeansDone
<1>1. Init => Typed /\ Copies /\ Found /\ Current
  <2>1. Init => pc = 0
    BY DEF Init
  <2>2. Init => said # "complete"
    <3>1. Init => said = ""
      BY DEF Init
    <3> QED BY <3>1
  <2>3. ASSUME pc = 0, said # "complete" PROVE Current
    <3>1. ~(pc # 0) /\ pc # 1
      BY <2>3
    <3> QED BY <2>3, <3>1 DEF Current, CompleteMeansDone
  <2>4. Init => Found
    BY DEF Init, Found
  <2> QED BY <2>1, <2>2, <2>3, <2>4, InitTyped, InitCopies
<1>2. Typed /\ Copies /\ Found /\ Current /\ [Next]_vars => (Typed /\ Copies /\ Found /\ Current)'
  BY NextTyped, NextCopies, NextFound, NextCurrent
<1>3. Current => CompleteMeansDone
  BY DEF Current
<1> QED BY <1>1, <1>2, <1>3, PTL DEF Spec
=============================================================================
