------------------------------ MODULE GapSwarm ------------------------------
(***************************************************************************)
(* The gap pipeline around the plan loops: a watcher writes a snapshot of  *)
(* every runner's plan and state, swarm-gap-ingest turns it into rows of   *)
(* the gap registry and swarm-gap-apply-actions turns the open rows into   *)
(* pending todos of the backlogs, while the runners work on their plans.   *)
(*                                                                         *)
(* A todo is <<n, id>>: an id under n mirror prefixes gap-<runner>-, which *)
(* an earlier version of the pipeline put before the ids it applied; rows  *)
(* and todos with a prefix are still in the files.                         *)
(***************************************************************************)
EXTENDS Naturals, Sequences, FiniteSets

CONSTANTS
  Runners,   \* the runners of the snapshot, in the order it looks at them: a sequence
  Backlogs,  \* the runners the pipeline knows a backlog of
  Ids,       \* ids of todos
  Extra,     \* ids of the todos that stand for gaps to a competitor
  Depth,     \* mirror prefixes in the files to begin with
  Handed     \* the runners to which research loops hand todos over

Names == {Runners[i] : i \in DOMAIN Runners}
Todos == ((0..Depth + 1) \X Ids) \cup ({0} \X Extra)
Raw == (0..Depth) \X Ids

ASSUME RunnersAssumption == Handed \subseteq Names /\ Backlogs \subseteq Names
ASSUME DepthAssumption == Depth \in Nat

VARIABLES
  shared,   \* the runners whose plan file is the one the pipeline writes to
  plan,     \* [Names -> [Todos -> status]], the file the runner works from
  copy,     \* the same file in the pipeline's own checkout
  done,     \* completed_ids of the runners' state.json
  working,  \* the todo each runner works on
  snapper,  \* the snapshot process: reads done so far, and what they gave
  snap,     \* snapshot.json
  registry, \* registry.yaml: [GapRows -> {"absent", "open", "closed"}]
  stage,    \* the pipeline's process: idle, ingested, saved, failed, applying
  mem,      \* the rows the process will write
  queue,    \* the open rows that are still to be applied
  held,     \* the backlog the process has read and will write: at most one
  seen,     \* completed_ids in the snapshot the rows of this round were made from
  cleaned,  \* an ingest has written the registry
  torn      \* which file a write of was cut off: none, registry, backlog

gsVars == <<shared, plan, copy, done, working, snapper, snap, registry, stage, mem, queue, held, seen,
          cleaned, torn>>

Status == {"absent", "pending", "completed"}
NoTodo == <<0, "none">>

(* A row of kind plan_debt names a runner and one of its todos; a row of   *)
(* kind competitor_feature names none, and its todo is made from its id.   *)
GapRows == [kind: {"plan_debt"}, runner: Names, raw: Raw]
        \cup [kind: {"competitor_feature"}, runner: Backlogs, raw: {0} \X Extra]

NoRows == [g \in GapRows |-> "absent"]
NoReads == [n |-> 0, plans |-> [r \in Names |-> {}], states |-> [r \in Names |-> {}]]
NotSeen == [r \in Names |-> {}]

Normalized(t) == <<0, t[2]>>

-----------------------------------------------------------------------------
(* The runners, as the pipeline meets them. *)

(* To begin with every todo is pending, with its mirrors of up to some     *)
(* depth, and each of them has a row; a write that is cut off may take any *)
(* away.                                                                   *)
GSInit ==
  /\ shared \in SUBSET Names
  /\ \E n \in 0..Depth :
       /\ plan = [r \in Names |-> [t \in Todos |-> IF t \in (0..n) \X Ids THEN "pending" ELSE "absent"]]
       /\ registry = [g \in GapRows |->
                        IF g.kind = "plan_debt" /\ g.raw[1] <= n THEN "open" ELSE "absent"]
  /\ copy = plan
  /\ done = [r \in Names |-> {}]
  /\ working = [r \in Names |-> NoTodo]
  /\ snapper = NoReads
  /\ snap = [pending |-> [r \in Names |-> {}], completed |-> [r \in Names |-> {}]]
  /\ stage = "idle" /\ mem = NoRows /\ queue = {} /\ held = {} /\ seen = NotSeen
  /\ cleaned = FALSE /\ torn = "none"

pipeline == <<registry, stage, mem, queue, held, seen, cleaned, torn>>
snapshot == <<snapper, snap>>
runners  == <<shared, plan, copy, done, working>>

Pick(r) ==
  /\ working[r] = NoTodo
  /\ \E t \in Todos \ done[r] :
       /\ plan[r][t] = "pending"
       /\ working' = [working EXCEPT ![r] = t]
  /\ UNCHANGED <<shared, plan, copy, done, snapshot, pipeline>>

(* An agent may mark its todo in the plan; the research loops mark it      *)
(* themselves when they record it.                                         *)
Written(p) == copy' = [r \in Names |-> IF r \in shared THEN p[r] ELSE copy[r]]

AgentMarks(r) ==
  /\ working[r] # NoTodo
  /\ plan' = [plan EXCEPT ![r][working[r]] = "completed"]
  /\ Written(plan')
  /\ UNCHANGED <<shared, done, working, snapshot, pipeline>>

GivesUp(r) ==
  /\ working[r] # NoTodo
  /\ working' = [working EXCEPT ![r] = NoTodo]
  /\ UNCHANGED <<shared, plan, copy, done, snapshot, pipeline>>

Completes(r) ==
  /\ working[r] # NoTodo
  /\ done' = [done EXCEPT ![r] = @ \cup {working[r]}]
  /\ \/ plan' = plan
     \/ plan' = [plan EXCEPT ![r][working[r]] = "completed"]
  /\ Written(plan')
  /\ working' = [working EXCEPT ![r] = NoTodo]
  /\ UNCHANGED <<shared, snapshot, pipeline>>

(* handoff_to_implement_loop sets a todo of another loop's backlog to      *)
(* pending, whatever its status, and adds none.                            *)
HandOver(r, t) ==
  /\ r \in Handed /\ t[1] = 0 /\ t[2] \in Ids /\ plan[r][t] # "absent"
  /\ plan' = [plan EXCEPT ![r][t] = "pending"]
  /\ Written(plan')
  /\ UNCHANGED <<shared, done, working, snapshot, pipeline>>

-----------------------------------------------------------------------------
(* The snapshot: for each runner its plan and then its state are read, and *)
(* the file is written when all are.  Its filters on ids leave out the     *)
(* todos the pipeline names after competitors.                             *)

PendingIn(r) == {t \in Todos : plan[r][t] = "pending" /\ t[2] \notin Extra}

Reading(r) == r = Runners[snapper.n \div 2 + 1]

ReadPlan(r) ==
  /\ snapper.n % 2 = 0 /\ Reading(r)
  /\ snapper' = [n |-> snapper.n + 1, states |-> snapper.states,
                 plans |-> [snapper.plans EXCEPT ![r] = PendingIn(r)]]
  /\ UNCHANGED <<snap, runners, pipeline>>

ReadState(r) ==
  /\ snapper.n % 2 = 1 /\ Reading(r)
  /\ LET read == [n |-> snapper.n + 1, plans |-> snapper.plans,
                  states |-> [snapper.states EXCEPT ![r] = done[r]]]
     IN IF read.n = 2 * Len(Runners)
        THEN /\ snap' = [pending |-> read.plans, completed |-> read.states]
             /\ snapper' = NoReads
        ELSE snapper' = read /\ snap' = snap
  /\ UNCHANGED <<runners, pipeline>>

-----------------------------------------------------------------------------
(* swarm-gap-ingest: the registry and the snapshot are read, rows added,   *)
(* reconciled and deduplicated, and all rows written back.                 *)

DebtRow(r, t) == [kind |-> "plan_debt", runner |-> r, raw |-> Normalized(t)]

(* A plausible bug: a row that was closed counts as missing. *)
PlanPendingAgain(reg, s) ==
  [g \in GapRows |->
     IF \E t \in s.pending[g.runner] : g = DebtRow(g.runner, t) THEN "open" ELSE reg[g]]
PlanPending(reg, s) ==
  [g \in GapRows |->
     IF reg[g] = "absent" /\ \E t \in s.pending[g.runner] : g = DebtRow(g.runner, t)
     THEN "open" ELSE reg[g]]

(* A plausible bug: only the id as it stands in the row is looked up. *)
CompletedRaw(g, s) == g.raw \in s.completed[g.runner]
CompletedIn(g, s) ==
  \/ g.raw \in s.completed[g.runner]
  \/ Normalized(g.raw) \in s.completed[g.runner]

Reconcile(reg, s) ==
  [g \in GapRows |->
     IF reg[g] = "open" /\ g.kind = "plan_debt" /\ CompletedIn(g, s) THEN "closed" ELSE reg[g]]

(* Rows of the same runner and todo; which of them stays open is decided   *)
(* by the order of the row ids.                                            *)
KeyRaw(g) == <<g.runner, g.raw>> \* a plausible bug: mirrors are told apart
Key(g) == <<g.runner, Normalized(g.raw)>>
OpenDebts(reg) == {g \in GapRows : reg[g] = "open" /\ g.kind = "plan_debt"}

Dedupes(reg) ==
  {[g \in GapRows |-> IF g \in OpenDebts(reg) \ kept THEN "closed" ELSE reg[g]] :
     kept \in {K \in SUBSET OpenDebts(reg) :
                 /\ \A g, h \in K : Key(g) = Key(h) => g = h
                 /\ \A g \in OpenDebts(reg) : \E h \in K : Key(h) = Key(g)}}

(* ingest_competitor_catalog and ingest_verticals_stubs: what the audits   *)
(* list is added where it is not yet a row.                                *)
CompetitorRows(reg, listed) ==
  [g \in GapRows |-> IF g \in listed /\ reg[g] = "absent" THEN "open" ELSE reg[g]]

Ingest ==
  /\ stage = "idle"
  /\ \E listed \in SUBSET {g \in GapRows : g.kind = "competitor_feature"} :
     \E deduped \in Dedupes(Reconcile(PlanPending(registry, snap), snap)) :
       mem' = CompetitorRows(deduped, listed)
  /\ seen' = snap.completed
  /\ stage' = "ingested"
  /\ UNCHANGED <<registry, queue, held, cleaned, torn, runners, snapshot>>

(* It ends without having written anything: an error, or a kill.  The rows *)
(* that are applied next are those of an earlier round.                    *)
IngestFails ==
  /\ stage = "idle"
  /\ stage' = "failed"
  /\ UNCHANGED <<registry, mem, queue, held, seen, cleaned, torn, runners, snapshot>>

SaveRegistry ==
  /\ stage = "ingested"
  /\ registry' = mem /\ mem' = NoRows
  /\ stage' = "saved"
  /\ cleaned' = TRUE
  /\ UNCHANGED <<queue, held, seen, torn, runners, snapshot>>

(* The file is written in place: a process killed meanwhile leaves some of *)
(* the rows, and the next one takes what it can parse for the registry,    *)
(* the one that applies the rows included if only the ingest was killed.   *)
(* (A file whose last row is cut in two, and may not parse or lack the id  *)
(* of its todo, is left out.)                                              *)
TearRegistry ==
  /\ stage = "ingested" /\ torn = "none" \* at most one write is cut off
  /\ \E kept \in SUBSET {g \in GapRows : mem[g] # "absent"} :
       registry' = [g \in GapRows |-> IF g \in kept THEN mem[g] ELSE "absent"]
  /\ torn' = "registry" /\ cleaned' = TRUE
  /\ mem' = NoRows
  /\ \/ stage' = "failed" /\ seen' = seen
     \/ stage' = "idle" /\ seen' = NotSeen
  /\ UNCHANGED <<queue, held, runners, snapshot>>

-----------------------------------------------------------------------------
(* swarm-gap-apply-actions: each open row becomes a pending todo.  It is   *)
(* started whatever became of the ingest.                                  *)

KnownRows(reg) == {g \in GapRows : reg[g] # "absent"} \* a plausible bug: closed ones too
OpenRows(reg)  == {g \in GapRows : reg[g] = "open"}

LoadOpenRows ==
  /\ stage \in {"saved", "failed"}
  /\ queue' = OpenRows(registry)
  /\ stage' = "applying"
  /\ UNCHANGED <<registry, mem, held, seen, cleaned, torn, runners, snapshot>>

(* A plausible bug, and how it was before ids were normalised: one more prefix at every round. *)
Mirrored(g) == <<g.raw[1] + 1, g.raw[2]>>
TodoOf(g) == Normalized(g.raw)

(* _ensure_todo_in_backlog: the file is read whole, one todo of it is set, *)
(* and the whole is written back, over what was written meanwhile.         *)
ReadBacklog(g) ==
  /\ stage = "applying" /\ g \in queue /\ held = {}
  /\ queue' = queue \ {g}
  /\ held' = IF g.runner \in Backlogs
             THEN {[runner |-> g.runner, text |-> [copy[g.runner] EXCEPT ![TodoOf(g)] = "pending"]]}
             ELSE {}
  /\ UNCHANGED <<registry, stage, mem, seen, cleaned, torn, runners, snapshot>>

Leaves(r, text) ==
  /\ copy' = [copy EXCEPT ![r] = text]
  /\ plan' = IF r \in shared THEN [plan EXCEPT ![r] = text] ELSE plan
  /\ UNCHANGED <<shared, done, working>>

WriteBacklog ==
  /\ \E h \in held : Leaves(h.runner, h.text)
  /\ held' = {}
  /\ UNCHANGED <<registry, stage, mem, queue, seen, cleaned, torn, snapshot>>

(* The process is at an end, or was killed: rows are left that were not    *)
(* applied.  The actions file, written last, is read by no other script.   *)
Stopped ==
  /\ stage' = "idle" /\ mem' = NoRows /\ queue' = {} /\ held' = {} /\ seen' = NotSeen
  /\ UNCHANGED <<registry, cleaned, snapshot>>

EndApply == stage # "idle" /\ Stopped /\ UNCHANGED <<torn, runners>>

(* A kill while the backlog is written leaves some of its todos (as above, *)
(* whole ones).                                                            *)
TearBacklog ==
  /\ torn = "none" /\ torn' = "backlog" \* at most one write is cut off
  /\ \E h \in held : \E kept \in SUBSET Todos :
       Leaves(h.runner, [t \in Todos |-> IF t \in kept THEN h.text[t] ELSE "absent"])
  /\ Stopped

(* The observer's agent closes rows it finds settled. *)
AgentCloses(g) ==
  /\ stage = "idle" /\ registry[g] = "open"
  /\ registry' = [registry EXCEPT ![g] = "closed"]
  /\ UNCHANGED <<stage, mem, queue, held, seen, cleaned, torn, runners, snapshot>>

GSNext ==
  \/ \E r \in Names : \/ Pick(r) \/ AgentMarks(r) \/ GivesUp(r) \/ Completes(r)
                      \/ ReadPlan(r) \/ ReadState(r)
                      \/ \E t \in Todos : HandOver(r, t)
  \/ Ingest \/ IngestFails \/ SaveRegistry \/ TearRegistry
  \/ LoadOpenRows \/ WriteBacklog \/ TearBacklog \/ EndApply
  \/ \E g \in GapRows : ReadBacklog(g) \/ AgentCloses(g)

GSSpec == GSInit /\ [][GSNext]_gsVars

-----------------------------------------------------------------------------
(* Properties. *)

(* The files hold what they may: no todo and no row ever gets a mirror     *)
(* prefix more than the files had to begin with.                           *)
TypeOK ==
  /\ plan \in [Names -> [Todos -> Status]] /\ copy \in [Names -> [Todos -> Status]]
  /\ \A r \in Names : \A t \in Todos :
       plan[r][t] # "absent" \/ copy[r][t] # "absent" => t[1] <= Depth
  /\ done \in [Names -> SUBSET Todos] /\ working \in [Names -> Todos \cup {NoTodo}]
  /\ registry \in [GapRows -> {"absent", "open", "closed"}] /\ mem \in [GapRows -> {"absent", "open", "closed"}]
  /\ stage \in {"idle", "ingested", "saved", "failed", "applying"} /\ queue \subseteq GapRows
  /\ held \subseteq [runner : Names, text : [Todos -> Status]]
  /\ \A h \in held : \A t \in Todos : h.text[t] # "absent" => t[1] <= Depth
  /\ cleaned \in BOOLEAN /\ torn \in {"none", "registry", "backlog"}

(* Once an ingest has written the registry it has one open row at most for *)
(* a runner's todo, under whatever prefixes: in every later round, also    *)
(* after a write that was cut off or an ingest that failed.                *)
OneOpenRow ==
  cleaned =>
    \A g, h \in OpenDebts(registry) :
      g.runner = h.runner /\ g.raw[2] = h.raw[2] => g = h

(* While the rows an ingest has written are applied, all of them or those  *)
(* left of them when it was cut off, none is for a todo that the snapshot  *)
(* they were made from had among the completed ones.                       *)
Reconciled ==
  stage \in {"saved", "failed", "applying"} =>
    \A g \in OpenDebts(registry) : \A t \in seen[g.runner] :
      t[2] = g.raw[2] => t[1] \notin {0, g.raw[1]}

(* A closed row is never open again, unless a write of the file was cut    *)
(* off: neither a snapshot that is older than the closing nor a plan that  *)
(* was never marked brings it back.                                        *)
ClosedStaysClosed ==
  [][\A g \in GapRows : registry[g] = "closed" /\ torn' # "registry" => registry'[g] = "closed"]_gsVars

(* The pipeline sets no todo to pending that the snapshot of this round    *)
(* had as completed, not with a backlog either that it read before others  *)
(* wrote to it.  A todo that is done after the snapshot it may set to      *)
(* pending again; so may who hands a todo over, and the rows about         *)
(* competitors, which nothing ever closes, do.                             *)
NotReopened ==
  [][\A r \in Names : \A t \in Todos :
       /\ t[2] \notin Extra
       /\ copy[r][t] # "pending" /\ copy'[r][t] = "pending"
       => t \notin seen[r] \/ held' = held]_gsVars
=============================================================================
