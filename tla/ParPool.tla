------------------------------- MODULE ParPool -------------------------------
(***************************************************************************)
(* The persistent pthread pool of runtime/li_par_pool.c: one caller (the   *)
(* thread that runs li_par_pool_fork_join and li_par_pool_shutdown) and a  *)
(* team of workers (li_par_pool_worker), one mutex, the condition          *)
(* variables work_cv, done_cv and ready_cv.                                *)
(*                                                                         *)
(* Every critical section is one action: it runs with the mutex held, from *)
(* a lock or a wake-up to the unlock or the next wait. A thread that waits *)
(* is in a wait set (work_wait for the workers, main_wait for the caller)  *)
(* and goes on, by testing its condition again, only after a broadcast or  *)
(* a spurious wake-up took it out. Code between critical sections is a     *)
(* step of its own.                                                        *)
(*                                                                         *)
(* The first index of a call, `start`, only shifts the indices: calls are  *)
(* made with start = 0 and a number of iterations.                         *)
(***************************************************************************)
EXTENDS Integers, FiniteSets, Partition

CONSTANTS
  MaxTeam,             \* li_par_max_threads(): no team is larger
  MaxTrip,             \* bound: the iterations of one call
  Schedules,           \* the schedules a call may find configured
  Chunks,              \* the chunk sizes a call may find configured; 0: unset
  MaxCalls             \* bound: calls of fork_join in one behaviour

ASSUME PoolAssumption ==
  /\ MaxTeam \in Nat \ {0}
  /\ MaxTrip \in Nat \ {0}
  /\ Schedules \subseteq {"static", "dynamic", "guided", "steal"}
  /\ Chunks \subseteq Nat
  /\ MaxCalls \in Nat

Workers == 0 .. (MaxTeam - 1)
Indices == 0 .. (MaxTrip - 1)

VARIABLES
  mpc,                 \* where the caller is
  call,                \* its locals: trip, team, schedule, chunk
  main_wait,           \* the caller is in the wait set of done_cv / ready_cv
  initialized, team_size, shutdown, jobs_pending,
  batch_size, workers_done, workers_ready,
  schedule, job_trip, job_next, job_chunk, batch, steal_cursor, steal_end,
  work_wait,           \* the workers in the wait set of work_cv
  wpc,                 \* where each worker is; "none": no such thread
  local,               \* its locals: batch_size, schedule, victim
  begin, end,          \* the iterations it claimed and is about to run
  ran,                 \* history: how often each index of the call ran
  calls                \* how many calls were made

callerVars  == <<mpc, call, main_wait>>
teamVars    == <<initialized, team_size, shutdown>>
syncVars    == <<jobs_pending, batch_size, workers_done, workers_ready>>
cursorVars  == <<job_next, steal_cursor>>
jobVars     == <<schedule, job_trip, job_chunk, batch, steal_end>>
claimVars   == <<begin, end>>
historyVars == <<ran, calls>>

vars == <<callerVars, teamVars, syncVars, cursorVars, jobVars, work_wait,
          wpc, local, claimVars, historyVars>>

Team == 0 .. (team_size - 1)

CallerPC == {"idle", "inline", "reteam", "create", "post", "wait_done",
             "wait_ready", "return", "closing"}
WorkerPC == {"none", "top", "run", "scan", "check", "body", "done", "drain",
             "exited"}

TypeOK ==
  /\ mpc \in CallerPC
  /\ call \in [trip : 0 .. MaxTrip, team : 1 .. MaxTeam,
               schedule : {"static", "dynamic", "guided", "steal"}, chunk : Nat]
  /\ main_wait \in BOOLEAN
  /\ initialized \in BOOLEAN
  /\ team_size \in 0 .. MaxTeam
  /\ shutdown \in BOOLEAN
  /\ jobs_pending \in BOOLEAN
  /\ batch_size \in 0 .. MaxTeam
  /\ workers_done \in 0 .. MaxTeam
  /\ workers_ready \in 0 .. MaxTeam
  /\ schedule \in {"static", "dynamic", "guided", "steal"}
  /\ job_trip \in 0 .. MaxTrip
  /\ job_next \in 0 .. MaxTrip
  /\ job_chunk \in Nat
  /\ batch \in [Workers -> (0 .. MaxTrip) \X (0 .. MaxTrip)]
  /\ steal_cursor \in [Workers -> 0 .. MaxTrip]
  /\ steal_end \in [Workers -> 0 .. MaxTrip]
  /\ work_wait \in SUBSET Workers
  /\ wpc \in [Workers -> WorkerPC]
  /\ local \in [Workers -> [batch_size : 0 .. MaxTeam,
                            schedule : {"static", "dynamic", "guided", "steal"},
                            victim : 0 .. MaxTeam]]
  /\ begin \in [Workers -> 0 .. MaxTrip]
  /\ end \in [Workers -> 0 .. MaxTrip]
  /\ ran \in [Indices -> Nat]
  /\ calls \in 0 .. MaxCalls

Init ==
  /\ mpc = "idle"
  /\ call = [trip |-> 0, team |-> 1, schedule |-> "static", chunk |-> 0]
  /\ main_wait = FALSE
  /\ initialized = FALSE
  /\ team_size = 0
  /\ shutdown = FALSE
  /\ jobs_pending = FALSE
  /\ batch_size = 0
  /\ workers_done = 0
  /\ workers_ready = 0
  /\ schedule = "static"
  /\ job_trip = 0
  /\ job_next = 0
  /\ job_chunk = 0
  /\ batch = [w \in Workers |-> <<0, 0>>]
  /\ steal_cursor = [w \in Workers |-> 0]
  /\ steal_end = [w \in Workers |-> 0]
  /\ work_wait = {}
  /\ wpc = [w \in Workers |-> "none"]
  /\ local = [w \in Workers |->
                [batch_size |-> 0, schedule |-> "static", victim |-> 0]]
  /\ begin = [w \in Workers |-> 0]
  /\ end = [w \in Workers |-> 0]
  /\ ran = [i \in Indices |-> 0]
  /\ calls = 0

-----------------------------------------------------------------------------
(* The condition variables.                                                *)

BroadcastWork == work_wait' = {}

\* The two counters of the handshake start again: for each job the caller
\* clears one when it publishes the job, the other when it closes it.
KeepDone == UNCHANGED workers_done             \* mutant: not cleared
ResetDone == workers_done' = 0
ResetReady == workers_ready' = 0

\* pthread_cond_wait may return without a broadcast.
SpuriousWorker(w) ==
  /\ w \in work_wait
  /\ work_wait' = work_wait \ {w}
  /\ UNCHANGED <<callerVars, teamVars, syncVars, cursorVars, jobVars, wpc,
                 local, claimVars, historyVars>>

SpuriousCaller ==
  /\ main_wait
  /\ main_wait' = FALSE
  /\ UNCHANGED <<mpc, call, teamVars, syncVars, cursorVars, jobVars, work_wait,
                 wpc, local, claimVars, historyVars>>

-----------------------------------------------------------------------------
(* The caller: li_par_pool_fork_join and li_par_pool_shutdown.             *)

\* li_par_clamp_team, for a positive team_size.
ClampTeam(team, trip) ==
  LET capped == IF team > MaxTeam THEN MaxTeam ELSE team
      short  == IF trip < capped THEN trip ELSE capped
  IN  IF short < 1 THEN 1 ELSE short

\* The start of init_pthread: a pool of this size is kept, one of another size
\* is told to end, and without a pool one is created.
InitPool(size) ==
  \/ /\ initialized /\ team_size = size
     /\ mpc' = "post"
     /\ UNCHANGED <<shutdown, work_wait>>
  \/ /\ initialized /\ team_size # size
     /\ shutdown' = TRUE
     /\ BroadcastWork
     /\ mpc' = "reteam"
  \/ /\ ~initialized
     /\ mpc' = "create"
     /\ UNCHANGED <<shutdown, work_wait>>

\* With one iteration or a team of one the caller runs the loop itself.
Enter(size) ==
  \/ /\ size <= 1
     /\ mpc' = "inline"
     /\ UNCHANGED <<shutdown, work_wait>>
  \/ /\ size > 1
     /\ InitPool(size)

\* li_par_pool_fork_join. (A call without iterations returns at once.)
ForkJoin ==
  /\ mpc = "idle"
  /\ calls < MaxCalls
  /\ calls' = calls + 1
  /\ ran' = [i \in Indices |-> 0]
  /\ \E trip \in 1 .. MaxTrip, team \in 1 .. (MaxTeam + 1),
        sched \in Schedules, chunk \in Chunks :
       /\ call' = [trip |-> trip, team |-> ClampTeam(team, trip),
                   schedule |-> sched, chunk |-> chunk]
       /\ Enter(ClampTeam(team, trip))
  /\ UNCHANGED <<main_wait, initialized, team_size, syncVars, cursorVars,
                 jobVars, wpc, local, claimVars>>

RunInline ==
  /\ mpc = "inline"
  /\ ran' = [i \in Indices |-> ran[i] + (IF i < call.trip THEN 1 ELSE 0)]
  /\ mpc' = "return"
  /\ UNCHANGED <<call, main_wait, teamVars, syncVars, cursorVars, jobVars,
                 work_wait, wpc, local, claimVars, calls>>

Joined == \A w \in Team : wpc[w] = "exited"

\* init_pthread after the last pthread_join of the old team.
Rejoin ==
  /\ mpc = "reteam"
  /\ Joined
  /\ mpc' = "create"
  /\ wpc' = [w \in Workers |-> "none"]
  /\ UNCHANGED <<call, main_wait, teamVars, syncVars, cursorVars, jobVars,
                 work_wait, local, claimVars, historyVars>>

\* The rest of init_pthread. (A pthread_create that fails is ignored by the
\* code; it is not modelled.)
CreateTeam ==
  /\ mpc = "create"
  /\ team_size' = call.team
  /\ shutdown' = FALSE
  /\ jobs_pending' = FALSE
  /\ batch_size' = 0
  /\ ResetDone
  /\ ResetReady
  /\ wpc' = [w \in Workers |-> IF w < call.team THEN "top" ELSE "none"]
  /\ work_wait' = {}
  /\ initialized' = TRUE
  /\ mpc' = "post"
  /\ UNCHANGED <<call, main_wait, cursorVars, jobVars, local, claimVars,
                 historyVars>>

\* run_pthread up to the first wait: publish the job and wait for done_cv.
Post ==
  /\ mpc = "post"
  /\ schedule' = call.schedule
  /\ IF call.schedule = "static"
     THEN /\ batch' = [w \in Workers |->
                         IF w < call.team
                         THEN <<BlockBegin(call.trip, call.team, w),
                                BlockEnd(call.trip, call.team, w)>>
                         ELSE batch[w]]
          /\ UNCHANGED <<job_trip, job_next, job_chunk>>
     ELSE /\ job_trip' = call.trip
          /\ job_next' = 0
          /\ job_chunk' = call.chunk
          /\ UNCHANGED batch
  /\ IF call.schedule = "steal"
     THEN /\ steal_cursor' = [w \in Workers |->
                                IF w < call.team
                                THEN BlockBegin(call.trip, call.team, w)
                                ELSE steal_cursor[w]]
          /\ steal_end' = [w \in Workers |->
                             IF w < call.team
                             THEN BlockEnd(call.trip, call.team, w)
                             ELSE steal_end[w]]
     ELSE UNCHANGED <<steal_cursor, steal_end>>
  /\ batch_size' = call.team
  /\ ResetDone
  /\ jobs_pending' = TRUE
  /\ BroadcastWork
  /\ main_wait' = TRUE
  /\ mpc' = "wait_done"
  /\ UNCHANGED <<call, teamVars, workers_ready, wpc, local, claimVars,
                 historyVars>>

OneLeft == workers_done >= call.team - 1       \* mutant: off by one
AllDone == workers_done >= call.team
OneNotReady == workers_ready >= call.team - 1  \* mutant: off by one
AllReady == workers_ready >= call.team

\* Awake with workers_done < launched: wait again.
\* Otherwise close the job, wake the workers and wait for ready_cv.
CollectDone ==
  /\ mpc = "wait_done"
  /\ ~main_wait
  /\ main_wait' = TRUE
  /\ \/ /\ ~AllDone
        /\ UNCHANGED <<mpc, workers_ready, jobs_pending, work_wait>>
     \/ /\ AllDone
        /\ ResetReady
        /\ jobs_pending' = FALSE
        /\ BroadcastWork
        /\ mpc' = "wait_ready"
  /\ UNCHANGED <<call, teamVars, batch_size, workers_done, cursorVars, jobVars,
                 wpc, local, claimVars, historyVars>>

CollectReady ==
  /\ mpc = "wait_ready"
  /\ ~main_wait
  /\ \/ /\ ~AllReady
        /\ main_wait' = TRUE
        /\ UNCHANGED mpc
     \/ /\ AllReady
        /\ mpc' = "return"
        /\ UNCHANGED main_wait
  /\ UNCHANGED <<call, teamVars, syncVars, cursorVars, jobVars, work_wait, wpc,
                 local, claimVars, historyVars>>

Return ==
  /\ mpc = "return"
  /\ mpc' = "idle"
  /\ UNCHANGED <<call, main_wait, teamVars, syncVars, cursorVars, jobVars,
                 work_wait, wpc, local, claimVars, historyVars>>

\* li_par_pool_shutdown, first the broadcast, then the joins and the rest.
Shutdown ==
  /\ mpc = "idle"
  /\ initialized
  /\ shutdown' = TRUE
  /\ BroadcastWork
  /\ mpc' = "closing"
  /\ UNCHANGED <<call, main_wait, initialized, team_size, syncVars, cursorVars,
                 jobVars, wpc, local, claimVars, historyVars>>

Close ==
  /\ mpc = "closing"
  /\ Joined
  /\ initialized' = FALSE
  /\ team_size' = 0
  /\ wpc' = [w \in Workers |-> "none"]
  /\ mpc' = "idle"
  /\ UNCHANGED <<call, main_wait, shutdown, syncVars, cursorVars, jobVars,
                 work_wait, local, claimVars, historyVars>>

Caller == \/ ForkJoin \/ RunInline \/ Rejoin \/ CreateTeam \/ Post
          \/ CollectDone \/ CollectReady \/ Return \/ Shutdown \/ Close

-----------------------------------------------------------------------------
(* The workers: li_par_pool_worker and the four ways to run a job.         *)

Goto(w, pc) == wpc' = [wpc EXCEPT ![w] = pc]

\* The critical section at the top of the loop.
Fetch(w) ==
  /\ wpc[w] = "top"
  /\ w \notin work_wait
  /\ \/ /\ ~shutdown /\ ~jobs_pending
        /\ work_wait' = work_wait \cup {w}
        /\ UNCHANGED <<wpc, local>>
     \/ /\ shutdown
        /\ Goto(w, "exited")
        /\ UNCHANGED <<work_wait, local>>
     \/ /\ ~shutdown /\ jobs_pending
        /\ local' = [local EXCEPT ![w] = [batch_size |-> batch_size,
                                          schedule |-> schedule, victim |-> 0]]
        /\ Goto(w, "run")
        /\ UNCHANGED work_wait
  /\ UNCHANGED <<callerVars, teamVars, syncVars, cursorVars, jobVars, claimVars,
                 historyVars>>

\* What the steps of a running worker leave alone.
OnlyRuns == UNCHANGED <<callerVars, teamVars, syncVars, jobVars, work_wait,
                        historyVars>>

Claim(w, from, to) ==
  /\ begin' = [begin EXCEPT ![w] = from]
  /\ end' = [end EXCEPT ![w] = to]
  /\ Goto(w, "body")

ClaimNothing(w, pc) ==
  /\ Goto(w, pc)
  /\ UNCHANGED claimVars

ChunkSize == IF job_chunk > 0 THEN job_chunk ELSE 1

NotCut(x, bound) == x                          \* mutant: end not clamped
AtMost(x, bound) == IF x > bound THEN bound ELSE x

\* The worker's own block. The loop over it is run once.
RunStatic(w) ==
  /\ wpc[w] = "run" /\ local[w].schedule = "static"
  /\ IF w < local[w].batch_size
     THEN Claim(w, batch[w][1], batch[w][2])
     ELSE ClaimNothing(w, "done")
  /\ UNCHANGED <<cursorVars, local>>
  /\ OnlyRuns

\* One turn of the loop of run_dynamic or run_guided, up to the unlock.
ClaimNext(w, to) ==
  /\ IF job_next >= job_trip
     THEN /\ ClaimNothing(w, "done")
          /\ UNCHANGED job_next
     ELSE /\ Claim(w, job_next, to)
          /\ job_next' = to
  /\ UNCHANGED <<steal_cursor, local>>
  /\ OnlyRuns

ClaimDynamic(w) ==
  /\ wpc[w] = "run" /\ local[w].schedule = "dynamic"
  /\ ClaimNext(w, AtMost(job_next + ChunkSize, job_trip))

\* A share of what is left, at least one iteration.
GuidedChunk ==
  LET share == (job_trip - job_next) \div batch_size
  IN  IF share < 1 THEN 1 ELSE share

ClaimGuided(w) ==
  /\ wpc[w] = "run" /\ local[w].schedule = "guided"
  /\ ClaimNext(w, job_next + GuidedChunk)

\* li_par_steal_claim on the block of v; a failed claim goes on at pc.
StealClaim(w, v, pc) ==
  /\ IF steal_cursor[v] >= steal_end[v]
     THEN /\ ClaimNothing(w, pc)
          /\ UNCHANGED steal_cursor
     ELSE LET to == AtMost(steal_cursor[v] + ChunkSize, steal_end[v]) IN
          /\ Claim(w, steal_cursor[v], to)
          /\ steal_cursor' = [steal_cursor EXCEPT ![v] = to]
  /\ UNCHANGED job_next
  /\ OnlyRuns

StealOwn(w) ==
  /\ wpc[w] = "run" /\ local[w].schedule = "steal"
  /\ StealClaim(w, w, "scan")
  /\ local' = [local EXCEPT ![w].victim = 0]

SkipLast(w) == local[w].victim >= batch_size - 1    \* mutant: off by one
NoMoreVictims(w) == local[w].victim >= batch_size

\* The loop over the victims, one claim a step.
StealFrom(w) ==
  /\ wpc[w] = "scan"
  /\ LET v == local[w].victim IN
       \/ /\ ~NoMoreVictims(w) /\ v # w
          /\ StealClaim(w, v, "scan")
          /\ local' = [local EXCEPT ![w].victim = v + 1]
       \/ /\ ~NoMoreVictims(w) /\ v = w
          /\ local' = [local EXCEPT ![w].victim = v + 1]
          /\ UNCHANGED <<wpc, cursorVars, claimVars>>
          /\ OnlyRuns
       \/ /\ NoMoreVictims(w)
          /\ Goto(w, "check")
          /\ UNCHANGED <<cursorVars, claimVars, local>>
          /\ OnlyRuns

Drained == \A v \in Workers : v < batch_size => steal_cursor[v] >= steal_end[v]

\* Nothing was stolen: done if all blocks are drained, else yield and retry.
CheckDrained(w) ==
  /\ wpc[w] = "check"
  /\ Goto(w, IF Drained THEN "done" ELSE "run")
  /\ UNCHANGED <<cursorVars, claimVars, local>>
  /\ OnlyRuns

\* The body runs for the claimed iterations. The shared schedules claim again.
RunBody(w) ==
  /\ wpc[w] = "body"
  /\ ran' = [i \in Indices |->
               ran[i] + (IF begin[w] <= i /\ i < end[w] THEN 1 ELSE 0)]
  /\ Goto(w, IF local[w].schedule = "static" THEN "done" ELSE "run")
  /\ UNCHANGED <<callerVars, teamVars, syncVars, cursorVars, jobVars, work_wait,
                 local, claimVars, calls>>

\* Broadcasts of done_cv and of ready_cv, if any: the caller waits on one.
Notify(done, ready) ==
  main_wait' = /\ main_wait
               /\ ~(done /\ mpc = "wait_done")
               /\ ~(ready /\ mpc = "wait_ready")

\* The loop that waits for the end of the job, and the report after it.
AwaitClose(w, lastDone) ==
  IF jobs_pending /\ ~shutdown
  THEN /\ work_wait' = work_wait \cup {w}
       /\ Goto(w, "drain")
       /\ Notify(lastDone, FALSE)
       /\ UNCHANGED workers_ready
  ELSE /\ workers_ready' = workers_ready + 1
       /\ Goto(w, "top")
       /\ Notify(lastDone, workers_ready + 1 >= batch_size)
       /\ UNCHANGED work_wait

\* The count at which a worker that finishes broadcasts done_cv.
PastLast(w) == workers_done + 1 > local[w].batch_size   \* mutant: off by one
IsLast(w) == workers_done + 1 >= local[w].batch_size

\* The critical section after the job, up to a wait or to the unlock.
Finish(w) ==
  /\ wpc[w] = "done"
  /\ workers_done' = workers_done + 1
  /\ AwaitClose(w, IsLast(w))
  /\ UNCHANGED <<mpc, call, teamVars, jobs_pending, batch_size, cursorVars,
                 jobVars, local, claimVars, historyVars>>

\* Awake again in that loop.
Drain(w) ==
  /\ wpc[w] = "drain"
  /\ w \notin work_wait
  /\ AwaitClose(w, FALSE)
  /\ UNCHANGED <<mpc, call, teamVars, jobs_pending, batch_size, workers_done,
                 cursorVars, jobVars, local, claimVars, historyVars>>

Worker(w) == \/ Fetch(w) \/ RunStatic(w) \/ ClaimDynamic(w) \/ ClaimGuided(w)
             \/ StealOwn(w) \/ StealFrom(w) \/ CheckDrained(w) \/ RunBody(w)
             \/ Finish(w) \/ Drain(w)

Next ==
  \/ Caller
  \/ \E w \in Workers : Worker(w)
  \/ \E w \in Workers : SpuriousWorker(w)
  \/ SpuriousCaller

Spec == Init /\ [][Next]_vars

\* Every thread that can go on does so, and the mutex starves nobody. The
\* program need not call again, and a wake-up without a broadcast may never come.
Fairness ==
  /\ WF_vars(RunInline \/ Rejoin \/ CreateTeam \/ Post \/ CollectDone
             \/ CollectReady \/ Return \/ Close)
  /\ \A w \in Workers : WF_vars(Worker(w))

FairSpec == Spec /\ Fairness

-----------------------------------------------------------------------------
(* What the pool promises.                                                 *)

Running == {"run", "scan", "check", "body", "done"}

\* While a worker is between the two critical sections of a job, the job it
\* works on is the one that is published: the pool's fields, which it reads
\* without the mutex, are those it was called for, and the caller waits.
NoStaleWorker ==
  \A w \in Workers : wpc[w] \in Running =>
    /\ mpc = "wait_done"
    /\ jobs_pending
    /\ local[w].batch_size = batch_size
    /\ local[w].schedule = schedule
    /\ schedule = call.schedule
    /\ schedule # "static" => job_trip = call.trip

\* Between jobs every worker is back at the top of its loop (or has ended in
\* a shutdown), so none misses the next job or is still in the last one.
Quiescent ==
  mpc \notin {"wait_done", "wait_ready"} =>
    /\ ~jobs_pending
    /\ \A w \in Workers : wpc[w] \in {"none", "top", "exited"}

\* Nobody sleeps on a condition that already holds: each change of a waited-for
\* field is followed by the broadcast that its waiters need.
NoMissedWakeup ==
  /\ main_wait /\ mpc = "wait_done"  => workers_done < call.team
  /\ main_wait /\ mpc = "wait_ready" => workers_ready < call.team
  /\ \A w \in work_wait :
       /\ wpc[w] = "top"   => ~jobs_pending /\ ~shutdown
       /\ wpc[w] = "drain" => jobs_pending /\ ~shutdown

Claimed(w, i) == wpc[w] = "body" /\ begin[w] <= i /\ i < end[w]

\* The iterations of the published job that no worker has claimed yet.
Unclaimed(i) ==
  CASE schedule = "static" ->
         \E w \in Team : /\ batch[w][1] <= i /\ i < batch[w][2]
                         /\ wpc[w] \in {"top", "run"}
    [] schedule = "steal" ->
         \E w \in Team : steal_cursor[w] <= i /\ i < steal_end[w]
    [] OTHER -> job_next <= i /\ i < job_trip

\* During a job each iteration is in exactly one of three places: not claimed,
\* claimed by one worker, or run once. So none is lost and none runs twice,
\* under each of the four ways to hand iterations out.
EachIndexOnce ==
  mpc = "wait_done" =>
    \A i \in Indices :
      IF i < call.trip
      THEN \/ /\ ran[i] = 1
              /\ ~Unclaimed(i) /\ \A w \in Workers : ~Claimed(w, i)
           \/ /\ ran[i] = 0 /\ Unclaimed(i)
              /\ \A w \in Workers : ~Claimed(w, i)
           \/ /\ ran[i] = 0 /\ ~Unclaimed(i)
              /\ \E w \in Workers : /\ Claimed(w, i)
                                     /\ \A v \in Workers \ {w} : ~Claimed(v, i)
      ELSE ran[i] = 0 /\ \A w \in Workers : ~Claimed(w, i)

\* A worker that found nothing in its own block and in all others never has to
\* try again: the yield of the stealing loop is not reached.
NoSpinning == \A w \in Workers : wpc[w] = "check" => Drained

\* A call of fork_join or shutdown returns.
CallReturns == (mpc # "idle") ~> (mpc = "idle")

\* The pool implements the specification of a fork-join call: exactly once,
\* and the return only after all iterations.
Abstract == INSTANCE ForkJoin WITH
  phase <- IF mpc \in {"idle", "closing"} THEN "idle" ELSE "running",
  trip  <- call.trip

ImplementsForkJoin == Abstract!Spec

\* ... and a call that was made gets to run and to return.
ImplementsFairForkJoin == Abstract!FairSpec
=============================================================================
