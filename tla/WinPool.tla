------------------------------- MODULE WinPool -------------------------------
(***************************************************************************)
(* The Windows build of runtime/li_par_pool.c: a caller hands one callback *)
(* for each member of the team to a Win32 thread pool and sleeps on        *)
(* join_cv until jobs_remaining is 0.                                      *)
(*                                                                         *)
(* The callbacks count jobs_remaining down, and wake the caller, without   *)
(* join_lock: its test of jobs_remaining and its going to sleep are two    *)
(* steps here, and join_lock is held in between. Claims under join_lock    *)
(* are one step each and wait for it.                                      *)
(***************************************************************************)
EXTENDS Integers, FiniteSets, Partition

CONSTANTS
  MaxTeam,             \* li_par_max_threads(): no team is larger
  MaxTrip,             \* bound: the iterations of one call
  Schedules,           \* the schedules a call may find configured
  Chunks,              \* the chunk sizes a call may find configured; 0: unset
  MaxCalls             \* bound: calls of fork_join in one behaviour

ASSUME WinPoolAssumption ==
  /\ MaxTeam \in Nat \ {0}
  /\ MaxTrip \in Nat \ {0}
  /\ Schedules \subseteq {"static", "dynamic", "guided", "steal"}
  /\ Chunks \subseteq Nat
  /\ MaxCalls \in Nat

Workers == 0 .. (MaxTeam - 1)
Indices == 0 .. (MaxTrip - 1)

VARIABLES
  mpc,                 \* where the caller is
  call,                \* its locals: trip, team, schedule, chunk
  submitted,           \* how many callbacks it created
  main_wait,           \* the caller is in the wait set of join_cv
  pool,                \* the team size of the thread pool; 0: none
  jobs_remaining,
  next, steal_cursor,  \* fields of the job, which is on the caller's stack
  tpc,                 \* where the callback of each worker is
  victim, begin, end,  \* its locals
  waking,              \* callbacks that brought jobs_remaining to 0 and have
                       \* still to wake the caller
  ran, calls           \* history: runs of each index in the call; calls made

callerVars  == <<mpc, call, submitted, main_wait, pool>>
syncVars    == <<jobs_remaining, waking>>
cursorVars  == <<next, steal_cursor>>
claimVars   == <<begin, end>>
historyVars == <<ran, calls>>

vars == <<callerVars, syncVars, cursorVars, tpc, victim, claimVars, historyVars>>

Team == 0 .. (call.team - 1)

CallerPC == {"idle", "inline", "init", "submit", "within", "join", "tested",
             "return", "closing"}
CallbackPC == {"none", "run", "scan", "check", "body", "finish"}

\* The counter of InterlockedAdd64 runs past the trip, by a chunk for each
\* worker at most.
TypeOK ==
  /\ mpc \in CallerPC
  /\ call \in [trip : 0 .. MaxTrip, team : 1 .. MaxTeam,
               schedule : {"static", "dynamic", "guided", "steal"}, chunk : Nat]
  /\ submitted \in 0 .. MaxTeam
  /\ main_wait \in BOOLEAN
  /\ pool \in 0 .. MaxTeam
  /\ jobs_remaining \in 0 .. MaxTeam
  /\ next \in Nat
  /\ steal_cursor \in [Workers -> 0 .. MaxTrip]
  /\ tpc \in [Workers -> CallbackPC]
  /\ victim \in [Workers -> 0 .. MaxTeam]
  /\ begin \in [Workers -> 0 .. MaxTrip]
  /\ end \in [Workers -> 0 .. MaxTrip]
  /\ waking \in 0 .. MaxCalls
  /\ ran \in [Indices -> Nat]
  /\ calls \in 0 .. MaxCalls

Init ==
  /\ mpc = "idle"
  /\ call = [trip |-> 0, team |-> 1, schedule |-> "static", chunk |-> 0]
  /\ submitted = 0
  /\ main_wait = FALSE
  /\ pool = 0
  /\ jobs_remaining = 0
  /\ next = 0
  /\ steal_cursor = [w \in Workers |-> 0]
  /\ tpc = [w \in Workers |-> "none"]
  /\ victim = [w \in Workers |-> 0]
  /\ begin = [w \in Workers |-> 0]
  /\ end = [w \in Workers |-> 0]
  /\ waking = 0
  /\ ran = [i \in Indices |-> 0]
  /\ calls = 0

-----------------------------------------------------------------------------
(* The caller: li_par_pool_fork_join and li_par_pool_shutdown.             *)

\* li_par_clamp_team, for a positive team_size.
ClampTeam(team, trip) ==
  LET capped == IF team > MaxTeam THEN MaxTeam ELSE team
      short  == IF trip < capped THEN trip ELSE capped
  IN  IF short < 1 THEN 1 ELSE short

ForkJoin ==
  /\ mpc = "idle"
  /\ calls < MaxCalls
  /\ calls' = calls + 1
  /\ ran' = [i \in Indices |-> 0]
  /\ \E trip \in 1 .. MaxTrip, team \in 1 .. (MaxTeam + 1),
        sched \in Schedules, chunk \in Chunks :
       /\ call' = [trip |-> trip, team |-> ClampTeam(team, trip),
                   schedule |-> sched, chunk |-> chunk]
       /\ mpc' = IF ClampTeam(team, trip) <= 1 THEN "inline" ELSE "init"
  /\ UNCHANGED <<submitted, main_wait, pool, syncVars, cursorVars, tpc, victim,
                 claimVars>>

RunInline ==
  /\ mpc = "inline"
  /\ ran' = [i \in Indices |-> ran[i] + (IF i < call.trip THEN 1 ELSE 0)]
  /\ mpc' = "return"
  /\ UNCHANGED <<call, submitted, main_wait, pool, syncVars, cursorVars, tpc,
                 victim, claimVars, calls>>

\* CloseThreadpoolCleanupGroupMembers returns when no callback runs any more.
NoCallbacks == waking = 0 /\ \A w \in Workers : tpc[w] = "none"

\* The callbacks of a job.
PerIteration == call.trip                      \* mutant: one for each iteration
JobCount == call.team

\* li_par_pool_init_win closes a pool of another size and creates one anew. Then
\* the job is written.
InitPool ==
  /\ mpc = "init"
  /\ pool # call.team => NoCallbacks
  /\ pool' = call.team
  /\ jobs_remaining' = JobCount
  /\ next' = 0
  /\ steal_cursor' = [w \in Workers |->
                        IF w < call.team
                        THEN BlockBegin(call.trip, call.team, w)
                        ELSE steal_cursor[w]]
  /\ submitted' = 0
  /\ mpc' = "submit"
  /\ UNCHANGED <<call, main_wait, tpc, victim, claimVars, waking, historyVars>>

Start(w) ==
  /\ tpc' = [tpc EXCEPT ![w] = "run"]
  /\ submitted' = w + 1

\* One turn of the submitting loop: the callback goes to the pool, or, where no
\* work object can be created, the caller runs it itself.
Submit ==
  /\ mpc = "submit"
  /\ \/ /\ submitted < call.team
        /\ Start(submitted)
        /\ mpc' \in {"submit", "within"}
     \/ /\ submitted = call.team
        /\ mpc' = "join"
        /\ UNCHANGED <<tpc, submitted>>
  /\ UNCHANGED <<call, main_wait, pool, syncVars, cursorVars, victim, claimVars,
                 historyVars>>

RanWithin ==
  /\ mpc = "within"
  /\ tpc[submitted - 1] = "none"
  /\ mpc' = "submit"
  /\ UNCHANGED <<call, submitted, main_wait, pool, syncVars, cursorVars, tpc,
                 victim, claimVars, historyVars>>

OneMissing == jobs_remaining > 1               \* mutant: off by one
Unfinished == jobs_remaining > 0

\* The test of the joining loop, first or after a wake-up; join_lock is taken,
\* and kept if the caller is about to sleep.
TestJoin ==
  /\ mpc = "join"
  /\ ~main_wait
  /\ mpc' = IF Unfinished THEN "tested" ELSE "return"
  /\ UNCHANGED <<call, submitted, main_wait, pool, syncVars, cursorVars, tpc,
                 victim, claimVars, historyVars>>

\* SleepConditionVariableCS enters the wait set and releases join_lock.
Sleep ==
  /\ mpc = "tested"
  /\ main_wait' = TRUE
  /\ mpc' = "join"
  /\ UNCHANGED <<call, submitted, pool, syncVars, cursorVars, tpc, victim,
                 claimVars, historyVars>>

SpuriousCaller ==
  /\ main_wait
  /\ main_wait' = FALSE
  /\ UNCHANGED <<mpc, call, submitted, pool, syncVars, cursorVars, tpc, victim,
                 claimVars, historyVars>>

Return ==
  /\ mpc = "return"
  /\ mpc' = "idle"
  /\ UNCHANGED <<call, submitted, main_wait, pool, syncVars, cursorVars, tpc,
                 victim, claimVars, historyVars>>

\* li_par_pool_shutdown, up to its wait for the callbacks and after it.
Shutdown ==
  /\ mpc = "idle"
  /\ pool > 0
  /\ mpc' = "closing"
  /\ UNCHANGED <<call, submitted, main_wait, pool, syncVars, cursorVars, tpc,
                 victim, claimVars, historyVars>>

Close ==
  /\ mpc = "closing"
  /\ NoCallbacks
  /\ pool' = 0
  /\ mpc' = "idle"
  /\ UNCHANGED <<call, submitted, main_wait, syncVars, cursorVars, tpc, victim,
                 claimVars, historyVars>>

CallerStep == RunInline \/ InitPool \/ Submit \/ RanWithin \/ TestJoin
              \/ Sleep \/ Return \/ Close

-----------------------------------------------------------------------------
(* The callbacks.                                                          *)

LockFree == mpc # "tested"

Goto(w, pc) == tpc' = [tpc EXCEPT ![w] = pc]

OnlyRuns == UNCHANGED <<callerVars, syncVars, historyVars>>

Claim(w, from, to) ==
  /\ begin' = [begin EXCEPT ![w] = from]
  /\ end' = [end EXCEPT ![w] = to]
  /\ Goto(w, "body")

ClaimNothing(w, pc) ==
  /\ Goto(w, pc)
  /\ UNCHANGED claimVars

ChunkSize == IF call.chunk > 0 THEN call.chunk ELSE 1

NotCut(x, bound) == x                          \* mutant: end not clamped
AtMost(x, bound) == IF x > bound THEN bound ELSE x

\* li_par_win_worker: the worker's own block.
RunStatic(w) ==
  /\ tpc[w] = "run" /\ call.schedule = "static"
  /\ Claim(w, BlockBegin(call.trip, call.team, w), BlockEnd(call.trip, call.team, w))
  /\ UNCHANGED <<cursorVars, victim>>
  /\ OnlyRuns

\* li_par_win_run_dynamic: the counter is advanced first and without the lock.
ClaimDynamic(w) ==
  /\ tpc[w] = "run" /\ call.schedule = "dynamic"
  /\ next' = next + ChunkSize
  /\ IF next >= call.trip
     THEN ClaimNothing(w, "finish")
     ELSE Claim(w, next, AtMost(next + ChunkSize, call.trip))
  /\ UNCHANGED <<steal_cursor, victim>>
  /\ OnlyRuns

\* li_par_win_run_guided: a share of what is left, under the lock.
GuidedChunk ==
  LET share == (call.trip - next) \div call.team
  IN  IF share < 1 THEN 1 ELSE share

ClaimGuided(w) ==
  /\ tpc[w] = "run" /\ call.schedule = "guided"
  /\ LockFree
  /\ IF next >= call.trip
     THEN ClaimNothing(w, "finish") /\ UNCHANGED next
     ELSE Claim(w, next, next + GuidedChunk) /\ next' = next + GuidedChunk
  /\ UNCHANGED <<steal_cursor, victim>>
  /\ OnlyRuns

\* li_par_win_steal_claim on the block of v; a failed claim goes on at pc.
StealEnd(v) == BlockEnd(call.trip, call.team, v)

StealClaim(w, v, pc) ==
  /\ LockFree
  /\ IF steal_cursor[v] >= StealEnd(v)
     THEN /\ ClaimNothing(w, pc)
          /\ UNCHANGED steal_cursor
     ELSE LET to == AtMost(steal_cursor[v] + ChunkSize, StealEnd(v)) IN
          /\ Claim(w, steal_cursor[v], to)
          /\ steal_cursor' = [steal_cursor EXCEPT ![v] = to]
  /\ UNCHANGED next
  /\ OnlyRuns

StealOwn(w) ==
  /\ tpc[w] = "run" /\ call.schedule = "steal"
  /\ StealClaim(w, w, "scan")
  /\ victim' = [victim EXCEPT ![w] = 0]

\* One turn of the loop over the victims.
StealFrom(w) ==
  /\ tpc[w] = "scan"
  /\ LET v == victim[w] IN
       \/ /\ v < call.team /\ v # w
          /\ StealClaim(w, v, "scan")
          /\ victim' = [victim EXCEPT ![w] = v + 1]
       \/ /\ v < call.team /\ v = w
          /\ victim' = [victim EXCEPT ![w] = v + 1]
          /\ UNCHANGED <<tpc, cursorVars, claimVars>>
          /\ OnlyRuns
       \/ /\ v >= call.team
          /\ Goto(w, "check")
          /\ UNCHANGED <<cursorVars, victim, claimVars>>
          /\ OnlyRuns

CheckDrained(w) ==
  /\ tpc[w] = "check"
  /\ LockFree
  /\ Goto(w, IF \A v \in Team : steal_cursor[v] >= StealEnd(v)
             THEN "finish" ELSE "run")
  /\ UNCHANGED <<cursorVars, victim, claimVars>>
  /\ OnlyRuns

RunBody(w) ==
  /\ tpc[w] = "body"
  /\ ran' = [i \in Indices |->
               ran[i] + (IF begin[w] <= i /\ i < end[w] THEN 1 ELSE 0)]
  /\ Goto(w, IF call.schedule = "static" THEN "finish" ELSE "run")
  /\ UNCHANGED <<callerVars, syncVars, cursorVars, victim, claimVars, calls>>

TwoLeft == jobs_remaining <= 2                 \* mutant: off by one
OneLeft == jobs_remaining = 1

\* InterlockedDecrement, the last access of a callback to anything of the call.
Finish(w) ==
  /\ tpc[w] = "finish"
  /\ jobs_remaining' = jobs_remaining - 1
  /\ waking' = waking + (IF OneLeft THEN 1 ELSE 0)
  /\ Goto(w, "none")
  /\ UNCHANGED <<callerVars, cursorVars, victim, claimVars, historyVars>>

\* WakeAllConditionVariable, by the callback that brought the counter to 0. It
\* may come after the caller saw the 0, returned and even called again.
Wake ==
  /\ waking > 0
  /\ waking' = waking - 1
  /\ main_wait' = FALSE
  /\ UNCHANGED <<mpc, call, submitted, pool, jobs_remaining, cursorVars, tpc,
                 victim, claimVars, historyVars>>

Callback(w) == \/ RunStatic(w) \/ ClaimDynamic(w) \/ ClaimGuided(w)
               \/ StealOwn(w) \/ StealFrom(w) \/ CheckDrained(w) \/ RunBody(w)
               \/ Finish(w)

Next ==
  \/ ForkJoin \/ Shutdown \/ CallerStep \/ SpuriousCaller
  \/ \E w \in Workers : Callback(w)
  \/ Wake

Spec == Init /\ [][Next]_vars

\* The caller goes on when it can, the pool has a thread for every callback,
\* and Windows does not suspend one for ever.
Fairness ==
  /\ WF_vars(CallerStep)
  /\ \A w \in Workers : WF_vars(Callback(w))
  /\ WF_vars(Wake)

FairSpec == Spec /\ Fairness

-----------------------------------------------------------------------------
(* What the pool promises.                                                 *)

\* The job and the ranges a callback reads are on the caller's stack: none of
\* them is read after the call that owns them returned.
JobOnStack ==
  (\E w \in Workers : tpc[w] # "none") =>
     mpc \in {"submit", "within", "join", "tested"}

\* jobs_remaining counts the callbacks of the call that did not finish: the
\* created ones and those still to create.
Accounted ==
  mpc \in {"submit", "within", "join", "tested"} =>
    jobs_remaining = Cardinality({w \in Team : tpc[w] # "none"})
                     + (call.team - submitted)

\* The pool implements the specification of a fork-join call.
Abstract == INSTANCE ForkJoin WITH
  phase <- IF mpc \in {"idle", "closing"} THEN "idle" ELSE "running",
  trip  <- call.trip

ImplementsForkJoin == Abstract!Spec

\* A call of fork_join or shutdown returns.
CallReturns == (mpc # "idle") ~> (mpc = "idle")
=============================================================================
