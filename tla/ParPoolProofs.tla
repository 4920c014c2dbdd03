---------------------------- MODULE ParPoolProofs ----------------------------
(***************************************************************************)
(* Proofs about the pool for every team, number of iterations, schedule    *)
(* and number of calls.                                                    *)
(*                                                                         *)
(* Handshake is the inductive invariant: jobs_pending is set exactly while *)
(* the caller waits for done_cv, workers_done counts the workers that      *)
(* drain, and after the job workers_ready counts those back at the top.    *)
(* NoStaleWorker and Quiescent follow from it. Awake adds the wait sets    *)
(* and gives NoMissedWakeup. The second part of the module is the type     *)
(* invariant, the third that every iteration of a call runs exactly once   *)
(* and that the pool implements ForkJoin.                                  *)
(***************************************************************************)
EXTENDS ParPool, PartitionProofs, FiniteSetTheorems, TLAPS

\* The types of what the handshake is about.
HandshakeType ==
  /\ mpc \in CallerPC
  /\ call.team \in 1 .. MaxTeam
  /\ main_wait \in BOOLEAN
  /\ initialized \in BOOLEAN
  /\ team_size \in 0 .. MaxTeam
  /\ shutdown \in BOOLEAN
  /\ jobs_pending \in BOOLEAN
  /\ batch_size \in 0 .. MaxTeam
  /\ workers_done \in Nat
  /\ workers_ready \in Nat
  /\ work_wait \in SUBSET Workers
  /\ wpc \in [Workers -> WorkerPC]
  /\ DOMAIN local = Workers
  /\ \A w \in Workers : DOMAIN local[w] = {"batch_size", "schedule", "victim"}

In(pc) == {w \in Team : wpc[w] = pc}

\* Which threads exist, and when they have been told to end.
Threads ==
  /\ ~initialized => team_size = 0
  /\ mpc # "create" =>
       \A w \in Workers : wpc[w] = "none" <=> w \notin Team
  /\ mpc = "create" => \A w \in Workers : wpc[w] = "none"
  /\ mpc \in {"reteam", "closing"} => initialized
  /\ initialized /\ mpc \notin {"reteam", "closing", "create"} => ~shutdown
  /\ mpc \in {"post", "wait_done", "wait_ready"} =>
       initialized /\ team_size = call.team
  /\ ~shutdown => \A w \in Workers : wpc[w] # "exited"

\* The job that is published, and the count of the workers that are through.
Published ==
  mpc = "wait_done" =>
    /\ batch_size = call.team
    /\ schedule = call.schedule
    /\ schedule # "static" => job_trip = call.trip
    /\ workers_done = Cardinality(In("drain"))

\* The job is closed: every worker drains or is back at the top.
Closed ==
  mpc = "wait_ready" =>
    /\ batch_size = call.team
    /\ workers_ready = Cardinality(In("top"))
    /\ \A w \in Team : wpc[w] \in {"drain", "top"}

PendingWhilePosted == jobs_pending <=> mpc = "wait_done"

Handshake ==
  /\ HandshakeType
  /\ PendingWhilePosted
  /\ Threads
  /\ Published
  /\ Closed
  /\ NoStaleWorker
  /\ Quiescent

-----------------------------------------------------------------------------
(* Counting the workers of the team.                                       *)

LEMMA TeamFinite ==
  ASSUME NEW n \in Nat, NEW S \in SUBSET (0 .. (n - 1))
  PROVE  /\ IsFiniteSet(S)
         /\ Cardinality(S) \in Nat
         /\ Cardinality(S) <= n
         /\ Cardinality(S) >= n => S = 0 .. (n - 1)
<1>1. IsFiniteSet(0 .. (n - 1)) /\ Cardinality(0 .. (n - 1)) = n
  BY FS_Interval
<1>2. IsFiniteSet(S) /\ Cardinality(S) <= n
  BY <1>1, FS_Subset
<1>3. Cardinality(S) \in Nat
  BY <1>2, FS_CardinalityType
<1>4. Cardinality(S) >= n => Cardinality(S) = n
  BY <1>2, <1>3
<1>5. Cardinality(S) = n => S = 0 .. (n - 1)
  BY <1>1, <1>2, FS_Subset
<1> QED BY <1>2, <1>3, <1>4, <1>5

LEMMA AddOne ==
  ASSUME NEW n \in Nat, NEW S \in SUBSET (0 .. (n - 1)),
         NEW w \in 0 .. (n - 1), w \notin S
  PROVE  Cardinality(S \cup {w}) = Cardinality(S) + 1
BY TeamFinite, FS_AddElement

LEMMA InitHandshake == Init => Handshake
<1> SUFFICES ASSUME Init PROVE Handshake
  OBVIOUS
<1>1. Team = {}
  BY DEF Init, Team
<1>2. HandshakeType
  <2>1. /\ mpc \in CallerPC /\ call.team \in 1 .. MaxTeam
        /\ team_size \in 0 .. MaxTeam /\ batch_size \in 0 .. MaxTeam
    BY PoolAssumption DEF Init, CallerPC
  <2>2. /\ wpc \in [Workers -> WorkerPC] /\ DOMAIN local = Workers
        /\ work_wait \in SUBSET Workers
    BY DEF Init, WorkerPC
  <2>3. \A w \in Workers : DOMAIN local[w] = {"batch_size", "schedule", "victim"}
    BY DEF Init
  <2> QED BY <2>1, <2>2, <2>3 DEF Init, HandshakeType
<1>3. PendingWhilePosted
  BY DEF Init, PendingWhilePosted
<1>4. Threads
  BY <1>1 DEF Init, Threads
<1>5. Published /\ Closed /\ NoStaleWorker /\ Quiescent
  BY DEF Init, Published, Closed, NoStaleWorker, Quiescent, Running
<1> QED BY <1>2, <1>3, <1>4, <1>5 DEF Handshake

-----------------------------------------------------------------------------
(* The steps of the caller.                                                *)

LEMMA ClampInRange ==
  ASSUME NEW team \in 1 .. (MaxTeam + 1), NEW trip \in 1 .. MaxTrip
  PROVE  ClampTeam(team, trip) \in 1 .. MaxTeam
BY PoolAssumption DEF ClampTeam

LEMMA ForkJoinHandshake ==
  ASSUME Handshake, ForkJoin PROVE Handshake'
<1>1. PICK size \in 1 .. MaxTeam : call'.team = size /\ Enter(size)
  BY ClampInRange DEF ForkJoin
<1>2. mpc = "idle" /\ ~jobs_pending /\ (initialized => ~shutdown)
  BY DEF ForkJoin, Handshake, PendingWhilePosted, Threads
<1>3. \/ mpc' = "inline" /\ shutdown' = shutdown
      \/ mpc' = "post" /\ initialized /\ team_size = size /\ shutdown' = shutdown
      \/ mpc' = "reteam" /\ initialized /\ shutdown' = TRUE
      \/ mpc' = "create" /\ ~initialized /\ shutdown' = shutdown
  BY <1>1 DEF Enter, InitPool
<1>4. /\ UNCHANGED <<main_wait, initialized, team_size, jobs_pending, batch_size,
                    workers_done, workers_ready, wpc, local>>
      /\ work_wait' \in SUBSET Workers
  BY <1>1 DEF ForkJoin, syncVars, Enter, InitPool, BroadcastWork, Handshake,
     HandshakeType
<1>5. HandshakeType'
  BY <1>1, <1>3, <1>4 DEF Handshake, HandshakeType, CallerPC
<1>6. Threads'
  BY <1>1, <1>2, <1>3, <1>4 DEF Handshake, Threads, Team
<1>7. Quiescent' /\ PendingWhilePosted'
  BY <1>2, <1>3, <1>4 DEF Handshake, PendingWhilePosted, Quiescent
<1>8. NoStaleWorker'
  BY <1>2, <1>4 DEF Handshake, Quiescent, NoStaleWorker, Running
<1>9. Published' /\ Closed'
  BY <1>3 DEF Published, Closed
<1> QED BY <1>5, <1>6, <1>7, <1>8, <1>9 DEF Handshake

LEMMA RunInlineHandshake ==
  ASSUME Handshake, RunInline PROVE Handshake'
BY DEF Handshake, HandshakeType, PendingWhilePosted, Threads,
   Published, Closed, NoStaleWorker,
   Quiescent, CallerPC, Team, Running, RunInline, teamVars, syncVars, jobVars

LEMMA RejoinHandshake ==
  ASSUME Handshake, Rejoin PROVE Handshake'
BY DEF Handshake, HandshakeType, PendingWhilePosted, Threads,
   Published, Closed, NoStaleWorker,
   Quiescent, CallerPC, WorkerPC, Team, Running, Rejoin, teamVars, syncVars,
   jobVars

LEMMA CreateTeamHandshake ==
  ASSUME Handshake, CreateTeam PROVE Handshake'
<1>1. /\ mpc' = "post" /\ initialized' = TRUE /\ shutdown' = FALSE
      /\ jobs_pending' = FALSE /\ team_size' = call.team /\ call' = call
      /\ local' = local
  BY DEF CreateTeam
<1>2. wpc' = [w \in Workers |-> IF w \in Team' THEN "top" ELSE "none"]
  BY <1>1, PoolAssumption DEF CreateTeam, Team, Workers, Handshake, HandshakeType
<1>3. HandshakeType'
  <2>1. wpc' \in [Workers -> WorkerPC]
    BY <1>2 DEF WorkerPC
  <2>2. batch_size' = 0 /\ workers_done' = 0 /\ workers_ready' = 0 /\ work_wait' = {}
          /\ main_wait' = main_wait
    BY DEF CreateTeam, ResetDone, ResetReady
  <2>3. 0 \in 0 .. MaxTeam
    BY PoolAssumption
  <2>4. team_size' \in 0 .. MaxTeam /\ call'.team \in 1 .. MaxTeam
    BY <1>1, PoolAssumption DEF Handshake, HandshakeType
  <2>5. /\ mpc' \in CallerPC /\ main_wait' \in BOOLEAN
        /\ initialized' \in BOOLEAN /\ shutdown' \in BOOLEAN
        /\ jobs_pending' \in BOOLEAN
    BY <1>1, <2>2 DEF Handshake, HandshakeType, CallerPC
  <2> QED BY <1>1, <2>1, <2>2, <2>3, <2>4, <2>5 DEF Handshake, HandshakeType
<1>4. Threads'
  BY <1>1, <1>2 DEF Threads
<1>5. Quiescent' /\ PendingWhilePosted' /\ NoStaleWorker'
  BY <1>1, <1>2 DEF Quiescent, PendingWhilePosted, NoStaleWorker, Running
<1>6. Published' /\ Closed'
  BY <1>1 DEF Published, Closed
<1> QED BY <1>3, <1>4, <1>5, <1>6 DEF Handshake

LEMMA PostHandshake ==
  ASSUME Handshake, Post PROVE Handshake'
<1>1. /\ mpc = "post" /\ mpc' = "wait_done"
      /\ jobs_pending' = TRUE /\ main_wait' = TRUE /\ work_wait' = {}
      /\ batch_size' = call.team /\ workers_done' = 0
      /\ UNCHANGED <<call, initialized, team_size, shutdown, workers_ready, wpc,
                    local>>
  BY DEF Post, ResetDone, BroadcastWork, teamVars
<1>2. \A w \in Workers : wpc[w] \in {"none", "top", "exited"}
  BY <1>1 DEF Handshake, Quiescent
<1>3. Cardinality(In("drain")') = 0
  <2>1. In("drain")' = {}
    <3>1. Team' \subseteq Workers
      BY <1>1, PoolAssumption DEF Team, Workers, Handshake, HandshakeType
    <3> QED BY <1>1, <1>2, <3>1 DEF In
  <2> QED BY <2>1, FS_EmptySet
<1>4. HandshakeType'
  BY <1>1 DEF Handshake, HandshakeType, CallerPC
<1>5. Threads'
  BY <1>1 DEF Handshake, Threads, Team
<1>6. Quiescent' /\ PendingWhilePosted' /\ NoStaleWorker' /\ Closed'
  BY <1>1, <1>2 DEF Quiescent, PendingWhilePosted, NoStaleWorker, Running, Closed
<1>7. Published'
  BY <1>1, <1>3 DEF Published, Post
<1> QED BY <1>4, <1>5, <1>6, <1>7 DEF Handshake

LEMMA CollectDoneHandshake ==
  ASSUME Handshake, CollectDone PROVE Handshake'
<1>1. CASE ~AllDone
  <2>1. /\ main_wait' = TRUE
        /\ UNCHANGED <<mpc, call, initialized, team_size, shutdown, jobs_pending,
                      batch_size, workers_done, workers_ready, schedule, job_trip,
                      work_wait, wpc, local>>
    BY <1>1 DEF CollectDone, teamVars, jobVars
  <2> QED
    BY <2>1 DEF Handshake, HandshakeType, PendingWhilePosted, Threads, Published,
       Closed, NoStaleWorker, Quiescent, Team, In
<1>2. CASE AllDone
  <2>1. /\ mpc = "wait_done" /\ mpc' = "wait_ready"
        /\ main_wait' = TRUE /\ workers_ready' = 0 /\ jobs_pending' = FALSE
        /\ work_wait' = {}
        /\ UNCHANGED <<call, initialized, team_size, shutdown, batch_size,
                      workers_done, wpc, local>>
    BY <1>2 DEF CollectDone, ResetReady, BroadcastWork, teamVars
  <2>2. /\ team_size = call.team /\ batch_size = call.team
        /\ workers_done = Cardinality(In("drain"))
    BY <2>1 DEF Handshake, Threads, Published
  <2>3. \A w \in Team : wpc[w] = "drain"
    <3>1. In("drain") \in SUBSET (0 .. (team_size - 1)) /\ team_size \in Nat
      BY DEF In, Team, Handshake, HandshakeType
    <3>2. Cardinality(In("drain")) >= team_size
      BY <1>2, <2>2 DEF AllDone
    <3>3. In("drain") = Team
      BY <3>1, <3>2, TeamFinite DEF Team
    <3> QED BY <3>3 DEF In
  <2>4. \A w \in Workers : w \notin Team => wpc[w] = "none"
    BY <2>1 DEF Handshake, Threads
  <2>5. Cardinality(In("top")') = 0
    <3>1. In("top")' = {}
      BY <2>1, <2>3 DEF In, Team
    <3> QED BY <3>1, FS_EmptySet
  <2>6. HandshakeType'
    BY <2>1 DEF Handshake, HandshakeType, CallerPC
  <2>7. Threads'
    BY <2>1 DEF Handshake, Threads, Team
  <2>8. Closed'
    BY <2>1, <2>2, <2>3, <2>5 DEF Closed, Team
  <2>9. Quiescent' /\ PendingWhilePosted' /\ NoStaleWorker' /\ Published'
    BY <2>1, <2>3, <2>4 DEF Quiescent, PendingWhilePosted, NoStaleWorker, Running,
       Published
  <2> QED BY <2>6, <2>7, <2>8, <2>9 DEF Handshake
<1> QED BY <1>1, <1>2

LEMMA CollectReadyHandshake ==
  ASSUME Handshake, CollectReady PROVE Handshake'
<1> USE DEF CollectReady, teamVars, jobVars, syncVars
<1>1. CASE ~AllReady
  BY <1>1 DEF Handshake, HandshakeType, PendingWhilePosted, Threads,
   Published, Closed,
     NoStaleWorker, Quiescent, CallerPC, Team, In, Running, AllReady
<1>2. CASE AllReady
  <2>1. In("top") = Team
    <3>1. In("top") \in SUBSET (0 .. (team_size - 1)) /\ team_size \in Nat
      BY DEF In, Team, Handshake, HandshakeType
    <3>2. Cardinality(In("top")) >= team_size
      BY <1>2 DEF AllReady, Handshake, Closed, Threads
    <3> QED BY <3>1, <3>2, TeamFinite DEF Team
  <2>2. \A w \in Team : wpc[w] = "top"
    BY <2>1 DEF In
  <2> QED
    BY <1>2, <2>2 DEF Handshake, HandshakeType, PendingWhilePosted, Threads,
   Published, Closed,
       NoStaleWorker, Quiescent, CallerPC, Team, Running, AllReady
<1> QED BY <1>1, <1>2

LEMMA ReturnHandshake ==
  ASSUME Handshake, Return PROVE Handshake'
BY DEF Handshake, HandshakeType, PendingWhilePosted, Threads,
   Published, Closed, NoStaleWorker,
   Quiescent, CallerPC, Team, Running, Return, teamVars, syncVars, jobVars

LEMMA ShutdownHandshake ==
  ASSUME Handshake, Shutdown PROVE Handshake'
BY DEF Handshake, HandshakeType, PendingWhilePosted, Threads,
   Published, Closed, NoStaleWorker,
   Quiescent, CallerPC, Team, Running, Shutdown, syncVars, jobVars,
   BroadcastWork

LEMMA CloseHandshake ==
  ASSUME Handshake, Close PROVE Handshake'
<1>1. /\ mpc = "closing" /\ mpc' = "idle"
      /\ initialized' = FALSE /\ team_size' = 0
      /\ wpc' = [w \in Workers |-> "none"]
      /\ UNCHANGED <<call, main_wait, shutdown, jobs_pending, batch_size,
                    workers_done, workers_ready, work_wait, local>>
  BY DEF Close, syncVars
<1>2. Team' = {}
  BY <1>1 DEF Team
<1>3. HandshakeType'
  <2>1. wpc' \in [Workers -> WorkerPC]
    BY <1>1 DEF WorkerPC
  <2>2. 0 \in 0 .. MaxTeam
    BY PoolAssumption
  <2> QED BY <1>1, <2>1, <2>2 DEF Handshake, HandshakeType, CallerPC
<1>4. Threads'
  BY <1>1, <1>2 DEF Threads
<1>5. /\ Quiescent' /\ PendingWhilePosted' /\ NoStaleWorker'
      /\ Published' /\ Closed'
  BY <1>1 DEF Quiescent, PendingWhilePosted, NoStaleWorker, Running, Published,
     Closed, Handshake
<1> QED BY <1>3, <1>4, <1>5 DEF Handshake

-----------------------------------------------------------------------------
(* The steps of a worker.                                                  *)

\* A worker of the pool that is not asleep between jobs belongs to the team.
LEMMA InTeam ==
  ASSUME Handshake, NEW w \in Workers, wpc[w] # "none"
  PROVE  w \in Team
<1>1. CASE mpc = "create"
  BY <1>1 DEF Handshake, Threads
<1>2. CASE mpc # "create"
  BY <1>2 DEF Handshake, Threads
<1> QED BY <1>1, <1>2

\* A step by which a running worker goes on with the job: nothing that the
\* handshake is about changes but its own pc, among the running ones.
LEMMA GoOnHandshake ==
  ASSUME Handshake, NEW w \in Workers,
         wpc[w] \in Running, NEW pc \in Running,
         wpc' = [wpc EXCEPT ![w] = pc],
         DOMAIN local' = Workers,
         \A v \in Workers : DOMAIN local'[v] = DOMAIN local[v],
         \A v \in Workers : /\ local'[v].batch_size = local[v].batch_size
                            /\ local'[v].schedule = local[v].schedule,
         UNCHANGED <<mpc, call, main_wait, teamVars, syncVars, schedule, job_trip,
                     work_wait>>
  PROVE  Handshake'
<1>1. UNCHANGED <<mpc, call, main_wait, initialized, team_size, shutdown,
                  jobs_pending, batch_size, workers_done, workers_ready, schedule,
                  job_trip, work_wait>>
  BY DEF teamVars, syncVars
<1>2. Team' = Team /\ w \in Team
  BY <1>1, InTeam DEF Team, Running
<1>3. \A v \in Workers : wpc'[v] = IF v = w THEN pc ELSE wpc[v]
  BY DEF Handshake, HandshakeType
<1>4. Team \subseteq Workers
  BY PoolAssumption DEF Team, Workers, Handshake, HandshakeType
<1>5. In("drain")' = In("drain") /\ In("top")' = In("top")
  BY <1>2, <1>3, <1>4 DEF In, Running
<1>6. mpc = "wait_done"
  BY DEF Handshake, NoStaleWorker
<1>7. HandshakeType'
  BY <1>1 DEF Handshake, HandshakeType, WorkerPC, Running
<1>8. Threads'
  <2>1. pc # "none" /\ pc # "exited" /\ wpc[w] # "none" /\ wpc[w] # "exited"
    BY DEF Running
  <2> QED BY <1>1, <1>2, <1>3, <1>6, <2>1 DEF Handshake, Threads
<1>9. Published' /\ Closed' /\ Quiescent' /\ PendingWhilePosted'
  BY <1>1, <1>5, <1>6 DEF Handshake, Published, Closed, Quiescent,
     PendingWhilePosted
<1>10. NoStaleWorker'
  BY <1>1, <1>3 DEF Handshake, NoStaleWorker
<1> QED BY <1>7, <1>8, <1>9, <1>10 DEF Handshake

LEMMA RunningHandshake ==
  ASSUME Handshake, NEW w \in Workers,
         \/ RunStatic(w) \/ ClaimDynamic(w) \/ ClaimGuided(w) \/ StealOwn(w)
         \/ StealFrom(w) \/ CheckDrained(w) \/ RunBody(w)
  PROVE  Handshake'
<1>1. /\ wpc[w] \in Running
      /\ UNCHANGED <<mpc, call, main_wait, teamVars, syncVars, schedule, job_trip,
                     work_wait>>
  BY DEF RunStatic, ClaimDynamic, ClaimGuided, StealOwn, StealFrom, CheckDrained,
     RunBody, ClaimNext, StealClaim, OnlyRuns, Running, callerVars, jobVars
<1>2. \E pc \in Running : wpc' = [wpc EXCEPT ![w] = pc]
  <2>1. wpc = [wpc EXCEPT ![w] = wpc[w]]
    BY DEF Handshake, HandshakeType
  <2> QED
    BY <1>1, <2>1 DEF RunStatic, ClaimDynamic, ClaimGuided, StealOwn, StealFrom,
       CheckDrained, RunBody, ClaimNext, StealClaim, Claim, ClaimNothing, Goto,
       Running
<1>3. \/ local' = local
      \/ \E v : local' = [local EXCEPT ![w].victim = v]
  BY DEF RunStatic, ClaimDynamic, ClaimGuided, StealOwn, StealFrom, CheckDrained,
     RunBody, ClaimNext, StealClaim
<1>4. /\ DOMAIN local' = Workers
      /\ \A v \in Workers : /\ DOMAIN local'[v] = DOMAIN local[v]
                            /\ local'[v].batch_size = local[v].batch_size
                            /\ local'[v].schedule = local[v].schedule
  BY <1>3 DEF Handshake, HandshakeType
<1> QED BY <1>1, <1>2, <1>4, GoOnHandshake

LEMMA FetchHandshake ==
  ASSUME Handshake, NEW w \in Workers, Fetch(w) PROVE Handshake'
<1>1. /\ wpc[w] = "top"
      /\ UNCHANGED <<mpc, call, main_wait, initialized, team_size, shutdown,
                     jobs_pending, batch_size, workers_done, workers_ready,
                     schedule, job_trip>>
  BY DEF Fetch, callerVars, teamVars, syncVars, jobVars
<1>2. Team' = Team /\ w \in Team /\ Team \subseteq Workers
  BY <1>1, InTeam, PoolAssumption DEF Team, Workers, Handshake, HandshakeType
<1>3. CASE ~shutdown /\ ~jobs_pending
  <2>1. /\ work_wait' = work_wait \cup {w}
        /\ UNCHANGED <<wpc, local>>
    BY <1>3 DEF Fetch
  <2> QED
    BY <1>1, <1>2, <2>1 DEF Handshake, HandshakeType, PendingWhilePosted, Threads,
       Published, Closed, NoStaleWorker, Quiescent, In
<1>4. CASE shutdown
  <2>1. /\ wpc' = [wpc EXCEPT ![w] = "exited"]
        /\ UNCHANGED <<work_wait, local>>
    BY <1>4 DEF Fetch, Goto
  <2>2. mpc \notin {"post", "wait_done", "wait_ready"}
    BY <1>4 DEF Handshake, Threads
  <2>3. \A v \in Workers : wpc'[v] = IF v = w THEN "exited" ELSE wpc[v]
    BY <2>1 DEF Handshake, HandshakeType
  <2>4. HandshakeType'
    BY <1>1, <2>1 DEF Handshake, HandshakeType, WorkerPC
  <2>5. Threads'
    BY <1>1, <1>2, <1>4, <2>3 DEF Handshake, Threads
  <2>6. /\ Published' /\ Closed' /\ Quiescent' /\ PendingWhilePosted'
        /\ NoStaleWorker'
    BY <1>1, <2>1, <2>2, <2>3 DEF Handshake, Published, Closed, Quiescent,
       PendingWhilePosted, NoStaleWorker, Running
  <2> QED BY <2>4, <2>5, <2>6 DEF Handshake
<1>5. CASE ~shutdown /\ jobs_pending
  <2>1. /\ wpc' = [wpc EXCEPT ![w] = "run"]
        /\ local' = [local EXCEPT ![w] = [batch_size |-> batch_size,
                                          schedule |-> schedule, victim |-> 0]]
        /\ UNCHANGED work_wait
    BY <1>5 DEF Fetch, Goto
  <2>2. mpc = "wait_done"
    BY <1>5 DEF Handshake, PendingWhilePosted
  <2>3. \A v \in Workers : wpc'[v] = IF v = w THEN "run" ELSE wpc[v]
    BY <2>1 DEF Handshake, HandshakeType
  <2>4. /\ DOMAIN local' = Workers
        /\ \A v \in Workers :
             local'[v] = IF v = w THEN [batch_size |-> batch_size,
                                        schedule |-> schedule, victim |-> 0]
                         ELSE local[v]
    BY <2>1 DEF Handshake, HandshakeType
  <2>5. HandshakeType'
    <3>1. \A v \in Workers :
            DOMAIN local'[v] = {"batch_size", "schedule", "victim"}
      BY <2>4 DEF Handshake, HandshakeType
    <3> QED BY <1>1, <2>1, <2>4, <3>1 DEF Handshake, HandshakeType, WorkerPC
  <2>6. Threads'
    BY <1>1, <1>2, <2>2, <2>3 DEF Handshake, Threads
  <2>7. In("drain")' = In("drain")
    BY <1>1, <1>2, <2>3 DEF In
  <2>8. Published' /\ Closed' /\ Quiescent' /\ PendingWhilePosted'
    BY <1>1, <2>2, <2>7 DEF Handshake, Published, Closed, Quiescent,
       PendingWhilePosted
  <2>9. NoStaleWorker'
    BY <1>1, <1>5, <2>2, <2>3, <2>4 DEF Handshake, NoStaleWorker, Published, Running
  <2> QED BY <2>5, <2>6, <2>8, <2>9 DEF Handshake
<1> QED BY <1>3, <1>4, <1>5

LEMMA FinishHandshake ==
  ASSUME Handshake, NEW w \in Workers, Finish(w) PROVE Handshake'
<1>1. /\ wpc[w] = "done"
      /\ workers_done' = workers_done + 1
      /\ UNCHANGED <<mpc, call, initialized, team_size, shutdown, jobs_pending,
                     batch_size, schedule, job_trip, local>>
  BY DEF Finish, teamVars, jobVars
<1>2. mpc = "wait_done" /\ jobs_pending /\ ~shutdown
  BY <1>1 DEF Handshake, NoStaleWorker, Running, Threads
<1>3. /\ work_wait' = work_wait \cup {w}
      /\ wpc' = [wpc EXCEPT ![w] = "drain"]
      /\ workers_ready' = workers_ready
      /\ main_wait' \in BOOLEAN
  BY <1>2 DEF Finish, AwaitClose, Goto, Notify
<1>4. Team' = Team /\ w \in Team /\ Team \subseteq Workers
  BY <1>1, InTeam, PoolAssumption DEF Team, Workers, Handshake, HandshakeType
<1>5. \A v \in Workers : wpc'[v] = IF v = w THEN "drain" ELSE wpc[v]
  BY <1>3 DEF Handshake, HandshakeType
<1>6. Cardinality(In("drain")') = Cardinality(In("drain")) + 1
  <2>1. In("drain")' = In("drain") \cup {w} /\ w \notin In("drain")
    BY <1>1, <1>4, <1>5 DEF In
  <2>2. /\ In("drain") \in SUBSET (0 .. (team_size - 1))
        /\ w \in 0 .. (team_size - 1) /\ team_size \in Nat
    BY <1>4 DEF In, Team, Handshake, HandshakeType
  <2> QED BY <2>1, <2>2, AddOne
<1>7. HandshakeType'
  BY <1>1, <1>3 DEF Handshake, HandshakeType, WorkerPC
<1>8. Threads'
  BY <1>1, <1>2, <1>4, <1>5 DEF Handshake, Threads
<1>9. Published' /\ Closed' /\ Quiescent' /\ PendingWhilePosted'
  BY <1>1, <1>2, <1>6 DEF Handshake, Published, Closed, Quiescent,
     PendingWhilePosted
<1>10. NoStaleWorker'
  BY <1>1, <1>2, <1>5 DEF Handshake, NoStaleWorker, Running
<1> QED BY <1>7, <1>8, <1>9, <1>10 DEF Handshake

LEMMA DrainHandshake ==
  ASSUME Handshake, NEW w \in Workers, Drain(w) PROVE Handshake'
<1>1. /\ wpc[w] = "drain"
      /\ UNCHANGED <<mpc, call, initialized, team_size, shutdown, jobs_pending,
                     batch_size, workers_done, schedule, job_trip, local>>
      /\ main_wait' \in BOOLEAN
  BY DEF Drain, AwaitClose, Notify, teamVars, jobVars
<1>2. Team' = Team /\ w \in Team /\ Team \subseteq Workers
  BY <1>1, InTeam, PoolAssumption DEF Team, Workers, Handshake, HandshakeType
<1>3. mpc \in {"wait_done", "wait_ready"} /\ ~shutdown
  BY <1>1 DEF Handshake, Quiescent, Threads
<1>4. CASE jobs_pending
  <2>1. work_wait' = work_wait \cup {w} /\ UNCHANGED workers_ready
    BY <1>3, <1>4 DEF Drain, AwaitClose
  <2>2. wpc' = wpc
    BY <1>1, <1>3, <1>4 DEF Drain, AwaitClose, Goto, Handshake, HandshakeType
  <2> QED
    BY <1>1, <1>2, <2>1, <2>2 DEF Handshake, HandshakeType, PendingWhilePosted,
       Threads, Published, Closed, NoStaleWorker, Quiescent, In
<1>5. CASE ~jobs_pending
  <2>1. /\ wpc' = [wpc EXCEPT ![w] = "top"]
        /\ workers_ready' = workers_ready + 1
        /\ UNCHANGED work_wait
    BY <1>5 DEF Drain, AwaitClose, Goto
  <2>2. mpc = "wait_ready"
    BY <1>3, <1>5 DEF Handshake, PendingWhilePosted
  <2>3. \A v \in Workers : wpc'[v] = IF v = w THEN "top" ELSE wpc[v]
    BY <2>1 DEF Handshake, HandshakeType
  <2>4. Cardinality(In("top")') = Cardinality(In("top")) + 1
    <3>1. In("top")' = In("top") \cup {w} /\ w \notin In("top")
      BY <1>1, <1>2, <2>3 DEF In
    <3>2. /\ In("top") \in SUBSET (0 .. (team_size - 1))
          /\ w \in 0 .. (team_size - 1) /\ team_size \in Nat
      BY <1>2 DEF In, Team, Handshake, HandshakeType
    <3> QED BY <3>1, <3>2, AddOne
  <2>5. HandshakeType'
    BY <1>1, <2>1 DEF Handshake, HandshakeType, WorkerPC
  <2>6. Threads'
    BY <1>1, <1>2, <2>2, <2>3 DEF Handshake, Threads
  <2>7. Closed'
    BY <1>1, <1>2, <2>1, <2>2, <2>3, <2>4 DEF Handshake, Closed
  <2>8. Published' /\ Quiescent' /\ PendingWhilePosted'
    BY <1>1, <1>5, <2>2 DEF Handshake, Published, Quiescent, PendingWhilePosted
  <2>9. NoStaleWorker'
    BY <1>1, <2>3 DEF Handshake, NoStaleWorker, Running
  <2> QED BY <2>5, <2>6, <2>7, <2>8, <2>9 DEF Handshake
<1> QED BY <1>4, <1>5 DEF Handshake, HandshakeType

-----------------------------------------------------------------------------
(* The handshake as a theorem of the specification.                        *)

LEMMA SpuriousHandshake ==
  ASSUME Handshake,
         SpuriousCaller \/ \E w \in Workers : SpuriousWorker(w)
  PROVE  Handshake'
<1>1. /\ UNCHANGED <<mpc, call, initialized, team_size, shutdown, jobs_pending,
                     batch_size, workers_done, workers_ready, schedule, job_trip,
                     wpc, local>>
      /\ main_wait' \in BOOLEAN
      /\ work_wait' \in SUBSET Workers
  BY DEF SpuriousCaller, SpuriousWorker, callerVars, teamVars, syncVars, jobVars,
     Handshake, HandshakeType
<1> QED
  BY <1>1 DEF Handshake, HandshakeType, PendingWhilePosted, Threads, Published,
     Closed, NoStaleWorker, Quiescent, Team, In

LEMMA NextHandshake == Handshake /\ [Next]_vars => Handshake'
<1> SUFFICES ASSUME Handshake, [Next]_vars PROVE Handshake'
  OBVIOUS
<1>1. CASE Caller
  BY <1>1, ForkJoinHandshake, RunInlineHandshake, RejoinHandshake,
     CreateTeamHandshake, PostHandshake, CollectDoneHandshake,
     CollectReadyHandshake, ReturnHandshake, ShutdownHandshake, CloseHandshake
     DEF Caller
<1>2. ASSUME NEW w \in Workers, Worker(w) PROVE Handshake'
  BY <1>2, FetchHandshake, RunningHandshake, FinishHandshake, DrainHandshake
     DEF Worker
<1>3. CASE SpuriousCaller \/ \E w \in Workers : SpuriousWorker(w)
  BY <1>3, SpuriousHandshake
<1>4. CASE UNCHANGED vars
  BY <1>4 DEF vars, callerVars, teamVars, syncVars, jobVars, Handshake,
     HandshakeType, PendingWhilePosted, Threads, Published, Closed, NoStaleWorker,
     Quiescent, Team, In
<1> QED BY <1>1, <1>2, <1>3, <1>4 DEF Next

\* In every reachable state the two phases of a job are in step with the pcs of
\* the workers: the counters count, and no thread is in a job it should not be in.
THEOREM HandshakeHolds == Spec => []Handshake
BY InitHandshake, NextHandshake, PTL DEF Spec

\* A running worker works on the job the caller waits for (li_par_pool_worker
\* reads the job's fields without the mutex: they do not change under it).
THEOREM StaleFree == Spec => []NoStaleWorker
<1>1. Handshake => NoStaleWorker
  BY DEF Handshake
<1> QED BY <1>1, HandshakeHolds, PTL

\* When the caller is not in run_pthread, all workers are at the top of the loop.
THEOREM QuiescentBetweenCalls == Spec => []Quiescent
<1>1. Handshake => Quiescent
  BY DEF Handshake
<1> QED BY <1>1, HandshakeHolds, PTL

-----------------------------------------------------------------------------
(* Wake-ups. Sleepers are at one of the two waits of the worker, the caller *)
(* sleeps only in its own two, and nobody sleeps past the end of its wait.  *)

Awake ==
  /\ NoMissedWakeup
  /\ \A w \in work_wait : wpc[w] \in {"top", "drain"}
  /\ main_wait => mpc \in {"wait_done", "wait_ready"}

LEMMA CallerAwake ==
  ASSUME Handshake, Awake, Caller PROVE Awake'
<1>1. CASE ForkJoin
  <2>1. /\ mpc = "idle" /\ ~main_wait /\ ~main_wait'
        /\ wpc' = wpc /\ jobs_pending' = jobs_pending /\ ~jobs_pending
    BY <1>1 DEF ForkJoin, syncVars, Awake, Handshake, PendingWhilePosted
  <2>2. \/ work_wait' = work_wait /\ shutdown' = shutdown
        \/ work_wait' = {}
    BY <1>1 DEF ForkJoin, Enter, InitPool, BroadcastWork
  <2> QED BY <2>1, <2>2 DEF Awake, NoMissedWakeup
<1>2. CASE RunInline \/ Return
  BY <1>2 DEF RunInline, Return, teamVars, syncVars, Awake, NoMissedWakeup
<1>3. CASE Rejoin \/ Close
  <2>1. \A w \in Workers : wpc[w] \in {"none", "exited"}
    BY <1>3 DEF Rejoin, Close, Joined, Handshake, Threads
  <2>2. work_wait = {}
    BY <2>1 DEF Awake, Handshake, HandshakeType
  <2> QED
    BY <1>3, <2>2 DEF Rejoin, Close, teamVars, syncVars, Awake, NoMissedWakeup
<1>4. CASE CreateTeam
  BY <1>4 DEF CreateTeam, Awake, NoMissedWakeup
<1>5. CASE Post
  <2>1. call.team \in Nat \ {0}
    BY DEF Handshake, HandshakeType
  <2> QED
    BY <1>5, <2>1 DEF Post, ResetDone, BroadcastWork, Awake, NoMissedWakeup
<1>6. CASE CollectDone
  <2>1. call.team \in Nat \ {0} /\ workers_done \in Nat
    BY DEF Handshake, HandshakeType
  <2>2. CASE AllDone
    BY <1>6, <2>1, <2>2 DEF CollectDone, ResetReady, BroadcastWork, Awake,
       NoMissedWakeup
  <2>3. CASE ~AllDone
    BY <1>6, <2>1, <2>3 DEF CollectDone, AllDone, teamVars, Awake, NoMissedWakeup
  <2> QED BY <2>2, <2>3
<1>7. CASE CollectReady
  <2>1. call.team \in Nat \ {0} /\ workers_ready \in Nat
    BY DEF Handshake, HandshakeType
  <2> QED
    BY <1>7, <2>1 DEF CollectReady, AllReady, teamVars, syncVars, Awake,
       NoMissedWakeup
<1>8. CASE Shutdown
  BY <1>8 DEF Shutdown, syncVars, BroadcastWork, Awake, NoMissedWakeup
<1> QED
  BY <1>1, <1>2, <1>3, <1>4, <1>5, <1>6, <1>7, <1>8 DEF Caller

LEMMA WorkerAwake ==
  ASSUME Handshake, Awake, NEW w \in Workers, Worker(w) PROVE Awake'
<1>1. CASE Fetch(w)
  <2>1. /\ wpc[w] = "top" /\ w \notin work_wait
        /\ UNCHANGED <<mpc, call, main_wait, shutdown, jobs_pending,
                       workers_done, workers_ready>>
    BY <1>1 DEF Fetch, callerVars, teamVars, syncVars
  <2>2. \/ /\ ~shutdown /\ ~jobs_pending
           /\ work_wait' = work_wait \cup {w} /\ wpc' = wpc
        \/ /\ work_wait' = work_wait
           /\ \E pc \in WorkerPC : wpc' = [wpc EXCEPT ![w] = pc]
    BY <1>1 DEF Fetch, Goto, WorkerPC
  <2> QED
    BY <2>1, <2>2 DEF Awake, NoMissedWakeup, Handshake, HandshakeType
<1>2. CASE \/ RunStatic(w) \/ ClaimDynamic(w) \/ ClaimGuided(w) \/ StealOwn(w)
           \/ StealFrom(w) \/ CheckDrained(w) \/ RunBody(w)
  <2>1. /\ wpc[w] \in Running
        /\ UNCHANGED <<mpc, call, main_wait, shutdown, jobs_pending,
                       workers_done, workers_ready, work_wait>>
    BY <1>2 DEF RunStatic, ClaimDynamic, ClaimGuided, StealOwn, StealFrom,
       CheckDrained, RunBody, ClaimNext, StealClaim, OnlyRuns, Running, callerVars,
       teamVars, syncVars
  <2>2. \A v \in Workers \ {w} : wpc'[v] = wpc[v]
    BY <1>2 DEF RunStatic, ClaimDynamic, ClaimGuided, StealOwn, StealFrom,
       CheckDrained, RunBody, ClaimNext, StealClaim, Claim, ClaimNothing, Goto,
       Handshake, HandshakeType
  <2>3. w \notin work_wait
    BY <2>1 DEF Awake, Running
  <2> QED
    BY <2>1, <2>2, <2>3 DEF Awake, NoMissedWakeup, Handshake, HandshakeType
<1>3. CASE Finish(w)
  <2>1. mpc = "wait_done" /\ jobs_pending /\ ~shutdown /\ wpc[w] = "done"
    BY <1>3 DEF Finish, Handshake, NoStaleWorker, Running, Threads
  <2>2. /\ work_wait' = work_wait \cup {w}
        /\ wpc' = [wpc EXCEPT ![w] = "drain"]
        /\ workers_done' = workers_done + 1
        /\ main_wait' = (main_wait /\ ~IsLast(w))
        /\ UNCHANGED <<mpc, call, shutdown, jobs_pending, workers_ready>>
    BY <1>3, <2>1 DEF Finish, AwaitClose, Goto, Notify, teamVars
  <2>3. ~IsLast(w) => workers_done' < call.team
    BY <2>1, <2>2 DEF IsLast, Handshake, HandshakeType, NoStaleWorker, Running,
       Published
  <2> QED
    BY <2>1, <2>2, <2>3 DEF Awake, NoMissedWakeup, Handshake, HandshakeType
<1>4. CASE Drain(w)
  <2>1. /\ wpc[w] = "drain" /\ w \notin work_wait /\ ~shutdown
        /\ UNCHANGED <<mpc, call, shutdown, jobs_pending, workers_done>>
    BY <1>4 DEF Drain, teamVars, Handshake, Threads, Quiescent
  <2>2. CASE jobs_pending
    <3>1. /\ work_wait' = work_wait \cup {w} /\ main_wait' = main_wait
          /\ workers_ready' = workers_ready
          /\ wpc' = [wpc EXCEPT ![w] = "drain"]
      BY <1>4, <2>1, <2>2 DEF Drain, AwaitClose, Goto, Notify, Handshake,
         HandshakeType
    <3> QED
      BY <2>1, <2>2, <3>1 DEF Awake, NoMissedWakeup, Handshake, HandshakeType
  <2>3. CASE ~jobs_pending
    <3>1. /\ work_wait' = work_wait
          /\ wpc' = [wpc EXCEPT ![w] = "top"]
          /\ workers_ready' = workers_ready + 1
          /\ main_wait' = (main_wait /\ ~(workers_ready + 1 >= batch_size
                                           /\ mpc = "wait_ready"))
      BY <1>4, <2>3 DEF Drain, AwaitClose, Goto, Notify
    <3>2. mpc = "wait_ready" /\ batch_size = call.team
      BY <2>1, <2>3 DEF Handshake, Quiescent, PendingWhilePosted, Closed
    <3>3. main_wait' => workers_ready' < call.team
      <4>1. ~(workers_ready + 1 >= batch_size) => workers_ready' < call.team
        BY <3>1, <3>2 DEF Handshake, HandshakeType
      <4>2. main_wait' => ~(workers_ready + 1 >= batch_size)
        BY <3>1, <3>2, Zenon
      <4> QED BY <4>1, <4>2
    <3> QED
      BY <2>1, <3>1, <3>2, <3>3 DEF Awake, NoMissedWakeup, Handshake,
         HandshakeType
  <2> QED BY <2>2, <2>3
<1> QED BY <1>1, <1>2, <1>3, <1>4 DEF Worker

LEMMA NextAwake == Handshake /\ Awake /\ [Next]_vars => Awake'
<1> SUFFICES ASSUME Handshake, Awake, [Next]_vars PROVE Awake'
  OBVIOUS
<1>1. CASE SpuriousCaller \/ \E w \in Workers : SpuriousWorker(w)
  BY <1>1 DEF SpuriousCaller, SpuriousWorker, callerVars, teamVars, syncVars,
     Awake, NoMissedWakeup
<1>2. CASE UNCHANGED vars
  BY <1>2 DEF vars, callerVars, teamVars, syncVars, Awake, NoMissedWakeup
<1> QED BY <1>1, <1>2, CallerAwake, WorkerAwake DEF Next

\* Nobody sleeps on a condition that holds: no broadcast is missing or too early
\* in fork_join, shutdown and li_par_pool_worker, for any team.
THEOREM WakeupsComplete == Spec => []NoMissedWakeup
<1>1. Init => Awake
  BY DEF Init, Awake, NoMissedWakeup
<1>2. Awake => NoMissedWakeup
  BY DEF Awake
<1> QED BY <1>1, <1>2, NextAwake, HandshakeHolds, PTL DEF Spec

-----------------------------------------------------------------------------
(* The type invariant of the pool, for every value of its constants. What  *)
(* is left to show beside the handshake is that the two counters of the    *)
(* team stay within it, and that a claim never goes past the iterations of *)
(* the job: Ranges, which is inductive together with Handshake.            *)

Kinds == {"static", "dynamic", "guided", "steal"}
Places == 0 .. MaxTrip

CounterRange == workers_done <= MaxTeam /\ workers_ready <= MaxTeam

CallType == call \in [trip : Places, team : 1 .. MaxTeam, schedule : Kinds,
                      chunk : Nat]

JobRange ==
  /\ schedule \in Kinds
  /\ job_trip \in Places
  /\ job_next \in Places
  /\ job_chunk \in Nat
  /\ batch \in [Workers -> Places \X Places]
  /\ steal_cursor \in [Workers -> Places]
  /\ steal_end \in [Workers -> Places]

LocalRange ==
  /\ local \in [Workers -> [batch_size : 0 .. MaxTeam, schedule : Kinds,
                            victim : 0 .. MaxTeam]]
  /\ begin \in [Workers -> Places]
  /\ end \in [Workers -> Places]

HistoryType == ran \in [Indices -> Nat] /\ calls \in 0 .. MaxCalls

Ranges == CounterRange /\ CallType /\ JobRange /\ LocalRange /\ HistoryType

LEMMA InitRanges == Init => Ranges
<1> SUFFICES ASSUME Init PROVE Ranges
  OBVIOUS
<1>1. 0 \in Places /\ 1 \in 1 .. MaxTeam /\ 0 <= MaxTeam
  BY PoolAssumption DEF Places
<1>2. CounterRange /\ CallType
  BY <1>1 DEF Init, CounterRange, CallType, Kinds
<1>3. JobRange /\ LocalRange
  BY <1>1 DEF Init, JobRange, LocalRange, Kinds
<1>4. HistoryType
  BY PoolAssumption DEF Init, HistoryType
<1> QED BY <1>2, <1>3, <1>4 DEF Ranges

-----------------------------------------------------------------------------
(* The caller's steps.                                                     *)

LEMMA ForkJoinRanges ==
  ASSUME Handshake, Ranges, ForkJoin PROVE Ranges'
<1>1. /\ ran' = [i \in Indices |-> 0] /\ calls' = calls + 1 /\ calls < MaxCalls
      /\ UNCHANGED <<syncVars, cursorVars, jobVars, local, claimVars>>
  BY DEF ForkJoin
<1>2. CallType'
  <2>1. PICK trip \in 1 .. MaxTrip, team \in 1 .. (MaxTeam + 1),
             sched \in Schedules, chunk \in Chunks :
          call' = [trip |-> trip, team |-> ClampTeam(team, trip),
                   schedule |-> sched, chunk |-> chunk]
    BY DEF ForkJoin
  <2>2. sched \in Kinds /\ chunk \in Nat /\ trip \in Places
    BY PoolAssumption DEF Kinds, Places
  <2> QED BY <2>1, <2>2, ClampInRange DEF CallType
<1>3. HistoryType'
  BY <1>1, PoolAssumption DEF Ranges, HistoryType
<1>4. CounterRange' /\ JobRange' /\ LocalRange'
  BY <1>1 DEF Ranges, CounterRange, JobRange, LocalRange, syncVars, cursorVars,
     jobVars, claimVars
<1> QED BY <1>2, <1>3, <1>4 DEF Ranges

\* The block of a worker lies within the iterations of the call.
LEMMA BlockInRange ==
  ASSUME Ranges, NEW w \in Nat, w < call.team
  PROVE  /\ BlockBegin(call.trip, call.team, w) \in Places
         /\ BlockEnd(call.trip, call.team, w) \in Places
<1>1. /\ call.trip \in Nat /\ call.trip <= MaxTrip
      /\ call.team \in Nat \ {0} /\ w \in 0 .. (call.team - 1)
  BY PoolAssumption DEF Ranges, CallType, Places
<1> DEFINE first == BlockBegin(call.trip, call.team, w)
           last == BlockEnd(call.trip, call.team, w)
<1>2. first \in Nat /\ last \in Nat /\ first <= last /\ last <= call.trip
  BY <1>1, BlocksOrdered
<1> HIDE DEF first, last
<1>3. first \in Places /\ last \in Places
  BY <1>1, <1>2, PoolAssumption DEF Places
<1> QED BY <1>3 DEF first, last

LEMMA PostRanges ==
  ASSUME Handshake, Ranges, Post PROVE Ranges'
<1>1. /\ workers_done' = 0
      /\ UNCHANGED <<call, workers_ready, local, begin, end, ran, calls>>
  BY DEF Post, ResetDone, claimVars, historyVars
<1>2. call.schedule \in Kinds /\ call.trip \in Places /\ call.chunk \in Nat
  BY DEF Ranges, CallType
<1>3. schedule' \in Kinds /\ job_trip' \in Places /\ job_next' \in Places
      /\ job_chunk' \in Nat
  <2>1. 0 \in Places
    BY PoolAssumption DEF Places
  <2> QED BY <1>2, <2>1 DEF Post, Ranges, JobRange
<1>4. Workers \subseteq Nat
  BY DEF Workers
<1>5. batch' \in [Workers -> Places \X Places]
  <2>1. CASE call.schedule = "static"
    <3>1. batch' = [w \in Workers |->
                      IF w < call.team
                      THEN <<BlockBegin(call.trip, call.team, w),
                             BlockEnd(call.trip, call.team, w)>>
                      ELSE batch[w]]
      BY <2>1 DEF Post
    <3>2. ASSUME NEW w \in Workers
          PROVE  (IF w < call.team
                  THEN <<BlockBegin(call.trip, call.team, w),
                         BlockEnd(call.trip, call.team, w)>>
                  ELSE batch[w]) \in Places \X Places
      BY <1>4, BlockInRange DEF Ranges, JobRange
    <3> QED BY <3>1, <3>2
  <2>2. CASE call.schedule # "static"
    BY <2>2 DEF Post, Ranges, JobRange
  <2> QED BY <2>1, <2>2
<1>6. steal_cursor' \in [Workers -> Places] /\ steal_end' \in [Workers -> Places]
  <2>1. CASE call.schedule = "steal"
    <3>1. /\ steal_cursor' = [w \in Workers |->
                                IF w < call.team
                                THEN BlockBegin(call.trip, call.team, w)
                                ELSE steal_cursor[w]]
          /\ steal_end' = [w \in Workers |->
                             IF w < call.team
                             THEN BlockEnd(call.trip, call.team, w)
                             ELSE steal_end[w]]
      BY <2>1 DEF Post
    <3>2. ASSUME NEW w \in Workers
          PROVE  /\ (IF w < call.team
                     THEN BlockBegin(call.trip, call.team, w)
                     ELSE steal_cursor[w]) \in Places
                 /\ (IF w < call.team
                     THEN BlockEnd(call.trip, call.team, w)
                     ELSE steal_end[w]) \in Places
      BY <1>4, BlockInRange DEF Ranges, JobRange
    <3> QED BY <3>1, <3>2
  <2>2. CASE call.schedule # "steal"
    BY <2>2 DEF Post, Ranges, JobRange
  <2> QED BY <2>1, <2>2
<1>7. CounterRange' /\ CallType' /\ LocalRange' /\ HistoryType'
  BY <1>1, PoolAssumption DEF Ranges, CounterRange, CallType, LocalRange,
     HistoryType
<1> QED BY <1>3, <1>5, <1>6, <1>7 DEF Ranges, JobRange

\* The other steps of the caller clear counters and leave the job alone.
LEMMA OtherCallerRanges ==
  ASSUME Handshake, Ranges,
         \/ RunInline \/ Rejoin \/ CreateTeam \/ CollectDone \/ CollectReady
         \/ Return \/ Shutdown \/ Close \/ SpuriousCaller
  PROVE  Ranges'
<1>1. UNCHANGED <<call, cursorVars, jobVars, local, claimVars, calls>>
  BY DEF RunInline, Rejoin, CreateTeam, CollectDone, CollectReady, Return,
     Shutdown, Close, SpuriousCaller, historyVars
<1>2. CounterRange'
  BY PoolAssumption DEF RunInline, Rejoin, CreateTeam, CollectDone, CollectReady,
     Return, Shutdown, Close, SpuriousCaller, ResetDone, ResetReady, syncVars,
     Ranges, CounterRange
<1>3. HistoryType'
  <2>1. CASE RunInline
    <3>1. ran' = [i \in Indices |-> ran[i] + (IF i < call.trip THEN 1 ELSE 0)]
      BY <2>1 DEF RunInline
    <3> QED BY <1>1, <3>1 DEF Ranges, HistoryType
  <2>2. CASE ~RunInline
    <3>1. ran' = ran
      BY <2>2 DEF Rejoin, CreateTeam, CollectDone, CollectReady, Return,
         Shutdown, Close, SpuriousCaller, historyVars
    <3> QED BY <1>1, <3>1 DEF Ranges, HistoryType
  <2> QED BY <2>1, <2>2
<1>4. CallType' /\ JobRange' /\ LocalRange'
  BY <1>1 DEF Ranges, CallType, JobRange, LocalRange, cursorVars, jobVars,
     claimVars
<1> QED BY <1>2, <1>3, <1>4 DEF Ranges

-----------------------------------------------------------------------------
(* The workers' steps.                                                     *)

LEMMA FetchRanges ==
  ASSUME Handshake, Ranges, NEW w \in Workers, Fetch(w) PROVE Ranges'
<1>1. UNCHANGED <<call, workers_done, workers_ready, cursorVars, jobVars,
                  claimVars, historyVars>>
  BY DEF Fetch, callerVars, syncVars
<1>2. \/ local' = local
      \/ local' = [local EXCEPT ![w] = [batch_size |-> batch_size,
                                        schedule |-> schedule, victim |-> 0]]
  BY DEF Fetch
<1>3. batch_size \in 0 .. MaxTeam /\ schedule \in Kinds /\ 0 \in 0 .. MaxTeam
  BY PoolAssumption DEF Handshake, HandshakeType, Ranges, JobRange
<1>4. LocalRange'
  BY <1>1, <1>2, <1>3 DEF Ranges, LocalRange, claimVars
<1>5. CounterRange' /\ CallType' /\ JobRange' /\ HistoryType'
  BY <1>1 DEF Ranges, CounterRange, CallType, JobRange, HistoryType, cursorVars,
     jobVars, historyVars
<1> QED BY <1>4, <1>5 DEF Ranges

\* A claim up to a place within the range keeps the range.
LEMMA ClaimRanges ==
  ASSUME Ranges, NEW w \in Workers,
         NEW from \in Places, NEW to \in Places, Claim(w, from, to)
  PROVE  begin' \in [Workers -> Places] /\ end' \in [Workers -> Places]
BY DEF Ranges, LocalRange, Claim

LEMMA AtMostInRange ==
  ASSUME NEW x \in Nat, NEW bound \in Places
  PROVE  AtMost(x, bound) \in Places
BY PoolAssumption DEF AtMost, Places

\* A share of the rest is not more than the rest.
LEMMA ShareInRest ==
  ASSUME NEW rest \in Nat \ {0}, NEW n \in Nat \ {0}
  PROVE  /\ rest \div n \in Nat
         /\ rest \div n <= rest
<1> DEFINE q == rest \div n
           r == rest % n
<1>1. q \in Nat /\ r \in 0 .. (n - 1) /\ rest = n * q + r
  BY DivMod
<1> HIDE DEF q, r
<1>2. n * q >= (0 + 1) * q /\ (0 + 1) * q = 0 * q + q /\ n * q \in Nat
  BY <1>1, TimesMono, 0 \in Nat, 0 < n
<1>3. 0 * q = 0
  BY <1>1
<1>4. q <= rest
  BY <1>1, <1>2, <1>3
<1> QED BY <1>1, <1>4 DEF q

LEMMA GuidedInRange ==
  ASSUME Handshake, Ranges, mpc = "wait_done", job_next < job_trip
  PROVE  job_next + GuidedChunk \in Places
<1>1. /\ job_next \in Nat /\ job_trip \in Nat /\ job_trip <= MaxTrip
      /\ batch_size \in Nat \ {0}
  BY PoolAssumption DEF Ranges, JobRange, Places, Handshake, Published,
     HandshakeType
<1> DEFINE share == (job_trip - job_next) \div batch_size
<1>2. job_trip - job_next \in Nat \ {0}
  BY <1>1
<1>3. share \in Nat /\ share <= job_trip - job_next
  BY <1>1, <1>2, ShareInRest
<1>4. GuidedChunk = IF share < 1 THEN 1 ELSE share
  BY DEF GuidedChunk
<1> HIDE DEF share
<1> QED BY <1>1, <1>2, <1>3, <1>4, PoolAssumption DEF Places

\* Which variables of Ranges a step of a running worker may change.
LEMMA RunningRanges ==
  ASSUME Ranges,
         UNCHANGED <<callerVars, syncVars, jobVars, historyVars>>,
         job_next' \in Places,
         steal_cursor' \in [Workers -> Places],
         LocalRange'
  PROVE  Ranges'
BY DEF Ranges, CounterRange, CallType, JobRange, HistoryType, callerVars,
   syncVars, jobVars, historyVars

LEMMA StaticRanges ==
  ASSUME Handshake, Ranges, NEW w \in Workers, RunStatic(w) PROVE Ranges'
<1>1. UNCHANGED <<callerVars, syncVars, jobVars, historyVars, cursorVars, local>>
  BY DEF RunStatic, OnlyRuns
<1>2. batch[w][1] \in Places /\ batch[w][2] \in Places
  BY DEF Ranges, JobRange
<1>3. Claim(w, batch[w][1], batch[w][2]) \/ UNCHANGED claimVars
  BY DEF RunStatic, ClaimNothing
<1>4. LocalRange'
  BY <1>1, <1>2, <1>3, ClaimRanges DEF Ranges, LocalRange, claimVars
<1> QED BY <1>1, <1>4, RunningRanges DEF cursorVars, Ranges, JobRange

LEMMA ClaimNextRanges ==
  ASSUME Handshake, Ranges, NEW w \in Workers, NEW to, ClaimNext(w, to),
         job_next < job_trip => to \in Places
  PROVE  Ranges'
<1>1. UNCHANGED <<callerVars, syncVars, jobVars, historyVars, steal_cursor, local>>
  BY DEF ClaimNext, OnlyRuns
<1>2. job_next \in Places /\ job_trip \in Places
  BY DEF Ranges, JobRange
<1>3. CASE job_next >= job_trip
  <2>1. UNCHANGED claimVars /\ job_next' = job_next
    BY <1>3 DEF ClaimNext, ClaimNothing
  <2> QED BY <1>1, <1>2, <2>1, RunningRanges DEF Ranges, JobRange, LocalRange,
          claimVars
<1>4. CASE job_next < job_trip
  <2>1. Claim(w, job_next, to) /\ job_next' = to
    BY <1>2, <1>4 DEF ClaimNext, Places
  <2>2. LocalRange'
    BY <1>1, <1>2, <1>4, <2>1, ClaimRanges DEF Ranges, LocalRange
  <2> QED BY <1>1, <1>4, <2>1, <2>2, RunningRanges DEF Ranges, JobRange
<1> QED BY <1>2, <1>3, <1>4 DEF Places

LEMMA DynamicRanges ==
  ASSUME Handshake, Ranges, NEW w \in Workers, ClaimDynamic(w) PROVE Ranges'
<1>1. job_next + ChunkSize \in Nat /\ job_trip \in Places
  BY DEF Ranges, JobRange, ChunkSize, Places
<1>2. AtMost(job_next + ChunkSize, job_trip) \in Places
  BY <1>1, AtMostInRange
<1> QED BY <1>2, ClaimNextRanges DEF ClaimDynamic

LEMMA GuidedRanges ==
  ASSUME Handshake, Ranges, NEW w \in Workers, ClaimGuided(w) PROVE Ranges'
<1>1. mpc = "wait_done"
  BY DEF ClaimGuided, Handshake, NoStaleWorker, Running
<1> QED BY <1>1, GuidedInRange, ClaimNextRanges DEF ClaimGuided

LEMMA StealClaimRanges ==
  ASSUME Handshake, Ranges, NEW w \in Workers, NEW v \in Workers, NEW pc,
         StealClaim(w, v, pc),
         local' \in [Workers -> [batch_size : 0 .. MaxTeam, schedule : Kinds,
                                 victim : 0 .. MaxTeam]]
  PROVE  Ranges'
<1>1. UNCHANGED <<callerVars, syncVars, jobVars, historyVars, job_next>>
  BY DEF StealClaim, OnlyRuns
<1>2. steal_cursor[v] \in Places /\ steal_end[v] \in Places /\ job_next \in Places
  BY DEF Ranges, JobRange
<1>3. CASE steal_cursor[v] >= steal_end[v]
  <2>1. UNCHANGED claimVars /\ steal_cursor' = steal_cursor
    BY <1>3 DEF StealClaim, ClaimNothing
  <2> QED BY <1>1, <1>2, <2>1, RunningRanges DEF Ranges, JobRange, LocalRange,
          claimVars
<1>4. CASE ~(steal_cursor[v] >= steal_end[v])
  <2> DEFINE to == AtMost(steal_cursor[v] + ChunkSize, steal_end[v])
  <2>1. /\ Claim(w, steal_cursor[v], to)
        /\ steal_cursor' = [steal_cursor EXCEPT ![v] = to]
    BY <1>4 DEF StealClaim
  <2>2. steal_cursor[v] + ChunkSize \in Nat
    BY <1>2 DEF Ranges, JobRange, ChunkSize, Places
  <2>3. to \in Places
    BY <1>2, <2>2, AtMostInRange
  <2> HIDE DEF to
  <2>4. steal_cursor' \in [Workers -> Places]
    BY <2>1, <2>3 DEF Ranges, JobRange
  <2>5. LocalRange'
    BY <1>2, <2>1, <2>3, ClaimRanges DEF LocalRange
  <2> QED BY <1>1, <1>2, <2>4, <2>5, RunningRanges
<1> QED BY <1>3, <1>4

LEMMA StealRanges ==
  ASSUME Handshake, Ranges, NEW w \in Workers, StealOwn(w) \/ StealFrom(w)
  PROVE  Ranges'
<1> DEFINE Locals == [Workers -> [batch_size : 0 .. MaxTeam, schedule : Kinds,
                                  victim : 0 .. MaxTeam]]
<1>1. local \in Locals /\ batch_size \in 0 .. MaxTeam
  BY DEF Ranges, LocalRange, Handshake, HandshakeType
<1>2. \A n \in 0 .. MaxTeam : [local EXCEPT ![w].victim = n] \in Locals
  BY <1>1
<1>3. CASE StealOwn(w)
  <2>1. StealClaim(w, w, "scan") /\ local' = [local EXCEPT ![w].victim = 0]
    BY <1>3 DEF StealOwn
  <2>2. local' \in Locals
    BY <1>2, <2>1, PoolAssumption
  <2> QED BY <2>1, <2>2, StealClaimRanges
<1>4. CASE StealFrom(w)
  <2> DEFINE v == local[w].victim
  <2>1. v \in 0 .. MaxTeam
    BY <1>1
  <2>2. CASE ~NoMoreVictims(w)
    <3>1. v \in Workers /\ v + 1 \in 0 .. MaxTeam
      BY <1>1, <2>1, <2>2, PoolAssumption DEF NoMoreVictims, Workers
    <3>2. local' = [local EXCEPT ![w].victim = v + 1]
      BY <1>4, <2>2 DEF StealFrom
    <3>3. local' \in Locals
      BY <1>2, <3>1, <3>2
    <3>4. CASE v # w
      BY <1>4, <2>2, <3>1, <3>3, <3>4, StealClaimRanges DEF StealFrom
    <3>5. CASE v = w
      <4>1. /\ UNCHANGED <<callerVars, syncVars, jobVars, historyVars>>
            /\ UNCHANGED <<cursorVars, claimVars>>
        BY <1>4, <2>2, <3>5 DEF StealFrom, OnlyRuns
      <4>2. LocalRange'
        BY <3>3, <4>1 DEF LocalRange, Ranges, claimVars
      <4> QED BY <4>1, <4>2, RunningRanges DEF cursorVars, Ranges, JobRange
    <3> QED BY <3>4, <3>5
  <2>3. CASE NoMoreVictims(w)
    <3>1. /\ UNCHANGED <<callerVars, syncVars, jobVars, historyVars>>
          /\ UNCHANGED <<cursorVars, claimVars, local>>
      BY <1>4, <2>3 DEF StealFrom, OnlyRuns
    <3> QED BY <3>1, RunningRanges DEF cursorVars, claimVars, Ranges, JobRange,
            LocalRange
  <2> QED BY <2>2, <2>3
<1> QED BY <1>3, <1>4

LEMMA CheckRanges ==
  ASSUME Handshake, Ranges, NEW w \in Workers, CheckDrained(w) PROVE Ranges'
<1>1. UNCHANGED <<callerVars, syncVars, jobVars, historyVars, cursorVars,
                  claimVars, local>>
  BY DEF CheckDrained, OnlyRuns
<1> QED BY <1>1, RunningRanges DEF cursorVars, claimVars, Ranges, JobRange,
        LocalRange

LEMMA BodyRanges ==
  ASSUME Handshake, Ranges, NEW w \in Workers, RunBody(w) PROVE Ranges'
<1>1. /\ UNCHANGED <<call, syncVars, cursorVars, jobVars, local, claimVars, calls>>
      /\ ran' = [i \in Indices |->
                   ran[i] + (IF begin[w] <= i /\ i < end[w] THEN 1 ELSE 0)]
  BY DEF RunBody, callerVars
<1>2. HistoryType'
  BY <1>1 DEF Ranges, HistoryType
<1>3. CounterRange' /\ CallType' /\ JobRange' /\ LocalRange'
  BY <1>1 DEF Ranges, CounterRange, CallType, JobRange, LocalRange, syncVars,
     cursorVars, jobVars, claimVars
<1> QED BY <1>2, <1>3 DEF Ranges

\* Workers of a team are no more than the largest team.
LEMMA TeamBound ==
  ASSUME NEW n \in 0 .. MaxTeam, NEW S, S \subseteq 0 .. (n - 1)
  PROVE  Cardinality(S) \in 0 .. MaxTeam
BY TeamFinite, PoolAssumption

\* After a step the counters still count workers of the team.
LEMMA CountersInTeam ==
  ASSUME Handshake'
  PROVE  /\ mpc' = "wait_done" => workers_done' \in 0 .. MaxTeam
         /\ mpc' = "wait_ready" => workers_ready' \in 0 .. MaxTeam
<1>1. /\ team_size' \in 0 .. MaxTeam
      /\ (In("drain"))' \subseteq 0 .. (team_size' - 1)
      /\ (In("top"))' \subseteq 0 .. (team_size' - 1)
  BY DEF In, Team, Handshake, HandshakeType
<1>2. Cardinality((In("drain"))') \in 0 .. MaxTeam /\ Cardinality((In("top"))') \in 0 .. MaxTeam
  BY <1>1, TeamBound
<1> QED BY <1>2 DEF Handshake, Published, Closed

LEMMA ReportRanges ==
  ASSUME Handshake, Handshake', Ranges, NEW w \in Workers, Finish(w) \/ Drain(w)
  PROVE  Ranges'
<1>1. UNCHANGED <<mpc, call, jobs_pending, shutdown, cursorVars, jobVars, local,
                  claimVars, historyVars>>
  BY DEF Finish, Drain, teamVars
<1>2. mpc \in {"wait_done", "wait_ready"}
  BY DEF Finish, Drain, Handshake, Quiescent
<1>3. CounterRange'
  <2>1. CASE mpc = "wait_done"
    <3>1. jobs_pending /\ ~shutdown
      BY <2>1 DEF Handshake, PendingWhilePosted, Threads
    <3>2. workers_ready' = workers_ready
      BY <3>1 DEF Finish, Drain, AwaitClose
    <3> QED BY <1>1, <2>1, <3>2, CountersInTeam DEF CounterRange, Ranges
  <2>2. CASE mpc = "wait_ready"
    <3>1. wpc[w] # "done"
      BY <2>2 DEF Handshake, NoStaleWorker, Running
    <3>2. workers_done' = workers_done
      BY <3>1 DEF Finish, Drain
    <3> QED BY <1>1, <2>2, <3>2, CountersInTeam DEF CounterRange, Ranges
  <2> QED BY <1>2, <2>1, <2>2
<1>4. CallType' /\ JobRange' /\ LocalRange' /\ HistoryType'
  BY <1>1 DEF Ranges, CallType, JobRange, LocalRange, HistoryType, cursorVars,
     jobVars, claimVars, historyVars
<1> QED BY <1>3, <1>4 DEF Ranges

LEMMA NextRanges ==
  ASSUME Handshake, Handshake', Ranges, [Next]_vars PROVE Ranges'
<1>1. CASE Caller
  BY <1>1, ForkJoinRanges, PostRanges, OtherCallerRanges DEF Caller
<1>2. CASE SpuriousCaller
  BY <1>2, OtherCallerRanges
<1>3. ASSUME NEW w \in Workers, Worker(w) PROVE Ranges'
  BY <1>3, FetchRanges, StaticRanges, DynamicRanges, GuidedRanges, StealRanges,
     CheckRanges, BodyRanges, ReportRanges DEF Worker
<1>4. ASSUME NEW w \in Workers, SpuriousWorker(w) PROVE Ranges'
  BY <1>4 DEF SpuriousWorker, Ranges, CounterRange, CallType, JobRange, LocalRange,
     HistoryType, callerVars, syncVars, cursorVars, jobVars, claimVars, historyVars
<1>5. CASE UNCHANGED vars
  BY <1>5 DEF vars, Ranges, CounterRange, CallType, JobRange, LocalRange,
     HistoryType, callerVars, syncVars, cursorVars, jobVars, claimVars, historyVars
<1> QED BY <1>1, <1>2, <1>3, <1>4, <1>5 DEF Next

LEMMA RangesGiveTypes == Handshake /\ Ranges => TypeOK
BY PoolAssumption DEF Handshake, HandshakeType, Ranges, CounterRange, CallType,
   JobRange, LocalRange, HistoryType, Kinds, Places, TypeOK

\* Every variable of the pool keeps its type, for every team, trip, schedule and
\* number of calls: no counter leaves the team, no claim goes past the job's end.
THEOREM TypesHold == Spec => []TypeOK
<1>1. Init => Handshake /\ Ranges
  BY InitHandshake, InitRanges
<1>2. (Handshake /\ Ranges) /\ [Next]_vars => (Handshake /\ Ranges)'
  BY NextHandshake, NextRanges
<1>3. Handshake /\ Ranges => TypeOK
  BY RangesGiveTypes
<1> QED BY <1>1, <1>2, <1>3, PTL DEF Spec

-----------------------------------------------------------------------------
(* Every iteration of a call runs exactly once, under each of the four     *)
(* schedules, and the pool implements the abstract fork-join: for every    *)
(* team, trip, chunk and number of calls.                                  *)
(*                                                                         *)
(* The inductive invariant follows the iterations through a call: none ran *)
(* before the job is published (Zeroed); then each is unclaimed, claimed   *)
(* by one worker or run (HandedOut), where the unclaimed ones lie in       *)
(* blocks that do not overlap (Allotted); a worker that is through found   *)
(* nothing unclaimed (Exhausted, Scanned); so all ran when the caller has  *)
(* counted the whole team (AllRan).                                        *)

First(v) == BlockBegin(call.trip, call.team, v)
Last(v)  == BlockEnd(call.trip, call.team, v)
Spent(v) == steal_cursor[v] >= steal_end[v]

\* What Unclaimed says, by schedule.
StaticRest(i) == \E v \in Team : /\ batch[v][1] <= i /\ i < batch[v][2]
                                 /\ wpc[v] \in {"top", "run"}
StealRest(i)  == \E v \in Team : steal_cursor[v] <= i /\ i < steal_end[v]
SharedRest(i) == job_next <= i /\ i < job_trip

Zeroed == mpc \in {"inline", "reteam", "create", "post"} => \A i \in Indices : ran[i] = 0

Allotted ==
  mpc = "wait_done" =>
    /\ schedule = "static" => \A v \in Team : batch[v] = <<First(v), Last(v)>>
    /\ schedule = "steal"  => \A v \in Team : /\ steal_end[v] = Last(v)
                                              /\ First(v) <= steal_cursor[v]
                                              /\ steal_cursor[v] <= Last(v)

Handed(i) ==
  /\ ran[i] \in {0, 1}
  /\ ran[i] = 1 => i < call.trip
  /\ i < call.trip => ran[i] = 1 \/ Unclaimed(i) \/ \E w \in Workers : Claimed(w, i)
  /\ Unclaimed(i) => i < call.trip /\ ran[i] = 0 /\ \A w \in Workers : ~ Claimed(w, i)
  /\ \A w \in Workers : Claimed(w, i) =>
       i < call.trip /\ ran[i] = 0 /\ \A v \in Workers : Claimed(v, i) => v = w

HandedOut == mpc = "wait_done" => \A i \in Indices : Handed(i)

Exhausted ==
  mpc = "wait_done" =>
    \A w \in Workers : wpc[w] \in {"done", "drain"} =>
      /\ schedule = "steal" => \A v \in Team : Spent(v)
      /\ schedule \in {"dynamic", "guided"} => job_next >= job_trip

Scanned ==
  \A w \in Workers :
    /\ wpc[w] = "scan" =>
         /\ schedule = "steal" /\ Spent(w)
         /\ \A v \in Team : v < local[w].victim => Spent(v)
    /\ wpc[w] = "check" => schedule = "steal" /\ \A v \in Team : Spent(v)

AllRan == mpc \in {"wait_ready", "return"} => \A i \in Indices : i < call.trip => ran[i] = 1

Once == Zeroed /\ Allotted /\ HandedOut /\ Exhausted /\ Scanned /\ AllRan
Known == Handshake /\ Ranges

LEMMA UnclaimedIs ==
  ASSUME NEW i
  PROVE  /\ schedule = "static" => (Unclaimed(i) <=> StaticRest(i))
         /\ schedule = "steal" => (Unclaimed(i) <=> StealRest(i))
         /\ schedule \in {"dynamic", "guided"} => (Unclaimed(i) <=> SharedRest(i))
         /\ schedule' = "static" => (Unclaimed(i)' <=> StaticRest(i)')
         /\ schedule' = "steal" => (Unclaimed(i)' <=> StealRest(i)')
         /\ schedule' \in {"dynamic", "guided"} => (Unclaimed(i)' <=> SharedRest(i)')
BY DEF Unclaimed, StaticRest, StealRest, SharedRest

\* While the caller waits for the job, the team is that of the call.
LEMMA Job ==
  ASSUME Known, mpc = "wait_done"
  PROVE  /\ Team = 0 .. (call.team - 1) /\ Team \subseteq Workers
         /\ batch_size = call.team /\ call.team \in Nat \ {0}
         /\ schedule \in Kinds
         /\ schedule # "static" => job_trip = call.trip
         /\ call.trip \in Nat
BY PoolAssumption DEF Known, Handshake, HandshakeType, Threads, Published, Team, Workers, Ranges,
   CallType, JobRange, Places

\* The blocks of the team lie in the trip, share no index and leave none out.
LEMMA TeamBlocks ==
  ASSUME Ranges
  PROVE  /\ \A v \in 0 .. (call.team - 1) :
              /\ First(v) \in Nat /\ Last(v) \in Nat
              /\ First(v) <= Last(v) /\ Last(v) <= call.trip
         /\ \A u, v \in 0 .. (call.team - 1) : \A i \in Indices :
              First(u) <= i /\ i < Last(u) /\ First(v) <= i /\ i < Last(v) => u = v
         /\ \A i \in Indices : i < call.trip =>
              \E v \in 0 .. (call.team - 1) : First(v) <= i /\ i < Last(v)
<1>1. call.trip \in Nat /\ call.team \in Nat \ {0}
  BY PoolAssumption DEF Ranges, CallType, Places
<1>2. Indices \subseteq Nat
  BY DEF Indices
<1> QED BY <1>1, <1>2, BlocksCover DEF First, Last

-----------------------------------------------------------------------------
(* One iteration in one step of the job.                                   *)

LEMMA IndexKept ==
  ASSUME NEW i, Handed(i), call' = call, ran'[i] = ran[i],
         Unclaimed(i)' <=> Unclaimed(i),
         \A w \in Workers : Claimed(w, i)' <=> Claimed(w, i)
  PROVE  Handed(i)'
BY DEF Handed

\* Worker w takes the iteration, or nothing of it changes.
LEMMA IndexTaken ==
  ASSUME NEW i, Handed(i), call' = call, ran'[i] = ran[i],
         NEW w \in Workers, ~Claimed(w, i),
         \A v \in Workers \ {w} : Claimed(v, i)' <=> Claimed(v, i),
         Claimed(w, i)' => Unclaimed(i) /\ ~Unclaimed(i)',
         ~Claimed(w, i)' => (Unclaimed(i)' <=> Unclaimed(i))
  PROVE  Handed(i)'
BY DEF Handed

\* Worker w runs what it claimed.
LEMMA IndexRun ==
  ASSUME NEW i, Handed(i), call' = call,
         NEW w \in Workers,
         ran'[i] = ran[i] + (IF Claimed(w, i) THEN 1 ELSE 0),
         ~Claimed(w, i)',
         \A v \in Workers \ {w} : Claimed(v, i)' <=> Claimed(v, i),
         Unclaimed(i)' <=> Unclaimed(i)
  PROVE  Handed(i)'
BY DEF Handed

-----------------------------------------------------------------------------
(* The two kinds of steps of a worker in the job.                          *)

\* What the steps of the job leave alone.
InJob == UNCHANGED <<mpc, call, team_size, jobVars>>

\* Worker w goes on at pc and claims nothing.
LEMMA MoveOnce ==
  ASSUME Known, Once, mpc = "wait_done", NEW w \in Workers, NEW pc,
         wpc' = [wpc EXCEPT ![w] = pc], wpc[w] # "body", pc # "body",
         schedule = "static" => (wpc[w] \in {"top", "run"} <=> pc \in {"top", "run"}),
         InJob, UNCHANGED <<cursorVars, claimVars, ran>>,
         \A v \in Workers \ {w} : local'[v] = local[v],
         pc \in {"done", "drain"} =>
           \/ wpc[w] \in {"done", "drain"}
           \/ /\ schedule = "steal" => \A v \in Team : Spent(v)
              /\ schedule \in {"dynamic", "guided"} => job_next >= job_trip,
         pc = "scan" => /\ schedule = "steal" /\ Spent(w)
                        /\ \A v \in Team : v < local'[w].victim => Spent(v),
         pc = "check" => schedule = "steal" /\ \A v \in Team : Spent(v)
  PROVE  Once'
<1>1. wpc \in [Workers -> WorkerPC] /\ Team' = Team /\ Team \subseteq Workers
  BY Job DEF Known, Handshake, HandshakeType, InJob, Team
<1>2. /\ UNCHANGED <<mpc, call, schedule, job_trip, batch, steal_end>>
      /\ UNCHANGED <<job_next, steal_cursor, begin, end, ran>>
  BY DEF InJob, jobVars, cursorVars, claimVars
<1>3. ASSUME NEW i \in Indices PROVE Handed(i)'
  <2>1. Unclaimed(i)' <=> Unclaimed(i)
    BY <1>1, <1>2 DEF Unclaimed
  <2>2. \A v \in Workers : Claimed(v, i)' <=> Claimed(v, i)
    BY <1>1, <1>2 DEF Claimed
  <2>3. Handed(i)
    BY DEF Once, HandedOut
  <2> QED BY <1>2, <2>1, <2>2, <2>3, IndexKept
<1>4. Allotted'
  BY <1>1, <1>2 DEF Once, Allotted, First, Last
<1>5. \A v \in Team : Spent(v)' <=> Spent(v)
  BY <1>2 DEF Spent
<1>6. Exhausted'
  BY <1>1, <1>2, <1>5 DEF Once, Exhausted
<1>7. Scanned'
  BY <1>1, <1>2 DEF Once, Scanned, Spent
<1>8. Zeroed' /\ AllRan'
  BY <1>2 DEF Zeroed, AllRan
<1> QED BY <1>3, <1>4, <1>6, <1>7, <1>8 DEF Once, HandedOut

\* Worker w claims a range of iterations nobody claimed.
LEMMA ClaimOnce ==
  ASSUME Known, Once, mpc = "wait_done", NEW w \in Workers, NEW from, NEW to,
         wpc[w] \in {"run", "scan"}, Claim(w, from, to),
         InJob, ran' = ran, \A v \in Workers \ {w} : local'[v] = local[v],
         \A i \in Indices : from <= i /\ i < to => Unclaimed(i) /\ ~Unclaimed(i)',
         \A i \in Indices : ~(from <= i /\ i < to) => (Unclaimed(i)' <=> Unclaimed(i)),
         Allotted',
         schedule = "steal" => \A v \in Team : Spent(v) => Spent(v)',
         schedule \in {"dynamic", "guided"} /\ job_next >= job_trip => job_next' >= job_trip
  PROVE  Once'
<1>1. /\ wpc \in [Workers -> WorkerPC] /\ Team' = Team /\ Team \subseteq Workers
      /\ begin \in [Workers -> Places] /\ end \in [Workers -> Places]
  BY Job DEF Known, Handshake, HandshakeType, InJob, Team, Ranges, LocalRange
<1>2. /\ UNCHANGED <<mpc, call, schedule, job_trip>>
      /\ wpc' = [wpc EXCEPT ![w] = "body"]
      /\ begin' = [begin EXCEPT ![w] = from] /\ end' = [end EXCEPT ![w] = to]
  BY DEF InJob, jobVars, Claim, Goto
<1>3. ASSUME NEW i \in Indices PROVE Handed(i)'
  <2>1. ~Claimed(w, i) /\ (Claimed(w, i)' <=> from <= i /\ i < to)
    BY <1>1, <1>2 DEF Claimed
  <2>2. \A v \in Workers \ {w} : Claimed(v, i)' <=> Claimed(v, i)
    BY <1>1, <1>2 DEF Claimed
  <2>3. Handed(i)
    BY DEF Once, HandedOut
  <2> QED BY <1>2, <2>1, <2>2, <2>3, IndexTaken
<1>4. \A v \in Workers : wpc'[v] # "body" => v # w /\ wpc'[v] = wpc[v]
  BY <1>1, <1>2
<1>5. Exhausted'
  BY <1>1, <1>2, <1>4 DEF Once, Exhausted
<1>6. ASSUME NEW v \in Workers
      PROVE  /\ wpc'[v] = "scan" =>
                  /\ schedule' = "steal" /\ Spent(v)'
                  /\ \A u \in Team' : u < local'[v].victim => Spent(u)'
             /\ wpc'[v] = "check" => schedule' = "steal" /\ \A u \in Team' : Spent(u)'
  <2>1. wpc'[v] \in {"scan", "check"} =>
          /\ local'[v] = local[v] /\ wpc'[v] = wpc[v] /\ v \in Team
    BY <1>4, InTeam DEF Known
  <2> QED BY <1>1, <1>2, <2>1 DEF Once, Scanned
<1>7. Scanned'
  BY <1>6 DEF Scanned
<1>8. Zeroed' /\ AllRan'
  BY <1>2 DEF Zeroed, AllRan
<1> QED BY <1>3, <1>5, <1>7, <1>8 DEF Once, HandedOut

\* What a worker that runs knows: the caller waits, for the job the worker fetched.
LEMMA Runs ==
  ASSUME Known, NEW w \in Workers, wpc[w] \in Running
  PROVE  /\ mpc = "wait_done" /\ jobs_pending /\ ~shutdown
         /\ local[w].schedule = schedule /\ local[w].batch_size = batch_size
         /\ w \in Team /\ w < batch_size
<1>1. mpc = "wait_done" /\ jobs_pending
      /\ local[w].schedule = schedule /\ local[w].batch_size = batch_size
  BY DEF Known, Handshake, NoStaleWorker
<1>2. ~shutdown
  BY <1>1 DEF Known, Handshake, Threads
<1>3. w \in Team
  BY InTeam DEF Known, Running
<1> QED BY <1>1, <1>2, <1>3, Job

\* A worker that takes a step while there is no job is between jobs.
LEMMA BetweenJobs ==
  ASSUME Known, Once, mpc # "wait_done", NEW w \in Workers, Worker(w)
  PROVE  Once'
<1>1. wpc[w] \notin Running
  BY Runs
<1>2. Fetch(w) \/ Drain(w)
  BY <1>1 DEF Worker, RunStatic, ClaimDynamic, ClaimGuided, StealOwn, StealFrom,
     CheckDrained, RunBody, Finish, Running
<1>3. UNCHANGED <<mpc, call, ran, team_size, cursorVars, jobVars>>
  BY <1>2 DEF Fetch, Drain, callerVars, teamVars, historyVars
<1>4. ~jobs_pending /\ wpc \in [Workers -> WorkerPC]
  BY DEF Known, Handshake, HandshakeType, PendingWhilePosted
<1>5. \A v \in Workers : wpc'[v] \in {"scan", "check"} => wpc[v] \in {"scan", "check"}
  BY <1>2, <1>4 DEF Fetch, Drain, AwaitClose, Goto
<1>6. \A v \in Workers : wpc[v] \notin {"scan", "check"}
  BY Runs DEF Running
<1> QED BY <1>3, <1>5, <1>6 DEF Once, Zeroed, Allotted, HandedOut, Exhausted, Scanned,
        AllRan

-----------------------------------------------------------------------------
(* The steps of the job that claim nothing.                                *)

LEMMA FetchOnce ==
  ASSUME Known, Once, mpc = "wait_done", NEW w \in Workers, Fetch(w)
  PROVE  Once'
<1>1. jobs_pending /\ ~shutdown /\ wpc[w] = "top" /\ DOMAIN local = Workers
  BY DEF Fetch, Known, Handshake, HandshakeType, PendingWhilePosted, Threads
<1>2. /\ wpc' = [wpc EXCEPT ![w] = "run"]
      /\ \A v \in Workers \ {w} : local'[v] = local[v]
  BY <1>1 DEF Fetch, Goto
<1>3. InJob /\ UNCHANGED <<cursorVars, claimVars, ran>>
  BY DEF Fetch, InJob, callerVars, teamVars, historyVars
<1> QED BY <1>1, <1>2, <1>3, MoveOnce

LEMMA CheckOnce ==
  ASSUME Known, Once, NEW w \in Workers, CheckDrained(w)
  PROVE  Once'
<1>1. wpc[w] = "check" /\ mpc = "wait_done"
  BY Runs DEF CheckDrained, Running
<1>2. schedule = "steal" /\ \A v \in Team : Spent(v)
  BY <1>1 DEF Once, Scanned
<1>3. PICK pc \in {"done", "run"} : wpc' = [wpc EXCEPT ![w] = pc]
  BY DEF CheckDrained, Goto
<1>4. /\ InJob /\ UNCHANGED <<cursorVars, claimVars, ran>>
      /\ \A v \in Workers \ {w} : local'[v] = local[v]
  BY DEF CheckDrained, OnlyRuns, InJob, callerVars, teamVars, historyVars
<1> QED BY <1>1, <1>2, <1>3, <1>4, MoveOnce

LEMMA ReportOnce ==
  ASSUME Known, Once, mpc = "wait_done", NEW w \in Workers, Finish(w) \/ Drain(w)
  PROVE  Once'
<1>1. wpc[w] \in {"done", "drain"} /\ jobs_pending /\ ~shutdown
  BY DEF Finish, Drain, Known, Handshake, PendingWhilePosted, Threads
<1>2. wpc' = [wpc EXCEPT ![w] = "drain"]
  BY <1>1 DEF Finish, Drain, AwaitClose, Goto
<1>3. /\ InJob /\ UNCHANGED <<cursorVars, claimVars, ran>>
      /\ \A v \in Workers \ {w} : local'[v] = local[v]
  BY DEF Finish, Drain, InJob, teamVars, historyVars
<1> QED BY <1>1, <1>2, <1>3, MoveOnce

\* The iterations a worker claimed run, each for the first time.
LEMMA BodyOnce ==
  ASSUME Known, Once, NEW w \in Workers, RunBody(w)
  PROVE  Once'
<1>1. /\ wpc[w] = "body" /\ mpc = "wait_done" /\ local[w].schedule = schedule
      /\ wpc \in [Workers -> WorkerPC] /\ Team \subseteq Workers
  BY Runs, Job DEF RunBody, Running, Known, Handshake, HandshakeType
<1>2. /\ UNCHANGED <<mpc, call, team_size, schedule, job_trip, batch, steal_end>>
      /\ UNCHANGED <<job_next, steal_cursor, begin, end, local>>
      /\ Team' = Team
  BY DEF RunBody, callerVars, teamVars, jobVars, cursorVars, claimVars, Team
<1>3. PICK pc \in {"done", "run"} :
        wpc' = [wpc EXCEPT ![w] = pc] /\ (pc = "done" <=> schedule = "static")
  BY <1>1 DEF RunBody, Goto
<1>4. ASSUME NEW i \in Indices PROVE Handed(i)'
  <2>1. ran'[i] = ran[i] + (IF Claimed(w, i) THEN 1 ELSE 0)
    BY <1>1 DEF RunBody, Claimed
  <2>2. Unclaimed(i)' <=> Unclaimed(i)
    BY <1>1, <1>2, <1>3 DEF Unclaimed
  <2>3. ~Claimed(w, i)' /\ \A v \in Workers \ {w} : Claimed(v, i)' <=> Claimed(v, i)
    BY <1>1, <1>2, <1>3 DEF Claimed
  <2>4. Handed(i)
    BY <1>1 DEF Once, HandedOut
  <2> QED BY <1>2, <2>1, <2>2, <2>3, <2>4, IndexRun
<1>5. Allotted'
  BY <1>1, <1>2 DEF Once, Allotted, First, Last
<1>6. Exhausted'
  BY <1>1, <1>2, <1>3 DEF Once, Exhausted, Spent
<1>7. Scanned'
  BY <1>1, <1>2, <1>3 DEF Once, Scanned, Spent
<1>8. Zeroed' /\ AllRan'
  BY <1>1, <1>2 DEF Zeroed, AllRan
<1> QED BY <1>4, <1>5, <1>6, <1>7, <1>8 DEF Once, HandedOut

-----------------------------------------------------------------------------
(* The steps of the job that claim.                                        *)

LEMMA StaticOnce ==
  ASSUME Known, Once, NEW w \in Workers, RunStatic(w)
  PROVE  Once'
<1>1. /\ wpc[w] = "run" /\ mpc = "wait_done" /\ schedule = "static"
      /\ w \in Team /\ w < local[w].batch_size
      /\ wpc \in [Workers -> WorkerPC]
  BY Runs DEF RunStatic, Running, Known, Handshake, HandshakeType
<1>2. Team = 0 .. (call.team - 1) /\ Team \subseteq Workers
  BY <1>1, Job
<1>3. batch[w] = <<First(w), Last(w)>> /\ Allotted
  BY <1>1 DEF Once, Allotted
<1>4. /\ Claim(w, First(w), Last(w)) /\ InJob /\ UNCHANGED <<cursorVars, local, ran>>
  BY <1>1, <1>3 DEF RunStatic, OnlyRuns, InJob, callerVars, teamVars, historyVars
<1>5. /\ wpc' = [wpc EXCEPT ![w] = "body"]
      /\ UNCHANGED <<mpc, call, team_size, schedule, batch, steal_end, steal_cursor>>
      /\ UNCHANGED <<job_next, job_trip>>
      /\ Team' = Team
  BY <1>4 DEF Claim, Goto, InJob, jobVars, cursorVars, Team
<1>6. ASSUME NEW i \in Indices
      PROVE  /\ Unclaimed(i) <=> StaticRest(i)
             /\ Unclaimed(i)' <=> StaticRest(i)'
  BY <1>1, <1>5, UnclaimedIs
<1>7. ASSUME NEW i \in Indices, NEW v \in Team
      PROVE  (batch[v][1] <= i /\ i < batch[v][2]) <=> (First(v) <= i /\ i < Last(v))
  BY <1>1 DEF Once, Allotted
<1>8. ASSUME NEW i \in Indices, First(w) <= i, i < Last(w)
      PROVE  Unclaimed(i) /\ ~Unclaimed(i)'
  <2>1. StaticRest(i)
    BY <1>1, <1>7, <1>8 DEF StaticRest
  <2>2. ASSUME NEW v \in Team, First(v) <= i, i < Last(v) PROVE v = w
    BY <1>1, <1>2, <1>8, <2>2, TeamBlocks DEF Known
  <2>3. ~StaticRest(i)'
    BY <1>1, <1>2, <1>5, <1>7, <2>2 DEF StaticRest
  <2> QED BY <1>6, <2>1, <2>3
<1>9. ASSUME NEW i \in Indices, ~(First(w) <= i /\ i < Last(w))
      PROVE  Unclaimed(i)' <=> Unclaimed(i)
  <2>1. StaticRest(i)' <=> StaticRest(i)
    BY <1>1, <1>2, <1>5, <1>7, <1>9 DEF StaticRest
  <2> QED BY <1>6, <2>1
<1>10. Allotted'
  BY <1>3, <1>5 DEF Allotted, First, Last
<1> QED BY <1>1, <1>4, <1>5, <1>8, <1>9, <1>10, ClaimOnce DEF Spent

\* A claim from the shared counter up to a later place in the job.
LEMMA ClaimNextOnce ==
  ASSUME Known, Once, mpc = "wait_done", schedule \in {"dynamic", "guided"},
         NEW w \in Workers, wpc[w] = "run", NEW to, ClaimNext(w, to),
         job_next < job_trip => to \in Nat /\ job_next < to /\ to <= job_trip
  PROVE  Once'
<1>1. /\ InJob /\ UNCHANGED <<ran, local, steal_cursor>>
  BY DEF ClaimNext, OnlyRuns, InJob, callerVars, teamVars, historyVars
<1>2. job_next \in Nat /\ job_trip \in Nat
  BY DEF Known, Ranges, JobRange, Places
<1>3. /\ UNCHANGED <<schedule, job_trip, call, mpc, team_size, batch, steal_end>>
      /\ Team' = Team
  BY <1>1 DEF InJob, jobVars, Team
<1>4. CASE job_next >= job_trip
  <2>1. /\ wpc' = [wpc EXCEPT ![w] = "done"]
        /\ UNCHANGED <<cursorVars, claimVars>>
    BY <1>1, <1>4 DEF ClaimNext, ClaimNothing, Goto, cursorVars
  <2> QED BY <1>1, <1>4, <2>1, MoveOnce
<1>5. CASE job_next < job_trip
  <2>1. Claim(w, job_next, to) /\ job_next' = to
    BY <1>2, <1>5 DEF ClaimNext
  <2>2. ASSUME NEW i \in Indices
        PROVE  /\ Unclaimed(i) <=> SharedRest(i)
               /\ Unclaimed(i)' <=> SharedRest(i)'
    BY <1>3, UnclaimedIs
  <2>3. ASSUME NEW i \in Indices, job_next <= i, i < to
        PROVE  Unclaimed(i) /\ ~Unclaimed(i)'
    BY <1>2, <1>3, <1>5, <2>1, <2>2, <2>3 DEF SharedRest, Indices
  <2>4. ASSUME NEW i \in Indices, ~(job_next <= i /\ i < to)
        PROVE  Unclaimed(i)' <=> Unclaimed(i)
    BY <1>2, <1>3, <1>5, <2>1, <2>2, <2>4 DEF SharedRest, Indices
  <2>5. Allotted'
    BY <1>1, <1>3 DEF Once, Allotted, First, Last
  <2> QED BY <1>1, <1>2, <1>3, <1>5, <2>1, <2>3, <2>4, <2>5, ClaimOnce DEF Spent
<1> QED BY <1>2, <1>4, <1>5

LEMMA DynamicOnce ==
  ASSUME Known, Once, NEW w \in Workers, ClaimDynamic(w)
  PROVE  Once'
<1>1. wpc[w] = "run" /\ mpc = "wait_done" /\ schedule = "dynamic"
  BY Runs DEF ClaimDynamic, Running
<1>2. job_next \in Nat /\ job_trip \in Nat /\ ChunkSize \in Nat \ {0}
  BY DEF Known, Ranges, JobRange, Places, ChunkSize
<1> DEFINE to == AtMost(job_next + ChunkSize, job_trip)
<1>3. job_next < job_trip => to \in Nat /\ job_next < to /\ to <= job_trip
  BY <1>2 DEF AtMost
<1>4. ClaimNext(w, to)
  BY DEF ClaimDynamic
<1> HIDE DEF to
<1> QED BY <1>1, <1>3, <1>4, ClaimNextOnce

LEMMA GuidedOnce ==
  ASSUME Known, Once, NEW w \in Workers, ClaimGuided(w)
  PROVE  Once'
<1>1. wpc[w] = "run" /\ mpc = "wait_done" /\ schedule = "guided"
  BY Runs DEF ClaimGuided, Running
<1>2. job_next \in Nat /\ job_trip \in Nat /\ batch_size \in Nat \ {0}
  BY <1>1, Job DEF Known, Ranges, JobRange, Places
<1> DEFINE share == (job_trip - job_next) \div batch_size
<1>3. job_next < job_trip => share \in Nat /\ share <= job_trip - job_next
  <2>1. job_next < job_trip => job_trip - job_next \in Nat \ {0}
    BY <1>2
  <2> QED BY <1>2, <2>1, ShareInRest
<1>4. GuidedChunk = IF share < 1 THEN 1 ELSE share
  BY DEF GuidedChunk
<1> HIDE DEF share
<1> DEFINE to == job_next + GuidedChunk
<1>5. job_next < job_trip => to \in Nat /\ job_next < to /\ to <= job_trip
  BY <1>2, <1>3, <1>4
<1>6. ClaimNext(w, to)
  BY DEF ClaimGuided
<1> HIDE DEF to
<1> QED BY <1>1, <1>5, <1>6, ClaimNextOnce

\* A claim from the block of v. When it is spent, w scans on.
LEMMA StealClaimOnce ==
  ASSUME Known, Once, mpc = "wait_done", schedule = "steal",
         NEW w \in Workers, wpc[w] \in {"run", "scan"}, NEW v \in Team,
         StealClaim(w, v, "scan"), \A x \in Workers \ {w} : local'[x] = local[x],
         Spent(v) => /\ Spent(w)
                     /\ \A u \in Team : u < local'[w].victim => Spent(u)
  PROVE  Once'
<1>1. InJob /\ ran' = ran /\ job_next' = job_next
  BY DEF StealClaim, OnlyRuns, InJob, callerVars, teamVars, historyVars
<1>2. /\ UNCHANGED <<schedule, job_trip, call, mpc, team_size, batch, steal_end>>
      /\ Team' = Team
  BY <1>1 DEF InJob, jobVars, Team
<1>3. /\ Team = 0 .. (call.team - 1) /\ Team \subseteq Workers
      /\ steal_cursor \in [Workers -> Nat] /\ steal_end \in [Workers -> Nat]
  <2>1. /\ steal_cursor \in [Workers -> Places]
        /\ steal_end \in [Workers -> Places]
    BY DEF Known, Ranges, JobRange
  <2>2. Places \subseteq Nat
    BY DEF Places
  <2> QED BY <2>1, <2>2, Job
<1>4. CASE Spent(v)
  <2>1. /\ wpc' = [wpc EXCEPT ![w] = "scan"]
        /\ UNCHANGED <<cursorVars, claimVars>>
    BY <1>1, <1>4 DEF StealClaim, ClaimNothing, Goto, cursorVars, Spent
  <2> QED BY <1>1, <1>4, <2>1, MoveOnce
<1>5. CASE ~Spent(v)
  <2> DEFINE from == steal_cursor[v]
             to == AtMost(from + ChunkSize, steal_end[v])
  <2>1. /\ Claim(w, from, to)
        /\ steal_cursor' = [steal_cursor EXCEPT ![v] = to]
    BY <1>5 DEF StealClaim, Spent
  <2>2. from \in Nat /\ to \in Nat /\ from < to /\ to <= steal_end[v]
    <3>1. ChunkSize \in Nat \ {0}
      BY DEF Known, Ranges, JobRange, ChunkSize
    <3> QED BY <1>3, <1>5, <3>1 DEF AtMost, Spent
  <2> HIDE DEF to
  <2>3. \A u \in Team : /\ steal_end[u] = Last(u)
                        /\ First(u) <= steal_cursor[u] /\ steal_cursor[u] <= Last(u)
    BY DEF Once, Allotted
  <2>4. \A u \in Team : First(u) \in Nat /\ Last(u) \in Nat
    BY <1>3, TeamBlocks DEF Known
  <2>5. ASSUME NEW i \in Indices
        PROVE  /\ Unclaimed(i) <=> StealRest(i)
               /\ Unclaimed(i)' <=> StealRest(i)'
    BY <1>2, UnclaimedIs
  <2>6. ASSUME NEW i \in Indices, from <= i, i < to
        PROVE  Unclaimed(i) /\ ~Unclaimed(i)'
    <3>1. i \in Nat /\ First(v) <= i /\ i < Last(v) /\ i < steal_end[v]
      BY <1>3, <2>2, <2>3, <2>4, <2>6 DEF Indices
    <3>2. StealRest(i)
      BY <2>6, <3>1 DEF StealRest
    <3>3. ASSUME NEW u \in Team, steal_cursor'[u] <= i, i < steal_end[u]
          PROVE  FALSE
      <4>1. u # v
        BY <1>3, <2>1, <2>2, <2>6, <3>1, <3>3
      <4>2. First(u) <= i /\ i < Last(u)
        BY <1>3, <2>1, <2>3, <2>4, <3>1, <3>3, <4>1
      <4> QED BY <1>3, <3>1, <4>1, <4>2, TeamBlocks DEF Known
    <3>4. ~StealRest(i)'
      BY <1>2, <3>3 DEF StealRest
    <3> QED BY <2>5, <3>2, <3>4
  <2>7. ASSUME NEW i \in Indices, ~(from <= i /\ i < to)
        PROVE  Unclaimed(i)' <=> Unclaimed(i)
    <3>1. ASSUME NEW u \in Team
          PROVE  (steal_cursor'[u] <= i /\ i < steal_end[u])
                   <=> (steal_cursor[u] <= i /\ i < steal_end[u])
      BY <1>3, <2>1, <2>2, <2>7 DEF Indices
    <3>2. StealRest(i)' <=> StealRest(i)
      BY <1>2, <3>1 DEF StealRest
    <3> QED BY <2>5, <3>2
  <2>8. Allotted'
    BY <1>2, <1>3, <2>1, <2>2, <2>3, <2>4 DEF Once, Allotted, First, Last
  <2>9. \A u \in Team : Spent(u) => Spent(u)'
    BY <1>2, <1>3, <1>5, <2>1 DEF Spent
  <2> QED BY <1>1, <2>1, <2>6, <2>7, <2>8, <2>9, ClaimOnce
<1> QED BY <1>4, <1>5

LEMMA StealOwnOnce ==
  ASSUME Known, Once, NEW w \in Workers, StealOwn(w)
  PROVE  Once'
<1>1. wpc[w] = "run" /\ mpc = "wait_done" /\ schedule = "steal" /\ w \in Team
  BY Runs DEF StealOwn, Running
<1>2. /\ local'[w].victim = 0
      /\ \A x \in Workers \ {w} : local'[x] = local[x]
  BY DEF StealOwn, Known, Ranges, LocalRange
<1>3. \A u \in Team : ~(u < 0)
  BY <1>1, Job
<1> QED BY <1>1, <1>2, <1>3, StealClaimOnce DEF StealOwn

LEMMA StealFromOnce ==
  ASSUME Known, Once, NEW w \in Workers, StealFrom(w)
  PROVE  Once'
<1> DEFINE v == local[w].victim
<1>1. /\ wpc[w] = "scan" /\ mpc = "wait_done" /\ schedule = "steal" /\ Spent(w)
      /\ \A u \in Team : u < v => Spent(u)
  BY Runs DEF StealFrom, Running, Once, Scanned
<1>2. /\ Team = 0 .. (call.team - 1) /\ batch_size = call.team
      /\ call.team \in Nat \ {0} /\ v \in Nat
  BY <1>1, Job DEF Known, Ranges, LocalRange
<1>3. local \in [Workers -> [batch_size : 0 .. MaxTeam, schedule : Kinds,
                             victim : 0 .. MaxTeam]]
  BY DEF Known, Ranges, LocalRange
<1>4. CASE ~NoMoreVictims(w)
  <2>1. v \in Team
    BY <1>2, <1>4 DEF NoMoreVictims
  <2>2. local' = [local EXCEPT ![w].victim = v + 1]
    BY <1>4 DEF StealFrom
  <2>3. /\ local'[w].victim = v + 1
        /\ \A x \in Workers \ {w} : local'[x] = local[x]
    BY <1>3, <2>2
  <2>4. Spent(v) => \A u \in Team : u < local'[w].victim => Spent(u)
    <3>1. \A u \in Team : u < v + 1 => u < v \/ u = v
      BY <1>2
    <3> QED BY <1>1, <2>3, <3>1
  <2>5. CASE v # w
    <3>1. StealClaim(w, v, "scan")
      BY <1>4, <2>5 DEF StealFrom
    <3> HIDE DEF v
    <3> QED BY <1>1, <2>1, <2>3, <2>4, <3>1, StealClaimOnce
  <2>6. CASE v = w
    <3>1. /\ wpc' = wpc /\ UNCHANGED <<cursorVars, claimVars>> /\ OnlyRuns
      BY <1>4, <2>6 DEF StealFrom
    <3>2. wpc' = [wpc EXCEPT ![w] = "scan"]
      BY <1>1, <3>1 DEF Known, Handshake, HandshakeType
    <3>3. InJob /\ ran' = ran
      BY <3>1 DEF OnlyRuns, InJob, callerVars, teamVars, historyVars
    <3> QED BY <1>1, <2>3, <2>4, <2>6, <3>1, <3>2, <3>3, MoveOnce
  <2> QED BY <2>5, <2>6
<1>5. CASE NoMoreVictims(w)
  <2>1. /\ wpc' = [wpc EXCEPT ![w] = "check"] /\ local' = local
        /\ UNCHANGED <<cursorVars, claimVars>> /\ OnlyRuns
    BY <1>5 DEF StealFrom, Goto
  <2>2. InJob /\ ran' = ran
    BY <2>1 DEF OnlyRuns, InJob, callerVars, teamVars, historyVars
  <2>3. \A u \in Team : Spent(u)
    BY <1>1, <1>2, <1>5 DEF NoMoreVictims
  <2> QED BY <1>1, <2>1, <2>2, <2>3, MoveOnce
<1> QED BY <1>4, <1>5

-----------------------------------------------------------------------------
(* The caller's steps.                                                     *)

\* What Once is about stays as it is.
LEMMA RestOnce ==
  ASSUME Once, InJob, UNCHANGED <<cursorVars, claimVars, wpc, local, ran>>
  PROVE  Once'
<1>1. /\ UNCHANGED <<mpc, call, team_size, schedule, job_trip, batch, steal_end>>
      /\ UNCHANGED <<job_next, steal_cursor, begin, end, wpc, local, ran>>
      /\ Team' = Team
  BY DEF InJob, jobVars, cursorVars, claimVars, Team
<1>2. HandedOut'
  <2>1. ASSUME NEW i \in Indices, Handed(i) PROVE Handed(i)'
    BY <1>1, <2>1, IndexKept DEF Unclaimed, Claimed
  <2> QED BY <1>1, <2>1 DEF Once, HandedOut
<1>3. Zeroed' /\ Allotted' /\ Exhausted' /\ Scanned' /\ AllRan'
  BY <1>1 DEF Once, Zeroed, Allotted, First, Last, Exhausted, Scanned, Spent, AllRan
<1> QED BY <1>2, <1>3 DEF Once

\* Before and after the job there is only the count to keep.
LEMMA OutsideJob ==
  ASSUME Known, Once, mpc # "wait_done", mpc' # "wait_done",
         \A w \in Workers : wpc'[w] \in {wpc[w], "top", "none"},
         Zeroed', AllRan'
  PROVE  Once'
<1>1. \A w \in Workers : wpc[w] \notin {"scan", "check"}
  BY Runs DEF Running
<1> QED BY <1>1 DEF Once, Allotted, HandedOut, Exhausted, Scanned

LEMMA CallOnce ==
  ASSUME Known, Once, ForkJoin \/ RunInline
  PROVE  Once'
<1>1. CASE ForkJoin
  <2>1. mpc = "idle" /\ wpc' = wpc
        /\ mpc' \in {"inline", "post", "reteam", "create"}
    BY <1>1 DEF ForkJoin, Enter, InitPool
  <2>2. \A i \in Indices : ran'[i] = 0
    BY <1>1 DEF ForkJoin
  <2> QED BY <2>1, <2>2, OutsideJob DEF Zeroed, AllRan
<1>2. CASE RunInline
  <2>1. mpc = "inline" /\ mpc' = "return" /\ wpc' = wpc /\ call' = call
        /\ ran' = [i \in Indices |-> ran[i] + (IF i < call.trip THEN 1 ELSE 0)]
    BY <1>2 DEF RunInline
  <2>2. \A i \in Indices : ran[i] = 0
    BY <2>1 DEF Once, Zeroed
  <2>3. \A i \in Indices : i < call.trip => ran'[i] = 1
    BY <2>1, <2>2
  <2> QED BY <2>1, <2>3, OutsideJob DEF Zeroed, AllRan
<1> QED BY <1>1, <1>2

LEMMA OtherCallerOnce ==
  ASSUME Known, Once,
         \/ Rejoin \/ CreateTeam \/ CollectReady \/ Return \/ Shutdown \/ Close
  PROVE  Once'
<1>1. call' = call /\ ran' = ran
  BY DEF Rejoin, CreateTeam, CollectReady, Return, Shutdown, Close, historyVars
<1>2. \A w \in Workers : wpc'[w] \in {wpc[w], "top", "none"}
  BY DEF Rejoin, CreateTeam, CollectReady, Return, Shutdown, Close
<1>3. /\ mpc # "wait_done" /\ mpc' # "wait_done"
      /\ mpc' \in {"create", "post"} => mpc \in {"reteam", "create"}
      /\ mpc' \notin {"inline", "reteam"}
      /\ mpc' \in {"wait_ready", "return"} => mpc = "wait_ready"
  BY DEF Rejoin, CreateTeam, CollectReady, Return, Shutdown, Close
<1>4. Zeroed' /\ AllRan'
  BY <1>1, <1>3 DEF Once, Zeroed, AllRan
<1> QED BY <1>2, <1>3, <1>4, OutsideJob

\* The job is published: the blocks, or the shared counter, hold all of it.
LEMMA PostOnce ==
  ASSUME Known, Once, Post
  PROVE  Once'
<1>1. /\ mpc = "post" /\ mpc' = "wait_done" /\ schedule' = call.schedule
      /\ UNCHANGED <<call, team_size, wpc, local, ran>>
  BY DEF Post, teamVars, historyVars
<1>2. /\ call.trip \in Nat /\ call.schedule \in Kinds
      /\ Team' = 0 .. (call.team - 1) /\ Team' \subseteq Workers
  BY <1>1, PoolAssumption DEF Known, Ranges, CallType, Places, Handshake, Threads, Team,
     Workers
<1>3. \A v \in Workers : wpc'[v] \in {"none", "top"} /\ (v \in Team' => wpc'[v] = "top")
  BY <1>1 DEF Known, Handshake, Quiescent, Threads, Team
<1>4. ASSUME NEW v \in Team'
      PROVE  /\ call.schedule = "static" => batch'[v] = <<First(v), Last(v)>>
             /\ call.schedule = "steal" =>
                  steal_cursor'[v] = First(v) /\ steal_end'[v] = Last(v)
  <2>1. v \in Workers /\ v < call.team
    BY <1>2, PoolAssumption DEF Known, Ranges, CallType
  <2>2. CASE call.schedule = "static"
    <3>1. batch' = [w \in Workers |-> IF w < call.team THEN <<First(w), Last(w)>>
                                                      ELSE batch[w]]
      BY <2>2 DEF Post, First, Last
    <3> QED BY <2>1, <2>2, <3>1
  <2>3. CASE call.schedule = "steal"
    <3>1. /\ steal_cursor' = [w \in Workers |-> IF w < call.team THEN First(w)
                                                ELSE steal_cursor[w]]
          /\ steal_end' = [w \in Workers |-> IF w < call.team THEN Last(w)
                                             ELSE steal_end[w]]
      BY <2>3 DEF Post, First, Last
    <3> QED BY <2>1, <2>3, <3>1
  <2> QED BY <2>2, <2>3
<1>5. \A v \in Team' : First(v)' = First(v) /\ Last(v)' = Last(v)
  BY <1>1 DEF First, Last
<1>6. ASSUME NEW i \in Indices PROVE Unclaimed(i)' <=> i < call.trip
  <2>1. i < call.trip <=> \E v \in Team' : First(v) <= i /\ i < Last(v)
    <3>1. \A v \in Team' : Last(v) \in Nat /\ Last(v) <= call.trip
      BY <1>2, TeamBlocks DEF Known
    <3>2. i < call.trip => \E v \in Team' : First(v) <= i /\ i < Last(v)
      BY <1>2, TeamBlocks DEF Known
    <3>3. i \in Nat
      BY DEF Indices
    <3> QED BY <1>2, <3>1, <3>2, <3>3
  <2>2. CASE call.schedule = "static"
    <3>1. StaticRest(i)' <=> \E v \in Team' : First(v) <= i /\ i < Last(v)
      BY <1>2, <1>3, <1>4, <2>2 DEF StaticRest
    <3> QED BY <1>1, <2>1, <2>2, <3>1, UnclaimedIs
  <2>3. CASE call.schedule = "steal"
    <3>1. StealRest(i)' <=> \E v \in Team' : First(v) <= i /\ i < Last(v)
      BY <1>4, <2>3 DEF StealRest
    <3> QED BY <1>1, <2>1, <2>3, <3>1, UnclaimedIs
  <2>4. CASE call.schedule \in {"dynamic", "guided"}
    <3>1. job_next' = 0 /\ job_trip' = call.trip
      BY <2>4 DEF Post
    <3>2. SharedRest(i)' <=> i < call.trip
      BY <3>1 DEF SharedRest, Indices
    <3> QED BY <1>1, <2>4, <3>2, UnclaimedIs
  <2> QED BY <1>2, <2>2, <2>3, <2>4 DEF Kinds
<1>7. ASSUME NEW i \in Indices PROVE Handed(i)'
  <2>1. ran'[i] = 0
    BY <1>1 DEF Once, Zeroed
  <2>2. \A w \in Workers : ~Claimed(w, i)'
    BY <1>3 DEF Claimed
  <2> QED BY <1>1, <1>6, <2>1, <2>2 DEF Handed
<1>8. Allotted'
  <2>1. \A v \in Team' : First(v) \in Nat /\ Last(v) \in Nat /\ First(v) <= Last(v)
    BY <1>2, TeamBlocks DEF Known
  <2> QED BY <1>1, <1>4, <1>5, <2>1 DEF Allotted
<1>9. Exhausted' /\ Scanned' /\ Zeroed' /\ AllRan'
  BY <1>1, <1>3 DEF Exhausted, Scanned, Zeroed, AllRan
<1> QED BY <1>7, <1>8, <1>9 DEF Once, HandedOut

\* The whole team is through, so nothing is left unclaimed or claimed.
LEMMA CollectDoneOnce ==
  ASSUME Known, Once, CollectDone
  PROVE  Once'
<1>1. /\ mpc = "wait_done"
      /\ UNCHANGED <<call, team_size, cursorVars, jobVars, claimVars, wpc, local, ran>>
  BY DEF CollectDone, teamVars, historyVars
<1>2. CASE ~AllDone
  BY <1>1, <1>2, RestOnce DEF CollectDone, InJob
<1>3. CASE AllDone
  <2>1. mpc' = "wait_ready"
    BY <1>3 DEF CollectDone
  <2>2. \A v \in Team : wpc[v] = "drain"
    <3>1. In("drain") \in SUBSET (0 .. (team_size - 1)) /\ team_size \in Nat
      BY DEF In, Team, Known, Handshake, HandshakeType
    <3>2. Cardinality(In("drain")) >= team_size
      BY <1>1, <1>3 DEF AllDone, Known, Handshake, Published, Threads
    <3>3. In("drain") = Team
      BY <3>1, <3>2, TeamFinite DEF Team
    <3> QED BY <3>3 DEF In
  <2>3. \A w \in Workers : wpc[w] \in {"drain", "none"}
    BY <2>2, InTeam DEF Known
  <2>4. Team # {} /\ Team \subseteq Workers /\ schedule \in Kinds
    <3>1. Team = 0 .. (call.team - 1) /\ call.team \in Nat \ {0}
      BY <1>1, Job
    <3>2. 0 \in Team
      BY <3>1
    <3> QED BY <1>1, <3>2, Job
  <2>5. ASSUME NEW i \in Indices, i < call.trip PROVE ran[i] = 1
    <3>1. Handed(i) /\ ~ \E w \in Workers : Claimed(w, i)
      BY <1>1, <2>3 DEF Once, HandedOut, Claimed
    <3>2. /\ schedule = "steal" => \A v \in Team : Spent(v)
          /\ schedule \in {"dynamic", "guided"} => job_next >= job_trip
      BY <1>1, <2>2, <2>4 DEF Once, Exhausted
    <3>3. ~Unclaimed(i)
      <4>1. ~StaticRest(i)
        BY <2>2 DEF StaticRest
      <4>2. schedule = "steal" => ~StealRest(i)
        <5>1. \A v \in Team : steal_cursor[v] \in Nat /\ steal_end[v] \in Nat
          BY <2>4 DEF Known, Ranges, JobRange, Places
        <5> QED BY <3>2, <5>1 DEF StealRest, Spent, Indices
      <4>3. schedule \in {"dynamic", "guided"} => ~SharedRest(i)
        BY <3>2 DEF SharedRest, Known, Ranges, JobRange, Places, Indices
      <4> QED BY <2>4, <4>1, <4>2, <4>3, UnclaimedIs DEF Kinds
    <3> QED BY <2>5, <3>1, <3>3 DEF Handed
  <2>6. AllRan'
    BY <1>1, <2>5 DEF AllRan
  <2> QED BY <1>1, <2>1, <2>3, <2>6 DEF Once, Zeroed, Allotted, HandedOut, Exhausted,
          Scanned
<1> QED BY <1>2, <1>3

-----------------------------------------------------------------------------
(* The invariant holds, and what follows from it.                          *)

LEMMA InitOnce == Init => Once
<1> SUFFICES ASSUME Init PROVE Once
  OBVIOUS
<1>1. mpc = "idle" /\ \A w \in Workers : wpc[w] = "none"
  BY DEF Init
<1> QED BY <1>1 DEF Once, Zeroed, Allotted, HandedOut, Exhausted, Scanned, AllRan

LEMMA NextOnce == Known /\ Once /\ [Next]_vars => Once'
<1> SUFFICES ASSUME Known, Once, [Next]_vars PROVE Once'
  OBVIOUS
<1>1. CASE Caller
  BY <1>1, CallOnce, OtherCallerOnce, PostOnce, CollectDoneOnce DEF Caller
<1>2. ASSUME NEW w \in Workers, Worker(w) PROVE Once'
  <2>1. CASE mpc = "wait_done"
    BY <1>2, <2>1, FetchOnce, StaticOnce, DynamicOnce, GuidedOnce, StealOwnOnce,
       StealFromOnce, CheckOnce, BodyOnce, ReportOnce DEF Worker
  <2>2. CASE mpc # "wait_done"
    BY <1>2, <2>2, BetweenJobs
  <2> QED BY <2>1, <2>2
<1>3. CASE SpuriousCaller \/ (\E w \in Workers : SpuriousWorker(w)) \/ UNCHANGED vars
  <2>1. InJob /\ UNCHANGED <<cursorVars, claimVars, wpc, local, ran>>
    BY <1>3 DEF SpuriousCaller, SpuriousWorker, vars, InJob, callerVars, teamVars,
       historyVars
  <2> QED BY <2>1, RestOnce
<1> QED BY <1>1, <1>2, <1>3 DEF Next

LEMMA KnownOnce == Spec => [](Known /\ Once)
<1>1. Init => Known /\ Once
  BY InitHandshake, InitRanges, InitOnce DEF Known
<1>2. (Known /\ Once) /\ [Next]_vars => (Known /\ Once)'
  BY NextHandshake, NextRanges, NextOnce DEF Known
<1> QED BY <1>1, <1>2, PTL DEF Spec

LEMMA OnceGivesEach == Known /\ Once => EachIndexOnce
<1> SUFFICES ASSUME Known, Once, mpc = "wait_done", NEW i \in Indices
             PROVE  IF i < call.trip
                    THEN \/ /\ ran[i] = 1
                            /\ ~Unclaimed(i) /\ \A w \in Workers : ~Claimed(w, i)
                         \/ /\ ran[i] = 0 /\ Unclaimed(i)
                            /\ \A w \in Workers : ~Claimed(w, i)
                         \/ /\ ran[i] = 0 /\ ~Unclaimed(i)
                            /\ \E w \in Workers : /\ Claimed(w, i)
                                                   /\ \A v \in Workers \ {w} : ~Claimed(v, i)
                    ELSE ran[i] = 0 /\ \A w \in Workers : ~Claimed(w, i)
  BY DEF EachIndexOnce
<1>1. Handed(i)
  BY DEF Once, HandedOut
<1> QED BY <1>1 DEF Handed

\* Each iteration of a job is unclaimed, claimed by one worker or run once, for
\* every team, trip, chunk and schedule: no iteration of li_par_pool_fork_join is
\* lost and none runs twice, whatever the interleaving of the claims.
THEOREM IndicesRunOnce == Spec => []EachIndexOnce
BY KnownOnce, OnceGivesEach, PTL

\* The yield of the stealing loop is never reached: a worker that found no work in
\* any block finds all of them drained (li_par_run_steal).
THEOREM StealersStop == Spec => []NoSpinning
<1>1. Known /\ Once => NoSpinning
  <2> SUFFICES ASSUME Known, Once, NEW w \in Workers, wpc[w] = "check"
               PROVE  Drained
    BY DEF NoSpinning
  <2>1. mpc = "wait_done" /\ \A v \in Team : Spent(v)
    BY Runs DEF Running, Once, Scanned
  <2>2. Team = 0 .. (call.team - 1) /\ batch_size = call.team
    BY <2>1, Job
  <2>3. \A v \in Workers : v < batch_size => v \in Team
    BY <2>2, PoolAssumption DEF Workers, Known, Ranges, CallType
  <2> QED BY <2>1, <2>3 DEF Drained, Spent
<1> QED BY <1>1, KnownOnce, PTL

-----------------------------------------------------------------------------
(* The pool implements ForkJoin: phase is "running" from the call to the   *)
(* return, and the iterations of one body step are a set that did not run. *)

\* What a step adds to the history is a set of iterations that did not run.
LEMMA StepRuns ==
  ASSUME Ranges, mpc \notin {"idle", "closing"}, UNCHANGED call,
         mpc' \notin {"idle", "closing"},
         NEW S, S \subseteq Indices,
         \A i \in S : i < call.trip /\ ran[i] = 0,
         ran' = [i \in Indices |-> ran[i] + (IF i \in S THEN 1 ELSE 0)]
  PROVE  [Abstract!Next]_(Abstract!vars)
<1>1. CASE S = {}
  <2>1. ran' = ran
    BY <1>1 DEF Ranges, HistoryType
  <2> QED BY <2>1 DEF Abstract!vars
<1>2. CASE S # {}
  <2>1. S \in SUBSET {i \in Abstract!Indices : i < call.trip /\ ran[i] = 0}
    BY DEF Abstract!Indices, Indices
  <2>2. ran' = [i \in Abstract!Indices |-> ran[i] + (IF i \in S THEN 1 ELSE 0)]
    BY DEF Abstract!Indices, Indices
  <2>3. Abstract!Run
    BY <1>2, <2>1, <2>2 DEF Abstract!Run
  <2> QED BY <2>3 DEF Abstract!Next
<1> QED BY <1>1, <1>2

LEMMA CallImplements ==
  ASSUME Known, Once, Caller \/ SpuriousCaller
  PROVE  [Abstract!Next]_(Abstract!vars)
<1>1. CASE ForkJoin
  <2>1. mpc = "idle" /\ mpc' \in {"inline", "post", "reteam", "create"}
    BY <1>1 DEF ForkJoin, Enter, InitPool
  <2>2. call'.trip \in 1 .. MaxTrip
    BY <1>1 DEF ForkJoin
  <2>3. ran' = [i \in Abstract!Indices |-> 0]
    BY <1>1 DEF ForkJoin, Abstract!Indices, Indices
  <2> QED BY <2>1, <2>2, <2>3 DEF Abstract!Next, Abstract!Call
<1>2. CASE RunInline
  <2> DEFINE S == {i \in Indices : i < call.trip}
  <2>1. mpc = "inline" /\ mpc' = "return" /\ call' = call
        /\ ran' = [i \in Indices |-> ran[i] + (IF i \in S THEN 1 ELSE 0)]
    BY <1>2 DEF RunInline
  <2>2. S \subseteq Indices /\ \A i \in S : i < call.trip /\ ran[i] = 0
    BY <2>1 DEF Once, Zeroed
  <2> HIDE DEF S
  <2> QED BY <2>1, <2>2, StepRuns DEF Known
<1>3. CASE Return
  <2>1. \A i \in Abstract!Indices : i < call.trip => ran[i] = 1
    BY <1>3 DEF Return, Once, AllRan, Abstract!Indices, Indices
  <2> QED BY <1>3, <2>1 DEF Return, historyVars, Abstract!Next, Abstract!Return
<1>4. CASE \/ Rejoin \/ CreateTeam \/ Post \/ CollectDone \/ CollectReady \/ Shutdown
           \/ Close \/ SpuriousCaller
  <2>1. call' = call /\ ran' = ran
    BY <1>4 DEF Rejoin, CreateTeam, Post, CollectDone, CollectReady, Shutdown, Close,
       SpuriousCaller, historyVars
  <2>2. mpc \in {"idle", "closing"} <=> mpc' \in {"idle", "closing"}
    BY <1>4 DEF Rejoin, CreateTeam, Post, CollectDone, CollectReady, Shutdown, Close,
       SpuriousCaller
  <2> QED BY <2>1, <2>2 DEF Abstract!vars
<1> QED BY <1>1, <1>2, <1>3, <1>4 DEF Caller

LEMMA WorkerImplements ==
  ASSUME Known, Once, NEW w \in Workers, Worker(w)
  PROVE  [Abstract!Next]_(Abstract!vars)
<1>1. CASE RunBody(w)
  <2> DEFINE S == {i \in Indices : Claimed(w, i)}
  <2>1. mpc = "wait_done" /\ UNCHANGED <<mpc, call>>
    BY <1>1, Runs DEF RunBody, Running, callerVars
  <2>2. S \subseteq Indices /\ \A i \in S : i < call.trip /\ ran[i] = 0
    BY <2>1 DEF Once, HandedOut, Handed
  <2>3. ran' = [i \in Indices |-> ran[i] + (IF i \in S THEN 1 ELSE 0)]
    BY <1>1 DEF RunBody, Claimed
  <2> HIDE DEF S
  <2> QED BY <2>1, <2>2, <2>3, StepRuns DEF Known
<1>2. CASE ~RunBody(w)
  <2>1. UNCHANGED <<mpc, call, ran>>
    BY <1>2 DEF Worker, Fetch, RunStatic, ClaimDynamic, ClaimGuided, ClaimNext, StealOwn,
       StealFrom, StealClaim, CheckDrained, Finish, Drain, OnlyRuns, callerVars,
       historyVars
  <2> QED BY <2>1 DEF Abstract!vars
<1> QED BY <1>1, <1>2

\* The pool implements the abstract fork-join: a call of li_par_pool_fork_join runs
\* each of its iterations once and returns after all of them, under each schedule.
THEOREM PoolImplementsForkJoin == Spec => ImplementsForkJoin
<1>1. Init => Abstract!Init
  BY DEF Init, Abstract!Init, Abstract!Indices, Indices
<1>2. Known /\ Once /\ [Next]_vars => [Abstract!Next]_(Abstract!vars)
  <2> SUFFICES ASSUME Known, Once, [Next]_vars PROVE [Abstract!Next]_(Abstract!vars)
    OBVIOUS
  <2>1. CASE (\E w \in Workers : SpuriousWorker(w)) \/ UNCHANGED vars
    <3>1. UNCHANGED <<mpc, call, ran>>
      BY <2>1 DEF SpuriousWorker, vars, callerVars, historyVars
    <3> QED BY <3>1 DEF Abstract!vars
  <2> QED BY <2>1, CallImplements, WorkerImplements DEF Next
<1> QED BY <1>1, <1>2, KnownOnce, PTL DEF Spec, ImplementsForkJoin, Abstract!Spec

=============================================================================
