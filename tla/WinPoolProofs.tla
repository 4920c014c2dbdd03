---------------------------- MODULE WinPoolProofs ----------------------------
(***************************************************************************)
(* Proofs about the Windows pool for every team, number of iterations,     *)
(* schedule and number of calls.                                           *)
(*                                                                         *)
(* Account is the inductive invariant: the callbacks that are not finished *)
(* are some of those submitted, jobs_remaining is their number and that of *)
(* the ones still to submit, and the caller leaves the job only when it is *)
(* 0. JobOnStack and Accounted are parts of it. Ranges adds the types of   *)
(* what the callbacks claim and gives TypeOK.                              *)
(***************************************************************************)
EXTENDS WinPool, PartitionProofs, FiniteSetTheorems

\* The caller's places between the publication of a job and its return.
Sharing == {"submit", "within", "join", "tested"}

AccountType ==
  /\ mpc \in CallerPC
  /\ call.team \in 1 .. MaxTeam
  /\ submitted \in 0 .. MaxTeam
  /\ pool \in 0 .. MaxTeam
  /\ main_wait \in BOOLEAN
  /\ jobs_remaining \in 0 .. MaxTeam
  /\ waking \in Nat
  /\ calls \in 0 .. MaxCalls
  /\ tpc \in [Workers -> CallbackPC]

\* Only submitted callbacks run, and the caller joins when all are submitted.
Submitted ==
  mpc \in Sharing =>
    /\ submitted <= call.team
    /\ \A w \in Workers : tpc[w] # "none" => w < submitted
    /\ mpc \in {"join", "tested"} => submitted = call.team
    /\ mpc = "within" => submitted > 0

\* A call has one wake-up at most, after its last callback.
OneWakeUp ==
  /\ waking <= calls
  /\ mpc = "init" \/ (mpc \in Sharing /\ jobs_remaining > 0) => waking < calls

Account == AccountType /\ Submitted /\ OneWakeUp /\ JobOnStack /\ Accounted

Busy == {w \in Team : tpc[w] # "none"}

-----------------------------------------------------------------------------
(* Counting.                                                               *)

LEMMA BusyFinite ==
  ASSUME Account
  PROVE  /\ IsFiniteSet(Busy) /\ Cardinality(Busy) \in Nat
         /\ Cardinality(Busy) = 0 <=> Busy = {}
<1>1. call.team - 1 \in Int
  BY WinPoolAssumption DEF Account, AccountType
<1>2. IsFiniteSet(Team)
  BY <1>1, FS_Interval DEF Team
<1>3. IsFiniteSet(Busy)
  BY <1>2, FS_Subset DEF Busy
<1> QED BY <1>3, FS_CardinalityType, FS_EmptySet

\* Every callback of a job is one of its team.
LEMMA AllInTeam ==
  ASSUME Account, mpc \in Sharing, NEW w \in Workers, tpc[w] # "none"
  PROVE  w \in Busy
<1>1. w < submitted /\ submitted <= call.team
  BY DEF Account, Submitted
<1> QED BY <1>1, WinPoolAssumption DEF Busy, Team, Workers, Account, AccountType

LEMMA ClampInRange ==
  ASSUME NEW trip \in 1 .. MaxTrip, NEW team \in 1 .. (MaxTeam + 1)
  PROVE  ClampTeam(team, trip) \in 1 .. MaxTeam
  BY WinPoolAssumption DEF ClampTeam

-----------------------------------------------------------------------------
LEMMA InitAccount == Init => Account
<1> SUFFICES ASSUME Init PROVE Account
  OBVIOUS
<1>1. AccountType
  <2>1. /\ mpc \in CallerPC /\ call.team \in 1 .. MaxTeam /\ submitted \in 0 .. MaxTeam
        /\ pool \in 0 .. MaxTeam /\ jobs_remaining \in 0 .. MaxTeam /\ waking \in Nat
        /\ calls \in 0 .. MaxCalls
    BY WinPoolAssumption DEF Init, CallerPC
  <2>2. tpc \in [Workers -> CallbackPC] /\ main_wait \in BOOLEAN
    BY DEF Init, CallbackPC
  <2> QED BY <2>1, <2>2 DEF AccountType
<1>2. Submitted /\ OneWakeUp /\ JobOnStack /\ Accounted
  BY DEF Init, Submitted, OneWakeUp, JobOnStack, Accounted, Sharing
<1> QED BY <1>1, <1>2 DEF Account

-----------------------------------------------------------------------------
(* The caller's steps.                                                     *)

LEMMA ForkJoinAccount == ASSUME Account, ForkJoin PROVE Account'
<1>1. /\ mpc = "idle" /\ calls < MaxCalls /\ calls' = calls + 1
      /\ submitted' = submitted /\ main_wait' = main_wait /\ pool' = pool
      /\ jobs_remaining' = jobs_remaining /\ waking' = waking /\ tpc' = tpc
  BY DEF ForkJoin, syncVars
<1>2. mpc' \in {"inline", "init"} /\ call'.team \in 1 .. MaxTeam
  BY ClampInRange DEF ForkJoin
<1>3. AccountType'
  BY <1>1, <1>2, WinPoolAssumption DEF Account, AccountType, CallerPC
<1>4. OneWakeUp'
  BY <1>1, <1>2, WinPoolAssumption DEF Account, AccountType, OneWakeUp, Sharing
<1>5. Submitted' /\ JobOnStack' /\ Accounted'
  BY <1>1, <1>2 DEF Account, Submitted, JobOnStack, Accounted, Sharing
<1> QED BY <1>3, <1>4, <1>5 DEF Account

LEMMA InitPoolAccount == ASSUME Account, InitPool PROVE Account'
<1>1. /\ mpc = "init" /\ mpc' = "submit" /\ pool' = call.team /\ submitted' = 0
      /\ jobs_remaining' = call.team
      /\ call' = call /\ main_wait' = main_wait /\ tpc' = tpc /\ waking' = waking
      /\ calls' = calls
  BY DEF InitPool, JobCount, historyVars
<1>2. \A w \in Workers : tpc[w] = "none"
  BY <1>1 DEF Account, JobOnStack
<1>3. Team \subseteq Workers
  BY WinPoolAssumption DEF Account, AccountType, Team, Workers
<1>4. AccountType'
  BY <1>1, WinPoolAssumption DEF Account, AccountType, CallerPC
<1>5. Accounted'
  <2>1. {w \in Team : tpc[w] # "none"} = {}
    BY <1>2, <1>3
  <2>2. Cardinality({w \in Team : tpc[w] # "none"}) = 0
    BY <2>1, FS_EmptySet
  <2>3. Team' = Team
    BY <1>1 DEF Team
  <2> QED BY <1>1, <2>2, <2>3 DEF Accounted, Account, AccountType
<1>6. Submitted' /\ OneWakeUp' /\ JobOnStack'
  BY <1>1, <1>2 DEF Account, AccountType, Submitted, OneWakeUp, JobOnStack, Sharing
<1> QED BY <1>4, <1>5, <1>6 DEF Account

LEMMA SubmitAccount == ASSUME Account, Submit PROVE Account'
<1>1. /\ mpc = "submit" /\ call' = call /\ main_wait' = main_wait /\ pool' = pool
      /\ jobs_remaining' = jobs_remaining /\ waking' = waking /\ calls' = calls
  BY DEF Submit, syncVars, historyVars
<1>2. Team' = Team
  BY <1>1 DEF Team
<1>3. CASE submitted < call.team /\ Start(submitted) /\ mpc' \in {"submit", "within"}
  <2>1. tpc' = [tpc EXCEPT ![submitted] = "run"] /\ submitted' = submitted + 1
    BY <1>3 DEF Start
  <2>2. submitted \in Workers /\ submitted \in Team
    BY <1>3, WinPoolAssumption DEF Account, AccountType, Workers, Team
  <2>3. tpc[submitted] = "none"
    BY <1>1, <2>2 DEF Account, AccountType, Submitted, Sharing
  <2>4. AccountType'
    <3>1. submitted' \in 0 .. MaxTeam /\ mpc' \in CallerPC
      BY <1>3, <2>1, WinPoolAssumption DEF Account, AccountType, CallerPC
    <3>2. tpc' \in [Workers -> CallbackPC]
      BY <2>1 DEF Account, AccountType, CallbackPC
    <3> QED BY <1>1, <3>1, <3>2 DEF Account, AccountType
  <2>5. Submitted'
    <3>1. submitted' <= call.team /\ submitted' > 0
      BY <1>3, <2>1 DEF Account, AccountType
    <3>2. \A w \in Workers : tpc'[w] # "none" => w < submitted'
      BY <1>1, <2>1, <2>2 DEF Account, AccountType, Submitted, Sharing, Workers
    <3> QED BY <1>1, <1>3, <3>1, <3>2 DEF Submitted, Sharing
  <2>6. Accounted'
    <3>1. Busy' = Busy \cup {submitted} /\ submitted \notin Busy
      BY <1>2, <2>1, <2>2, <2>3 DEF Busy, Account, AccountType
    <3>2. Cardinality(Busy') = Cardinality(Busy) + 1
      BY <3>1, BusyFinite, FS_AddElement
    <3>3. jobs_remaining = Cardinality(Busy) + (call.team - submitted)
      BY <1>1 DEF Account, Accounted, Busy
    <3>4. jobs_remaining' = Cardinality(Busy') + (call'.team - submitted')
      BY <1>1, <2>1, <3>2, <3>3, BusyFinite DEF Account, AccountType
    <3> QED BY <3>4 DEF Accounted, Busy
  <2>7. OneWakeUp' /\ JobOnStack'
    BY <1>1, <1>3 DEF Account, OneWakeUp, JobOnStack, Sharing
  <2> QED BY <2>4, <2>5, <2>6, <2>7 DEF Account
<1>4. CASE submitted = call.team /\ mpc' = "join" /\ UNCHANGED <<tpc, submitted>>
  <2>1. AccountType'
    BY <1>1, <1>4 DEF Account, AccountType, CallerPC
  <2>2. Submitted' /\ OneWakeUp' /\ JobOnStack' /\ Accounted'
    BY <1>1, <1>2, <1>4 DEF Account, Submitted, OneWakeUp, JobOnStack, Accounted, Sharing
  <2> QED BY <2>1, <2>2 DEF Account
<1> QED BY <1>3, <1>4 DEF Submit

\* The caller leaves the job when jobs_remaining is 0: no callback is left.
LEMMA TestJoinAccount == ASSUME Account, TestJoin PROVE Account'
<1>1. /\ mpc = "join" /\ call' = call /\ submitted' = submitted /\ pool' = pool
      /\ main_wait' = main_wait /\ jobs_remaining' = jobs_remaining
      /\ waking' = waking /\ tpc' = tpc /\ calls' = calls
  BY DEF TestJoin, syncVars, historyVars
<1>2. mpc' \in {"tested", "return"}
  BY DEF TestJoin
<1>3. AccountType'
  BY <1>1, <1>2 DEF Account, AccountType, CallerPC
<1>4. JobOnStack'
  <2>1. CASE mpc' = "tested"
    BY <2>1 DEF JobOnStack
  <2>2. CASE mpc' = "return"
    <3>1. ~ (jobs_remaining > 0)
      BY <2>2 DEF TestJoin, Unfinished
    <3>2. jobs_remaining = Cardinality(Busy) + (call.team - submitted) /\ submitted = call.team
      BY <1>1 DEF Account, Accounted, Submitted, Sharing, Busy
    <3>3. Busy = {}
      BY <3>1, <3>2, BusyFinite DEF Account, AccountType
    <3>4. \A w \in Workers : tpc[w] = "none"
      BY <1>1, <3>3, AllInTeam DEF Sharing
    <3> QED BY <1>1, <3>4 DEF JobOnStack
  <2> QED BY <1>2, <2>1, <2>2
<1>5. Team' = Team
  BY <1>1 DEF Team
<1>6. Submitted' /\ OneWakeUp' /\ Accounted'
  BY <1>1, <1>2, <1>5 DEF Account, Submitted, OneWakeUp, Accounted, Sharing
<1> QED BY <1>3, <1>4, <1>6 DEF Account

\* The caller's steps that move it and change nothing the account is about.
LEMMA CallerMoves ==
  ASSUME Account,
         \/ RunInline \/ RanWithin \/ Sleep \/ SpuriousCaller \/ Return \/ Shutdown
         \/ Close
  PROVE  Account'
<1>1. /\ call' = call /\ submitted' = submitted /\ jobs_remaining' = jobs_remaining
      /\ waking' = waking /\ tpc' = tpc /\ calls' = calls
  BY DEF RunInline, RanWithin, Sleep, SpuriousCaller, Return, Shutdown, Close, syncVars,
     historyVars
<1>2. pool' \in 0 .. MaxTeam /\ main_wait' \in BOOLEAN
  <2>1. pool' = pool \/ pool' = 0
    BY DEF RunInline, RanWithin, Sleep, SpuriousCaller, Return, Shutdown, Close
  <2>2. main_wait' = main_wait \/ main_wait' = TRUE \/ main_wait' = FALSE
    BY DEF RunInline, RanWithin, Sleep, SpuriousCaller, Return, Shutdown, Close
  <2>3. 0 \in 0 .. MaxTeam /\ pool \in 0 .. MaxTeam
    BY WinPoolAssumption DEF Account, AccountType
  <2>4. main_wait \in BOOLEAN
    BY DEF Account, AccountType
  <2> QED BY <2>1, <2>2, <2>3, <2>4
<1>3. \/ mpc' = mpc
      \/ mpc \notin Sharing \cup {"init"} /\ mpc' \in {"return", "idle", "closing"}
      \/ mpc = "within" /\ mpc' = "submit"
      \/ mpc = "tested" /\ mpc' = "join"
  BY DEF RunInline, RanWithin, Sleep, SpuriousCaller, Return, Shutdown, Close, Sharing
<1>4. Team' = Team
  BY <1>1 DEF Team
<1>5. AccountType'
  BY <1>1, <1>2, <1>3 DEF Account, AccountType, CallerPC
<1>6. Submitted' /\ OneWakeUp'
  BY <1>1, <1>3 DEF Account, Submitted, OneWakeUp, Sharing
<1>7. JobOnStack' /\ Accounted'
  BY <1>1, <1>3, <1>4 DEF Account, JobOnStack, Accounted, Sharing
<1> QED BY <1>5, <1>6, <1>7 DEF Account

-----------------------------------------------------------------------------
(* The callbacks' steps.                                                   *)

\* A callback that goes on without finishing.
LEMMA CallbackMoves ==
  ASSUME Account, UNCHANGED callerVars, UNCHANGED syncVars, calls' = calls,
         NEW w \in Workers, tpc[w] # "none", NEW pc \in CallbackPC \ {"none"},
         tpc' = [tpc EXCEPT ![w] = pc]
  PROVE  Account'
<1>1. /\ mpc' = mpc /\ call' = call /\ submitted' = submitted /\ main_wait' = main_wait
      /\ pool' = pool /\ jobs_remaining' = jobs_remaining /\ waking' = waking
  BY DEF callerVars, syncVars
<1>2. \A v \in Workers : tpc'[v] # "none" <=> tpc[v] # "none"
  BY DEF Account, AccountType
<1>3. Team' = Team /\ Team \subseteq Workers
  BY <1>1, WinPoolAssumption DEF Team, Workers, Account, AccountType
<1>4. AccountType'
  BY <1>1 DEF Account, AccountType
<1>5. Submitted' /\ OneWakeUp' /\ JobOnStack'
  BY <1>1, <1>2 DEF Account, Submitted, OneWakeUp, JobOnStack
<1>6. Accounted'
  <2>1. {v \in Team : tpc'[v] # "none"} = {v \in Team : tpc[v] # "none"}
    BY <1>2, <1>3
  <2> QED BY <1>1, <1>3, <2>1 DEF Account, Accounted
<1> QED BY <1>4, <1>5, <1>6 DEF Account

LEMMA FinishAccount == ASSUME Account, NEW w \in Workers, Finish(w) PROVE Account'
<1>1. /\ mpc' = mpc /\ call' = call /\ submitted' = submitted /\ main_wait' = main_wait
      /\ pool' = pool /\ calls' = calls
  BY DEF Finish, callerVars, historyVars
<1>2. /\ tpc[w] = "finish" /\ tpc' = [tpc EXCEPT ![w] = "none"]
      /\ jobs_remaining' = jobs_remaining - 1
      /\ waking' = waking + (IF OneLeft THEN 1 ELSE 0)
  BY DEF Finish, Goto
<1>3. mpc \in Sharing
  BY <1>2 DEF Account, JobOnStack, Sharing
<1>4. w \in Busy
  BY <1>2, <1>3, AllInTeam
<1>5. jobs_remaining = Cardinality(Busy) + (call.team - submitted)
  BY <1>3 DEF Account, Accounted, Sharing, Busy
<1>6. jobs_remaining > 0
  <2>1. Cardinality(Busy) > 0
    BY <1>4, BusyFinite
  <2>2. submitted <= call.team
    BY <1>3 DEF Account, Submitted
  <2> QED BY <1>5, <2>1, <2>2, BusyFinite DEF Account, AccountType
<1>7. AccountType'
  <2>1. jobs_remaining' \in 0 .. MaxTeam /\ waking' \in Nat
    BY <1>2, <1>6, WinPoolAssumption DEF Account, AccountType
  <2>2. tpc' \in [Workers -> CallbackPC]
    BY <1>2 DEF Account, AccountType, CallbackPC
  <2> QED BY <1>1, <2>1, <2>2 DEF Account, AccountType
<1>8. \A v \in Workers : tpc'[v] # "none" => tpc[v] # "none"
  BY <1>2 DEF Account, AccountType
<1>9. Submitted' /\ JobOnStack'
  BY <1>1, <1>8 DEF Account, Submitted, JobOnStack
<1>10. OneWakeUp'
  BY <1>1, <1>2, <1>3, <1>6 DEF Account, AccountType, OneWakeUp, OneLeft, Sharing
<1>11. Accounted'
  <2>1. Team' = Team /\ Team \subseteq Workers
    BY <1>1, WinPoolAssumption DEF Team, Workers, Account, AccountType
  <2>2. Busy' = Busy \ {w}
    BY <1>2, <2>1 DEF Busy, Account, AccountType
  <2>3. Cardinality(Busy') = Cardinality(Busy) - 1
    BY <1>4, <2>2, BusyFinite, FS_RemoveElement
  <2>4. jobs_remaining' = Cardinality(Busy') + (call'.team - submitted')
    BY <1>1, <1>2, <1>5, <2>3, BusyFinite DEF Account, AccountType
  <2> QED BY <2>4 DEF Accounted, Busy
<1> QED BY <1>7, <1>9, <1>10, <1>11 DEF Account

LEMMA WakeAccount == ASSUME Account, Wake PROVE Account'
<1>1. /\ mpc' = mpc /\ call' = call /\ submitted' = submitted /\ pool' = pool
      /\ jobs_remaining' = jobs_remaining /\ tpc' = tpc /\ calls' = calls
      /\ main_wait' = FALSE /\ waking' = waking - 1 /\ waking > 0
  BY DEF Wake, historyVars
<1>2. AccountType'
  <2>1. waking' \in Nat
    BY <1>1 DEF Account, AccountType
  <2> QED BY <1>1, <2>1 DEF Account, AccountType
<1>3. OneWakeUp'
  BY <1>1, WinPoolAssumption DEF Account, AccountType, OneWakeUp
<1>4. Team' = Team
  BY <1>1 DEF Team
<1>5. Submitted' /\ JobOnStack' /\ Accounted'
  BY <1>1, <1>4 DEF Account, Submitted, JobOnStack, Accounted
<1> QED BY <1>2, <1>3, <1>5 DEF Account

\* What a callback's step other than its last one does to its place.
LEMMA CallbackGoes ==
  ASSUME NEW w \in Workers,
         \/ RunStatic(w) \/ ClaimDynamic(w) \/ ClaimGuided(w) \/ StealOwn(w)
         \/ StealFrom(w) \/ CheckDrained(w) \/ RunBody(w)
  PROVE  /\ UNCHANGED callerVars /\ UNCHANGED syncVars /\ calls' = calls
         /\ tpc[w] # "none"
         /\ \/ tpc' = tpc
            \/ \E pc \in CallbackPC \ {"none"} : tpc' = [tpc EXCEPT ![w] = pc]
<1> USE DEF Claim, ClaimNothing, StealClaim, Goto, OnlyRuns, CallbackPC, historyVars
<1>1. CASE RunStatic(w)
  BY <1>1 DEF RunStatic
<1>2. CASE ClaimDynamic(w)
  BY <1>2 DEF ClaimDynamic
<1>3. CASE ClaimGuided(w)
  BY <1>3 DEF ClaimGuided
<1>4. CASE StealOwn(w)
  BY <1>4 DEF StealOwn
<1>5. CASE StealFrom(w)
  BY <1>5 DEF StealFrom
<1>6. CASE CheckDrained(w)
  BY <1>6 DEF CheckDrained
<1>7. CASE RunBody(w)
  BY <1>7 DEF RunBody
<1> QED BY <1>1, <1>2, <1>3, <1>4, <1>5, <1>6, <1>7

LEMMA CallbackAccount == ASSUME Account, NEW w \in Workers, Callback(w) PROVE Account'
<1>1. CASE Finish(w)
  BY <1>1, FinishAccount
<1>2. CASE \/ RunStatic(w) \/ ClaimDynamic(w) \/ ClaimGuided(w) \/ StealOwn(w)
           \/ StealFrom(w) \/ CheckDrained(w) \/ RunBody(w)
  <2>1. /\ UNCHANGED callerVars /\ UNCHANGED syncVars /\ calls' = calls /\ tpc[w] # "none"
        /\ \/ tpc' = tpc
           \/ \E pc \in CallbackPC \ {"none"} : tpc' = [tpc EXCEPT ![w] = pc]
    BY <1>2, CallbackGoes
  <2>2. CASE tpc' = tpc
    <3>1. tpc' = [tpc EXCEPT ![w] = tpc[w]] /\ tpc[w] \in CallbackPC \ {"none"}
      BY <2>1, <2>2 DEF Account, AccountType
    <3> QED BY <2>1, <3>1, CallbackMoves
  <2>3. CASE \E pc \in CallbackPC \ {"none"} : tpc' = [tpc EXCEPT ![w] = pc]
    BY <2>1, <2>3, CallbackMoves
  <2> QED BY <2>1, <2>2, <2>3
<1> QED BY <1>1, <1>2 DEF Callback

LEMMA NextAccount == Account /\ [Next]_vars => Account'
<1> SUFFICES ASSUME Account, [Next]_vars PROVE Account'
  OBVIOUS
<1>1. CASE UNCHANGED vars
  <2>1. /\ UNCHANGED callerVars /\ UNCHANGED syncVars /\ calls' = calls /\ tpc' = tpc
    BY <1>1 DEF vars, historyVars
  <2>2. /\ mpc' = mpc /\ call' = call /\ submitted' = submitted /\ main_wait' = main_wait
        /\ pool' = pool /\ jobs_remaining' = jobs_remaining /\ waking' = waking
    BY <2>1 DEF callerVars, syncVars
  <2> QED BY <2>1, <2>2 DEF Account, AccountType, Submitted, OneWakeUp, JobOnStack, Accounted, Team
<1>2. CASE CallerStep \/ SpuriousCaller \/ Shutdown
  BY <1>2, InitPoolAccount, SubmitAccount, TestJoinAccount, CallerMoves DEF CallerStep
<1>3. ASSUME NEW w \in Workers, Callback(w) PROVE Account'
  BY <1>3, CallbackAccount
<1> QED BY <1>1, <1>2, <1>3, ForkJoinAccount, WakeAccount DEF Next

\* The account of jobs_remaining holds throughout.
THEOREM AccountKept == Spec => []Account
<1> QED BY InitAccount, NextAccount, PTL DEF Spec

\* No callback outlives the call on whose stack its job is (the join loop of
\* li_par_pool_fork_join).
THEOREM CallbacksOnStack == Spec => []JobOnStack
<1>1. Account => JobOnStack
  BY DEF Account
<1> QED BY <1>1, AccountKept, PTL

\* jobs_remaining is the number of callbacks that are not through.
THEOREM RemainingCounts == Spec => []Accounted
<1>1. Account => Accounted
  BY DEF Account
<1> QED BY <1>1, AccountKept, PTL

-----------------------------------------------------------------------------
(* The types of the call and of what the callbacks claim.                  *)

Places == 0 .. MaxTrip
Kinds == {"static", "dynamic", "guided", "steal"}

CallType == call \in [trip : Places, team : 1 .. MaxTeam, schedule : Kinds, chunk : Nat]

ClaimType ==
  /\ next \in Nat
  /\ steal_cursor \in [Workers -> Places]
  /\ victim \in [Workers -> 0 .. MaxTeam]
  /\ begin \in [Workers -> Places]
  /\ end \in [Workers -> Places]

RanType == ran \in [Indices -> Nat]

Ranges == CallType /\ ClaimType /\ RanType

LEMMA CallFields ==
  ASSUME CallType
  PROVE  /\ call.trip \in Nat /\ call.trip <= MaxTrip /\ call.trip \in Places
         /\ call.team \in Nat \ {0} /\ call.team <= MaxTeam
         /\ call.schedule \in Kinds /\ call.chunk \in Nat
  BY WinPoolAssumption DEF CallType, Places

\* The block of a worker lies within the iterations of the call.
LEMMA BlockInPlaces ==
  ASSUME CallType, NEW w \in Workers, w < call.team
  PROVE  /\ BlockBegin(call.trip, call.team, w) \in Places
         /\ BlockEnd(call.trip, call.team, w) \in Places
         /\ BlockEnd(call.trip, call.team, w) <= call.trip
<1> DEFINE first == BlockBegin(call.trip, call.team, w)
           last == BlockEnd(call.trip, call.team, w)
<1>1. w \in 0 .. (call.team - 1)
  BY CallFields DEF Workers
<1>2. first \in Nat /\ last \in Nat /\ first <= last /\ last <= call.trip
  BY <1>1, CallFields, BlocksOrdered
<1> HIDE DEF first, last
<1>3. first \in Places /\ last \in Places
  BY <1>2, CallFields, WinPoolAssumption DEF Places
<1> QED BY <1>2, <1>3 DEF first, last

LEMMA InitRanges == Init => Ranges
<1> SUFFICES ASSUME Init PROVE Ranges
  OBVIOUS
<1>1. 0 \in Places /\ 1 \in 1 .. MaxTeam /\ 0 \in 0 .. MaxTeam
  BY WinPoolAssumption DEF Places
<1>2. CallType
  BY <1>1 DEF Init, CallType, Kinds
<1>3. ClaimType /\ RanType
  BY <1>1 DEF Init, ClaimType, RanType
<1> QED BY <1>2, <1>3 DEF Ranges

LEMMA ForkJoinRanges == ASSUME Ranges, ForkJoin PROVE Ranges'
<1>1. /\ ran' = [i \in Indices |-> 0]
      /\ UNCHANGED <<cursorVars, victim, claimVars>>
  BY DEF ForkJoin
<1>2. CallType'
  <2>1. PICK trip \in 1 .. MaxTrip, team \in 1 .. (MaxTeam + 1), sched \in Schedules,
             chunk \in Chunks :
          call' = [trip |-> trip, team |-> ClampTeam(team, trip), schedule |-> sched,
                   chunk |-> chunk]
    BY DEF ForkJoin
  <2>2. trip \in Places /\ sched \in Kinds /\ chunk \in Nat
    BY WinPoolAssumption DEF Places, Kinds
  <2> QED BY <2>1, <2>2, ClampInRange DEF CallType
<1>3. ClaimType' /\ RanType'
  BY <1>1 DEF Ranges, ClaimType, RanType, cursorVars, claimVars
<1> QED BY <1>2, <1>3 DEF Ranges

LEMMA InitPoolRanges == ASSUME Ranges, InitPool PROVE Ranges'
<1>1. /\ call' = call /\ next' = 0 /\ victim' = victim /\ begin' = begin /\ end' = end
      /\ ran' = ran
      /\ steal_cursor' = [w \in Workers |->
                            IF w < call.team
                            THEN BlockBegin(call.trip, call.team, w)
                            ELSE steal_cursor[w]]
  BY DEF InitPool, claimVars, historyVars
<1>2. ASSUME NEW w \in Workers
      PROVE  (IF w < call.team
              THEN BlockBegin(call.trip, call.team, w) ELSE steal_cursor[w]) \in Places
  BY BlockInPlaces DEF Ranges, ClaimType
<1>3. steal_cursor' \in [Workers -> Places]
  BY <1>1, <1>2
<1> QED BY <1>1, <1>3 DEF Ranges, CallType, ClaimType, RanType

LEMMA RunInlineRanges == ASSUME Ranges, RunInline PROVE Ranges'
<1>1. ran' = [i \in Indices |-> ran[i] + (IF i < call.trip THEN 1 ELSE 0)]
  BY DEF RunInline
<1>2. ASSUME NEW i \in Indices
      PROVE  ran[i] + (IF i < call.trip THEN 1 ELSE 0) \in Nat
  BY DEF Ranges, RanType
<1>3. RanType'
  BY <1>1, <1>2 DEF RanType
<1>4. CallType' /\ ClaimType'
  BY DEF RunInline, Ranges, CallType, ClaimType, cursorVars, claimVars
<1> QED BY <1>3, <1>4 DEF Ranges

LEMMA RangesAlone ==
  ASSUME Ranges, call' = call, UNCHANGED <<cursorVars, victim, claimVars, ran>>
  PROVE  Ranges'
  BY DEF Ranges, CallType, ClaimType, RanType, cursorVars, claimVars

LEMMA CallerRanges ==
  ASSUME Ranges,
         \/ Submit \/ RanWithin \/ TestJoin \/ Sleep \/ SpuriousCaller \/ Return
         \/ Shutdown \/ Close \/ Wake
  PROVE  Ranges'
<1>1. call' = call /\ UNCHANGED <<cursorVars, victim, claimVars, ran>>
  BY DEF Submit, RanWithin, TestJoin, Sleep, SpuriousCaller, Return, Shutdown, Close, Wake,
     historyVars
<1> QED BY <1>1, RangesAlone

-----------------------------------------------------------------------------
(* The claims.                                                             *)

\* A callback claims iterations of the call.
LEMMA ClaimRanges ==
  ASSUME Ranges, NEW w \in Workers, NEW from \in Places, NEW to \in Places,
         Claim(w, from, to), OnlyRuns,
         next' \in Nat, steal_cursor' \in [Workers -> Places],
         victim' \in [Workers -> 0 .. MaxTeam]
  PROVE  Ranges'
  BY DEF Ranges, CallType, ClaimType, RanType, Claim, OnlyRuns, callerVars, historyVars

LEMMA NoClaimRanges ==
  ASSUME Ranges, UNCHANGED claimVars, OnlyRuns,
         next' \in Nat, steal_cursor' \in [Workers -> Places],
         victim' \in [Workers -> 0 .. MaxTeam]
  PROVE  Ranges'
  BY DEF Ranges, CallType, ClaimType, RanType, OnlyRuns, callerVars, historyVars, claimVars

LEMMA ChunkPositive == ASSUME CallType PROVE ChunkSize \in Nat \ {0}
  BY CallFields DEF ChunkSize

LEMMA StaticRanges ==
  ASSUME Account, Ranges, NEW w \in Workers, RunStatic(w) PROVE Ranges'
<1>1. w < call.team
  <2>1. mpc \in Sharing /\ tpc[w] # "none"
    BY DEF RunStatic, Account, JobOnStack, Sharing
  <2> QED BY <2>1, AllInTeam, CallFields DEF Ranges, Busy, Team, Workers
<1>2. /\ BlockBegin(call.trip, call.team, w) \in Places
      /\ BlockEnd(call.trip, call.team, w) \in Places
  BY <1>1, BlockInPlaces DEF Ranges
<1>3. /\ Claim(w, BlockBegin(call.trip, call.team, w), BlockEnd(call.trip, call.team, w))
      /\ OnlyRuns /\ next' = next /\ steal_cursor' = steal_cursor /\ victim' = victim
  BY DEF RunStatic, cursorVars
<1> QED BY <1>2, <1>3, ClaimRanges DEF Ranges, ClaimType

LEMMA DynamicRanges ==
  ASSUME Ranges, NEW w \in Workers, ClaimDynamic(w) PROVE Ranges'
<1>1. /\ next' = next + ChunkSize /\ steal_cursor' = steal_cursor /\ victim' = victim
      /\ OnlyRuns
  BY DEF ClaimDynamic
<1>2. next \in Nat /\ ChunkSize \in Nat /\ next' \in Nat
  BY <1>1, ChunkPositive DEF Ranges, ClaimType
<1>3. CASE next >= call.trip
  <2>1. UNCHANGED claimVars
    BY <1>3 DEF ClaimDynamic, ClaimNothing
  <2> QED BY <1>1, <1>2, <2>1, NoClaimRanges DEF Ranges, ClaimType
<1>4. CASE ~ (next >= call.trip)
  <2>1. Claim(w, next, AtMost(next + ChunkSize, call.trip))
    BY <1>4 DEF ClaimDynamic
  <2>2. next \in Places /\ AtMost(next + ChunkSize, call.trip) \in Places
    BY <1>2, <1>4, CallFields, WinPoolAssumption DEF Ranges, AtMost, Places
  <2> QED BY <1>1, <1>2, <2>1, <2>2, ClaimRanges DEF Ranges, ClaimType
<1> QED BY <1>3, <1>4

\* A share of what is left of the iterations is not more than that.
LEMMA ShareOfRest ==
  ASSUME NEW n \in Nat \ {0}, NEW t \in Nat \ {0} PROVE n \div t \in Nat /\ n \div t <= n
<1>1. n \div t \in Nat /\ n % t \in 0 .. (t - 1) /\ n = t * (n \div t) + (n % t)
  BY DivMod
<1> DEFINE q == n \div t
<1>2. t * q >= q
  <2>1. t - 1 \in Nat /\ q \in Nat
    BY <1>1
  <2>2. (t - 1) * q \in Nat /\ t * q = (t - 1) * q + q
    BY <2>1
  <2> HIDE DEF q
  <2> QED BY <2>1, <2>2
<1> HIDE DEF q
<1>3. q \in Nat /\ n % t \in Nat /\ n = t * q + (n % t)
  BY <1>1 DEF q
<1>4. t * q \in Nat
  BY <1>3
<1> QED BY <1>2, <1>3, <1>4 DEF q

LEMMA GuidedRanges ==
  ASSUME Ranges, NEW w \in Workers, ClaimGuided(w) PROVE Ranges'
<1>1. steal_cursor' = steal_cursor /\ victim' = victim /\ OnlyRuns /\ next \in Nat
  BY DEF ClaimGuided, Ranges, ClaimType
<1>2. CASE next >= call.trip
  <2>1. UNCHANGED claimVars /\ next' = next
    BY <1>2 DEF ClaimGuided, ClaimNothing
  <2> QED BY <1>1, <2>1, NoClaimRanges DEF Ranges, ClaimType
<1>3. CASE ~ (next >= call.trip)
  <2>1. Claim(w, next, next + GuidedChunk) /\ next' = next + GuidedChunk
    BY <1>3 DEF ClaimGuided
  <2>2. GuidedChunk \in Nat /\ next + GuidedChunk <= call.trip
    <3>1. call.trip - next \in Nat \ {0} /\ call.team \in Nat \ {0} /\ call.trip \in Nat
      BY <1>1, <1>3, CallFields DEF Ranges
    <3> DEFINE share == (call.trip - next) \div call.team
    <3>2. share \in Nat /\ share <= call.trip - next
      BY <3>1, ShareOfRest
    <3> HIDE DEF share
    <3>3. GuidedChunk = IF share < 1 THEN 1 ELSE share
      BY DEF GuidedChunk, share
    <3> QED BY <1>1, <3>1, <3>2, <3>3
  <2>3. next \in Places /\ next + GuidedChunk \in Places
    BY <1>1, <1>3, <2>2, CallFields, WinPoolAssumption DEF Ranges, Places
  <2>4. next' \in Nat
    BY <2>1, <2>3 DEF Places
  <2> QED BY <1>1, <2>1, <2>3, <2>4, ClaimRanges DEF Ranges, ClaimType
<1> QED BY <1>2, <1>3

LEMMA StealClaimRanges ==
  ASSUME Ranges, NEW w \in Workers, NEW v \in Workers, v < call.team, NEW pc,
         StealClaim(w, v, pc), victim' \in [Workers -> 0 .. MaxTeam]
  PROVE  Ranges'
<1>1. next' = next /\ OnlyRuns /\ next \in Nat
  BY DEF StealClaim, Ranges, ClaimType
<1>2. CASE steal_cursor[v] >= StealEnd(v)
  <2>1. UNCHANGED claimVars /\ steal_cursor' = steal_cursor
    BY <1>2 DEF StealClaim, ClaimNothing
  <2> QED BY <1>1, <2>1, NoClaimRanges DEF Ranges, ClaimType
<1>3. CASE ~ (steal_cursor[v] >= StealEnd(v))
  <2> DEFINE to == AtMost(steal_cursor[v] + ChunkSize, StealEnd(v))
  <2>1. /\ Claim(w, steal_cursor[v], to)
        /\ steal_cursor' = [steal_cursor EXCEPT ![v] = to]
    BY <1>3 DEF StealClaim
  <2>2. steal_cursor[v] \in Places /\ StealEnd(v) \in Places /\ ChunkSize \in Nat
    BY BlockInPlaces, ChunkPositive DEF Ranges, ClaimType, StealEnd
  <2>3. to \in Places
    BY <2>2, WinPoolAssumption DEF AtMost, Places
  <2> HIDE DEF to
  <2>4. steal_cursor' \in [Workers -> Places]
    BY <2>1, <2>3 DEF Ranges, ClaimType
  <2> QED BY <1>1, <2>1, <2>2, <2>3, <2>4, ClaimRanges
<1> QED BY <1>2, <1>3

LEMMA StealRanges ==
  ASSUME Account, Ranges, NEW w \in Workers, StealOwn(w) \/ StealFrom(w) PROVE Ranges'
<1>1. w < call.team
  <2>1. mpc \in Sharing /\ tpc[w] # "none"
    BY DEF StealOwn, StealFrom, Account, JobOnStack, Sharing
  <2> QED BY <2>1, AllInTeam, CallFields DEF Ranges, Busy, Team, Workers
<1>2. CASE StealOwn(w)
  <2>1. StealClaim(w, w, "scan") /\ victim' = [victim EXCEPT ![w] = 0]
    BY <1>2 DEF StealOwn
  <2>2. victim' \in [Workers -> 0 .. MaxTeam]
    <3>1. 0 \in 0 .. MaxTeam
      BY WinPoolAssumption
    <3> QED BY <2>1, <3>1 DEF Ranges, ClaimType
  <2> QED BY <1>1, <2>1, <2>2, StealClaimRanges
<1>3. CASE StealFrom(w)
  <2>1. victim[w] \in 0 .. MaxTeam
    BY DEF Ranges, ClaimType
  <2>2. CASE victim[w] < call.team
    <3>1. victim' = [victim EXCEPT ![w] = victim[w] + 1]
      BY <1>3, <2>1, <2>2, CallFields DEF StealFrom, Ranges
    <3>2. victim[w] \in Workers /\ victim[w] + 1 \in 0 .. MaxTeam
      BY <2>1, <2>2, CallFields, WinPoolAssumption DEF Ranges, Workers
    <3>3. victim' \in [Workers -> 0 .. MaxTeam]
      BY <3>1, <3>2 DEF Ranges, ClaimType
    <3>4. CASE StealClaim(w, victim[w], "scan")
      BY <2>2, <3>2, <3>3, <3>4, StealClaimRanges
    <3>5. CASE UNCHANGED <<tpc, cursorVars, claimVars>> /\ OnlyRuns
      BY <3>3, <3>5, NoClaimRanges DEF Ranges, ClaimType, cursorVars
    <3> QED BY <1>3, <2>1, <2>2, <3>4, <3>5, CallFields DEF StealFrom, Ranges
  <2>3. CASE ~ (victim[w] < call.team)
    <3>1. UNCHANGED <<cursorVars, victim, claimVars>> /\ OnlyRuns
      BY <1>3, <2>3 DEF StealFrom
    <3> QED BY <3>1, NoClaimRanges DEF Ranges, ClaimType, cursorVars
  <2> QED BY <2>2, <2>3
<1> QED BY <1>2, <1>3

LEMMA RunBodyRanges == ASSUME Ranges, NEW w \in Workers, RunBody(w) PROVE Ranges'
<1>1. ran' = [i \in Indices |-> ran[i] + (IF begin[w] <= i /\ i < end[w] THEN 1 ELSE 0)]
  BY DEF RunBody
<1>2. ASSUME NEW i \in Indices
      PROVE  ran[i] + (IF begin[w] <= i /\ i < end[w] THEN 1 ELSE 0) \in Nat
  BY DEF Ranges, RanType
<1>3. RanType'
  BY <1>1, <1>2 DEF RanType
<1>4. CallType' /\ ClaimType'
  BY DEF RunBody, Ranges, CallType, ClaimType, callerVars, cursorVars, claimVars
<1> QED BY <1>3, <1>4 DEF Ranges

LEMMA CallbackRanges ==
  ASSUME Account, Ranges, NEW w \in Workers, Callback(w) PROVE Ranges'
<1>1. CASE CheckDrained(w)
  <2>1. UNCHANGED <<cursorVars, victim, claimVars>> /\ OnlyRuns
    BY <1>1 DEF CheckDrained
  <2> QED BY <2>1, NoClaimRanges DEF Ranges, ClaimType, cursorVars
<1>2. CASE Finish(w)
  <2>1. call' = call /\ UNCHANGED <<cursorVars, victim, claimVars, ran>>
    BY <1>2 DEF Finish, callerVars, historyVars
  <2> QED BY <2>1, RangesAlone
<1> QED BY <1>1, <1>2, StaticRanges, DynamicRanges, GuidedRanges, StealRanges, RunBodyRanges
        DEF Callback

LEMMA NextRanges == Account /\ Ranges /\ [Next]_vars => Ranges'
<1> SUFFICES ASSUME Account, Ranges, [Next]_vars PROVE Ranges'
  OBVIOUS
<1>1. CASE UNCHANGED vars
  <2>1. call' = call /\ UNCHANGED <<cursorVars, victim, claimVars, ran>>
    BY <1>1 DEF vars, callerVars, historyVars
  <2> QED BY <2>1, RangesAlone
<1>2. ASSUME NEW w \in Workers, Callback(w) PROVE Ranges'
  BY <1>2, CallbackRanges
<1> QED BY <1>1, <1>2, ForkJoinRanges, InitPoolRanges, RunInlineRanges, CallerRanges
        DEF Next, CallerStep

LEMMA TypesFromRanges == Account /\ Ranges => TypeOK
<1> SUFFICES ASSUME Account, Ranges PROVE TypeOK
  OBVIOUS
<1>1. waking \in 0 .. MaxCalls
  BY WinPoolAssumption DEF Account, AccountType, OneWakeUp
<1> QED BY <1>1 DEF Account, AccountType, Ranges, CallType, ClaimType, RanType, Kinds, Places,
        TypeOK

\* The types of the pool: the counters stay within the team, one wake-up for
\* each call, and no claim passes the iterations of the call.
THEOREM WinPoolTyped == Spec => []TypeOK
<1>1. Init => Account /\ Ranges
  BY InitAccount, InitRanges
<1>2. Account /\ Ranges /\ [Next]_vars => (Account /\ Ranges)'
  BY NextAccount, NextRanges
<1>3. Account /\ Ranges => TypeOK
  BY TypesFromRanges
<1> QED BY <1>1, <1>2, <1>3, PTL DEF Spec

-----------------------------------------------------------------------------
(* The Windows pool implements the abstract fork-join: every iteration of  *)
(* a call runs exactly once, whichever schedule shares them out, and the   *)
(* call returns after all of them, for every team, trip, chunk and number  *)
(* of calls.                                                               *)
(*                                                                         *)
(* The argument is that of ParPoolProofs, with what differs here: the      *)
(* callbacks are created one by one while others already claim, so the     *)
(* block of one that is still to come counts as unclaimed; the counter of  *)
(* the dynamic schedule runs past the trip; and the caller learns that all *)
(* are through from jobs_remaining alone.                                  *)

First(v) == BlockBegin(call.trip, call.team, v)
Spent(v) == steal_cursor[v] >= StealEnd(v)

\* Worker v has not begun its own block.
ToRun(v) == v >= submitted \/ tpc[v] = "run"

StaticRest(i) == \E v \in Team : First(v) <= i /\ i < StealEnd(v) /\ ToRun(v)
StealRest(i)  == \E v \in Team : steal_cursor[v] <= i /\ i < StealEnd(v)
SharedRest(i) == next <= i /\ i < call.trip

Rest(i) == \/ call.schedule = "static" /\ StaticRest(i)
           \/ call.schedule = "steal" /\ StealRest(i)
           \/ call.schedule \in {"dynamic", "guided"} /\ SharedRest(i)

Claimed(w, i) == tpc[w] = "body" /\ begin[w] <= i /\ i < end[w]

Zeroed == mpc \in {"inline", "init"} => \A i \in Indices : ran[i] = 0

Allotted ==
  mpc \in Sharing /\ call.schedule = "steal" =>
    \A v \in Team : First(v) <= steal_cursor[v] /\ steal_cursor[v] <= StealEnd(v)

Handed(i) ==
  /\ ran[i] \in {0, 1}
  /\ ran[i] = 1 => i < call.trip
  /\ i < call.trip => ran[i] = 1 \/ Rest(i) \/ \E w \in Workers : Claimed(w, i)
  /\ Rest(i) => i < call.trip /\ ran[i] = 0 /\ \A w \in Workers : ~Claimed(w, i)
  /\ \A w \in Workers : Claimed(w, i) =>
       i < call.trip /\ ran[i] = 0 /\ \A v \in Workers : Claimed(v, i) => v = w

HandedOut == mpc \in Sharing => \A i \in Indices : Handed(i)

NothingLeft == /\ call.schedule = "steal" => \A v \in Team : Spent(v)
               /\ call.schedule \in {"dynamic", "guided"} => next >= call.trip

Exhausted ==
  mpc \in Sharing =>
    \A w \in Team : w < submitted /\ tpc[w] \in {"finish", "none"} => NothingLeft

Scanned ==
  \A w \in Workers :
    /\ tpc[w] = "scan" =>
         /\ call.schedule = "steal" /\ Spent(w)
         /\ \A v \in Team : v < victim[w] => Spent(v)
    /\ tpc[w] = "check" => call.schedule = "steal" /\ \A v \in Team : Spent(v)

AllRan == mpc = "return" => \A i \in Indices : i < call.trip => ran[i] = 1

Once == Zeroed /\ Allotted /\ HandedOut /\ Exhausted /\ Scanned /\ AllRan
Known == Account /\ Ranges

-----------------------------------------------------------------------------
(* The call and its blocks.                                                *)

LEMMA CallTeam ==
  ASSUME Known
  PROVE  /\ Team = 0 .. (call.team - 1) /\ Team \subseteq Workers /\ 0 \in Team
         /\ call.team \in Nat \ {0} /\ call.trip \in Nat
         /\ call.schedule \in Kinds /\ ChunkSize \in Nat \ {0}
<1>1. /\ call.team \in Nat \ {0} /\ call.team <= MaxTeam
      /\ call.trip \in Nat /\ call.schedule \in Kinds /\ ChunkSize \in Nat \ {0}
  BY CallFields, ChunkPositive DEF Known, Ranges
<1> QED BY <1>1, WinPoolAssumption DEF Team, Workers

\* The blocks of the team lie in the trip, share no index and leave none out.
LEMMA TeamBlocks ==
  ASSUME Known
  PROVE  /\ \A v \in Team : /\ First(v) \in Nat /\ StealEnd(v) \in Nat
                            /\ First(v) <= StealEnd(v) /\ StealEnd(v) <= call.trip
         /\ \A u, v \in Team : \A i \in Nat :
              First(u) <= i /\ i < StealEnd(u) /\ First(v) <= i /\ i < StealEnd(v) => u = v
         /\ \A i \in Nat : i < call.trip =>
              \E v \in Team : First(v) <= i /\ i < StealEnd(v)
BY CallTeam, BlocksCover DEF First, StealEnd

\* A callback runs for the call that waits, and is one of its team.
LEMMA Runs ==
  ASSUME Known, NEW w \in Workers, tpc[w] # "none"
  PROVE  mpc \in Sharing /\ w \in Team /\ w < submitted
<1>1. mpc \in Sharing
  BY DEF Known, Account, JobOnStack, Sharing
<1>2. w \in Team
  BY <1>1, AllInTeam DEF Known, Busy
<1> QED BY <1>1, <1>2 DEF Known, Account, Submitted

-----------------------------------------------------------------------------
(* One iteration in one step of the job.                                   *)

LEMMA IndexKept ==
  ASSUME NEW i, Handed(i), call' = call, ran'[i] = ran[i],
         Rest(i)' <=> Rest(i),
         \A w \in Workers : Claimed(w, i)' <=> Claimed(w, i)
  PROVE  Handed(i)'
BY DEF Handed

\* Worker w takes the iteration, or nothing of it changes.
LEMMA IndexTaken ==
  ASSUME NEW i, Handed(i), call' = call, ran'[i] = ran[i],
         NEW w \in Workers, ~Claimed(w, i),
         \A v \in Workers \ {w} : Claimed(v, i)' <=> Claimed(v, i),
         Claimed(w, i)' => Rest(i) /\ ~Rest(i)',
         ~Claimed(w, i)' => (Rest(i)' <=> Rest(i))
  PROVE  Handed(i)'
BY DEF Handed

\* Worker w runs what it claimed.
LEMMA IndexRun ==
  ASSUME NEW i, Handed(i), call' = call,
         NEW w \in Workers,
         ran'[i] = ran[i] + (IF Claimed(w, i) THEN 1 ELSE 0),
         ~Claimed(w, i)',
         \A v \in Workers \ {w} : Claimed(v, i)' <=> Claimed(v, i),
         Rest(i)' <=> Rest(i)
  PROVE  Handed(i)'
BY DEF Handed

-----------------------------------------------------------------------------
(* The two kinds of steps of a callback.                                   *)

\* What the callbacks leave alone.
InJob == UNCHANGED <<mpc, call, submitted>>

\* Callback w goes on at pc and claims nothing. The shared counter may move when
\* it is past the trip.
LEMMA MoveOnce ==
  ASSUME Known, Once, NEW w \in Workers, NEW pc, tpc[w] \notin {"none", "body"},
         tpc' = [tpc EXCEPT ![w] = pc], pc # "body",
         call.schedule = "static" => (tpc[w] = "run" <=> pc = "run"),
         InJob, UNCHANGED <<steal_cursor, claimVars, ran>>,
         next' = next \/ (next >= call.trip /\ next' >= call.trip /\ next' \in Nat),
         \A v \in Workers \ {w} : victim'[v] = victim[v],
         pc \in {"finish", "none"} => tpc[w] = "finish" \/ NothingLeft',
         pc = "scan" => /\ call.schedule = "steal" /\ Spent(w)
                        /\ \A v \in Team : v < victim'[w] => Spent(v),
         pc = "check" => call.schedule = "steal" /\ \A v \in Team : Spent(v)
  PROVE  Once'
<1>1. /\ tpc \in [Workers -> CallbackPC] /\ Team' = Team /\ Team \subseteq Workers
      /\ next \in Nat /\ call.trip \in Nat
      /\ mpc \in Sharing /\ w \in Team /\ w < submitted
  BY CallTeam, Runs DEF Known, Account, AccountType, InJob, Team, Ranges, ClaimType
<1>2. UNCHANGED <<mpc, call, submitted, steal_cursor, begin, end, ran>>
  BY DEF InJob, claimVars
<1>3. \A v \in Team : Spent(v)' <=> Spent(v)
  BY <1>2 DEF Spent, StealEnd
<1>4. NothingLeft => NothingLeft'
  BY <1>1, <1>2, <1>3 DEF NothingLeft
<1>5. ASSUME NEW i \in Indices PROVE Handed(i)'
  <2>1. call.schedule = "static" => (StaticRest(i)' <=> StaticRest(i))
    BY <1>1, <1>2 DEF StaticRest, ToRun, First, StealEnd
  <2>2. StealRest(i)' <=> StealRest(i)
    BY <1>1, <1>2 DEF StealRest, StealEnd
  <2>3. SharedRest(i)' <=> SharedRest(i)
    BY <1>1, <1>2 DEF SharedRest, Indices
  <2>4. \A v \in Workers : Claimed(v, i)' <=> Claimed(v, i)
    BY <1>1, <1>2 DEF Claimed
  <2>5. Handed(i)
    BY <1>1 DEF Once, HandedOut
  <2> QED BY <1>2, <2>1, <2>2, <2>3, <2>4, <2>5, IndexKept DEF Rest
<1>6. Exhausted'
  BY <1>1, <1>2, <1>4 DEF Once, Exhausted
<1>7. Scanned'
  BY <1>1, <1>2, <1>3 DEF Once, Scanned, Spent, StealEnd
<1>8. Zeroed' /\ AllRan' /\ Allotted'
  BY <1>1, <1>2 DEF Once, Zeroed, AllRan, Allotted, First, StealEnd
<1> QED BY <1>5, <1>6, <1>7, <1>8 DEF Once, HandedOut

\* Callback w claims a range of iterations nobody claimed.
LEMMA ClaimOnce ==
  ASSUME Known, Once, NEW w \in Workers, NEW from, NEW to,
         tpc[w] \in {"run", "scan"}, Claim(w, from, to), InJob, ran' = ran,
         \A v \in Workers \ {w} : victim'[v] = victim[v],
         \A i \in Indices : from <= i /\ i < to => Rest(i) /\ ~Rest(i)',
         \A i \in Indices : ~(from <= i /\ i < to) => (Rest(i)' <=> Rest(i)),
         Allotted', NothingLeft => NothingLeft',
         call.schedule = "steal" => \A v \in Team : Spent(v) => Spent(v)'
  PROVE  Once'
<1>1. /\ tpc \in [Workers -> CallbackPC] /\ Team' = Team /\ Team \subseteq Workers
      /\ begin \in [Workers -> Places] /\ end \in [Workers -> Places]
      /\ mpc \in Sharing
  BY CallTeam, Runs DEF Known, Account, AccountType, InJob, Team, Ranges, ClaimType
<1>2. /\ UNCHANGED <<mpc, call, submitted>>
      /\ tpc' = [tpc EXCEPT ![w] = "body"]
      /\ begin' = [begin EXCEPT ![w] = from] /\ end' = [end EXCEPT ![w] = to]
  BY DEF InJob, Claim, Goto
<1>3. ASSUME NEW i \in Indices PROVE Handed(i)'
  <2>1. ~Claimed(w, i) /\ (Claimed(w, i)' <=> from <= i /\ i < to)
    BY <1>1, <1>2 DEF Claimed
  <2>2. \A v \in Workers \ {w} : Claimed(v, i)' <=> Claimed(v, i)
    BY <1>1, <1>2 DEF Claimed
  <2>3. Handed(i)
    BY <1>1 DEF Once, HandedOut
  <2> QED BY <1>2, <2>1, <2>2, <2>3, IndexTaken
<1>4. \A v \in Workers : tpc'[v] # "body" => v # w /\ tpc'[v] = tpc[v]
  BY <1>1, <1>2
<1>5. Exhausted'
  BY <1>1, <1>2, <1>4 DEF Once, Exhausted
<1>6. ASSUME NEW v \in Workers
      PROVE  /\ tpc'[v] = "scan" =>
                  /\ call'.schedule = "steal" /\ Spent(v)'
                  /\ \A u \in Team' : u < victim'[v] => Spent(u)'
             /\ tpc'[v] = "check" => call'.schedule = "steal" /\ \A u \in Team' : Spent(u)'
  <2>1. tpc'[v] \in {"scan", "check"} =>
          /\ victim'[v] = victim[v] /\ tpc'[v] = tpc[v] /\ v \in Team
    BY <1>4, Runs
  <2> QED BY <1>1, <1>2, <2>1 DEF Once, Scanned
<1>7. Scanned'
  BY <1>6 DEF Scanned
<1>8. Zeroed' /\ AllRan'
  BY <1>2 DEF Once, Zeroed, AllRan, Sharing
<1> QED BY <1>3, <1>5, <1>7, <1>8 DEF Once, HandedOut

\* The iterations a callback claimed run, each for the first time.
LEMMA BodyOnce ==
  ASSUME Known, Once, NEW w \in Workers, RunBody(w) PROVE Once'
<1>1. /\ tpc[w] = "body" /\ mpc \in Sharing /\ w < submitted /\ w \in Team
      /\ tpc \in [Workers -> CallbackPC] /\ Team \subseteq Workers
      /\ call.schedule \in Kinds
  BY Runs, CallTeam DEF RunBody, Known, Account, AccountType
<1>2. /\ UNCHANGED <<mpc, call, submitted, next, steal_cursor, begin, end, victim>>
      /\ Team' = Team
  BY DEF RunBody, callerVars, cursorVars, claimVars, Team
<1>3. PICK pc \in {"finish", "run"} :
        tpc' = [tpc EXCEPT ![w] = pc] /\ (pc = "finish" <=> call.schedule = "static")
  BY DEF RunBody, Goto
<1>4. ASSUME NEW i \in Indices PROVE Handed(i)'
  <2>1. ran'[i] = ran[i] + (IF Claimed(w, i) THEN 1 ELSE 0)
    BY <1>1 DEF RunBody, Claimed
  <2>2. call.schedule = "static" => (StaticRest(i)' <=> StaticRest(i))
    BY <1>1, <1>2, <1>3 DEF StaticRest, ToRun, First, StealEnd
  <2>3. Rest(i)' <=> Rest(i)
    BY <1>2, <2>2 DEF Rest, StealRest, StealEnd, SharedRest
  <2>4. ~Claimed(w, i)' /\ \A v \in Workers \ {w} : Claimed(v, i)' <=> Claimed(v, i)
    BY <1>1, <1>2, <1>3 DEF Claimed
  <2>5. Handed(i)
    BY <1>1 DEF Once, HandedOut
  <2> QED BY <1>2, <2>1, <2>3, <2>4, <2>5, IndexRun
<1>5. Allotted'
  BY <1>1, <1>2 DEF Once, Allotted, First, StealEnd
<1>6. Exhausted'
  BY <1>1, <1>2, <1>3 DEF Once, Exhausted, NothingLeft, Spent, StealEnd
<1>7. Scanned'
  BY <1>1, <1>2, <1>3 DEF Once, Scanned, Spent, StealEnd
<1>8. Zeroed' /\ AllRan'
  BY <1>1, <1>2 DEF Zeroed, AllRan, Sharing
<1> QED BY <1>4, <1>5, <1>6, <1>7, <1>8 DEF Once, HandedOut

-----------------------------------------------------------------------------
(* The callbacks' claims.                                                  *)

LEMMA StaticOnce ==
  ASSUME Known, Once, NEW w \in Workers, RunStatic(w) PROVE Once'
<1>1. /\ tpc[w] = "run" /\ mpc \in Sharing /\ call.schedule = "static"
      /\ w \in Team /\ w < submitted /\ submitted \in Nat
      /\ tpc \in [Workers -> CallbackPC] /\ Team \subseteq Workers
  BY Runs, CallTeam DEF RunStatic, Known, Account, AccountType
<1>2. /\ Claim(w, First(w), StealEnd(w)) /\ InJob /\ UNCHANGED <<cursorVars, victim, ran>>
  BY DEF RunStatic, OnlyRuns, InJob, callerVars, historyVars, First, StealEnd
<1>3. /\ tpc' = [tpc EXCEPT ![w] = "body"] /\ Team' = Team
      /\ UNCHANGED <<mpc, call, submitted, steal_cursor, next>>
  BY <1>2 DEF Claim, Goto, InJob, cursorVars, Team
<1>4. \A i : /\ Rest(i) <=> StaticRest(i)
             /\ Rest(i)' <=> StaticRest(i)'
  BY <1>1, <1>3 DEF Rest
<1>5. ASSUME NEW i \in Indices, First(w) <= i, i < StealEnd(w)
      PROVE  Rest(i) /\ ~Rest(i)'
  <2>1. StaticRest(i)
    BY <1>1, <1>5 DEF StaticRest, ToRun
  <2>2. ASSUME NEW v \in Team, First(v) <= i, i < StealEnd(v) PROVE v = w
    BY <1>1, <1>5, <2>2, TeamBlocks DEF Indices
  <2>3. ~ToRun(w)'
    BY <1>1, <1>3, WinPoolAssumption DEF ToRun, Workers
  <2>4. ~StaticRest(i)'
    BY <1>3, <2>2, <2>3 DEF StaticRest, First, StealEnd
  <2> QED BY <1>4, <2>1, <2>4
<1>6. ASSUME NEW i \in Indices, ~(First(w) <= i /\ i < StealEnd(w))
      PROVE  Rest(i)' <=> Rest(i)
  <2>1. StaticRest(i)' <=> StaticRest(i)
    BY <1>1, <1>3, <1>6 DEF StaticRest, ToRun, First, StealEnd
  <2> QED BY <1>4, <2>1
<1>7. Allotted' /\ (NothingLeft => NothingLeft')
  BY <1>1, <1>3 DEF Allotted, NothingLeft
<1> QED BY <1>1, <1>2, <1>5, <1>6, <1>7, ClaimOnce

\* A claim from the shared counter up to a later place in the trip, whatever the
\* counter is set to behind it.
LEMMA SharedOnce ==
  ASSUME Known, Once, call.schedule \in {"dynamic", "guided"}, NEW w \in Workers,
         tpc[w] = "run", next < call.trip, NEW to \in Nat, next < to, to <= call.trip,
         Claim(w, next, to), next' \in Nat,
         next' = to \/ (to = call.trip /\ next' >= to),
         UNCHANGED <<steal_cursor, victim>>, OnlyRuns
  PROVE  Once'
<1>1. InJob /\ ran' = ran /\ call' = call
  BY DEF OnlyRuns, InJob, callerVars, historyVars
<1>2. next \in Nat /\ call.trip \in Nat
  BY CallTeam DEF Known, Ranges, ClaimType
<1>3. \A i : /\ Rest(i) <=> SharedRest(i)
             /\ Rest(i)' <=> SharedRest(i)'
  BY <1>1 DEF Rest
<1>4. ASSUME NEW i \in Indices, next <= i, i < to PROVE Rest(i) /\ ~Rest(i)'
  BY <1>1, <1>2, <1>3, <1>4 DEF SharedRest, Indices
<1>5. ASSUME NEW i \in Indices, ~(next <= i /\ i < to) PROVE Rest(i)' <=> Rest(i)
  BY <1>1, <1>2, <1>3, <1>5 DEF SharedRest, Indices
<1>6. Allotted' /\ (NothingLeft => NothingLeft')
  BY <1>1, <1>2 DEF Allotted, NothingLeft
<1> QED BY <1>1, <1>2, <1>4, <1>5, <1>6, ClaimOnce

LEMMA DynamicOnce ==
  ASSUME Known, Once, NEW w \in Workers, ClaimDynamic(w) PROVE Once'
<1>1. /\ tpc[w] = "run" /\ call.schedule = "dynamic" /\ next' = next + ChunkSize
      /\ UNCHANGED <<steal_cursor, victim>> /\ OnlyRuns
  BY DEF ClaimDynamic
<1>2. next \in Nat /\ call.trip \in Nat /\ ChunkSize \in Nat \ {0}
  BY CallTeam DEF Known, Ranges, ClaimType
<1>3. CASE next >= call.trip
  <2>1. tpc' = [tpc EXCEPT ![w] = "finish"] /\ UNCHANGED claimVars
    BY <1>3 DEF ClaimDynamic, ClaimNothing, Goto
  <2>2. InJob /\ ran' = ran /\ call' = call
    BY <1>1 DEF OnlyRuns, InJob, callerVars, historyVars
  <2>3. next' >= call.trip /\ next' \in Nat
    BY <1>1, <1>2, <1>3
  <2>4. NothingLeft'
    BY <1>1, <2>2, <2>3 DEF NothingLeft
  <2> QED BY <1>1, <1>3, <2>1, <2>2, <2>3, <2>4, MoveOnce
<1>4. CASE next < call.trip
  <2> DEFINE to == AtMost(next + ChunkSize, call.trip)
  <2>1. Claim(w, next, to)
    BY <1>2, <1>4 DEF ClaimDynamic
  <2>2. /\ to \in Nat /\ next < to /\ to <= call.trip
        /\ next' \in Nat /\ (next' = to \/ (to = call.trip /\ next' >= to))
    BY <1>1, <1>2, <1>4 DEF AtMost
  <2> HIDE DEF to
  <2> QED BY <1>1, <1>4, <2>1, <2>2, SharedOnce
<1> QED BY <1>2, <1>3, <1>4

LEMMA GuidedOnce ==
  ASSUME Known, Once, NEW w \in Workers, ClaimGuided(w) PROVE Once'
<1>1. /\ tpc[w] = "run" /\ call.schedule = "guided"
      /\ UNCHANGED <<steal_cursor, victim>> /\ OnlyRuns
  BY DEF ClaimGuided
<1>2. next \in Nat /\ call.trip \in Nat /\ call.team \in Nat \ {0}
  BY CallTeam DEF Known, Ranges, ClaimType
<1>3. CASE next >= call.trip
  <2>1. tpc' = [tpc EXCEPT ![w] = "finish"] /\ UNCHANGED <<claimVars, next>>
    BY <1>3 DEF ClaimGuided, ClaimNothing, Goto
  <2>2. InJob /\ ran' = ran /\ call' = call
    BY <1>1 DEF OnlyRuns, InJob, callerVars, historyVars
  <2>3. NothingLeft'
    BY <1>1, <1>3, <2>1, <2>2 DEF NothingLeft
  <2> QED BY <1>1, <2>1, <2>2, <2>3, MoveOnce
<1>4. CASE next < call.trip
  <2> DEFINE share == (call.trip - next) \div call.team
             to == next + GuidedChunk
  <2>1. share \in Nat /\ share <= call.trip - next
    <3>1. call.trip - next \in Nat \ {0}
      BY <1>2, <1>4
    <3> QED BY <1>2, <3>1, ShareOfRest
  <2>2. GuidedChunk = IF share < 1 THEN 1 ELSE share
    BY DEF GuidedChunk
  <2> HIDE DEF share
  <2>3. to \in Nat /\ next < to /\ to <= call.trip
    BY <1>2, <1>4, <2>1, <2>2
  <2>4. Claim(w, next, to) /\ next' = to
    BY <1>2, <1>4 DEF ClaimGuided
  <2> HIDE DEF to
  <2> QED BY <1>1, <1>4, <2>3, <2>4, SharedOnce
<1> QED BY <1>2, <1>3, <1>4

\* A claim from the block of v. When it is spent, w scans on.
LEMMA StealClaimOnce ==
  ASSUME Known, Once, call.schedule = "steal", NEW w \in Workers,
         tpc[w] \in {"run", "scan"}, NEW v \in Team, StealClaim(w, v, "scan"),
         \A x \in Workers \ {w} : victim'[x] = victim[x],
         Spent(v) => /\ Spent(w)
                     /\ \A u \in Team : u < victim'[w] => Spent(u)
  PROVE  Once'
<1>1. InJob /\ ran' = ran /\ next' = next
  BY DEF StealClaim, OnlyRuns, InJob, callerVars, historyVars
<1>2. UNCHANGED <<mpc, call, submitted>> /\ Team' = Team
  BY <1>1 DEF InJob, Team
<1>3. /\ Team \subseteq Workers /\ steal_cursor \in [Workers -> Nat]
      /\ mpc \in Sharing /\ call.trip \in Nat
  <2>1. steal_cursor \in [Workers -> Places] /\ Places \subseteq Nat
    BY DEF Known, Ranges, ClaimType, Places
  <2> QED BY <2>1, CallTeam, Runs
<1>4. CASE Spent(v)
  <2>1. tpc' = [tpc EXCEPT ![w] = "scan"] /\ UNCHANGED <<claimVars, steal_cursor>>
    BY <1>4 DEF StealClaim, ClaimNothing, Goto, Spent
  <2> QED BY <1>1, <1>4, <2>1, MoveOnce
<1>5. CASE ~Spent(v)
  <2> DEFINE from == steal_cursor[v]
             to == AtMost(from + ChunkSize, StealEnd(v))
  <2>1. Claim(w, from, to) /\ steal_cursor' = [steal_cursor EXCEPT ![v] = to]
    BY <1>5 DEF StealClaim, Spent
  <2>2. \A u \in Team : First(u) \in Nat /\ StealEnd(u) \in Nat
    BY TeamBlocks
  <2>3. from \in Nat /\ to \in Nat /\ from < to /\ to <= StealEnd(v)
    <3>1. ChunkSize \in Nat \ {0}
      BY CallTeam
    <3> QED BY <1>3, <1>5, <2>2, <3>1 DEF AtMost, Spent
  <2> HIDE DEF to
  <2>4. \A u \in Team : First(u) <= steal_cursor[u] /\ steal_cursor[u] <= StealEnd(u)
    BY <1>3 DEF Once, Allotted
  <2>5. \A u : First(u)' = First(u) /\ StealEnd(u)' = StealEnd(u)
    BY <1>2 DEF First, StealEnd
  <2>6. \A i : /\ Rest(i) <=> StealRest(i)
               /\ Rest(i)' <=> StealRest(i)'
    BY <1>2 DEF Rest
  <2>7. ASSUME NEW i \in Indices, from <= i, i < to PROVE Rest(i) /\ ~Rest(i)'
    <3>1. i \in Nat /\ First(v) <= i /\ i < StealEnd(v)
      BY <1>3, <2>2, <2>3, <2>4, <2>7 DEF Indices
    <3>2. StealRest(i)
      BY <2>7, <3>1 DEF StealRest
    <3>3. ASSUME NEW u \in Team, steal_cursor'[u] <= i, i < StealEnd(u) PROVE FALSE
      <4>1. u # v
        BY <1>3, <2>1, <2>3, <2>7, <3>1, <3>3
      <4>2. First(u) <= i /\ i < StealEnd(u)
        BY <1>3, <2>1, <2>2, <2>4, <3>1, <3>3, <4>1
      <4> QED BY <3>1, <4>1, <4>2, TeamBlocks
    <3>4. ~StealRest(i)'
      BY <1>2, <2>5, <3>3 DEF StealRest
    <3> QED BY <2>6, <3>2, <3>4
  <2>8. ASSUME NEW i \in Indices, ~(from <= i /\ i < to) PROVE Rest(i)' <=> Rest(i)
    <3>1. ASSUME NEW u \in Team
          PROVE  (steal_cursor'[u] <= i /\ i < StealEnd(u))
                   <=> (steal_cursor[u] <= i /\ i < StealEnd(u))
      BY <1>3, <2>1, <2>2, <2>3, <2>8 DEF Indices
    <3>2. StealRest(i)' <=> StealRest(i)
      BY <1>2, <2>5, <3>1 DEF StealRest
    <3> QED BY <2>6, <3>2
  <2>9. Allotted'
    BY <1>2, <1>3, <2>1, <2>2, <2>3, <2>4, <2>5 DEF Allotted
  <2>10. \A u \in Team : Spent(u) => Spent(u)'
    BY <1>3, <1>5, <2>1, <2>5 DEF Spent
  <2>11. NothingLeft => NothingLeft'
    BY <1>2, <2>10 DEF NothingLeft
  <2> QED BY <1>1, <2>1, <2>7, <2>8, <2>9, <2>10, <2>11, ClaimOnce
<1> QED BY <1>4, <1>5

LEMMA StealOwnOnce ==
  ASSUME Known, Once, NEW w \in Workers, StealOwn(w) PROVE Once'
<1>1. /\ tpc[w] = "run" /\ call.schedule = "steal" /\ StealClaim(w, w, "scan")
      /\ victim' = [victim EXCEPT ![w] = 0]
  BY DEF StealOwn
<1>2. /\ victim'[w] = 0 /\ \A x \in Workers \ {w} : victim'[x] = victim[x]
  BY <1>1 DEF Known, Ranges, ClaimType
<1>3. w \in Team /\ \A u \in Team : ~(u < 0)
  BY <1>1, Runs, CallTeam
<1> QED BY <1>1, <1>2, <1>3, StealClaimOnce

LEMMA StealFromOnce ==
  ASSUME Known, Once, NEW w \in Workers, StealFrom(w) PROVE Once'
<1> DEFINE v == victim[w]
<1>1. /\ tpc[w] = "scan" /\ call.schedule = "steal" /\ Spent(w)
      /\ \A u \in Team : u < v => Spent(u)
  BY DEF StealFrom, Once, Scanned
<1>2. /\ Team = 0 .. (call.team - 1) /\ call.team \in Nat \ {0} /\ v \in Nat
      /\ victim \in [Workers -> 0 .. MaxTeam] /\ tpc \in [Workers -> CallbackPC]
  BY CallTeam DEF Known, Ranges, ClaimType, Account, AccountType
<1>3. CASE v < call.team
  <2>1. v \in Team
    BY <1>2, <1>3
  <2>2. victim' = [victim EXCEPT ![w] = v + 1]
    BY <1>2, <1>3 DEF StealFrom
  <2>3. victim'[w] = v + 1 /\ \A x \in Workers \ {w} : victim'[x] = victim[x]
    BY <1>2, <2>2
  <2>4. Spent(v) => \A u \in Team : u < victim'[w] => Spent(u)
    <3>1. \A u \in Team : u < v + 1 => u < v \/ u = v
      BY <1>2
    <3> QED BY <1>1, <2>3, <3>1
  <2>5. CASE v # w
    <3>1. StealClaim(w, v, "scan")
      BY <1>2, <1>3, <2>5 DEF StealFrom
    <3> HIDE DEF v
    <3> QED BY <1>1, <2>1, <2>3, <2>4, <3>1, StealClaimOnce
  <2>6. CASE v = w
    <3>1. tpc' = tpc /\ UNCHANGED <<cursorVars, claimVars>> /\ OnlyRuns
      BY <1>2, <1>3, <2>6 DEF StealFrom
    <3>2. tpc' = [tpc EXCEPT ![w] = "scan"]
      BY <1>1, <1>2, <3>1
    <3>3. InJob /\ UNCHANGED <<ran, next, steal_cursor, claimVars>>
      BY <3>1 DEF OnlyRuns, InJob, callerVars, historyVars, cursorVars
    <3> QED BY <1>1, <2>3, <2>4, <2>6, <3>2, <3>3, MoveOnce
  <2> QED BY <2>5, <2>6
<1>4. CASE ~(v < call.team)
  <2>1. /\ tpc' = [tpc EXCEPT ![w] = "check"]
        /\ UNCHANGED <<cursorVars, victim, claimVars>> /\ OnlyRuns
    BY <1>2, <1>4 DEF StealFrom, Goto
  <2>2. InJob /\ UNCHANGED <<ran, next, steal_cursor, claimVars>>
    BY <2>1 DEF OnlyRuns, InJob, callerVars, historyVars, cursorVars
  <2>3. \A u \in Team : Spent(u)
    BY <1>1, <1>2, <1>4
  <2> QED BY <1>1, <2>1, <2>2, <2>3, MoveOnce
<1> QED BY <1>3, <1>4

LEMMA CheckOnce ==
  ASSUME Known, Once, NEW w \in Workers, CheckDrained(w) PROVE Once'
<1>1. tpc[w] = "check" /\ call.schedule = "steal" /\ \A v \in Team : Spent(v)
  BY DEF CheckDrained, Once, Scanned
<1>2. PICK pc \in {"finish", "run"} : tpc' = [tpc EXCEPT ![w] = pc]
  BY DEF CheckDrained, Goto
<1>3. InJob /\ UNCHANGED <<ran, next, steal_cursor, claimVars, victim, call>> /\ Team' = Team
  BY DEF CheckDrained, OnlyRuns, InJob, callerVars, historyVars, cursorVars, Team
<1>4. NothingLeft'
  BY <1>1, <1>3 DEF NothingLeft, Spent, StealEnd
<1> QED BY <1>1, <1>2, <1>3, <1>4, MoveOnce

LEMMA FinishOnce ==
  ASSUME Known, Once, NEW w \in Workers, Finish(w) PROVE Once'
<1>1. tpc[w] = "finish" /\ tpc' = [tpc EXCEPT ![w] = "none"]
  BY DEF Finish, Goto
<1>2. InJob /\ UNCHANGED <<ran, next, steal_cursor, claimVars, victim>>
  BY DEF Finish, InJob, callerVars, historyVars, cursorVars
<1> QED BY <1>1, <1>2, MoveOnce

LEMMA CallbackOnce ==
  ASSUME Known, Once, NEW w \in Workers, Callback(w) PROVE Once'
BY StaticOnce, DynamicOnce, GuidedOnce, StealOwnOnce, StealFromOnce, CheckOnce, BodyOnce,
   FinishOnce DEF Callback

-----------------------------------------------------------------------------
(* The caller's steps.                                                     *)

\* The caller moves and changes nothing of the job.
LEMMA RestOnce ==
  ASSUME Once, UNCHANGED <<call, submitted, cursorVars, tpc, victim, claimVars, ran>>,
         mpc' \in Sharing => mpc \in Sharing,
         mpc' \in {"inline", "init"} => mpc' = mpc,
         AllRan'
  PROVE  Once'
<1>1. /\ UNCHANGED <<call, submitted, next, steal_cursor, tpc, victim, begin, end, ran>>
      /\ Team' = Team
  BY DEF cursorVars, claimVars, Team
<1>2. ASSUME NEW i \in Indices, Handed(i) PROVE Handed(i)'
  BY <1>1, <1>2, IndexKept DEF Claimed, Rest, StaticRest, StealRest, SharedRest, ToRun, First,
     StealEnd
<1>3. HandedOut'
  BY <1>2 DEF Once, HandedOut
<1>4. Zeroed' /\ Allotted' /\ Exhausted' /\ Scanned'
  BY <1>1 DEF Once, Zeroed, Allotted, First, StealEnd, Exhausted, NothingLeft, Scanned, Spent
<1> QED BY <1>3, <1>4 DEF Once

LEMMA QuietOnce ==
  ASSUME Once, RanWithin \/ Sleep \/ SpuriousCaller \/ Return \/ Shutdown \/ Close \/ Wake
  PROVE  Once'
<1>1. UNCHANGED <<call, submitted, cursorVars, tpc, victim, claimVars, ran>>
  BY DEF RanWithin, Sleep, SpuriousCaller, Return, Shutdown, Close, Wake, historyVars
<1>2. /\ mpc' \in Sharing => mpc \in Sharing
      /\ mpc' \in {"inline", "init", "return"} => mpc' = mpc
  BY DEF RanWithin, Sleep, SpuriousCaller, Return, Shutdown, Close, Wake, Sharing
<1>3. AllRan'
  BY <1>1, <1>2 DEF Once, AllRan
<1> QED BY <1>1, <1>2, <1>3, RestOnce

\* While no job is shared, no callback runs.
LEMMA NoneRuns ==
  ASSUME Known, mpc \notin Sharing PROVE \A w \in Workers : tpc[w] = "none"
BY DEF Known, Account, JobOnStack, Sharing

LEMMA ForkJoinOnce == ASSUME Known, Once, ForkJoin PROVE Once'
<1>1. /\ mpc = "idle" /\ mpc' \in {"inline", "init"} /\ tpc' = tpc
      /\ ran' = [i \in Indices |-> 0]
  BY DEF ForkJoin
<1>2. \A w \in Workers : tpc'[w] = "none"
  BY <1>1, NoneRuns DEF Sharing
<1> QED BY <1>1, <1>2 DEF Once, Zeroed, Allotted, HandedOut, Exhausted, Scanned, AllRan,
        Sharing

LEMMA RunInlineOnce == ASSUME Known, Once, RunInline PROVE Once'
<1>1. /\ mpc = "inline" /\ mpc' = "return" /\ tpc' = tpc /\ call' = call
      /\ ran' = [i \in Indices |-> ran[i] + (IF i < call.trip THEN 1 ELSE 0)]
  BY DEF RunInline
<1>2. \A w \in Workers : tpc'[w] = "none"
  BY <1>1, NoneRuns DEF Sharing
<1>3. AllRan'
  BY <1>1 DEF Once, Zeroed, AllRan
<1> QED BY <1>1, <1>2, <1>3 DEF Once, Zeroed, Allotted, HandedOut, Exhausted, Scanned, Sharing

\* The job is written: all iterations are unclaimed.
LEMMA InitPoolOnce == ASSUME Known, Once, InitPool PROVE Once'
<1>1. /\ mpc = "init" /\ mpc' = "submit" /\ submitted' = 0 /\ next' = 0
      /\ UNCHANGED <<call, tpc, ran>> /\ Team' = Team
      /\ steal_cursor' = [w \in Workers |-> IF w < call.team THEN First(w)
                                            ELSE steal_cursor[w]]
  BY DEF InitPool, historyVars, Team, First
<1>2. \A w \in Workers : tpc'[w] = "none"
  BY <1>1, NoneRuns DEF Sharing
<1>3. /\ Team = 0 .. (call.team - 1) /\ Team \subseteq Workers /\ call.trip \in Nat
      /\ call.team \in Nat \ {0} /\ call.schedule \in Kinds
  BY CallTeam
<1>4. \A v \in Team : steal_cursor'[v] = First(v) /\ ToRun(v)'
  BY <1>1, <1>3 DEF ToRun
<1>5. \A v : First(v)' = First(v) /\ StealEnd(v)' = StealEnd(v)
  BY <1>1 DEF First, StealEnd
<1>6. ASSUME NEW i \in Indices PROVE Rest(i)' <=> i < call.trip
  <2>1. i < call.trip <=> \E v \in Team : First(v) <= i /\ i < StealEnd(v)
    <3>1. i \in Nat
      BY DEF Indices
    <3>2. \A v \in Team : StealEnd(v) \in Nat /\ StealEnd(v) <= call.trip
      BY TeamBlocks
    <3>3. i < call.trip => \E v \in Team : First(v) <= i /\ i < StealEnd(v)
      BY <3>1, TeamBlocks
    <3> QED BY <1>3, <3>1, <3>2, <3>3
  <2>2. /\ StaticRest(i)' <=> \E v \in Team : First(v) <= i /\ i < StealEnd(v)
        /\ StealRest(i)' <=> \E v \in Team : First(v) <= i /\ i < StealEnd(v)
    BY <1>1, <1>4, <1>5 DEF StaticRest, StealRest
  <2>3. SharedRest(i)' <=> i < call.trip
    BY <1>1 DEF SharedRest, Indices
  <2> QED BY <1>1, <1>3, <2>1, <2>2, <2>3 DEF Rest, Kinds
<1>7. ASSUME NEW i \in Indices PROVE Handed(i)'
  <2>1. ran'[i] = 0
    BY <1>1 DEF Once, Zeroed
  <2>2. \A w \in Workers : ~Claimed(w, i)'
    BY <1>2 DEF Claimed
  <2> QED BY <1>1, <1>6, <2>1, <2>2 DEF Handed
<1>8. Allotted'
  <2>1. \A v \in Team : First(v) \in Nat /\ StealEnd(v) \in Nat /\ First(v) <= StealEnd(v)
    BY TeamBlocks
  <2> QED BY <1>1, <1>4, <1>5, <2>1 DEF Allotted
<1>9. Exhausted' /\ Scanned' /\ Zeroed' /\ AllRan'
  BY <1>1, <1>2, <1>3 DEF Exhausted, Scanned, Zeroed, AllRan
<1> QED BY <1>7, <1>8, <1>9 DEF Once, HandedOut

LEMMA SubmitOnce == ASSUME Known, Once, Submit PROVE Once'
<1>1. /\ mpc = "submit" /\ mpc \in Sharing /\ Team' = Team
      /\ UNCHANGED <<call, next, steal_cursor, victim, begin, end, ran>>
  BY DEF Submit, cursorVars, claimVars, historyVars, Sharing, Team
<1>2. CASE submitted = call.team /\ mpc' = "join" /\ UNCHANGED <<tpc, submitted>>
  <2>1. UNCHANGED <<call, submitted, cursorVars, tpc, victim, claimVars, ran>> /\ AllRan'
    BY <1>1, <1>2 DEF cursorVars, claimVars, AllRan
  <2> QED BY <1>1, <1>2, <2>1, RestOnce
<1>3. CASE submitted < call.team /\ Start(submitted) /\ mpc' \in {"submit", "within"}
  <2>1. /\ submitted \in Nat /\ submitted \in Team /\ Team \subseteq Workers
        /\ Team = 0 .. (call.team - 1) /\ tpc \in [Workers -> CallbackPC]
    BY <1>3, CallTeam DEF Known, Account, AccountType
  <2>2. /\ tpc' = [tpc EXCEPT ![submitted] = "run"] /\ submitted' = submitted + 1
        /\ mpc' \in Sharing
    BY <1>3 DEF Start, Sharing
  <2>3. tpc[submitted] = "none"
    BY <2>1, Runs
  <2>4. ASSUME NEW v \in Team PROVE ToRun(v)' <=> ToRun(v)
    BY <2>1, <2>2, <2>4 DEF ToRun
  <2>5. ASSUME NEW i \in Indices PROVE Handed(i)'
    <3>1. Rest(i)' <=> Rest(i)
      BY <1>1, <2>4 DEF Rest, StaticRest, StealRest, SharedRest, First, StealEnd
    <3>2. \A v \in Workers : Claimed(v, i)' <=> Claimed(v, i)
      BY <1>1, <2>1, <2>2, <2>3 DEF Claimed
    <3>3. Handed(i)
      BY <1>1 DEF Once, HandedOut
    <3> QED BY <1>1, <3>1, <3>2, <3>3, IndexKept
  <2>6. Exhausted'
    <3>1. NothingLeft' <=> NothingLeft
      BY <1>1 DEF NothingLeft, Spent, StealEnd
    <3>2. \A v \in Team : v < submitted' /\ tpc'[v] \in {"finish", "none"} =>
                            v < submitted /\ tpc[v] \in {"finish", "none"}
      BY <2>1, <2>2
    <3> QED BY <1>1, <3>1, <3>2 DEF Once, Exhausted
  <2>7. Scanned' /\ Allotted'
    BY <1>1, <2>1, <2>2 DEF Once, Scanned, Allotted, Spent, StealEnd, First
  <2>8. Zeroed' /\ AllRan'
    BY <1>3 DEF Zeroed, AllRan
  <2> QED BY <2>5, <2>6, <2>7, <2>8 DEF Once, HandedOut
<1> QED BY <1>2, <1>3 DEF Submit

\* When jobs_remaining is 0 every worker of the team is through.
LEMMA TestJoinOnce == ASSUME Known, Once, TestJoin PROVE Once'
<1>1. /\ mpc = "join" /\ mpc' \in {"tested", "return"}
      /\ UNCHANGED <<call, submitted, cursorVars, tpc, victim, claimVars, ran>>
  BY DEF TestJoin, historyVars
<1>2. ASSUME mpc' = "return", NEW i \in Indices, i < call.trip PROVE ran[i] = 1
  <2>1. /\ jobs_remaining = Cardinality(Busy) + (call.team - submitted)
        /\ submitted = call.team /\ ~(jobs_remaining > 0)
    BY <1>1, <1>2 DEF TestJoin, Unfinished, Known, Account, Accounted, Submitted, Sharing, Busy
  <2>2. Busy = {}
    BY <2>1, BusyFinite DEF Known, Account, AccountType
  <2>3. \A w \in Workers : tpc[w] = "none"
    BY <1>1, <2>2, AllInTeam DEF Known, Sharing
  <2>4. /\ 0 \in Team /\ Team \subseteq Workers /\ Team = 0 .. (call.team - 1)
        /\ call.schedule \in Kinds /\ call.trip \in Nat /\ call.team \in Nat \ {0}
    BY CallTeam
  <2>5. NothingLeft
    BY <1>1, <2>1, <2>3, <2>4 DEF Once, Exhausted, Sharing
  <2>6. ~StaticRest(i)
    BY <2>1, <2>3, <2>4 DEF StaticRest, ToRun
  <2>7. call.schedule = "steal" => ~StealRest(i)
    <3>1. \A v \in Team : steal_cursor[v] \in Nat
      BY <2>4 DEF Known, Ranges, ClaimType, Places
    <3>2. \A v \in Team : StealEnd(v) \in Nat
      BY TeamBlocks
    <3> QED BY <2>5, <3>1, <3>2 DEF NothingLeft, StealRest, Spent, Indices
  <2>8. call.schedule \in {"dynamic", "guided"} => ~SharedRest(i)
    BY <2>4, <2>5 DEF NothingLeft, SharedRest, Known, Ranges, ClaimType, Indices
  <2>9. ~Rest(i) /\ \A w \in Workers : ~Claimed(w, i)
    BY <2>3, <2>6, <2>7, <2>8 DEF Rest, Claimed
  <2> QED BY <1>1, <1>2, <2>9 DEF Once, HandedOut, Handed, Sharing
<1>3. AllRan'
  BY <1>1, <1>2 DEF AllRan
<1> QED BY <1>1, <1>3, RestOnce DEF Sharing

-----------------------------------------------------------------------------
(* The invariant holds, and the pool implements ForkJoin: phase is         *)
(* "running" from the call to the return, and the iterations of one body   *)
(* step are a set that did not run.                                        *)

LEMMA InitOnce == Init => Once
<1> SUFFICES ASSUME Init PROVE Once
  OBVIOUS
<1>1. mpc = "idle" /\ \A w \in Workers : tpc[w] = "none"
  BY DEF Init
<1> QED BY <1>1 DEF Once, Zeroed, Allotted, HandedOut, Exhausted, Scanned, AllRan, Sharing

LEMMA NextOnce == Known /\ Once /\ [Next]_vars => Once'
<1> SUFFICES ASSUME Known, Once, [Next]_vars PROVE Once'
  OBVIOUS
<1>1. CASE UNCHANGED vars
  <2>1. UNCHANGED <<mpc, call, submitted, cursorVars, tpc, victim, claimVars, ran>>
    BY <1>1 DEF vars, callerVars, historyVars
  <2>2. AllRan'
    BY <2>1 DEF Once, AllRan
  <2> QED BY <2>1, <2>2, RestOnce
<1>2. ASSUME NEW w \in Workers, Callback(w) PROVE Once'
  BY <1>2, CallbackOnce
<1> QED BY <1>1, <1>2, ForkJoinOnce, RunInlineOnce, InitPoolOnce, SubmitOnce, TestJoinOnce,
        QuietOnce DEF Next, CallerStep

LEMMA KnownOnce == Spec => [](Known /\ Once)
<1>1. Init => Known /\ Once
  BY InitAccount, InitRanges, InitOnce DEF Known
<1>2. (Known /\ Once) /\ [Next]_vars => (Known /\ Once)'
  BY NextAccount, NextRanges, NextOnce DEF Known
<1> QED BY <1>1, <1>2, PTL DEF Spec

\* What a step adds to the history is a set of iterations that did not run.
LEMMA StepRuns ==
  ASSUME Ranges, mpc \notin {"idle", "closing"}, UNCHANGED call,
         mpc' \notin {"idle", "closing"},
         NEW S, S \subseteq Indices,
         \A i \in S : i < call.trip /\ ran[i] = 0,
         ran' = [i \in Indices |-> ran[i] + (IF i \in S THEN 1 ELSE 0)]
  PROVE  [Abstract!Next]_(Abstract!vars)
<1>1. CASE S = {}
  <2>1. ran' = ran
    BY <1>1 DEF Ranges, RanType
  <2> QED BY <2>1 DEF Abstract!vars
<1>2. CASE S # {}
  <2>1. S \in SUBSET {i \in Abstract!Indices : i < call.trip /\ ran[i] = 0}
    BY DEF Abstract!Indices, Indices
  <2>2. ran' = [i \in Abstract!Indices |-> ran[i] + (IF i \in S THEN 1 ELSE 0)]
    BY DEF Abstract!Indices, Indices
  <2>3. Abstract!Run
    BY <1>2, <2>1, <2>2 DEF Abstract!Run
  <2> QED BY <2>3 DEF Abstract!Next
<1> QED BY <1>1, <1>2

LEMMA CallerImplements ==
  ASSUME Known, Once, ForkJoin \/ Shutdown \/ CallerStep \/ SpuriousCaller \/ Wake
  PROVE  [Abstract!Next]_(Abstract!vars)
<1>1. CASE ForkJoin
  <2>1. mpc = "idle" /\ mpc' \in {"inline", "init"}
    BY <1>1 DEF ForkJoin
  <2>2. call'.trip \in 1 .. MaxTrip
    BY <1>1 DEF ForkJoin
  <2>3. ran' = [i \in Abstract!Indices |-> 0]
    BY <1>1 DEF ForkJoin, Abstract!Indices, Indices
  <2> QED BY <2>1, <2>2, <2>3 DEF Abstract!Next, Abstract!Call
<1>2. CASE RunInline
  <2> DEFINE S == {i \in Indices : i < call.trip}
  <2>1. mpc = "inline" /\ mpc' = "return" /\ call' = call
        /\ ran' = [i \in Indices |-> ran[i] + (IF i \in S THEN 1 ELSE 0)]
    BY <1>2 DEF RunInline
  <2>2. S \subseteq Indices /\ \A i \in S : i < call.trip /\ ran[i] = 0
    BY <2>1 DEF Once, Zeroed
  <2> HIDE DEF S
  <2> QED BY <2>1, <2>2, StepRuns DEF Known
<1>3. CASE Return
  <2>1. \A i \in Abstract!Indices : i < call.trip => ran[i] = 1
    BY <1>3 DEF Return, Once, AllRan, Abstract!Indices, Indices
  <2> QED BY <1>3, <2>1 DEF Return, historyVars, Abstract!Next, Abstract!Return
<1>4. CASE \/ InitPool \/ Submit \/ RanWithin \/ TestJoin \/ Sleep \/ Shutdown \/ Close
           \/ SpuriousCaller \/ Wake
  <2>1. call' = call /\ ran' = ran
    BY <1>4 DEF InitPool, Submit, RanWithin, TestJoin, Sleep, Shutdown, Close,
       SpuriousCaller, Wake, historyVars
  <2>2. mpc \in {"idle", "closing"} <=> mpc' \in {"idle", "closing"}
    BY <1>4 DEF InitPool, Submit, RanWithin, TestJoin, Sleep, Shutdown, Close,
       SpuriousCaller, Wake
  <2> QED BY <2>1, <2>2 DEF Abstract!vars
<1> QED BY <1>1, <1>2, <1>3, <1>4 DEF CallerStep

LEMMA CallbackImplements ==
  ASSUME Known, Once, NEW w \in Workers, Callback(w)
  PROVE  [Abstract!Next]_(Abstract!vars)
<1>1. CASE RunBody(w)
  <2> DEFINE S == {i \in Indices : Claimed(w, i)}
  <2>1. mpc \in Sharing /\ UNCHANGED <<mpc, call>>
    BY <1>1, Runs DEF RunBody, callerVars
  <2>2. S \subseteq Indices /\ \A i \in S : i < call.trip /\ ran[i] = 0
    BY <2>1 DEF Once, HandedOut, Handed
  <2>3. ran' = [i \in Indices |-> ran[i] + (IF i \in S THEN 1 ELSE 0)]
    BY <1>1 DEF RunBody, Claimed
  <2> HIDE DEF S
  <2> QED BY <2>1, <2>2, <2>3, StepRuns DEF Known, Sharing
<1>2. CASE ~RunBody(w)
  <2>1. UNCHANGED <<mpc, call, ran>>
    BY <1>2 DEF Callback, RunStatic, ClaimDynamic, ClaimGuided, StealOwn, StealFrom,
       StealClaim, CheckDrained, Finish, OnlyRuns, callerVars, historyVars
  <2> QED BY <2>1 DEF Abstract!vars
<1> QED BY <1>1, <1>2

\* The Windows pool implements the abstract fork-join: each iteration of a call of
\* li_par_pool_fork_join runs once and the call returns after all of them, under each
\* schedule and also where the caller runs callbacks that could not be submitted.
THEOREM WinPoolImplementsForkJoin == Spec => ImplementsForkJoin
<1>1. Init => Abstract!Init
  BY DEF Init, Abstract!Init, Abstract!Indices, Indices
<1>2. Known /\ Once /\ [Next]_vars => [Abstract!Next]_(Abstract!vars)
  <2> SUFFICES ASSUME Known, Once, [Next]_vars PROVE [Abstract!Next]_(Abstract!vars)
    OBVIOUS
  <2>1. CASE UNCHANGED vars
    <3>1. UNCHANGED <<mpc, call, ran>>
      BY <2>1 DEF vars, callerVars, historyVars
    <3> QED BY <3>1 DEF Abstract!vars
  <2> QED BY <2>1, CallerImplements, CallbackImplements DEF Next
<1> QED BY <1>1, <1>2, KnownOnce, PTL DEF Spec, ImplementsForkJoin, Abstract!Spec

=============================================================================
