-------------------------------- MODULE Dpar --------------------------------
(***************************************************************************)
(* The distributed runtime, runtime/li_dpar.c and li_dpar_collective.c:    *)
(* `world` processes connect to one another (li_dpar_init_from_env) and    *)
(* then all run the same sequence of barriers and collectives.             *)
(*                                                                         *)
(* A rank accepts a connection from every lower rank and connects to every *)
(* higher one, in the order of a loop over the peers. An accepted socket   *)
(* is filed under the loop index, whoever connected: fd[r][p] is the rank  *)
(* that is really at the other end of what r takes for the socket of p.    *)
(*                                                                         *)
(* A number that is summed is modelled by the contributions in it: how     *)
(* often the local value of each rank was added.                           *)
(***************************************************************************)
EXTENDS Integers, Sequences, FiniteSets

CONSTANTS
  MaxWorld,            \* bound: no job has more ranks
  Jobs                 \* the jobs a behaviour may run: the world, the root, the
                       \* program and how many ranks may give up connecting

Ranks == 0 .. (MaxWorld - 1)
Operations == {"barrier", "bcast", "allreduce", "scatter", "gather", "scan"}

ASSUME DparAssumption ==
  /\ MaxWorld \in Nat \ {0}
  /\ \A j \in Jobs : /\ j.world \in 2 .. MaxWorld
                     /\ j.root \in 0 .. (j.world - 1)
                     /\ j.program \in Seq(Operations)
                     /\ j.exits \in Nat

VARIABLES
  job,                 \* LI_DPAR_WORLD_SIZE and the program all ranks run
  pc,                  \* where each rank is
  peer,                \* the loop index of its initialisation
  backlog,             \* connections it did not accept yet, oldest first
  fd,                  \* who is at the other end of its socket for each peer
  chan,                \* chan[q][r]: sent by q to r and not received yet
  op, at,              \* the operation of the program it is in, and the step
  acc, got             \* its buffers: the value, and what a root gathers

netVars == <<peer, backlog, fd>>
opVars  == <<op, at, acc, got>>
vars    == <<job, pc, netVars, chan, opVars>>

Members == 0 .. (job.world - 1)

\* Nobody is at the other end: the socket was not made.
None == MaxWorld

Contributions == [Ranks -> Nat]
Zero == [r \in Ranks |-> 0]
Own(r) == [Zero EXCEPT ![r] = 1]
Plus(a, b) == [r \in Ranks |-> a[r] + b[r]]

\* The local values of the ranks of a set, each added once.
SumOf(S) == [r \in Ranks |-> IF r \in S THEN 1 ELSE 0]

\* One byte of a barrier, or a number. Which operation of its program the sender
\* is in is not sent: only properties read it.
Messages == [kind : {"token", "value"}, val : Contributions, of : Nat]

TypeOK ==
  /\ job \in Jobs
  /\ pc \in [Ranks -> {"start", "init", "run", "done", "exited"}]
  /\ peer \in [Ranks -> 0 .. MaxWorld]
  /\ backlog \in [Ranks -> Seq(Ranks)]
  /\ fd \in [Ranks -> [Ranks -> Ranks \cup {None}]]
  /\ \A q, r \in Ranks : \A i \in DOMAIN chan[q][r] : chan[q][r][i] \in Messages
  /\ op \in [Ranks -> 1 .. (Len(job.program) + 1)]
  /\ at \in [Ranks -> Nat]
  /\ acc \in [Ranks -> Contributions]
  /\ got \in [Ranks -> [Ranks -> Contributions]]

Init ==
  /\ job \in Jobs
  /\ pc = [r \in Ranks |-> "start"]
  /\ peer = [r \in Ranks |-> 0]
  /\ backlog = [r \in Ranks |-> <<>>]
  /\ fd = [r \in Ranks |-> [p \in Ranks |-> None]]
  /\ chan = [q \in Ranks |-> [r \in Ranks |-> <<>>]]
  /\ op = [r \in Ranks |-> 1]
  /\ at = [r \in Ranks |-> 0]
  /\ acc = [r \in Ranks |-> Zero]
  /\ got = [r \in Ranks |-> [p \in Ranks |-> Zero]]

-----------------------------------------------------------------------------
(* li_dpar_init_from_env.                                                  *)

\* The loop index after p: the rank itself is skipped.
NextPeer(r, p) == IF p + 1 = r THEN p + 2 ELSE p + 1

Listen(r) ==
  /\ pc[r] = "start"
  /\ pc' = [pc EXCEPT ![r] = "init"]
  /\ peer' = [peer EXCEPT ![r] = IF r = 0 THEN 1 ELSE 0]
  /\ UNCHANGED <<job, backlog, fd, chan, opVars>>

ListensLate(p) == pc[p] = "run"                \* mutant: listens after the loop
Listening(p) == pc[p] \notin {"start", "done", "exited"}

\* A connection is complete, and in the backlog, before the peer accepts it.
Connect(r) ==
  LET p == peer[r] IN
    /\ pc[r] = "init" /\ p > r /\ p \in Members
    /\ Listening(p)
    /\ backlog' = [backlog EXCEPT ![p] = Append(@, r)]
    /\ fd' = [fd EXCEPT ![r][p] = p]
    /\ peer' = [peer EXCEPT ![r] = NextPeer(r, p)]
    /\ UNCHANGED <<job, pc, chan, opVars>>

Accept(r) ==
  /\ pc[r] = "init" /\ peer[r] < r
  /\ backlog[r] # <<>>
  /\ fd' = [fd EXCEPT ![r][peer[r]] = Head(backlog[r])]
  /\ backlog' = [backlog EXCEPT ![r] = Tail(@)]
  /\ peer' = [peer EXCEPT ![r] = NextPeer(r, peer[r])]
  /\ UNCHANGED <<job, pc, chan, opVars>>

Exits == Cardinality({r \in Ranks : pc[r] = "exited"})

\* 200 attempts to connect failed.
GiveUp(r) ==
  /\ pc[r] = "init" /\ peer[r] > r /\ peer[r] \in Members
  /\ ~Listening(peer[r])
  /\ Exits < job.exits
  /\ pc' = [pc EXCEPT ![r] = "exited"]
  /\ UNCHANGED <<job, netVars, chan, opVars>>

-----------------------------------------------------------------------------
(* The operations. Each is a sequence of sends to and receipts from peers. *)

NotLast == job.world - 2                       \* mutant: the last is left out
Others == job.world - 1

\* The peer in turn k of a loop over all peers but r.
Other(r, k) == IF k < r THEN k ELSE k + 1

Send(p) == [do |-> "send", peer |-> p]
Recv(p) == [do |-> "recv", peer |-> p]

ReceiveFirst(r, i) ==                          \* mutant: both receive first
  LET p == Other(r, i \div 2)
  IN  IF i % 2 = 0 THEN Recv(p) ELSE Send(p)
\* An exchange with every peer: the higher rank of the two receives first.
Exchange(r, i) ==
  LET p == Other(r, i \div 2)
  IN  IF (p < r) = (i % 2 = 0) THEN Recv(p) ELSE Send(p)

FanOut(root, r, i) == IF r = root THEN Send(Other(r, i)) ELSE Recv(root)
FanIn(root, r, i) == IF r = root THEN Recv(Other(r, i)) ELSE Send(root)
FanLength(root, r) == IF r = root THEN Others ELSE 1

GatherOne(o, r) ==                             \* mutant: a gather ends too early
  CASE o \in {"barrier", "allreduce"} -> 2 * Others
    [] o = "scan" -> 2 * FanLength(0, r)
    [] o = "gather" -> 1
    [] OTHER -> FanLength(job.root, r)
Length(o, r) ==
  CASE o \in {"barrier", "allreduce"} -> 2 * Others
    [] o = "scan" -> 2 * FanLength(0, r)
    [] OTHER -> FanLength(job.root, r)

Step(o, r, i) ==
  CASE o \in {"barrier", "allreduce"} -> Exchange(r, i)
    [] o \in {"bcast", "scatter"} -> FanOut(job.root, r, i)
    [] o = "gather" -> FanIn(job.root, r, i)
    [] o = "scan" -> IF i < FanLength(0, r)
                     THEN FanIn(0, r, i)
                     ELSE FanOut(0, r, i - FanLength(0, r))

In(r, o) == pc[r] = "run" /\ op[r] <= Len(job.program) /\ job.program[op[r]] = o
Ended(r, o) == In(r, o) /\ at[r] = Length(o, r)

\* The value a rank begins an operation with. The root of a scatter copies the
\* first slice for itself, whatever its rank.
Local(o, r) ==
  CASE o \in {"allreduce", "gather", "scan"} -> Own(r)
    [] o = "bcast" /\ r = job.root -> Own(r)
    [] o = "scatter" /\ r = job.root -> Own(0)
    [] OTHER -> Zero

\* The receive buffer of a gather, with its own value in front.
Gathered(o, r) == [p \in Ranks |-> IF p = 0 THEN Local(o, r) ELSE Zero]

OpAt(i) == IF i <= Len(job.program) THEN job.program[i] ELSE "barrier"

\* The last turn of the initialisation.
Ready(r) ==
  /\ pc[r] = "init" /\ peer[r] \notin Members
  /\ pc' = [pc EXCEPT ![r] = "run"]
  /\ acc' = [acc EXCEPT ![r] = Local(OpAt(1), r)]
  /\ got' = [got EXCEPT ![r] = Gathered(OpAt(1), r)]
  /\ UNCHANGED <<job, netVars, chan, op, at>>

\* The return from one operation and the call of the next; after the last one
\* li_dpar_finalize closes the sockets.
Advance(r) ==
  /\ pc[r] = "run"
  /\ \/ /\ op[r] > Len(job.program)
        /\ pc' = [pc EXCEPT ![r] = "done"]
        /\ UNCHANGED opVars
     \/ /\ op[r] <= Len(job.program)
        /\ at[r] = Length(job.program[op[r]], r)
        /\ op' = [op EXCEPT ![r] = @ + 1]
        /\ at' = [at EXCEPT ![r] = 0]
        /\ acc' = [acc EXCEPT ![r] = Local(OpAt(op[r] + 1), r)]
        /\ got' = [got EXCEPT ![r] = Gathered(OpAt(op[r] + 1), r)]
        /\ UNCHANGED pc
  /\ UNCHANGED <<job, netVars, chan>>

Stepping(r) ==
  /\ pc[r] = "run"
  /\ op[r] <= Len(job.program)
  /\ at[r] < Length(job.program[op[r]], r)

Op(r) == job.program[op[r]]
Now(r) == Step(Op(r), r, at[r])
Gone(q) == pc[q] \in {"done", "exited"}

\* The sum of the first n values of a function.
SumTo(f, n) ==
  LET sum[k \in 0 .. n] == IF k = 0 THEN 0 ELSE sum[k - 1] + f[k - 1] IN sum[n]

\* The sum of the first n values that r gathered.
SumFirst(r, n) == [i \in Ranks |-> SumTo([p \in Ranks |-> got[r][p][i]], n)]

Inclusive(r, p) == SumFirst(r, p + 1)          \* mutant: with the peer's own
Prefix(r, p) == SumFirst(r, p)

FirstSlice(p) == Own(job.root)                 \* mutant: no offset
Slice(p) == Own(p)

\* What a rank sends to a peer.
Payload(r, p) ==
  CASE Op(r) = "barrier" -> Zero
    [] Op(r) = "scatter" -> Slice(p)
    [] Op(r) = "scan" /\ r = 0 -> Prefix(r, p)
    [] OTHER -> acc[r]

Kind(o) == IF o = "barrier" THEN "token" ELSE "value"

Sending(r) ==
  LET p == Now(r).peer
      q == fd[r][p]
  IN  /\ Stepping(r) /\ Now(r).do = "send"
      /\ \/ /\ at' = [at EXCEPT ![r] = @ + 1]
            /\ chan' = IF Gone(q) THEN chan
                       ELSE [chan EXCEPT ![r][q] =
                               Append(@, [kind |-> Kind(Op(r)), val |-> Payload(r, p),
                                           of |-> op[r]])]
            /\ UNCHANGED pc
         \/ /\ Gone(q)                         \* SIGPIPE
            /\ pc' = [pc EXCEPT ![r] = "exited"]
            /\ UNCHANGED <<at, chan>>
      /\ UNCHANGED <<job, netVars, op, acc, got>>

AlwaysAdd(r, p, v) == Plus(acc[r], v)          \* mutant: nothing is taken over
\* What a receipt does to the value: an exchange adds what comes from below and
\* takes over what comes from above.
Received(r, p, v) ==
  CASE Op(r) = "allreduce" -> IF p < r THEN Plus(acc[r], v) ELSE v
    [] Op(r) = "barrier" -> acc[r]
    [] OTHER -> v

FirstPlace(p) == 0                             \* mutant: no offset
Place(p) == p

\* A root that gathers puts the value at the peer's place. A receipt from a peer
\* that closed the connection fails, and the failure is ignored.
Receiving(r) ==
  LET p == Now(r).peer
      q == fd[r][p]
      gathers == r = (IF Op(r) = "scan" THEN 0 ELSE job.root)
                 /\ Op(r) \in {"gather", "scan"}
  IN  /\ Stepping(r) /\ Now(r).do = "recv"
      /\ at' = [at EXCEPT ![r] = @ + 1]
      /\ \/ /\ chan[q][r] # <<>>
            /\ chan' = [chan EXCEPT ![q][r] = Tail(@)]
            /\ LET v == Head(chan[q][r]).val IN
                 IF gathers
                 THEN got' = [got EXCEPT ![r][Place(p)] = v] /\ UNCHANGED acc
                 ELSE acc' = [acc EXCEPT ![r] = Received(r, p, v)] /\ UNCHANGED got
         \/ /\ chan[q][r] = <<>> /\ Gone(q)
            /\ UNCHANGED <<chan, acc, got>>
      /\ UNCHANGED <<job, pc, netVars, op>>

Rank(r) == \/ Listen(r) \/ Connect(r) \/ Accept(r) \/ Ready(r)
           \/ Sending(r) \/ Receiving(r) \/ Advance(r)

Next == \E r \in Members : Rank(r) \/ GiveUp(r)

Spec == Init /\ [][Next]_vars

\* Every process runs and TCP delivers what is sent.
Fairness == \A r \in Ranks : WF_vars(r \in Members /\ Rank(r))

FairSpec == Spec /\ Fairness

-----------------------------------------------------------------------------
(* What the runtime promises.                                              *)

NoExits == \A r \in Members : pc[r] # "exited"

\* Every socket of r is filed under the rank at its other end.
Labelled(r) == \A p \in Members \ {r} : fd[r][p] \in {p, None}

\* A rank passes a barrier only after all the others have come to it, those that
\* exited excepted.
BarrierWaits ==
  \A r, q \in Members : \A b \in DOMAIN job.program :
    /\ job.program[b] = "barrier"
    /\ op[r] > b
    => \/ pc[q] = "exited"
       \/ op[q] >= b /\ pc[q] \notin {"start", "init"}

\* A receiver gets what it waits for, a byte in a barrier and a number elsewhere,
\* sent by the same operation of the program: operations never read one another's
\* messages.
FramesMatch ==
  \A r \in Members :
    Stepping(r) /\ Now(r).do = "recv" =>
      LET c == chan[fd[r][Now(r).peer]][r]
      IN  c # <<>> => Head(c).kind = Kind(Op(r)) /\ Head(c).of = op[r]
FramesSound == TypeOK /\ FramesMatch

\* An allreduce gives every rank the sum of all local values.
AllreduceSums ==
  \A r \in Members : Ended(r, "allreduce") /\ NoExits => acc[r] = SumOf(Members)

\* The root's own slice is in its place only if that is the first: a root other
\* than rank 0 misplaces it (li_dpar_collective.c:147, 181).
InPlace(r) == r # job.root \/ r = 0

\* Broadcast and scatter give a rank the root's value and its own slice.
RootDelivers ==
  \A r \in Members :
    /\ Ended(r, "bcast") /\ NoExits => acc[r] = Own(job.root)
    /\ Ended(r, "scatter") /\ NoExits /\ InPlace(r) => acc[r] = Own(r)

\* The root of a gather has the value of every peer at that peer's place.
GatherPlaces ==
  Ended(job.root, "gather") /\ NoExits =>
    \A p \in Members : InPlace(p) => got[job.root][p] = Own(p)

\* An exclusive scan gives a rank the sum of the local values below it.
ScanSums ==
  \A r \in Members :
    Ended(r, "scan") /\ NoExits /\ r # 0 => acc[r] = SumOf(0 .. (r - 1))

\* When all ranks are connected and every socket is filed under its rank, all of
\* them come to the end of the program.
Completes ==
  (\A r \in Members : pc[r] \in {"run", "done"} /\ Labelled(r))
    ~> (\A r \in Members : pc[r] = "done")

\* Unless a rank gives up, all ranks get connected.
Connects == <>(\A r \in Members : pc[r] \in {"run", "done"}) \/ <>(~NoExits)
=============================================================================
