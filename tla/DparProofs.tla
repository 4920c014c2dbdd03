----------------------------- MODULE DparProofs -----------------------------
(***************************************************************************)
(* Proofs about the distributed runtime, for every number of ranks and     *)
(* every program.                                                          *)
(***************************************************************************)
EXTENDS Dpar, WellFoundedInduction, TLAPS

-----------------------------------------------------------------------------
(* The turns of an operation. Each operation is a loop over peers; the     *)
(* closed forms below say which turn of q's loop is the send to r, and     *)
(* which turn of r's loop is the receipt from q.                           *)

\* The turn in which a loop over all peers but r comes to p.
Turn(r, p) == IF p < r THEN p ELSE p - 1

\* In an operation o rank q sends something to rank r.
Talks(o, q, r) ==
  CASE o \in {"barrier", "allreduce"} -> TRUE
    [] o \in {"bcast", "scatter"} -> q = job.root
    [] o = "gather" -> r = job.root
    [] o = "scan" -> q = 0 \/ r = 0

\* The turn of q in which it sends to r.
SendTurn(o, q, r) ==
  CASE o \in {"barrier", "allreduce"} -> 2 * Turn(q, r) + (IF r < q THEN 1 ELSE 0)
    [] o \in {"bcast", "scatter"} -> Turn(q, r)
    [] o = "gather" -> 0
    [] o = "scan" -> IF q = 0 THEN Others + Turn(q, r) ELSE 0

\* The turn of r in which it receives from q.
RecvTurn(o, q, r) ==
  CASE o \in {"barrier", "allreduce"} -> 2 * Turn(r, q) + (IF q < r THEN 0 ELSE 1)
    [] o \in {"bcast", "scatter"} -> 0
    [] o = "gather" -> Turn(r, q)
    [] o = "scan" -> IF r = 0 THEN Turn(r, q) ELSE 1

\* Turn is the inverse of Other.
LEMMA TurnOther ==
  ASSUME NEW r \in Nat, NEW k \in Nat, NEW n \in Nat, r < n, k < n - 1
  PROVE  /\ Other(r, k) \in 0 .. (n - 1) \ {r}
         /\ Turn(r, Other(r, k)) = k
BY DEF Turn, Other

LEMMA OtherTurn ==
  ASSUME NEW r \in Nat, NEW p \in Nat, NEW n \in Nat, r < n, p < n, p # r
  PROVE  /\ Turn(r, p) \in 0 .. (n - 2)
         /\ Other(r, Turn(r, p)) = p
BY DEF Turn, Other

LEMMA Halves ==
  ASSUME NEW i \in Nat
  PROVE  /\ i \div 2 \in Nat
         /\ i % 2 \in {0, 1}
         /\ i = 2 * (i \div 2) + (i % 2)
OBVIOUS

LEMMA HalvesOf ==
  ASSUME NEW k \in Nat
  PROVE  /\ (2 * k) \div 2 = k /\ (2 * k) % 2 = 0
         /\ (2 * k + 1) \div 2 = k /\ (2 * k + 1) % 2 = 1
OBVIOUS

LEMMA JobFacts ==
  ASSUME job \in Jobs
  PROVE  /\ job.world \in Nat /\ job.world >= 2 /\ job.world <= MaxWorld
         /\ job.root \in Members
         /\ job.program \in Seq(Operations)
         /\ Others \in Nat /\ Others >= 1
         /\ Members \subseteq Ranks /\ Members \subseteq Nat
         /\ 0 \in Members
         /\ \A r \in Members : r < job.world
BY DparAssumption DEF Members, Others, Ranks

-----------------------------------------------------------------------------
(* What a rank does in a turn. *)

LEMMA ExchangeStep ==
  ASSUME job \in Jobs, NEW r \in Members, NEW i \in 0 .. (2 * Others - 1)
  PROVE  \E p \in Members \ {r} :
           \/ Exchange(r, i) = Send(p) /\ i = 2 * Turn(r, p) + (IF p < r THEN 1 ELSE 0)
           \/ Exchange(r, i) = Recv(p) /\ i = 2 * Turn(r, p) + (IF p < r THEN 0 ELSE 1)
<1> DEFINE p == Other(r, i \div 2)
<1>1. i \in Nat /\ i \div 2 \in Nat /\ i % 2 \in {0, 1} /\ i = 2 * (i \div 2) + (i % 2)
  BY JobFacts, Halves
<1>2. i \div 2 < job.world - 1
  BY <1>1, JobFacts DEF Others
<1>3. p \in Members \ {r} /\ Turn(r, p) = i \div 2
  BY <1>1, <1>2, TurnOther, JobFacts DEF Members
<1>4. p \in Nat /\ r \in Nat
  BY <1>3, JobFacts
<1>5. Exchange(r, i) = IF (p < r) = (i % 2 = 0) THEN Recv(p) ELSE Send(p)
  BY DEF Exchange
<1> HIDE DEF p
<1>6. i = 2 * Turn(r, p) + (i % 2)
  BY <1>1, <1>3
<1>7. CASE p < r
  <2>1. CASE i % 2 = 0
    BY <1>3, <1>5, <1>6, <1>7, <2>1
  <2>2. CASE i % 2 = 1
    BY <1>3, <1>5, <1>6, <1>7, <2>2
  <2> QED BY <1>1, <2>1, <2>2
<1>8. CASE ~(p < r)
  <2>1. CASE i % 2 = 0
    BY <1>3, <1>5, <1>6, <1>8, <2>1
  <2>2. CASE i % 2 = 1
    BY <1>3, <1>5, <1>6, <1>8, <2>2
  <2> QED BY <1>1, <2>1, <2>2
<1> QED BY <1>7, <1>8

LEMMA ExchangeTurns ==
  ASSUME job \in Jobs, NEW q \in Members, NEW r \in Members, q # r
  PROVE  /\ LET i == 2 * Turn(q, r) + (IF r < q THEN 1 ELSE 0)
            IN  i \in 0 .. (2 * Others - 1) /\ Exchange(q, i) = Send(r)
         /\ LET i == 2 * Turn(q, r) + (IF r < q THEN 0 ELSE 1)
            IN  i \in 0 .. (2 * Others - 1) /\ Exchange(q, i) = Recv(r)
<1> DEFINE k == Turn(q, r)
<1>1. k \in 0 .. (job.world - 2) /\ Other(q, k) = r
  BY OtherTurn, JobFacts
<1>2. k \in Nat /\ k < Others /\ Others \in Nat
  BY <1>1, JobFacts DEF Others
<1> HIDE DEF k
<1>3. /\ 2 * k + 0 = 2 * k /\ 2 * k \in 0 .. (2 * Others - 1)
      /\ 2 * k + 1 \in 0 .. (2 * Others - 1)
  BY <1>2
<1>4. CASE r < q
  BY <1>1, <1>2, <1>3, <1>4, HalvesOf DEF Exchange, k
<1>5. CASE ~(r < q)
  BY <1>1, <1>2, <1>3, <1>5, HalvesOf DEF Exchange, k
<1> QED BY <1>4, <1>5

LEMMA SendRecv ==
  ASSUME NEW p, NEW q
  PROVE  /\ Send(p) # Recv(q)
         /\ Send(p) = Send(q) => p = q
         /\ Recv(p) = Recv(q) => p = q
         /\ Send(p).peer = p /\ Recv(p).peer = p
         /\ Send(p).do = "send" /\ Recv(p).do = "recv"
BY DEF Send, Recv

\* Every turn is a send to some peer or a receipt from one, at its turn.
LEMMA StepIs ==
  ASSUME job \in Jobs, NEW r \in Members, NEW o \in Operations,
         NEW i \in Nat, i < Length(o, r)
  PROVE  \E p \in Members \ {r} :
           \/ Step(o, r, i) = Send(p) /\ Talks(o, r, p) /\ i = SendTurn(o, r, p)
           \/ Step(o, r, i) = Recv(p) /\ Talks(o, p, r) /\ i = RecvTurn(o, p, r)
<1> USE JobFacts
<1>1. CASE o \in {"barrier", "allreduce"}
  <2>1. i \in 0 .. (2 * Others - 1) /\ Step(o, r, i) = Exchange(r, i)
    BY <1>1 DEF Length, Step
  <2> QED BY <1>1, <2>1, ExchangeStep DEF Talks, SendTurn, RecvTurn
<1>2. CASE o \in {"bcast", "scatter", "gather"}
  <2>1. CASE r = job.root
    <3>1. i < Others /\ i < job.world - 1
      BY <1>2, <2>1 DEF Length, FanLength, Others
    <3>2. Other(r, i) \in Members \ {r} /\ Turn(r, Other(r, i)) = i
      BY <3>1, TurnOther DEF Members
    <3> QED BY <1>2, <2>1, <3>2 DEF Step, FanOut, FanIn, Talks, SendTurn, RecvTurn
  <2>2. CASE r # job.root
    <3>1. i = 0
      BY <1>2, <2>2 DEF Length, FanLength
    <3> QED BY <1>2, <2>2, <3>1 DEF Step, FanOut, FanIn, Talks, SendTurn, RecvTurn
  <2> QED BY <2>1, <2>2
<1>3. CASE o = "scan"
  <2>1. CASE r = 0
    <3>1. Length(o, r) = 2 * Others /\ FanLength(0, r) = Others
      BY <1>3, <2>1 DEF Length, FanLength
    <3>2. CASE i < Others
      <4>1. Other(r, i) \in Members \ {r} /\ Turn(r, Other(r, i)) = i
        BY <3>2, TurnOther DEF Members, Others
      <4> QED BY <1>3, <2>1, <3>1, <3>2, <4>1 DEF Step, FanIn, Talks, RecvTurn
    <3>3. CASE ~(i < Others)
      <4> DEFINE k == i - Others
      <4>0. k \in Nat /\ k < job.world - 1 /\ i = Others + k
        BY <3>1, <3>3 DEF Others
      <4>1. Other(r, k) \in Members \ {r} /\ Turn(r, Other(r, k)) = k
        BY <4>0, TurnOther DEF Members
      <4>2. Step(o, r, i) = Send(Other(r, k))
        BY <1>3, <2>1, <3>1, <3>3 DEF Step, FanOut
      <4> QED BY <1>3, <2>1, <4>0, <4>1, <4>2 DEF Talks, SendTurn
    <3> QED BY <3>2, <3>3
  <2>2. CASE r # 0
    <3>1. Length(o, r) = 2 /\ FanLength(0, r) = 1
      BY <1>3, <2>2 DEF Length, FanLength
    <3>2. CASE i = 0
      BY <1>3, <2>2, <3>1, <3>2 DEF Step, FanIn, Talks, SendTurn
    <3>3. CASE i = 1
      BY <1>3, <2>2, <3>1, <3>3 DEF Step, FanOut, Talks, RecvTurn
    <3> QED BY <3>1, <3>2, <3>3
  <2> QED BY <2>1, <2>2
<1> QED BY <1>1, <1>2, <1>3 DEF Operations

LEMMA TurnBelow ==
  ASSUME job \in Jobs, NEW q \in Members, NEW r \in Members, q # r
  PROVE  Turn(q, r) \in Nat /\ Turn(q, r) < Others /\ Other(q, Turn(q, r)) = r
<1>1. /\ q \in Nat /\ r \in Nat /\ job.world \in Nat
      /\ q < job.world /\ r < job.world /\ r # q
  BY JobFacts
<1>2. Turn(q, r) \in 0 .. (job.world - 2) /\ Other(q, Turn(q, r)) = r
  BY <1>1, OtherTurn
<1> QED BY <1>1, <1>2 DEF Others

\* A rank that talks to another comes to the turn in which it does.
LEMMA SendStep ==
  ASSUME job \in Jobs, NEW q \in Members, NEW r \in Members, q # r,
         NEW o \in Operations, Talks(o, q, r)
  PROVE  LET i == SendTurn(o, q, r)
         IN  i \in Nat /\ i < Length(o, q) /\ Step(o, q, i) = Send(r)
<1> USE JobFacts
<1>1. Turn(q, r) \in Nat /\ Turn(q, r) < Others /\ Other(q, Turn(q, r)) = r
  BY TurnBelow
<1>2. CASE o \in {"barrier", "allreduce"}
  BY <1>2, ExchangeTurns DEF Length, Step, SendTurn
<1>3. CASE o \in {"bcast", "scatter"}
  <2>1. /\ q = job.root /\ Length(o, q) = FanLength(job.root, q)
        /\ \A i \in Nat : Step(o, q, i) = FanOut(job.root, q, i)
    BY <1>3 DEF Length, Step, Talks
  <2> QED BY <1>1, <1>3, <2>1 DEF FanLength, FanOut, SendTurn
<1>6. CASE o = "gather"
  <2>1. /\ r = job.root /\ Length(o, q) = FanLength(job.root, q)
        /\ \A i \in Nat : Step(o, q, i) = FanIn(job.root, q, i)
    BY <1>6 DEF Length, Step, Talks
  <2> QED BY <1>1, <1>6, <2>1 DEF FanLength, FanIn, SendTurn
<1>4. CASE o = "scan" /\ q = 0
  <2>1. /\ Length(o, q) = 2 * Others /\ FanLength(0, q) = Others
        /\ SendTurn(o, q, r) = Others + Turn(q, r)
    BY <1>4 DEF Length, FanLength, SendTurn
  <2>2. /\ ~(Others + Turn(q, r) < Others)
        /\ (Others + Turn(q, r)) - Others = Turn(q, r)
        /\ Others + Turn(q, r) < 2 * Others
        /\ Others + Turn(q, r) \in Nat
    BY <1>1
  <2>3. Step(o, q, Others + Turn(q, r)) = FanOut(0, q, Turn(q, r))
    BY <1>4, <2>1, <2>2 DEF Step
  <2> QED BY <1>1, <1>4, <2>1, <2>2, <2>3 DEF FanOut
<1>5. CASE o = "scan" /\ q # 0
  <2>1. r = 0 /\ Length(o, q) = 2 /\ FanLength(0, q) = 1 /\ SendTurn(o, q, r) = 0
    BY <1>5 DEF Length, FanLength, SendTurn, Talks
  <2> QED BY <1>5, <2>1 DEF Step, FanIn
<1> QED BY <1>2, <1>3, <1>4, <1>5, <1>6 DEF Operations

LEMMA RecvStep ==
  ASSUME job \in Jobs, NEW q \in Members, NEW r \in Members, q # r,
         NEW o \in Operations, Talks(o, q, r)
  PROVE  LET i == RecvTurn(o, q, r)
         IN  i \in Nat /\ i < Length(o, r) /\ Step(o, r, i) = Recv(q)
<1> USE JobFacts
<1>1. Turn(r, q) \in Nat /\ Turn(r, q) < Others /\ Other(r, Turn(r, q)) = q
  BY TurnBelow
<1>2. CASE o \in {"barrier", "allreduce"}
  BY <1>2, ExchangeTurns DEF Length, Step, RecvTurn
<1>3. CASE o \in {"bcast", "scatter"}
  <2>1. /\ q = job.root /\ Length(o, r) = FanLength(job.root, r)
        /\ \A i \in Nat : Step(o, r, i) = FanOut(job.root, r, i)
    BY <1>3 DEF Length, Step, Talks
  <2> QED BY <1>1, <1>3, <2>1 DEF FanLength, FanOut, RecvTurn
<1>6. CASE o = "gather"
  <2>1. /\ r = job.root /\ Length(o, r) = FanLength(job.root, r)
        /\ \A i \in Nat : Step(o, r, i) = FanIn(job.root, r, i)
    BY <1>6 DEF Length, Step, Talks
  <2> QED BY <1>1, <1>6, <2>1 DEF FanLength, FanIn, RecvTurn
<1>4. CASE o = "scan" /\ r = 0
  BY <1>1, <1>4 DEF Length, FanLength, Step, FanIn, RecvTurn
<1>5. CASE o = "scan" /\ r # 0
  <2>1. q = 0 /\ Length(o, r) = 2 /\ FanLength(0, r) = 1 /\ RecvTurn(o, q, r) = 1
    BY <1>5 DEF Length, FanLength, RecvTurn, Talks
  <2> QED BY <1>5, <2>1 DEF Step, FanOut
<1> QED BY <1>2, <1>3, <1>4, <1>5, <1>6 DEF Operations

-----------------------------------------------------------------------------
(* Sums over what a root gathered. *)

\* A set of numbers has a least one: what an induction needs.
LEMMA LeastNatural ==
  ASSUME NEW S \in SUBSET Nat, S # {}
  PROVE  \E n \in S : \A k \in S : n <= k
<1> DEFINE less == {p \in Nat \X Nat : p[1] < p[2]}
<1>1. IsWellFoundedOn(less, Nat)
  BY NatLessThanWellFounded DEF OpToRel
<1>2. PICK n \in S : \A k \in S : ~(<<k, n>> \in less)
  BY <1>1, WFMin
<1>3. ASSUME NEW k \in S, k < n
      PROVE  FALSE
  <2>1. <<k, n>> \in Nat \X Nat /\ <<k, n>>[1] < <<k, n>>[2]
    BY <1>3
  <2> QED BY <1>2, <2>1
<1> QED BY <1>3

\* The partial sums of f over 0 .. n.
IsSumOf(s, f, n) ==
  s = [k \in 0 .. n |-> IF k = 0 THEN 0 ELSE s[k - 1] + f[k - 1]]

LEMMA PartialSumsExist ==
  ASSUME NEW f, NEW n \in Nat, \A k \in 0 .. (n - 1) : f[k] \in Nat
  PROVE  \E s \in [0 .. n -> Nat] : IsSumOf(s, f, n)
<1> DEFINE W == {m \in 0 .. n : ~ \E s \in [0 .. m -> Nat] : IsSumOf(s, f, m)}
<1>1. SUFFICES ASSUME W # {} PROVE FALSE
  OBVIOUS
<1>0. W \in SUBSET Nat
  OBVIOUS
<1>2. PICK m \in W : \A k \in W : m <= k
  <2> HIDE DEF W
  <2> QED BY <1>0, <1>1, LeastNatural
<1>3. CASE m = 0
  <2>1. [k \in 0 .. 0 |-> 0] \in [0 .. m -> Nat]
    BY <1>3
  <2>2. IsSumOf([k \in 0 .. 0 |-> 0], f, m)
    BY <1>3 DEF IsSumOf
  <2> QED BY <1>2, <2>1, <2>2
<1>4. CASE m # 0
  <2>1. m - 1 \in 0 .. n /\ m - 1 \notin W
    BY <1>2, <1>4
  <2>2. PICK s \in [0 .. (m - 1) -> Nat] : IsSumOf(s, f, m - 1)
    BY <2>1
  <2> DEFINE t == [k \in 0 .. m |-> IF k = m THEN s[m - 1] + f[m - 1] ELSE s[k]]
  <2>3. t \in [0 .. m -> Nat]
    BY <1>2, <1>4, <2>2
  <2>4. ASSUME NEW k \in 0 .. m
        PROVE  t[k] = IF k = 0 THEN 0 ELSE t[k - 1] + f[k - 1]
    <3>1. CASE k = m
      BY <1>2, <1>4, <3>1
    <3>2. CASE k # m
      <4>1. k \in 0 .. (m - 1) /\ t[k] = s[k] /\ (k # 0 => t[k - 1] = s[k - 1])
        BY <1>2, <3>2
      <4>2. s[k] = IF k = 0 THEN 0 ELSE s[k - 1] + f[k - 1]
        BY <2>2, <4>1 DEF IsSumOf
      <4> QED BY <4>1, <4>2
    <3> QED BY <3>1, <3>2
  <2>5. IsSumOf(t, f, m)
    BY <2>4 DEF IsSumOf
  <2> QED BY <1>2, <2>3, <2>5
<1> QED BY <1>3, <1>4

\* There is only one such function, and SumTo gives its last value.
LEMMA PartialSumsUnique ==
  ASSUME NEW f, NEW n \in Nat, NEW s, IsSumOf(s, f, n), NEW t, IsSumOf(t, f, n)
  PROVE  s = t
<1> DEFINE D == {k \in 0 .. n : s[k] # t[k]}
<1>1. /\ \A k \in 0 .. n : s[k] = IF k = 0 THEN 0 ELSE s[k - 1] + f[k - 1]
      /\ \A k \in 0 .. n : t[k] = IF k = 0 THEN 0 ELSE t[k - 1] + f[k - 1]
  BY DEF IsSumOf
<1>2. ASSUME D # {} PROVE FALSE
  <2>0. D \in SUBSET Nat
    OBVIOUS
  <2>1. PICK k \in D : \A j \in D : k <= j
    <3> HIDE DEF D
    <3> QED BY <1>2, <2>0, LeastNatural
  <2>2. CASE k = 0
    BY <1>1, <2>1, <2>2
  <2>3. CASE k # 0
    <3>1. k - 1 \in 0 .. n /\ k - 1 \notin D
      BY <2>1, <2>3
    <3> QED BY <1>1, <2>1, <2>3, <3>1
  <2> QED BY <2>2, <2>3
<1>3. \A k \in 0 .. n : s[k] = t[k]
  BY <1>2
<1> QED BY <1>3 DEF IsSumOf

LEMMA SumToIs ==
  ASSUME NEW f, NEW n \in Nat, NEW s, IsSumOf(s, f, n)
  PROVE  SumTo(f, n) = s[n]
<1> DEFINE c == CHOOSE sum : sum = [k \in 0 .. n |-> IF k = 0 THEN 0 ELSE sum[k - 1] + f[k - 1]]
<1>1. SumTo(f, n) = c[n]
  BY DEF SumTo
<1>2. c = [k \in 0 .. n |-> IF k = 0 THEN 0 ELSE c[k - 1] + f[k - 1]]
  BY DEF IsSumOf
<1> HIDE DEF c
<1>3. IsSumOf(c, f, n)
  BY <1>2 DEF IsSumOf
<1> QED BY <1>1, <1>3, PartialSumsUnique

\* Whatever numbers a root gathered, their sum is a number.
LEMMA SumToNat ==
  ASSUME NEW f, NEW n \in Nat, \A k \in 0 .. (n - 1) : f[k] \in Nat
  PROVE  SumTo(f, n) \in Nat
<1>1. PICK s \in [0 .. n -> Nat] : IsSumOf(s, f, n)
  BY PartialSumsExist
<1>2. SumTo(f, n) = s[n]
  BY <1>1, SumToIs
<1> QED BY <1>1, <1>2

\* With the contribution of rank i at place i alone, the sum of the first n is 1
\* for the ranks below n and 0 for the others.
LEMMA SumToOne ==
  ASSUME NEW i \in Nat, NEW f, NEW n \in Nat,
         \A k \in 0 .. (n - 1) : f[k] = IF k = i THEN 1 ELSE 0
  PROVE  SumTo(f, n) = IF i < n THEN 1 ELSE 0
<1> DEFINE s == [k \in 0 .. n |-> IF i < k THEN 1 ELSE 0]
<1>1. ASSUME NEW k \in 0 .. n
      PROVE  s[k] = IF k = 0 THEN 0 ELSE s[k - 1] + f[k - 1]
  <2>1. CASE k = 0
    BY <2>1
  <2>2. CASE k # 0
    <3>1. k - 1 \in 0 .. n /\ k - 1 \in 0 .. (n - 1)
      BY <2>2
    <3>2. s[k - 1] = (IF i < k - 1 THEN 1 ELSE 0) /\ f[k - 1] = (IF k - 1 = i THEN 1 ELSE 0)
      BY <3>1
    <3> QED BY <2>2, <3>1, <3>2
  <2> QED BY <2>1, <2>2
<1>2. IsSumOf(s, f, n)
  BY <1>1 DEF IsSumOf
<1>3. s[n] = IF i < n THEN 1 ELSE 0
  OBVIOUS
<1> QED BY <1>2, <1>3, SumToIs

-----------------------------------------------------------------------------
(* Types and connections. *)

\* Every variable in its range, the channels outside the job included.
Types ==
  /\ TypeOK
  /\ chan \in [Ranks -> [Ranks -> Seq(Messages)]]

\* What the initialisation of r has done when its loop is at peer[r]: a socket
\* for every peer before that one, connections of lower ranks alone waiting, and
\* no operation begun.
Connected(r) ==
  /\ IF pc[r] = "start" THEN peer[r] = 0 ELSE peer[r] # r
  /\ \A p \in Members \ {r} : fd[r][p] # None <=> p < peer[r]
  /\ pc[r] \in {"run", "done"} => peer[r] \notin Members
  /\ \A i \in DOMAIN backlog[r] : backlog[r][i] \in Members /\ backlog[r][i] < r
  /\ pc[r] \in {"start", "init"} => op[r] = 1 /\ at[r] = 0

\* Where r is in its program.
Placed(r) ==
  /\ op[r] <= Len(job.program) => at[r] <= Length(Op(r), r)
  /\ pc[r] = "done" => op[r] > Len(job.program)

Net == \A r \in Members : Connected(r) /\ Placed(r)

LEMMA ContributionTypes ==
  /\ Zero \in Contributions
  /\ \A r \in Ranks : Own(r) \in Contributions
  /\ \A a, b \in Contributions : Plus(a, b) \in Contributions
  /\ \A o, r : r \in Ranks /\ job.root \in Ranks => Local(o, r) \in Contributions
  /\ \A o, r : r \in Ranks /\ job.root \in Ranks => Gathered(o, r) \in [Ranks -> Contributions]
<1>0. 0 \in Ranks
  BY DparAssumption DEF Ranks
<1>1. Zero \in Contributions
  BY DEF Zero, Contributions
<1>2. \A r \in Ranks : Own(r) \in Contributions
  BY <1>1 DEF Own, Contributions
<1>3. \A a, b \in Contributions : Plus(a, b) \in Contributions
  BY DEF Plus, Contributions
<1>4. \A o, r : r \in Ranks /\ job.root \in Ranks => Local(o, r) \in Contributions
  BY <1>0, <1>1, <1>2 DEF Local
<1>5. \A o, r : r \in Ranks /\ job.root \in Ranks => Gathered(o, r) \in [Ranks -> Contributions]
  BY <1>1, <1>4 DEF Gathered
<1> QED BY <1>1, <1>2, <1>3, <1>4, <1>5

LEMMA SumFirstType ==
  ASSUME Types, NEW r \in Ranks, NEW n \in Ranks
  PROVE  SumFirst(r, n) \in Contributions
<1>1. ASSUME NEW i \in Ranks
      PROVE  SumTo([p \in Ranks |-> got[r][p][i]], n) \in Nat
  <2>0. \A p \in Ranks : got[r][p][i] \in Nat
    BY DEF Types, TypeOK, Contributions
  <2>1. \A k \in 0 .. (n - 1) : [p \in Ranks |-> got[r][p][i]][k] \in Nat
    <3>1. \A k \in 0 .. (n - 1) : k \in Ranks
      BY DparAssumption DEF Ranks
    <3> HIDE DEF Ranks
    <3> QED BY <2>0, <3>1
  <2>2. n \in Nat
    BY DEF Ranks
  <2> HIDE DEF Ranks
  <2> QED BY <2>1, <2>2, SumToNat
<1> QED BY <1>1 DEF SumFirst, Contributions

\* The operation a rank is in, and the peer of its turn.
LEMMA NowIs ==
  ASSUME Types, NEW r \in Members, Stepping(r)
  PROVE  /\ op[r] \in 1 .. Len(job.program)
         /\ Op(r) \in Operations
         /\ at[r] \in Nat /\ at[r] < Length(Op(r), r)
         /\ Now(r).peer \in Members \ {r}
         /\ Now(r).do = "send" => /\ Talks(Op(r), r, Now(r).peer)
                                  /\ at[r] = SendTurn(Op(r), r, Now(r).peer)
         /\ Now(r).do = "recv" => /\ Talks(Op(r), Now(r).peer, r)
                                  /\ at[r] = RecvTurn(Op(r), Now(r).peer, r)
<1>1. /\ job \in Jobs /\ r \in Ranks /\ job.program \in Seq(Operations)
      /\ op[r] \in 1 .. (Len(job.program) + 1) /\ at[r] \in Nat
  BY JobFacts DEF Types, TypeOK
<1>2. op[r] \in 1 .. Len(job.program)
  BY <1>1 DEF Stepping
<1>3. Op(r) \in Operations /\ at[r] < Length(Op(r), r)
  BY <1>1, <1>2 DEF Stepping, Op
<1>4. PICK p \in Members \ {r} :
        \/ Now(r) = Send(p) /\ Talks(Op(r), r, p) /\ at[r] = SendTurn(Op(r), r, p)
        \/ Now(r) = Recv(p) /\ Talks(Op(r), p, r) /\ at[r] = RecvTurn(Op(r), p, r)
  BY <1>1, <1>3, StepIs DEF Now
<1> QED BY <1>1, <1>2, <1>3, <1>4, SendRecv

\* Behind a socket of a connected rank is a member of the job.
LEMMA SocketOpen ==
  ASSUME Types, Net, NEW r \in Members, pc[r] \in {"run", "done"},
         NEW p \in Members \ {r}
  PROVE  fd[r][p] \in Ranks
<1>1. /\ job \in Jobs /\ r \in Ranks /\ p \in Ranks /\ peer[r] \in Nat
      /\ fd[r][p] \in Ranks \cup {None}
  BY JobFacts DEF Types, TypeOK
<1>2. peer[r] \notin Members /\ (fd[r][p] # None <=> p < peer[r])
  BY DEF Net, Connected
<1>3. p < peer[r]
  BY <1>1, <1>2, JobFacts DEF Members
<1> QED BY <1>1, <1>2, <1>3

LEMMA PayloadType ==
  ASSUME Types, NEW r \in Members, Stepping(r), NEW p \in Members
  PROVE  [kind |-> Kind(Op(r)), val |-> Payload(r, p), of |-> op[r]] \in Messages
<1>1. job \in Jobs /\ r \in Ranks /\ p \in Ranks /\ op[r] \in Nat
  BY JobFacts DEF Types, TypeOK
<1>2. Payload(r, p) \in Contributions
  BY <1>1, ContributionTypes, SumFirstType DEF Payload, Slice, Prefix, Types, TypeOK
<1>3. Kind(Op(r)) \in {"token", "value"}
  BY DEF Kind
<1> QED BY <1>1, <1>2, <1>3 DEF Messages

LEMMA SameJob ==
  ASSUME job' = job
  PROVE  /\ Members' = Members
         /\ \A o, r : Length(o, r)' = Length(o, r)
         /\ \A r : op'[r] = op[r] => Op(r)' = Op(r)
BY DEF Members, Length, Others, FanLength, Op

LEMMA InitNet == Init => Types /\ Net
<1> SUFFICES ASSUME Init PROVE Types /\ Net
  OBVIOUS
<1> USE DEF Init
<1>1. job.program \in Seq(Operations) /\ MaxWorld \in Nat \ {0} /\ Zero \in Contributions
  BY DparAssumption, ContributionTypes
<1>2. /\ 1 \in 1 .. (Len(job.program) + 1)
      /\ <<>> \in Seq(Ranks) /\ <<>> \in Seq(Messages)
  BY <1>1
<1>3. Types
  BY <1>1, <1>2 DEF Types, TypeOK
<1>4. ASSUME NEW r \in Members
      PROVE  Connected(r) /\ Placed(r)
  <2>1. /\ r \in Ranks /\ Members \subseteq Ranks /\ Members \subseteq Nat
        /\ 1 <= Len(job.program) => Op(r) \in Operations
        /\ Others \in Nat
    BY <1>1, JobFacts DEF Op
  <2>2. Connected(r)
    BY <2>1 DEF Connected
  <2>3. 1 <= Len(job.program) => 0 <= Length(Op(r), r)
    BY <2>1 DEF Length, FanLength
  <2>4. Placed(r)
    BY <2>1, <2>3 DEF Placed
  <2> QED BY <2>2, <2>4
<1> QED BY <1>3, <1>4 DEF Net

LEMMA Ranges ==
  ASSUME Types, NEW r \in Members
  PROVE  /\ job \in Jobs /\ r \in Ranks /\ r \in Nat
         /\ Members \subseteq Ranks /\ Members \subseteq Nat /\ 0 \in Members
         /\ pc[r] \in {"start", "init", "run", "done", "exited"}
         /\ peer[r] \in 0 .. MaxWorld /\ peer[r] \in Nat
         /\ backlog[r] \in Seq(Ranks)
         /\ fd[r] \in [Ranks -> Ranks \cup {None}]
         /\ op[r] \in 1 .. (Len(job.program) + 1) /\ op[r] \in Nat
         /\ at[r] \in Nat
         /\ acc[r] \in Contributions
         /\ got[r] \in [Ranks -> Contributions]
         /\ chan[r] \in [Ranks -> Seq(Messages)]
<1>1. job \in Jobs
  BY DEF Types, TypeOK
<1>2. /\ r \in Ranks /\ r \in Nat /\ MaxWorld \in Nat /\ job.program \in Seq(Operations)
      /\ Members \subseteq Ranks /\ Members \subseteq Nat /\ 0 \in Members
  BY <1>1, JobFacts, DparAssumption
<1>3. /\ pc[r] \in {"start", "init", "run", "done", "exited"}
      /\ peer[r] \in 0 .. MaxWorld
      /\ backlog[r] \in Seq(Ranks)
      /\ fd[r] \in [Ranks -> Ranks \cup {None}]
  BY <1>2 DEF Types, TypeOK
<1>4. /\ op[r] \in 1 .. (Len(job.program) + 1) /\ at[r] \in Nat
      /\ acc[r] \in Contributions
      /\ got[r] \in [Ranks -> Contributions]
      /\ chan[r] \in [Ranks -> Seq(Messages)]
  BY <1>2 DEF Types, TypeOK
<1>5. peer[r] \in Nat /\ op[r] \in Nat
  BY <1>2, <1>3, <1>4
<1> QED BY <1>1, <1>2, <1>3, <1>4, <1>5

\* What an assignment to one rank's entry leaves.
LEMMA PointWise ==
  ASSUME NEW S, NEW T, NEW f \in [S -> T], NEW r \in S, NEW e
  PROVE  /\ [f EXCEPT ![r] = e][r] = e
         /\ \A q \in S : q # r => [f EXCEPT ![r] = e][q] = f[q]
OBVIOUS

LEMMA ListenNet ==
  ASSUME Types, Net, NEW r \in Members, Listen(r)
  PROVE  Types' /\ Net'
<1>1. /\ job' = job /\ Members' = Members
      /\ UNCHANGED <<backlog, fd, chan, op, at, acc, got>>
  BY SameJob DEF Listen, opVars
<1>2. /\ job \in Jobs /\ r \in Ranks /\ r \in Nat /\ 0 \in 0 .. MaxWorld /\ 1 \in 0 .. MaxWorld
  BY Ranges, DparAssumption
<1>3. /\ pc' = [pc EXCEPT ![r] = "init"]
      /\ peer' = [peer EXCEPT ![r] = IF r = 0 THEN 1 ELSE 0]
      /\ pc[r] = "start"
  BY DEF Listen
<1>4. /\ pc' \in [Ranks -> {"start", "init", "run", "done", "exited"}]
      /\ peer' \in [Ranks -> 0 .. MaxWorld]
  BY <1>2, <1>3 DEF Types, TypeOK
<1>5. Types'
  BY <1>1, <1>4 DEF Types, TypeOK
<1>6. /\ pc'[r] = "init" /\ peer'[r] = IF r = 0 THEN 1 ELSE 0
      /\ \A q \in Members \ {r} : pc'[q] = pc[q] /\ peer'[q] = peer[q]
  BY <1>2, <1>3, Ranges DEF Types, TypeOK
<1>7. ASSUME NEW q \in Members
      PROVE  Connected(q)' /\ Placed(q)'
  <2>1. Connected(q) /\ Placed(q) /\ q \in Nat /\ Members \subseteq Nat
    BY Ranges DEF Net
  <2>2. Placed(q)'
    BY <1>1, <1>6, <2>1, SameJob DEF Placed
  <2>3. Connected(q)'
    <3>1. CASE q = r
      BY <1>1, <1>3, <1>6, <2>1, <3>1 DEF Connected
    <3>2. CASE q # r
      BY <1>1, <1>6, <2>1, <3>2 DEF Connected
    <3> QED BY <3>1, <3>2
  <2> QED BY <2>2, <2>3
<1> QED BY <1>1, <1>5, <1>7 DEF Net

LEMMA NextPeerIs ==
  ASSUME job \in Jobs, NEW r \in Members, NEW p \in Members, p # r
  PROVE  /\ NextPeer(r, p) \in 0 .. MaxWorld
         /\ NextPeer(r, p) # r
         /\ \A s \in Members \ {r} : s < NextPeer(r, p) <=> s < p \/ s = p
<1>1. /\ r \in Nat /\ p \in Nat /\ job.world \in Nat /\ job.world <= MaxWorld /\ MaxWorld \in Nat
      /\ r < job.world /\ p < job.world /\ Members \subseteq Nat
  BY JobFacts, DparAssumption
<1>2. CASE p + 1 = r
  <2>1. NextPeer(r, p) = p + 2
    BY <1>2 DEF NextPeer
  <2> QED BY <1>1, <1>2, <2>1
<1>3. CASE p + 1 # r
  <2>1. NextPeer(r, p) = p + 1
    BY <1>3 DEF NextPeer
  <2> QED BY <1>1, <1>3, <2>1
<1> QED BY <1>2, <1>3

\* A turn of the initialisation: a socket for the peer, then the next peer.
LEMMA SocketMade ==
  ASSUME Types, NEW r \in Members, NEW e \in Ranks, peer[r] \in Members, peer[r] # r,
         fd' = [fd EXCEPT ![r][peer[r]] = e],
         peer' = [peer EXCEPT ![r] = NextPeer(r, peer[r])],
         \A s \in Members \ {r} : fd[r][s] # None <=> s < peer[r]
  PROVE  /\ fd' \in [Ranks -> [Ranks -> Ranks \cup {None}]]
         /\ peer' \in [Ranks -> 0 .. MaxWorld]
         /\ \A q \in Members \ {r} : fd'[q] = fd[q] /\ peer'[q] = peer[q]
         /\ \A s \in Members : fd'[r][s] = IF s = peer[r] THEN e ELSE fd[r][s]
         /\ peer'[r] # r
         /\ \A s \in Members \ {r} : fd'[r][s] # None <=> s < peer'[r]
<1> DEFINE p == peer[r]
<1>1. job \in Jobs /\ r \in Ranks /\ p \in Ranks /\ Members \subseteq Ranks /\ Members \subseteq Nat
  BY Ranges
<1>2. /\ fd \in [Ranks -> [Ranks -> Ranks \cup {None}]]
      /\ peer \in [Ranks -> 0 .. MaxWorld]
  BY DEF Types, TypeOK
<1>3. /\ NextPeer(r, p) \in 0 .. MaxWorld /\ NextPeer(r, p) # r
      /\ \A s \in Members \ {r} : s < NextPeer(r, p) <=> s < p \/ s = p
  BY <1>1, NextPeerIs
<1>4. fd[r] \in [Ranks -> Ranks \cup {None}] /\ fd'[r] = [fd[r] EXCEPT ![p] = e]
  BY <1>1, <1>2
<1>5. \A s \in Members : fd'[r][s] = IF s = p THEN e ELSE fd[r][s]
  BY <1>1, <1>4
<1>6. fd'[r] \in [Ranks -> Ranks \cup {None}]
  BY <1>4
<1>7. /\ fd' \in [Ranks -> [Ranks -> Ranks \cup {None}]]
      /\ \A q \in Members \ {r} : fd'[q] = fd[q]
  BY <1>1, <1>2, <1>6
<1>8. /\ peer' \in [Ranks -> 0 .. MaxWorld] /\ peer'[r] = NextPeer(r, p)
      /\ \A q \in Members \ {r} : peer'[q] = peer[q]
  BY <1>1, <1>2, <1>3
<1>9. e # None
  BY DparAssumption DEF Ranks, None
<1>10. \A s \in Members \ {r} : fd'[r][s] # None <=> s < peer'[r]
  BY <1>3, <1>5, <1>8, <1>9
<1> QED BY <1>3, <1>5, <1>7, <1>8, <1>10

LEMMA ConnectNet ==
  ASSUME Types, Net, NEW r \in Members, Connect(r)
  PROVE  Types' /\ Net'
<1> DEFINE p == peer[r]
<1>1. /\ job' = job /\ Members' = Members
      /\ UNCHANGED <<pc, chan, op, at, acc, got>>
  BY SameJob DEF Connect, opVars
<1>2. /\ job \in Jobs /\ r \in Ranks /\ r \in Nat /\ p \in Nat /\ p \in Ranks
      /\ p \in Members /\ r < p /\ p # r /\ pc[r] = "init"
      /\ Members \subseteq Ranks /\ Members \subseteq Nat
  BY Ranges DEF Connect
<1>3. /\ backlog' = [backlog EXCEPT ![p] = Append(@, r)]
      /\ fd' = [fd EXCEPT ![r][p] = p]
      /\ peer' = [peer EXCEPT ![r] = NextPeer(r, p)]
  BY DEF Connect
<1>4. Connected(r)
  BY DEF Net
<1>5. /\ fd' \in [Ranks -> [Ranks -> Ranks \cup {None}]]
      /\ peer' \in [Ranks -> 0 .. MaxWorld]
      /\ \A q \in Members \ {r} : fd'[q] = fd[q] /\ peer'[q] = peer[q]
      /\ peer'[r] # r
      /\ \A s \in Members \ {r} : fd'[r][s] # None <=> s < peer'[r]
  BY <1>2, <1>3, <1>4, SocketMade DEF Connected
<1>6. /\ backlog' \in [Ranks -> Seq(Ranks)] /\ backlog[p] \in Seq(Ranks)
      /\ backlog'[p] = Append(backlog[p], r)
      /\ \A q \in Members \ {p} : backlog'[q] = backlog[q]
  BY <1>2, <1>3 DEF Types, TypeOK
<1>7. Types'
  BY <1>1, <1>5, <1>6 DEF Types, TypeOK
<1>8. ASSUME NEW q \in Members
      PROVE  Connected(q)' /\ Placed(q)'
  <2>1. Connected(q) /\ Placed(q)
    BY DEF Net
  <2>2. Placed(q)'
    BY <1>1, <2>1, SameJob DEF Placed
  <2>3. \A i \in DOMAIN backlog'[q] : backlog'[q][i] \in Members /\ backlog'[q][i] < q
    <3>1. CASE q = p
      <4>1. \A i \in DOMAIN backlog[p] : backlog[p][i] \in Members /\ backlog[p][i] < p
        BY <2>1, <3>1 DEF Connected
      <4>2. \A i \in DOMAIN Append(backlog[p], r) :
              Append(backlog[p], r)[i] = r \/ (i \in DOMAIN backlog[p]
                                               /\ Append(backlog[p], r)[i] = backlog[p][i])
        BY <1>2, <1>6
      <4> QED BY <1>2, <1>6, <3>1, <4>1, <4>2
    <3>2. CASE q # p
      BY <1>6, <2>1, <3>2 DEF Connected
    <3> QED BY <3>1, <3>2
  <2>4. Connected(q)'
    <3>1. CASE q = r
      BY <1>1, <1>2, <1>5, <2>1, <2>3, <3>1 DEF Connected
    <3>2. CASE q # r
      BY <1>1, <1>5, <2>1, <2>3, <3>2 DEF Connected
    <3> QED BY <3>1, <3>2
  <2> QED BY <2>2, <2>4
<1> QED BY <1>1, <1>7, <1>8 DEF Net

LEMMA AcceptNet ==
  ASSUME Types, Net, NEW r \in Members, Accept(r)
  PROVE  Types' /\ Net'
<1> DEFINE p == peer[r]
<1>1. /\ job' = job /\ Members' = Members
      /\ UNCHANGED <<pc, chan, op, at, acc, got>>
  BY SameJob DEF Accept, opVars
<1>2. /\ job \in Jobs /\ r \in Ranks /\ r \in Nat /\ p \in Nat /\ p < r /\ p # r /\ pc[r] = "init"
      /\ Members \subseteq Ranks /\ Members \subseteq Nat
      /\ backlog[r] \in Seq(Ranks) /\ backlog[r] # <<>>
  BY Ranges DEF Accept
<1>3. p \in Members
  BY <1>2, JobFacts DEF Members
<1>4. /\ backlog' = [backlog EXCEPT ![r] = Tail(@)]
      /\ fd' = [fd EXCEPT ![r][p] = Head(backlog[r])]
      /\ peer' = [peer EXCEPT ![r] = NextPeer(r, p)]
  BY DEF Accept
<1>5. Head(backlog[r]) \in Ranks /\ Tail(backlog[r]) \in Seq(Ranks)
  BY <1>2
<1>6. Connected(r)
  BY DEF Net
<1>7. /\ fd' \in [Ranks -> [Ranks -> Ranks \cup {None}]]
      /\ peer' \in [Ranks -> 0 .. MaxWorld]
      /\ \A q \in Members \ {r} : fd'[q] = fd[q] /\ peer'[q] = peer[q]
      /\ peer'[r] # r
      /\ \A s \in Members \ {r} : fd'[r][s] # None <=> s < peer'[r]
  BY <1>2, <1>3, <1>4, <1>5, <1>6, SocketMade DEF Connected
<1>8. /\ backlog' \in [Ranks -> Seq(Ranks)]
      /\ backlog'[r] = Tail(backlog[r])
      /\ \A q \in Members \ {r} : backlog'[q] = backlog[q]
  BY <1>2, <1>4, <1>5 DEF Types, TypeOK
<1>9. Types'
  BY <1>1, <1>7, <1>8 DEF Types, TypeOK
<1>10. ASSUME NEW q \in Members
       PROVE  Connected(q)' /\ Placed(q)'
  <2>1. Connected(q) /\ Placed(q)
    BY DEF Net
  <2>2. Placed(q)'
    BY <1>1, <2>1, SameJob DEF Placed
  <2>3. \A i \in DOMAIN backlog'[q] : backlog'[q][i] \in Members /\ backlog'[q][i] < q
    <3>1. CASE q = r
      <4>1. \A i \in DOMAIN backlog[r] : backlog[r][i] \in Members /\ backlog[r][i] < r
        BY <2>1, <3>1 DEF Connected
      <4>2. \A i \in DOMAIN Tail(backlog[r]) :
              i + 1 \in DOMAIN backlog[r] /\ Tail(backlog[r])[i] = backlog[r][i + 1]
        BY <1>2
      <4> QED BY <1>8, <3>1, <4>1, <4>2
    <3>2. CASE q # r
      BY <1>8, <2>1, <3>2 DEF Connected
    <3> QED BY <3>1, <3>2
  <2>4. Connected(q)'
    <3>1. CASE q = r
      BY <1>1, <1>2, <1>7, <2>1, <2>3, <3>1 DEF Connected
    <3>2. CASE q # r
      BY <1>1, <1>7, <2>1, <2>3, <3>2 DEF Connected
    <3> QED BY <3>1, <3>2
  <2> QED BY <2>2, <2>4
<1> QED BY <1>1, <1>9, <1>10 DEF Net

\* A step that only changes where one rank is.
LEMMA MoveNet ==
  ASSUME Types, Net, NEW r \in Members, NEW to \in {"run", "done", "exited"},
         pc' = [pc EXCEPT ![r] = to],
         UNCHANGED <<job, peer, backlog, fd, chan, op, at>>,
         acc' \in [Ranks -> Contributions],
         got' \in [Ranks -> [Ranks -> Contributions]],
         to \in {"run", "done"} => peer[r] \notin Members,
         to = "done" => op[r] > Len(job.program),
         pc[r] # "start"
  PROVE  Types' /\ Net'
<1>1. Members' = Members /\ r \in Ranks
  BY SameJob, Ranges
<1>2. /\ pc' \in [Ranks -> {"start", "init", "run", "done", "exited"}]
      /\ pc'[r] = to /\ \A q \in Members \ {r} : pc'[q] = pc[q]
  BY <1>1, Ranges DEF Types, TypeOK
<1>3. Types'
  BY <1>2 DEF Types, TypeOK
<1>4. ASSUME NEW q \in Members
      PROVE  Connected(q)' /\ Placed(q)'
  <2>1. Connected(q) /\ Placed(q)
    BY DEF Net
  <2>2. Placed(q)'
    BY <1>2, <2>1, SameJob DEF Placed
  <2>3. Connected(q)'
    BY <1>1, <1>2, <2>1 DEF Connected
  <2> QED BY <2>2, <2>3
<1> QED BY <1>1, <1>3, <1>4 DEF Net

LEMMA GiveUpNet ==
  ASSUME Types, Net, NEW r \in Members, GiveUp(r)
  PROVE  Types' /\ Net'
<1>1. /\ pc' = [pc EXCEPT ![r] = "exited"] /\ pc[r] # "start"
      /\ UNCHANGED <<job, peer, backlog, fd, chan, op, at, acc, got>>
  BY DEF GiveUp, netVars, opVars
<1>2. acc' \in [Ranks -> Contributions] /\ got' \in [Ranks -> [Ranks -> Contributions]]
  BY <1>1 DEF Types, TypeOK
<1> QED BY <1>1, <1>2, MoveNet

LEMMA ReadyNet ==
  ASSUME Types, Net, NEW r \in Members, Ready(r)
  PROVE  Types' /\ Net'
<1>1. /\ pc' = [pc EXCEPT ![r] = "run"] /\ pc[r] # "start" /\ peer[r] \notin Members
      /\ UNCHANGED <<job, peer, backlog, fd, chan, op, at>>
  BY DEF Ready, netVars
<1>2. r \in Ranks /\ job.root \in Ranks
  BY Ranges, JobFacts
<1>3. /\ acc' = [acc EXCEPT ![r] = Local(OpAt(1), r)]
      /\ got' = [got EXCEPT ![r] = Gathered(OpAt(1), r)]
  BY DEF Ready
<1>4. Local(OpAt(1), r) \in Contributions /\ Gathered(OpAt(1), r) \in [Ranks -> Contributions]
  BY <1>2, ContributionTypes
<1>5. acc' \in [Ranks -> Contributions] /\ got' \in [Ranks -> [Ranks -> Contributions]]
  BY <1>2, <1>3, <1>4 DEF Types, TypeOK
<1> QED BY <1>1, <1>5, MoveNet

\* A step that changes where one connected rank is in its program, and the
\* messages and buffers with it.
LEMMA ProgressNet ==
  ASSUME Types, Net, NEW r \in Members, pc[r] = "run",
         NEW k \in 1 .. (Len(job.program) + 1), NEW i \in Nat,
         op' = [op EXCEPT ![r] = k], at' = [at EXCEPT ![r] = i],
         k <= Len(job.program) => i <= Length(job.program[k], r),
         UNCHANGED <<job, pc, peer, backlog, fd>>,
         chan' \in [Ranks -> [Ranks -> Seq(Messages)]],
         acc' \in [Ranks -> Contributions],
         got' \in [Ranks -> [Ranks -> Contributions]]
  PROVE  Types' /\ Net'
<1>1. Members' = Members /\ r \in Ranks /\ Members \subseteq Ranks
  BY SameJob, Ranges
<1>2. /\ op' \in [Ranks -> 1 .. (Len(job.program) + 1)] /\ at' \in [Ranks -> Nat]
      /\ op'[r] = k /\ at'[r] = i
      /\ \A q \in Members \ {r} : op'[q] = op[q] /\ at'[q] = at[q]
  BY <1>1 DEF Types, TypeOK
<1>3. \A q, s \in Ranks : \A j \in DOMAIN chan'[q][s] : chan'[q][s][j] \in Messages
  <2> SUFFICES ASSUME NEW q \in Ranks, NEW s \in Ranks, NEW j \in DOMAIN chan'[q][s]
               PROVE  chan'[q][s][j] \in Messages
    OBVIOUS
  <2>1. chan'[q][s] \in Seq(Messages)
    OBVIOUS
  <2> QED BY <2>1
<1>4. Types'
  BY <1>2, <1>3 DEF Types, TypeOK
<1>5. ASSUME NEW q \in Members
      PROVE  Connected(q)' /\ Placed(q)'
  <2>1. Connected(q) /\ Placed(q)
    BY DEF Net
  <2>2. Placed(q)'
    <3>1. CASE q = r
      <4>1. Op(r)' = job.program[k]
        BY <1>2 DEF Op
      <4> QED BY <1>2, <3>1, <4>1, SameJob DEF Placed
    <3>2. CASE q # r
      BY <1>2, <2>1, <3>2, SameJob DEF Placed
    <3> QED BY <3>1, <3>2
  <2>3. Connected(q)'
    BY <1>1, <1>2, <2>1 DEF Connected
  <2> QED BY <2>2, <2>3
<1> QED BY <1>1, <1>4, <1>5 DEF Net

LEMMA AdvanceNet ==
  ASSUME Types, Net, NEW r \in Members, Advance(r)
  PROVE  Types' /\ Net'
<1>1. /\ r \in Ranks /\ job \in Jobs /\ pc[r] = "run" /\ job.root \in Ranks
      /\ op[r] \in 1 .. (Len(job.program) + 1) /\ op[r] \in Nat /\ Connected(r)
      /\ UNCHANGED <<job, peer, backlog, fd, chan>>
  BY Ranges, JobFacts DEF Advance, netVars, Net
<1>2. CASE op[r] > Len(job.program) /\ pc' = [pc EXCEPT ![r] = "done"] /\ UNCHANGED opVars
  <2>1. acc' \in [Ranks -> Contributions] /\ got' \in [Ranks -> [Ranks -> Contributions]]
    BY <1>2 DEF Types, TypeOK, opVars
  <2>2. peer[r] \notin Members
    BY <1>1 DEF Connected
  <2> QED BY <1>1, <1>2, <2>1, <2>2, MoveNet DEF opVars
<1>3. CASE /\ op[r] <= Len(job.program)
           /\ at[r] = Length(job.program[op[r]], r)
           /\ op' = [op EXCEPT ![r] = @ + 1]
           /\ at' = [at EXCEPT ![r] = 0]
           /\ acc' = [acc EXCEPT ![r] = Local(OpAt(op[r] + 1), r)]
           /\ got' = [got EXCEPT ![r] = Gathered(OpAt(op[r] + 1), r)]
           /\ UNCHANGED pc
  <2> DEFINE k == op[r] + 1
  <2>1. job.program \in Seq(Operations)
    BY <1>1, JobFacts
  <2>2. k \in 1 .. (Len(job.program) + 1)
    BY <1>1, <1>3, <2>1
  <2>3. k <= Len(job.program) => 0 <= Length(job.program[k], r)
    BY <1>1, <2>1, <2>2, JobFacts DEF Length, FanLength
  <2>4. Local(OpAt(k), r) \in Contributions /\ Gathered(OpAt(k), r) \in [Ranks -> Contributions]
    BY <1>1, ContributionTypes
  <2>5. /\ acc' \in [Ranks -> Contributions] /\ got' \in [Ranks -> [Ranks -> Contributions]]
        /\ chan' \in [Ranks -> [Ranks -> Seq(Messages)]]
    BY <1>1, <1>3, <2>4 DEF Types, TypeOK
  <2>6. op' = [op EXCEPT ![r] = k] /\ at' = [at EXCEPT ![r] = 0] /\ UNCHANGED <<job, pc, peer, backlog, fd>>
    BY <1>1, <1>3
  <2> HIDE DEF k
  <2> QED BY <1>1, <2>2, <2>3, <2>5, <2>6, ProgressNet
<1> QED BY <1>2, <1>3 DEF Advance

\* A message is added to a channel, or taken from one.
LEMMA ChannelTypes ==
  ASSUME Types, NEW q \in Ranks, NEW r \in Ranks
  PROVE  /\ \A m \in Messages :
              [chan EXCEPT ![q][r] = Append(@, m)] \in [Ranks -> [Ranks -> Seq(Messages)]]
         /\ chan[q][r] # <<>> =>
              /\ [chan EXCEPT ![q][r] = Tail(@)] \in [Ranks -> [Ranks -> Seq(Messages)]]
              /\ Head(chan[q][r]) \in Messages
<1>1. chan \in [Ranks -> [Ranks -> Seq(Messages)]] /\ chan[q][r] \in Seq(Messages)
  BY DEF Types
<1> HIDE DEF Messages
<1>2. \A m \in Messages : Append(chan[q][r], m) \in Seq(Messages)
  BY <1>1
<1>3. chan[q][r] # <<>> => Tail(chan[q][r]) \in Seq(Messages) /\ Head(chan[q][r]) \in Messages
  BY <1>1
<1> QED BY <1>1, <1>2, <1>3

LEMMA SendingNet ==
  ASSUME Types, Net, NEW r \in Members, Sending(r)
  PROVE  Types' /\ Net'
<1> DEFINE p == Now(r).peer
           q == fd[r][p]
<1>1. /\ r \in Ranks /\ job \in Jobs /\ pc[r] = "run" /\ Stepping(r) /\ pc \in [Ranks -> {"start", "init", "run", "done", "exited"}]
      /\ UNCHANGED <<job, peer, backlog, fd, op, acc, got>>
  BY Ranges DEF Sending, Stepping, netVars, Types, TypeOK
<1>2. p \in Members \ {r} /\ at[r] \in Nat /\ at[r] < Length(Op(r), r) /\ op[r] \in 1 .. Len(job.program)
  BY <1>1, NowIs
<1>3. q \in Ranks
  BY <1>1, <1>2, SocketOpen
<1>4. acc' \in [Ranks -> Contributions] /\ got' \in [Ranks -> [Ranks -> Contributions]]
  BY <1>1 DEF Types, TypeOK
<1>5. CASE /\ at' = [at EXCEPT ![r] = @ + 1]
           /\ chan' = IF Gone(q) THEN chan
                      ELSE [chan EXCEPT ![r][q] =
                              Append(@, [kind |-> Kind(Op(r)), val |-> Payload(r, p), of |-> op[r]])]
           /\ UNCHANGED pc
  <2>1. [kind |-> Kind(Op(r)), val |-> Payload(r, p), of |-> op[r]] \in Messages
    BY <1>1, <1>2, PayloadType
  <2>2. chan' \in [Ranks -> [Ranks -> Seq(Messages)]]
    BY <1>1, <1>3, <1>5, <2>1, ChannelTypes DEF Types
  <2>3. /\ op[r] \in 1 .. (Len(job.program) + 1) /\ op' = [op EXCEPT ![r] = op[r]]
        /\ at[r] + 1 \in Nat /\ at' = [at EXCEPT ![r] = at[r] + 1]
    <3>1. op \in [Ranks -> 1 .. (Len(job.program) + 1)]
      BY DEF Types, TypeOK
    <3>2. op' = op
      BY <1>1
    <3>3. op[r] \in 1 .. (Len(job.program) + 1) /\ at[r] + 1 \in Nat
      BY <1>2, Ranges
    <3> QED BY <1>1, <1>5, <3>1, <3>2, <3>3
  <2>4. op[r] <= Len(job.program) => at[r] + 1 <= Length(job.program[op[r]], r)
    <3>1. Length(Op(r), r) \in Nat
      BY <1>1, JobFacts DEF Length, FanLength
    <3> QED BY <1>2, <3>1 DEF Op
  <2> QED BY <1>1, <1>4, <1>5, <2>2, <2>3, <2>4, ProgressNet
<1>6. CASE pc' = [pc EXCEPT ![r] = "exited"] /\ UNCHANGED <<at, chan>>
  BY <1>1, <1>4, <1>6, MoveNet
<1> QED BY <1>5, <1>6 DEF Sending

LEMMA ReceivedType ==
  ASSUME Types, NEW r \in Members, NEW p, NEW v \in Contributions
  PROVE  Received(r, p, v) \in Contributions
BY Ranges, ContributionTypes DEF Received

LEMMA ReceivingNet ==
  ASSUME Types, Net, NEW r \in Members, Receiving(r)
  PROVE  Types' /\ Net'
<1> DEFINE p == Now(r).peer
           q == fd[r][p]
           v == Head(chan[q][r]).val
<1>1. /\ r \in Ranks /\ job \in Jobs /\ pc[r] = "run" /\ Stepping(r)
      /\ UNCHANGED <<job, pc, peer, backlog, fd, op>>
  BY Ranges DEF Receiving, Stepping, netVars
<1>2. p \in Members \ {r} /\ at[r] \in Nat /\ at[r] < Length(Op(r), r) /\ op[r] \in 1 .. Len(job.program)
  BY <1>1, NowIs
<1>3. q \in Ranks
  BY <1>1, <1>2, SocketOpen
<1>4. /\ chan' \in [Ranks -> [Ranks -> Seq(Messages)]]
      /\ acc' \in [Ranks -> Contributions]
      /\ got' \in [Ranks -> [Ranks -> Contributions]]
  <2>1. CASE chan[q][r] = <<>>
    <3>1. UNCHANGED <<chan, acc, got>>
      BY <2>1 DEF Receiving
    <3> QED BY <3>1 DEF Types, TypeOK
  <2>2. CASE chan[q][r] # <<>>
    <3>1. /\ chan' = [chan EXCEPT ![q][r] = Tail(@)]
          /\ \/ got' = [got EXCEPT ![r][p] = v] /\ UNCHANGED acc
             \/ acc' = [acc EXCEPT ![r] = Received(r, p, v)] /\ UNCHANGED got
      BY <2>2 DEF Receiving, Place
    <3>2. v \in Contributions
      BY <1>1, <1>3, <2>2, ChannelTypes DEF Messages
    <3>3. chan' \in [Ranks -> [Ranks -> Seq(Messages)]]
      BY <1>1, <1>3, <2>2, <3>1, ChannelTypes
    <3> HIDE DEF v
    <3>4. Received(r, p, v) \in Contributions /\ p \in Ranks
      BY <1>2, <3>2, Ranges, ReceivedType
    <3> HIDE DEF p
    <3>5. acc \in [Ranks -> Contributions] /\ got \in [Ranks -> [Ranks -> Contributions]]
      BY DEF Types, TypeOK
    <3>6. [acc EXCEPT ![r] = Received(r, p, v)] \in [Ranks -> Contributions]
      BY <1>1, <3>4, <3>5
    <3>7. [got EXCEPT ![r][p] = v] \in [Ranks -> [Ranks -> Contributions]]
      <4>1. [got[r] EXCEPT ![p] = v] \in [Ranks -> Contributions]
        BY <1>1, <3>2, <3>4, <3>5
      <4> QED BY <1>1, <3>5, <4>1
    <3> QED BY <3>1, <3>3, <3>5, <3>6, <3>7
  <2> QED BY <2>1, <2>2
<1>5. at' = [at EXCEPT ![r] = at[r] + 1]
  BY DEF Receiving
<1>6. /\ op[r] \in 1 .. (Len(job.program) + 1) /\ op' = [op EXCEPT ![r] = op[r]]
      /\ at[r] + 1 \in Nat
  BY <1>1, <1>2, Ranges DEF Types, TypeOK
<1>7. op[r] <= Len(job.program) => at[r] + 1 <= Length(job.program[op[r]], r)
  <2>1. Length(Op(r), r) \in Nat
    BY <1>1, JobFacts DEF Length, FanLength
  <2> QED BY <1>2, <2>1 DEF Op
<1> QED BY <1>1, <1>4, <1>5, <1>6, <1>7, ProgressNet

\* Every socket that a connected rank uses leads to a member, and no rank leaves
\* its program or an operation's turns (li_dpar_init_from_env and the loops of
\* li_dpar_collective.c), for every world, root and program.
THEOREM NetHolds == Spec => [](Types /\ Net)
<1>1. ASSUME Types, Net, [Next]_vars
      PROVE  Types' /\ Net'
  <2>1. CASE UNCHANGED vars
    <3>1. /\ UNCHANGED <<job, pc, peer, backlog, fd, chan, op, at, acc, got>>
          /\ Members' = Members
      BY <2>1, SameJob DEF vars, netVars, opVars
    <3>2. Types'
      BY <1>1, <3>1 DEF Types, TypeOK
    <3>3. \A r \in Members : Connected(r)' /\ Placed(r)'
      BY <1>1, <3>1, SameJob DEF Net, Connected, Placed
    <3> QED BY <3>1, <3>2, <3>3 DEF Net
  <2>2. ASSUME NEW r \in Members, Rank(r) \/ GiveUp(r)
        PROVE  Types' /\ Net'
    BY <1>1, <2>2, ListenNet, ConnectNet, AcceptNet, ReadyNet, SendingNet,
       ReceivingNet, AdvanceNet, GiveUpNet DEF Rank
  <2> QED BY <1>1, <2>1, <2>2 DEF Next
<1> QED BY InitNet, <1>1, PTL DEF Spec

-----------------------------------------------------------------------------
(* Messages. From here on every socket is filed under the rank at its      *)
(* other end, as it is in every world of two.                              *)

AllLabelled == \A r \in Members : Labelled(r)

\* The operations of the program in which q has sent to r, and those in which r
\* has received from q.
Sent(q, r) ==
  {k \in 1 .. Len(job.program) :
     /\ Talks(job.program[k], q, r)
     /\ k < op[q] \/ (k = op[q] /\ SendTurn(job.program[k], q, r) < at[q])}
Rcvd(q, r) ==
  {k \in 1 .. Len(job.program) :
     /\ Talks(job.program[k], q, r)
     /\ k < op[r] \/ (k = op[r] /\ RecvTurn(job.program[k], q, r) < at[r])}

\* A channel holds what was sent and not received, in the order of the program;
\* to a rank that is gone less may have been sent, and of one that exited a
\* receipt may have failed.
Channel(q, r) ==
  LET c == chan[q][r]
  IN  /\ \A i \in DOMAIN c : /\ c[i].of \in Sent(q, r) \ Rcvd(q, r)
                             /\ c[i].kind = Kind(job.program[c[i].of])
      /\ \A i, j \in DOMAIN c : i < j => c[i].of < c[j].of
      /\ ~Gone(r) => \A k \in Sent(q, r) \ Rcvd(q, r) : \E i \in DOMAIN c : c[i].of = k
      /\ pc[q] # "exited" => Rcvd(q, r) \subseteq Sent(q, r)

Channels == AllLabelled => \A q \in Members : \A r \in Members \ {q} : Channel(q, r)

\* The number that operation o carries from q to r. The sum of an allreduce is
\* right in a world of two only (li_dpar_collective.c:97).
Carried(o, q, r) ==
  CASE o = "bcast" -> Own(job.root)
    [] o = "scatter" -> Own(r)
    [] o = "gather" -> Own(q)
    [] o = "scan" -> IF r = 0 THEN Own(q) ELSE SumOf(0 .. (r - 1))
    [] o = "allreduce" -> IF q = 0 THEN Own(0) ELSE SumOf(Members)

Exact(o) == o # "barrier" /\ (o = "allreduce" => job.world = 2)

Carries(q, r) ==
  \A i \in DOMAIN chan[q][r] :
    LET m == chan[q][r][i]
    IN  Exact(job.program[m.of]) => m.val = Carried(job.program[m.of], q, r)

\* What a rank has in its buffers before turn i of operation o: v is the value,
\* g what it gathered.
GatheredSoFar(o, r, i, g) ==
  /\ r = 0 => g[0] = Own(0)
  /\ \A p \in Members \ {r} : RecvTurn(o, p, r) < i => g[p] = Own(p)
Buffers(o, r, i, v, g) ==
  /\ o = "bcast" /\ (r = job.root \/ i >= 1) => v = Own(job.root)
  /\ o = "scatter" /\ InPlace(r) /\ (r = job.root \/ i >= 1) => v = Own(r)
  /\ o = "gather" => v = Own(r)
  /\ o = "scan" /\ r # 0 => v = IF i < 2 THEN Own(r) ELSE SumOf(0 .. (r - 1))
  /\ (o = "gather" /\ r = job.root) \/ (o = "scan" /\ r = 0) => GatheredSoFar(o, r, i, g)
  /\ o = "allreduce" /\ job.world = 2 =>
       v = IF i + r < 2 THEN Own(r) ELSE SumOf(Members)
Buffered(r) ==
  pc[r] = "run" /\ op[r] <= Len(job.program) =>
    Buffers(Op(r), r, at[r], acc[r], got[r])

ValuesHere ==
  /\ \A q \in Members : \A r \in Members \ {q} : Carries(q, r)
  /\ \A r \in Members : Buffered(r)

Values == AllLabelled /\ NoExits => ValuesHere

LEMMA SameTalk ==
  ASSUME job' = job
  PROVE  \A o, q, r : /\ Talks(o, q, r)' <=> Talks(o, q, r)
                      /\ SendTurn(o, q, r)' = SendTurn(o, q, r)
                      /\ RecvTurn(o, q, r)' = RecvTurn(o, q, r)
BY DEF Talks, SendTurn, RecvTurn, Others, Turn

LEMMA TurnTypes ==
  ASSUME job \in Jobs, NEW q \in Members, NEW r \in Members, q # r,
         NEW o \in Operations
  PROVE  /\ SendTurn(o, q, r) \in Nat
         /\ RecvTurn(o, q, r) \in Nat
<1>1. Turn(q, r) \in Nat /\ Turn(r, q) \in Nat /\ Others \in Nat
  BY TurnBelow, JobFacts
<1> QED BY <1>1 DEF SendTurn, RecvTurn, Operations

\* A turn adds the operation to one of the sets at most.
LEMMA TurnSets ==
  ASSUME Types, NEW r \in Members, Stepping(r), job' = job, op' = op,
         at' = [at EXCEPT ![r] = @ + 1],
         NEW q \in Members, NEW x \in Members, q # x
  PROVE  /\ Sent(q, x)' = IF q = r /\ Now(r) = Send(x)
                          THEN Sent(q, x) \cup {op[r]} ELSE Sent(q, x)
         /\ Rcvd(q, x)' = IF x = r /\ Now(r) = Recv(q)
                          THEN Rcvd(q, x) \cup {op[r]} ELSE Rcvd(q, x)
         /\ q = r /\ Now(r) = Send(x) => op[r] \notin Sent(q, x)
         /\ x = r /\ Now(r) = Recv(q) => op[r] \notin Rcvd(q, x)
<1>1. /\ job \in Jobs /\ r \in Ranks /\ job.program \in Seq(Operations)
      /\ op[r] \in 1 .. Len(job.program) /\ op[r] \in Nat
      /\ Op(r) \in Operations /\ Op(r) = job.program[op[r]]
      /\ at[r] \in Nat /\ at[r] < Length(Op(r), r)
  BY Ranges, NowIs, JobFacts DEF Op
<1>2. /\ at'[r] = at[r] + 1
      /\ \A y \in Members \ {r} : at'[y] = at[y]
  BY <1>1, Ranges DEF Types, TypeOK
<1>3. ASSUME Talks(Op(r), r, x), r # x
      PROVE  SendTurn(Op(r), r, x) = at[r] <=> Now(r) = Send(x)
  <2>1. CASE SendTurn(Op(r), r, x) = at[r]
    BY <1>1, <1>3, <2>1, SendStep DEF Now
  <2>2. CASE Now(r) = Send(x)
    BY <2>2, NowIs, SendRecv
  <2> QED BY <2>1, <2>2
<1>4. ASSUME Talks(Op(r), q, r), r # q
      PROVE  RecvTurn(Op(r), q, r) = at[r] <=> Now(r) = Recv(q)
  <2>1. CASE RecvTurn(Op(r), q, r) = at[r]
    BY <1>1, <1>4, <2>1, RecvStep DEF Now
  <2>2. CASE Now(r) = Recv(q)
    BY <2>2, NowIs, SendRecv
  <2> QED BY <2>1, <2>2
<1>5. /\ Now(r) = Send(x) => Talks(Op(r), r, x)
      /\ Now(r) = Recv(q) => Talks(Op(r), q, r)
  BY NowIs, SendRecv
<1>6. CASE q = r
  <2>1. Rcvd(q, x)' = Rcvd(q, x)
    BY <1>2, <1>6, SameTalk DEF Rcvd
  <2>2. SendTurn(Op(r), r, x) \in Nat
    BY <1>1, <1>6, TurnTypes
  <2>3. \A k \in 1 .. Len(job.program) :
          k \in Sent(r, x)' <=> k \in Sent(r, x) \/ (k = op[r] /\ Now(r) = Send(x))
    <3> SUFFICES ASSUME NEW k \in 1 .. Len(job.program)
                 PROVE  k \in Sent(r, x)' <=> k \in Sent(r, x) \/ (k = op[r] /\ Now(r) = Send(x))
      OBVIOUS
    <3>1. CASE k # op[r]
      BY <1>2, <3>1, SameTalk DEF Sent
    <3>2. CASE k = op[r] /\ Talks(Op(r), r, x)
      BY <1>1, <1>2, <1>3, <1>6, <2>2, <3>2, SameTalk DEF Sent
    <3>3. CASE k = op[r] /\ ~Talks(Op(r), r, x)
      BY <1>1, <1>5, <3>3, SameTalk DEF Sent
    <3> QED BY <3>1, <3>2, <3>3
  <2>4. Now(r) = Send(x) => op[r] \notin Sent(r, x)
    BY <1>1, <1>3, <1>5, <1>6 DEF Sent
  <2>5. Sent(r, x) \subseteq 1 .. Len(job.program) /\ Sent(r, x)' \subseteq 1 .. Len(job.program)
    BY DEF Sent
  <2>6. Sent(r, x)' = IF Now(r) = Send(x) THEN Sent(r, x) \cup {op[r]} ELSE Sent(r, x)
    BY <1>1, <2>3, <2>5
  <2> QED BY <1>6, <2>1, <2>4, <2>6
<1>7. CASE x = r
  <2>1. Sent(q, x)' = Sent(q, x)
    BY <1>2, <1>7, SameTalk DEF Sent
  <2>2. RecvTurn(Op(r), q, r) \in Nat
    BY <1>1, <1>7, TurnTypes
  <2>3. \A k \in 1 .. Len(job.program) :
          k \in Rcvd(q, r)' <=> k \in Rcvd(q, r) \/ (k = op[r] /\ Now(r) = Recv(q))
    <3> SUFFICES ASSUME NEW k \in 1 .. Len(job.program)
                 PROVE  k \in Rcvd(q, r)' <=> k \in Rcvd(q, r) \/ (k = op[r] /\ Now(r) = Recv(q))
      OBVIOUS
    <3>1. CASE k # op[r]
      BY <1>2, <3>1, SameTalk DEF Rcvd
    <3>2. CASE k = op[r] /\ Talks(Op(r), q, r)
      BY <1>1, <1>2, <1>4, <1>7, <2>2, <3>2, SameTalk DEF Rcvd
    <3>3. CASE k = op[r] /\ ~Talks(Op(r), q, r)
      BY <1>1, <1>5, <3>3, SameTalk DEF Rcvd
    <3> QED BY <3>1, <3>2, <3>3
  <2>4. Now(r) = Recv(q) => op[r] \notin Rcvd(q, r)
    BY <1>1, <1>4, <1>5, <1>7 DEF Rcvd
  <2>5. Rcvd(q, r) \subseteq 1 .. Len(job.program) /\ Rcvd(q, r)' \subseteq 1 .. Len(job.program)
    BY DEF Rcvd
  <2>6. Rcvd(q, r)' = IF Now(r) = Recv(q) THEN Rcvd(q, r) \cup {op[r]} ELSE Rcvd(q, r)
    BY <1>1, <2>3, <2>5
  <2> QED BY <1>7, <2>1, <2>4, <2>6
<1>8. CASE q # r /\ x # r
  BY <1>2, <1>8, SameTalk DEF Sent, Rcvd
<1> QED BY <1>6, <1>7, <1>8

\* The return from an operation adds nothing: all its turns are over.
LEMMA ReturnSets ==
  ASSUME Types, NEW r \in Members, job' = job, op[r] <= Len(job.program),
         at[r] = Length(job.program[op[r]], r),
         op' = [op EXCEPT ![r] = @ + 1], at' = [at EXCEPT ![r] = 0],
         NEW q \in Members, NEW x \in Members, q # x
  PROVE  Sent(q, x)' = Sent(q, x) /\ Rcvd(q, x)' = Rcvd(q, x)
<1>1. /\ job \in Jobs /\ r \in Ranks /\ job.program \in Seq(Operations)
      /\ op[r] \in Nat /\ op[r] \in 1 .. Len(job.program)
      /\ job.program[op[r]] \in Operations
  BY Ranges, JobFacts
<1>2. /\ at'[r] = 0 /\ op'[r] = op[r] + 1
      /\ \A y \in Members \ {r} : at'[y] = at[y] /\ op'[y] = op[y]
  BY <1>1, Ranges DEF Types, TypeOK
<1>3. \A k \in 1 .. Len(job.program) : job.program[k] \in Operations
  BY <1>1
<1>4. CASE q = r
  <2>1. Rcvd(q, x)' = Rcvd(q, x)
    BY <1>2, <1>4, SameTalk DEF Rcvd
  <2>2. \A k \in 1 .. Len(job.program) : k \in Sent(r, x)' <=> k \in Sent(r, x)
    <3> SUFFICES ASSUME NEW k \in 1 .. Len(job.program)
                 PROVE  k \in Sent(r, x)' <=> k \in Sent(r, x)
      OBVIOUS
    <3>1. SendTurn(job.program[k], r, x) \in Nat
      BY <1>1, <1>3, <1>4, TurnTypes
    <3>2. Talks(job.program[k], r, x) => SendTurn(job.program[k], r, x) < Length(job.program[k], r)
      BY <1>1, <1>3, <1>4, SendStep
    <3> QED BY <1>1, <1>2, <3>1, <3>2, SameTalk DEF Sent
  <2>3. Sent(r, x) \subseteq 1 .. Len(job.program) /\ Sent(r, x)' \subseteq 1 .. Len(job.program)
    BY DEF Sent
  <2> QED BY <1>4, <2>1, <2>2, <2>3
<1>5. CASE x = r
  <2>1. Sent(q, x)' = Sent(q, x)
    BY <1>2, <1>5, SameTalk DEF Sent
  <2>2. \A k \in 1 .. Len(job.program) : k \in Rcvd(q, r)' <=> k \in Rcvd(q, r)
    <3> SUFFICES ASSUME NEW k \in 1 .. Len(job.program)
                 PROVE  k \in Rcvd(q, r)' <=> k \in Rcvd(q, r)
      OBVIOUS
    <3>1. RecvTurn(job.program[k], q, r) \in Nat
      BY <1>1, <1>3, <1>5, TurnTypes
    <3>2. Talks(job.program[k], q, r) => RecvTurn(job.program[k], q, r) < Length(job.program[k], r)
      BY <1>1, <1>3, <1>5, RecvStep
    <3> QED BY <1>1, <1>2, <3>1, <3>2, SameTalk DEF Rcvd
  <2>3. Rcvd(q, r) \subseteq 1 .. Len(job.program) /\ Rcvd(q, r)' \subseteq 1 .. Len(job.program)
    BY DEF Rcvd
  <2> QED BY <1>5, <2>1, <2>2, <2>3
<1>6. CASE q # r /\ x # r
  BY <1>2, <1>6, SameTalk DEF Sent, Rcvd
<1> QED BY <1>4, <1>5, <1>6

LEMMA WrittenOnce ==
  ASSUME Types, Net, NEW s \in Members, NEW e \in Ranks, peer[s] \in Members, peer[s] # s,
         fd' = [fd EXCEPT ![s][peer[s]] = e],
         NEW r \in Members, NEW p \in Members \ {r}, fd[r][p] # None
  PROVE  fd'[r][p] = fd[r][p]
<1>1. fd[s][peer[s]] # None <=> peer[s] < peer[s]
  BY DEF Net, Connected
<1>2. fd[s][peer[s]] = None
  BY <1>1, Ranges
<1>3. fd \in [Ranks -> [Ranks -> Ranks \cup {None}]] /\ s \in Ranks /\ r \in Ranks /\ p \in Ranks
  BY Ranges DEF Types, TypeOK
<1>4. CASE r = s
  <2>1. p # peer[s] /\ fd'[s] = [fd[s] EXCEPT ![peer[s]] = e]
    BY <1>2, <1>3, <1>4
  <2> QED BY <1>3, <1>4, <2>1
<1>5. CASE r # s
  BY <1>3, <1>5
<1> QED BY <1>4, <1>5

\* A wrong label is never corrected: the loop writes each socket once.
LEMMA LabelsKept ==
  ASSUME Types, Net, [Next]_vars, AllLabelled'
  PROVE  AllLabelled
<1>1. SUFFICES ASSUME NEW r \in Members, NEW p \in Members \ {r}
               PROVE  fd[r][p] \in {p, None}
  BY DEF AllLabelled, Labelled
<1>2. job' = job /\ Members' = Members
  <2>1. job' = job
    BY DEF Next, Rank, Listen, Connect, Accept, Ready, Sending, Receiving, Advance,
           GiveUp, vars
  <2> QED BY <2>1, SameJob
<1>3. fd'[r][p] \in {p, None}
  BY <1>1, <1>2 DEF AllLabelled, Labelled
<1>4. CASE fd' = fd
  BY <1>3, <1>4
<1>5. ASSUME NEW s \in Members, NEW e \in Ranks, peer[s] \in Members, peer[s] # s,
             fd' = [fd EXCEPT ![s][peer[s]] = e]
      PROVE  fd[r][p] \in {p, None}
  <2>1. fd[r][p] # None => fd'[r][p] = fd[r][p]
    BY Types, Net, <1>5, WrittenOnce, Zenon
  <2> QED BY <1>3, <2>1
<1>6. ASSUME NEW s \in Members, Connect(s)
      PROVE  fd[r][p] \in {p, None}
  <2>1. /\ fd' = [fd EXCEPT ![s][peer[s]] = peer[s]]
        /\ peer[s] > s /\ peer[s] \in Members /\ s \in Nat /\ Members \subseteq Ranks
        /\ Members \subseteq Nat
    BY <1>6, Ranges DEF Connect
  <2>2. peer[s] \in Ranks /\ peer[s] # s
    BY <2>1
  <2> QED BY <1>5, <2>1, <2>2
<1>7. ASSUME NEW s \in Members, Accept(s)
      PROVE  fd[r][p] \in {p, None}
  <2>1. /\ peer[s] < s /\ backlog[s] # <<>> /\ backlog[s] \in Seq(Ranks)
        /\ s \in Nat /\ peer[s] \in Nat /\ s \in Members /\ job \in Jobs
    BY <1>7, Ranges DEF Accept
  <2>2. peer[s] \in Members /\ peer[s] # s /\ Head(backlog[s]) \in Ranks
    <3>1. s < job.world /\ job.world \in Nat
      BY <2>1, JobFacts
    <3>2. peer[s] \in Members /\ peer[s] # s
      BY <2>1, <3>1 DEF Members
    <3> QED BY <2>1, <3>2
  <2>3. fd' = [fd EXCEPT ![s][peer[s]] = Head(backlog[s])]
    BY <1>7 DEF Accept
  <2> QED BY <1>5, <2>2, <2>3
<1>8. [Next]_vars => \/ fd' = fd
                     \/ \E s \in Members : Connect(s) \/ Accept(s)
  BY DEF Next, Rank, Listen, Ready, Sending, Receiving, Advance, GiveUp, vars, netVars
<1> QED BY <1>4, <1>6, <1>7, <1>8

LEMMA LabelledBelow ==
  ASSUME Types, AllLabelled, Net, NEW r \in Members, pc[r] \in {"run", "done"},
         NEW p \in Members \ {r}
  PROVE  fd[r][p] = p
BY SocketOpen, DparAssumption DEF AllLabelled, Labelled, None, Ranks

\* A channel that a step leaves alone.
LEMMA ChannelKept ==
  ASSUME NEW q, NEW r, Channel(q, r), job' = job,
         chan'[q][r] = chan[q][r],
         Sent(q, r)' = Sent(q, r), Rcvd(q, r)' = Rcvd(q, r),
         Gone(r) => Gone(r)',
         pc'[q] # "exited" => pc[q] # "exited"
  PROVE  Channel(q, r)'
BY DEF Channel, Kind

\* A message that is sent comes after those before it.
LEMMA ChannelGrows ==
  ASSUME NEW q, NEW r, Channel(q, r), job' = job, job.program \in Seq(Operations),
         NEW k \in Sent(q, r)', k \notin Sent(q, r), k \notin Rcvd(q, r),
         \A j \in Sent(q, r) : j < k,
         NEW m, m.of = k, m.kind = Kind(job.program[k]),
         chan[q][r] \in Seq(Messages), m \in Messages,
         chan'[q][r] = Append(chan[q][r], m),
         Sent(q, r)' = Sent(q, r) \cup {k}, Rcvd(q, r)' = Rcvd(q, r),
         pc' = pc
  PROVE  Channel(q, r)'
<1> DEFINE c == chan[q][r]
           d == chan'[q][r]
<1>1. /\ DOMAIN c = 1 .. Len(c) /\ Len(c) \in Nat
      /\ DOMAIN d = 1 .. (Len(c) + 1)
      /\ \A i \in 1 .. Len(c) : d[i] = c[i]
      /\ d[Len(c) + 1] = m
  <2> HIDE DEF Messages
  <2> QED OBVIOUS
<1>2. /\ \A i \in DOMAIN c : c[i].of \in Sent(q, r) \ Rcvd(q, r)
                             /\ c[i].kind = Kind(job.program[c[i].of])
      /\ \A i, j \in DOMAIN c : i < j => c[i].of < c[j].of
      /\ ~Gone(r) => \A n \in Sent(q, r) \ Rcvd(q, r) : \E i \in DOMAIN c : c[i].of = n
      /\ pc[q] # "exited" => Rcvd(q, r) \subseteq Sent(q, r)
  BY DEF Channel
<1> HIDE DEF c, d
<1>3. \A i \in DOMAIN d : d[i].of \in Sent(q, r)' \ Rcvd(q, r)'
                          /\ d[i].kind = Kind(job.program[d[i].of])
  <2> SUFFICES ASSUME NEW i \in DOMAIN d
               PROVE  d[i].of \in Sent(q, r)' \ Rcvd(q, r)' /\ d[i].kind = Kind(job.program[d[i].of])
    OBVIOUS
  <2>1. CASE i = Len(c) + 1
    BY <1>1, <2>1
  <2>2. CASE i # Len(c) + 1
    <3>1. i \in DOMAIN c /\ d[i] = c[i]
      BY <1>1, <2>2
    <3> QED BY <1>2, <3>1
  <2> QED BY <2>1, <2>2
<1>4. ASSUME NEW i \in DOMAIN d, NEW j \in DOMAIN d, i < j
      PROVE  d[i].of < d[j].of
  <2>1. i \in DOMAIN c /\ d[i] = c[i]
    BY <1>1, <1>4
  <2>2. CASE j = Len(c) + 1
    <3>1. c[i].of \in Sent(q, r) /\ d[j].of = k
      BY <1>1, <1>2, <2>1, <2>2
    <3> QED BY <2>1, <3>1
  <2>3. CASE j # Len(c) + 1
    <3>1. j \in DOMAIN c /\ d[j] = c[j]
      BY <1>1, <2>3
    <3> QED BY <1>2, <1>4, <2>1, <3>1
  <2> QED BY <2>2, <2>3
<1>5. ASSUME ~Gone(r), NEW n \in Sent(q, r)' \ Rcvd(q, r)'
      PROVE  \E i \in DOMAIN d : d[i].of = n
  <2>1. CASE n = k
    <3>1. Len(c) + 1 \in DOMAIN d
      BY <1>1
    <3> QED BY <1>1, <2>1, <3>1
  <2>2. CASE n # k
    <3>1. PICK i \in DOMAIN c : c[i].of = n
      BY <1>2, <1>5, <2>2
    <3>2. i \in DOMAIN d /\ d[i] = c[i]
      BY <1>1
    <3> QED BY <3>1, <3>2
  <2> QED BY <2>1, <2>2
<1>6. Gone(r)' = Gone(r) /\ \A o : Kind(o)' = Kind(o)
  BY DEF Kind, Gone
<1>7. pc[q] # "exited" => Rcvd(q, r)' \subseteq Sent(q, r)'
  BY <1>2
<1> QED BY <1>3, <1>4, <1>5, <1>6, <1>7 DEF Channel, d

\* The oldest message is taken.
LEMMA ChannelShrinks ==
  ASSUME NEW q, NEW r, Channel(q, r), job' = job,
         chan[q][r] \in Seq(Messages), chan[q][r] # <<>>,
         Sent(q, r) \subseteq Nat,
         chan'[q][r] = Tail(chan[q][r]),
         Sent(q, r)' = Sent(q, r),
         Rcvd(q, r)' = Rcvd(q, r) \cup {Head(chan[q][r]).of},
         pc' = pc
  PROVE  Channel(q, r)'
<1> DEFINE c == chan[q][r]
           d == chan'[q][r]
<1>1. /\ DOMAIN c = 1 .. Len(c) /\ Len(c) \in Nat /\ Len(c) >= 1
      /\ DOMAIN d = 1 .. (Len(c) - 1)
      /\ \A i \in 1 .. (Len(c) - 1) : d[i] = c[i + 1]
      /\ Head(c) = c[1]
  <2> HIDE DEF Messages
  <2> QED OBVIOUS
<1>2. /\ \A i \in DOMAIN c : c[i].of \in Sent(q, r) \ Rcvd(q, r)
                             /\ c[i].kind = Kind(job.program[c[i].of])
      /\ \A i, j \in DOMAIN c : i < j => c[i].of < c[j].of
      /\ ~Gone(r) => \A n \in Sent(q, r) \ Rcvd(q, r) : \E i \in DOMAIN c : c[i].of = n
      /\ pc[q] # "exited" => Rcvd(q, r) \subseteq Sent(q, r)
  BY DEF Channel
<1>3. Rcvd(q, r)' = Rcvd(q, r) \cup {c[1].of}
  BY <1>1
<1> HIDE DEF c, d
<1>4. \A i \in DOMAIN d : d[i].of \in Sent(q, r)' \ Rcvd(q, r)'
                          /\ d[i].kind = Kind(job.program[d[i].of])
  <2> SUFFICES ASSUME NEW i \in DOMAIN d
               PROVE  d[i].of \in Sent(q, r)' \ Rcvd(q, r)' /\ d[i].kind = Kind(job.program[d[i].of])
    OBVIOUS
  <2>1. d[i] = c[i + 1] /\ i + 1 \in DOMAIN c /\ 1 \in DOMAIN c /\ 1 < i + 1
    BY <1>1
  <2>2. c[1].of < c[i + 1].of /\ c[1].of \in Nat /\ c[i + 1].of \in Nat
    BY <1>2, <2>1
  <2> QED BY <1>2, <1>3, <2>1, <2>2
<1>5. ASSUME NEW i \in DOMAIN d, NEW j \in DOMAIN d, i < j
      PROVE  d[i].of < d[j].of
  <2>1. /\ i + 1 \in DOMAIN c /\ j + 1 \in DOMAIN c /\ i + 1 < j + 1
        /\ d[i] = c[i + 1] /\ d[j] = c[j + 1]
    BY <1>1, <1>5
  <2> QED BY <1>2, <2>1
<1>6. ~Gone(r) => \A n \in Sent(q, r)' \ Rcvd(q, r)' : \E i \in DOMAIN d : d[i].of = n
  <2> SUFFICES ASSUME ~Gone(r), NEW n \in Sent(q, r)' \ Rcvd(q, r)'
               PROVE  \E i \in DOMAIN d : d[i].of = n
    OBVIOUS
  <2>1. PICK i \in DOMAIN c : c[i].of = n
    BY <1>2, <1>3
  <2>2. i # 1
    BY <1>3, <2>1
  <2>3. i - 1 \in DOMAIN d /\ d[i - 1] = c[i]
    BY <1>1, <2>1, <2>2
  <2> QED BY <2>1, <2>3
<1>7. pc[q] # "exited" => Rcvd(q, r)' \subseteq Sent(q, r)'
  BY <1>1, <1>2, <1>3
<1> QED BY <1>4, <1>5, <1>6, <1>7 DEF Channel, Kind, Gone, d

\* A receipt finds the message of its own operation, or none; if the sender is
\* gone, only because it exited.
LEMMA HeadIsMine ==
  ASSUME Types, Net, NEW r \in Members, Stepping(r), Now(r).do = "recv",
         NEW q \in Members \ {r}, Now(r).peer = q, Channel(q, r)
  PROVE  /\ chan[q][r] # <<>> => Head(chan[q][r]).of = op[r]
         /\ chan[q][r] = <<>> /\ Gone(q) => pc[q] = "exited"
<1> DEFINE c == chan[q][r]
           k == op[r]
<1>1. /\ job \in Jobs /\ q \in Ranks /\ r \in Ranks /\ job.program \in Seq(Operations)
      /\ k \in 1 .. Len(job.program) /\ k \in Nat /\ c \in Seq(Messages)
      /\ op[q] \in Nat /\ at[q] \in Nat /\ at[r] \in Nat /\ pc[r] = "run"
      /\ Len(job.program) \in Nat
      /\ \A j \in 1 .. Len(job.program) : job.program[j] \in Operations
  BY Ranges, NowIs, JobFacts DEF Stepping
<1>2. /\ Talks(Op(r), q, r) /\ at[r] = RecvTurn(Op(r), q, r) /\ Op(r) = job.program[k]
  BY NowIs DEF Op
<1>3. k \notin Rcvd(q, r)
  BY <1>1, <1>2 DEF Rcvd
<1>4. ASSUME NEW j \in Sent(q, r) \ Rcvd(q, r)
      PROVE  j >= k
  BY <1>1, <1>4 DEF Sent, Rcvd
<1>5. ASSUME NEW j \in Sent(q, r), j > k
      PROVE  k \in Sent(q, r)
  BY <1>1, <1>2, <1>5 DEF Sent
<1>6. ~Gone(r)
  BY <1>1 DEF Gone
<1>7. /\ \A i \in DOMAIN c : c[i].of \in Sent(q, r) \ Rcvd(q, r)
      /\ \A i, j \in DOMAIN c : i < j => c[i].of < c[j].of
      /\ \A n \in Sent(q, r) \ Rcvd(q, r) : \E i \in DOMAIN c : c[i].of = n
  BY <1>6 DEF Channel
<1>8. ASSUME c # <<>>
      PROVE  Head(c).of = k
  <2>1. 1 \in DOMAIN c /\ Head(c) = c[1] /\ DOMAIN c \subseteq Nat /\ \A i \in DOMAIN c : i >= 1
    BY <1>1, <1>8
  <2>2. c[1].of \in Sent(q, r) \ Rcvd(q, r) /\ c[1].of \in Nat /\ c[1].of >= k
    BY <1>4, <1>7, <2>1 DEF Sent
  <2>3. ASSUME c[1].of > k
        PROVE  FALSE
    <3>1. k \in Sent(q, r)
      BY <1>5, <2>2, <2>3
    <3>2. PICK i \in DOMAIN c : c[i].of = k
      BY <1>3, <1>7, <3>1
    <3>3. i > 1 \/ i = 1
      BY <2>1
    <3> QED BY <1>1, <1>7, <2>1, <2>2, <2>3, <3>2, <3>3
  <2> QED BY <1>1, <2>1, <2>2, <2>3
<1>9. ASSUME c = <<>>, Gone(q)
      PROVE  pc[q] = "exited"
  <2>1. SUFFICES ASSUME pc[q] = "done" PROVE FALSE
    BY <1>9 DEF Gone
  <2>2. op[q] > Len(job.program)
    BY <2>1 DEF Net, Placed
  <2>3. k \in Sent(q, r)
    BY <1>1, <1>2, <2>2 DEF Sent
  <2>4. DOMAIN c = {}
    BY <1>9
  <2> QED BY <1>3, <1>7, <2>3, <2>4
<1> QED BY <1>8, <1>9

LEMMA SentBelow ==
  ASSUME Types, NEW q \in Members, NEW r \in Members
  PROVE  /\ Sent(q, r) \subseteq Nat /\ Rcvd(q, r) \subseteq Nat
         /\ \A k \in Sent(q, r) : k <= op[q]
         /\ \A k \in Rcvd(q, r) : k <= op[r]
BY Ranges DEF Sent, Rcvd

LEMMA SendingChannels ==
  ASSUME Types, Net, AllLabelled, Channels, NEW s \in Members, Sending(s),
         NEW q \in Members, NEW r \in Members \ {q}
  PROVE  Channel(q, r)'
<1> DEFINE p == Now(s).peer
           m == [kind |-> Kind(Op(s)), val |-> Payload(s, p), of |-> op[s]]
<1>1. /\ Stepping(s) /\ Now(s).do = "send" /\ pc[s] = "run" /\ job' = job /\ op' = op
      /\ job \in Jobs /\ s \in Ranks /\ q \in Ranks /\ r \in Ranks
      /\ chan[q][r] \in Seq(Messages)
      /\ pc \in [Ranks -> {"start", "init", "run", "done", "exited"}]
  <2>1. Stepping(s) /\ Now(s).do = "send" /\ pc[s] = "run" /\ job' = job /\ op' = op
    BY DEF Sending, Stepping
  <2>2. job \in Jobs /\ s \in Ranks /\ q \in Ranks /\ r \in Ranks /\ chan[q][r] \in Seq(Messages)
    BY Ranges
  <2>3. pc \in [Ranks -> {"start", "init", "run", "done", "exited"}]
    BY DEF Types, TypeOK
  <2> QED BY <2>1, <2>2, <2>3
<1>2. p \in Members \ {s} /\ fd[s][p] = p
  BY <1>1, NowIs, LabelledBelow
<1>3. Now(s) = Send(p)
  <2>1. PICK x \in Members \ {s} : Now(s) = Send(x) \/ Now(s) = Recv(x)
    BY <1>1, NowIs, StepIs, Ranges DEF Now
  <2> QED BY <1>1, <2>1, SendRecv
<1>4. Channel(q, r)
  BY DEF Channels
<1>5. CASE /\ at' = [at EXCEPT ![s] = @ + 1]
           /\ chan' = IF Gone(p) THEN chan ELSE [chan EXCEPT ![s][p] = Append(@, m)]
           /\ UNCHANGED pc
  <2>1. /\ Sent(q, r)' = IF q = s /\ p = r THEN Sent(q, r) \cup {op[s]} ELSE Sent(q, r)
        /\ Rcvd(q, r)' = Rcvd(q, r)
        /\ q = s /\ p = r => op[s] \notin Sent(q, r)
    <3>1. Now(s) = Send(r) <=> p = r
      BY <1>3, SendRecv
    <3>2. Now(s) # Recv(q)
      BY <1>3, SendRecv
    <3>3. at' = [at EXCEPT ![s] = @ + 1]
      BY <1>5
    <3>4. /\ Sent(q, r)' = IF q = s /\ Now(s) = Send(r) THEN Sent(q, r) \cup {op[s]} ELSE Sent(q, r)
          /\ Rcvd(q, r)' = IF r = s /\ Now(s) = Recv(q) THEN Rcvd(q, r) \cup {op[s]} ELSE Rcvd(q, r)
          /\ q = s /\ Now(s) = Send(r) => op[s] \notin Sent(q, r)
      <4> HIDE DEF p, m
      <4>1. Stepping(s) /\ job' = job /\ op' = op /\ r \in Members /\ q # r
        BY <1>1
      <4> QED BY <3>3, <4>1, TurnSets
    <3> HIDE DEF p, m
    <3> QED BY <3>1, <3>2, <3>4
  <2>2. CASE q = s /\ p = r /\ ~Gone(p)
    <3>1. chan'[q][r] = Append(chan[q][r], m)
      BY <1>1, <1>5, <2>2 DEF Types
    <3>2. op[s] \in Sent(q, r)' /\ op[s] \notin Sent(q, r)
      BY <2>1, <2>2
    <3>3. op[s] \notin Rcvd(q, r)
      BY <1>1, <1>4, <2>2, <3>2 DEF Channel
    <3>4. \A j \in Sent(q, r) : j < op[s]
      BY <2>2, <3>2, SentBelow, Ranges
    <3>5. m \in Messages
      BY <1>1, <1>2, PayloadType
    <3>6. m.of = op[s] /\ m.kind = Kind(job.program[op[s]])
      BY DEF Op
    <3>7. Sent(q, r)' = Sent(q, r) \cup {op[s]} /\ Rcvd(q, r)' = Rcvd(q, r)
      BY <2>1, <2>2
    <3>8. job.program \in Seq(Operations) /\ pc' = pc
      BY <1>1, <1>5, JobFacts
    <3> HIDE DEF m
    <3> QED BY <1>1, <1>4, <3>1, <3>2, <3>3, <3>4, <3>5, <3>6, <3>7, <3>8, ChannelGrows
  <2>3. CASE q = s /\ p = r /\ Gone(p)
    <3>1. chan' = chan /\ pc' = pc
      BY <1>5, <2>3
    <3>2. Sent(q, r) \subseteq Sent(q, r)'
      BY <2>1
    <3>3. op[s] \notin Rcvd(q, r)
      BY <1>1, <1>4, <2>1, <2>3 DEF Channel
    <3> QED BY <1>1, <1>4, <2>1, <2>3, <3>1, <3>2, <3>3 DEF Channel, Kind, Gone
  <2>4. CASE ~(q = s /\ p = r)
    <3>1. chan'[q][r] = chan[q][r]
      BY <1>1, <1>2, <1>5, <2>4, Ranges DEF Types
    <3>2. Gone(r)' = Gone(r)
      BY <1>5 DEF Gone
    <3> QED BY <1>1, <1>4, <1>5, <2>1, <2>4, <3>1, <3>2, ChannelKept
  <2> QED BY <2>2, <2>3, <2>4
<1>6. CASE Gone(p) /\ pc' = [pc EXCEPT ![s] = "exited"] /\ UNCHANGED <<at, chan>>
  <2>1. Sent(q, r)' = Sent(q, r) /\ Rcvd(q, r)' = Rcvd(q, r)
    BY <1>1, <1>6, SameTalk DEF Sent, Rcvd
  <2>2. (Gone(r) => Gone(r)') /\ (pc'[q] # "exited" => pc[q] # "exited")
    BY <1>1, <1>6 DEF Gone
  <2> QED BY <1>1, <1>4, <1>6, <2>1, <2>2, ChannelKept
<1> QED BY <1>2, <1>5, <1>6 DEF Sending

LEMMA ReceivingChannels ==
  ASSUME Types, Net, AllLabelled, Channels, NEW s \in Members, Receiving(s),
         NEW q \in Members, NEW r \in Members \ {q}
  PROVE  Channel(q, r)'
<1> DEFINE p == Now(s).peer
<1>1. /\ Stepping(s) /\ Now(s).do = "recv" /\ pc[s] = "run" /\ job' = job /\ op' = op /\ pc' = pc
      /\ job \in Jobs /\ s \in Ranks /\ q \in Ranks /\ r \in Ranks
      /\ chan[q][r] \in Seq(Messages)
      /\ at' = [at EXCEPT ![s] = @ + 1]
  <2>1. /\ Stepping(s) /\ Now(s).do = "recv" /\ pc[s] = "run" /\ job' = job /\ op' = op
        /\ pc' = pc /\ at' = [at EXCEPT ![s] = @ + 1]
    BY DEF Receiving, Stepping
  <2>2. job \in Jobs /\ s \in Ranks /\ q \in Ranks /\ r \in Ranks /\ chan[q][r] \in Seq(Messages)
    BY Ranges
  <2> QED BY <2>1, <2>2
<1>2. p \in Members \ {s} /\ p \in Ranks /\ fd[s][p] = p
  BY <1>1, NowIs, LabelledBelow, Ranges
<1>3. Now(s) = Recv(p)
  <2>1. PICK x \in Members \ {s} : Now(s) = Send(x) \/ Now(s) = Recv(x)
    BY <1>1, NowIs, StepIs, Ranges DEF Now
  <2> QED BY <1>1, <2>1, SendRecv
<1>4. Channel(q, r)
  BY DEF Channels
<1>5. \/ chan[p][s] # <<>> /\ chan' = [chan EXCEPT ![p][s] = Tail(@)]
      \/ chan[p][s] = <<>> /\ Gone(p) /\ chan' = chan
  <2>1. LET x == fd[s][p]
        IN  \/ chan[x][s] # <<>> /\ chan' = [chan EXCEPT ![x][s] = Tail(@)]
            \/ chan[x][s] = <<>> /\ Gone(x) /\ chan' = chan
    BY DEF Receiving
  <2> HIDE DEF p
  <2> QED BY <1>2, <2>1
<1>6. p = q => (Now(s) = Recv(q))
  BY <1>3
<1>7. (Now(s) = Recv(q) => p = q) /\ Now(s) # Send(r)
  BY <1>3, SendRecv
<1> HIDE DEF p
<1>8. /\ Sent(q, r)' = Sent(q, r)
      /\ Rcvd(q, r)' = IF r = s /\ p = q THEN Rcvd(q, r) \cup {op[s]} ELSE Rcvd(q, r)
  <2>1. /\ Sent(q, r)' = IF q = s /\ Now(s) = Send(r) THEN Sent(q, r) \cup {op[s]} ELSE Sent(q, r)
        /\ Rcvd(q, r)' = IF r = s /\ Now(s) = Recv(q) THEN Rcvd(q, r) \cup {op[s]} ELSE Rcvd(q, r)
    <3>1. /\ Stepping(s) /\ job' = job /\ op' = op /\ r \in Members /\ q # r
          /\ at' = [at EXCEPT ![s] = @ + 1]
      BY <1>1
    <3> QED BY <3>1, TurnSets
  <2> QED BY <1>6, <1>7, <2>1
<1>9. CASE r = s /\ q = p /\ chan[p][s] # <<>>
  <2>1. chan'[q][r] = Tail(chan[q][r]) /\ chan[q][r] # <<>>
    <3>1. chan \in [Ranks -> [Ranks -> Seq(Messages)]]
      BY DEF Types
    <3>2. chan' = [chan EXCEPT ![p][s] = Tail(chan[p][s])]
      BY <1>5, <1>9
    <3> HIDE DEF Messages
    <3>3. chan'[p][s] = Tail(chan[p][s])
      BY <1>1, <1>2, <3>1, <3>2
    <3> QED BY <1>9, <3>3
  <2>2. Head(chan[q][r]).of = op[s]
    BY <1>1, <1>2, <1>4, <1>9, HeadIsMine DEF p
  <2>3. Rcvd(q, r)' = Rcvd(q, r) \cup {Head(chan[q][r]).of} /\ Sent(q, r)' = Sent(q, r)
    BY <1>8, <1>9, <2>2
  <2>4. Sent(q, r) \subseteq Nat
    BY SentBelow
  <2> QED BY <1>1, <1>4, <2>1, <2>3, <2>4, ChannelShrinks
<1>10. CASE r = s /\ q = p /\ chan[p][s] = <<>>
  <2>1. pc[q] = "exited" /\ chan' = chan
    BY <1>1, <1>2, <1>4, <1>5, <1>10, HeadIsMine DEF p
  <2>2. Rcvd(q, r) \subseteq Rcvd(q, r)' /\ Sent(q, r)' = Sent(q, r)
    BY <1>8
  <2>3. DOMAIN chan[q][r] = {} /\ Gone(r)' = Gone(r)
    BY <1>1, <1>10 DEF Gone
  <2> QED BY <1>1, <1>4, <2>1, <2>2, <2>3 DEF Channel
<1>11. CASE ~(r = s /\ q = p)
  <2>1. chan'[q][r] = chan[q][r]
    <3>1. chan \in [Ranks -> [Ranks -> Seq(Messages)]]
      BY DEF Types
    <3> HIDE DEF Messages
    <3>2. CASE chan' = chan
      BY <3>2
    <3>3. CASE chan' = [chan EXCEPT ![p][s] = Tail(@)]
      <4>1. ~(q = p /\ r = s) /\ q \in Ranks /\ r \in Ranks /\ p \in Ranks /\ s \in Ranks
        BY <1>1, <1>2, <1>11
      <4> QED BY <3>1, <3>3, <4>1
    <3> QED BY <1>5, <3>2, <3>3
  <2>2. Gone(r)' = Gone(r)
    BY <1>1 DEF Gone
  <2>3. Sent(q, r)' = Sent(q, r) /\ Rcvd(q, r)' = Rcvd(q, r)
    BY <1>8, <1>11
  <2> QED BY <1>1, <1>4, <2>1, <2>2, <2>3, ChannelKept
<1> QED BY <1>9, <1>10, <1>11

LEMMA QuietChannels ==
  ASSUME Types, Net, AllLabelled, Channels, NEW s \in Members,
         Listen(s) \/ Connect(s) \/ Accept(s) \/ Ready(s) \/ Advance(s) \/ GiveUp(s),
         NEW q \in Members, NEW r \in Members \ {q}
  PROVE  Channel(q, r)'
<1>1. job' = job /\ chan' = chan
  BY DEF Listen, Connect, Accept, Ready, Advance, GiveUp
<1>2. Sent(q, r)' = Sent(q, r) /\ Rcvd(q, r)' = Rcvd(q, r)
  <2>1. CASE UNCHANGED <<op, at>>
    BY <1>1, <2>1, SameTalk DEF Sent, Rcvd
  <2>2. CASE /\ op[s] <= Len(job.program)
             /\ at[s] = Length(job.program[op[s]], s)
             /\ op' = [op EXCEPT ![s] = @ + 1]
             /\ at' = [at EXCEPT ![s] = 0]
    BY <1>1, <2>2, ReturnSets
  <2>3. Advance(s) => \/ UNCHANGED <<op, at>>
                      \/ /\ op[s] <= Len(job.program)
                         /\ at[s] = Length(job.program[op[s]], s)
                         /\ op' = [op EXCEPT ![s] = @ + 1]
                         /\ at' = [at EXCEPT ![s] = 0]
    BY DEF Advance, opVars
  <2>4. ~Advance(s) => UNCHANGED <<op, at>>
    BY DEF Listen, Connect, Accept, Ready, GiveUp, opVars
  <2> QED BY <2>1, <2>2, <2>3, <2>4
<1>3. pc' = pc \/ \E to : pc' = [pc EXCEPT ![s] = to] /\ pc[s] \in {"start", "init", "run"}
  BY DEF Listen, Connect, Accept, Ready, Advance, GiveUp
<1>4. (Gone(r) => Gone(r)') /\ (pc'[q] # "exited" => pc[q] # "exited")
  <2>1. pc \in [Ranks -> {"start", "init", "run", "done", "exited"}] /\ s \in Ranks /\ q \in Ranks /\ r \in Ranks
    BY Ranges DEF Types, TypeOK
  <2> QED BY <1>3, <2>1 DEF Gone
<1>5. Channel(q, r)
  BY DEF Channels
<1> QED BY <1>1, <1>2, <1>4, <1>5, ChannelKept

LEMMA InitChannels == Init => Channels
<1> SUFFICES ASSUME Init, NEW q \in Members, NEW r \in Members \ {q}
             PROVE  Channel(q, r)
  BY DEF Channels
<1>1. Types
  BY InitNet
<1>2. /\ q \in Ranks /\ r \in Ranks /\ chan[q][r] = <<>> /\ job \in Jobs
      /\ op[q] = 1 /\ op[r] = 1 /\ at[q] = 0 /\ at[r] = 0
  BY <1>1, Ranges DEF Init
<1>3. \A k \in 1 .. Len(job.program) :
        job.program[k] \in Operations /\ ~(k < 1)
  BY <1>2, JobFacts
<1>4. Sent(q, r) = {} /\ Rcvd(q, r) = {}
  <2>1. \A k \in 1 .. Len(job.program) : ~(SendTurn(job.program[k], q, r) < 0) /\ ~(RecvTurn(job.program[k], q, r) < 0)
    BY <1>2, <1>3, TurnTypes
  <2> QED BY <1>2, <1>3, <2>1 DEF Sent, Rcvd
<1> QED BY <1>2, <1>4 DEF Channel

\* In every world whose sockets are filed right, between every two ranks: the
\* messages under way are those sent and not received, in program order, also
\* when other ranks give up or die of a broken pipe.
THEOREM ChannelsHold == Spec => []Channels
<1>1. ASSUME Types, Net, Channels, [Next]_vars
      PROVE  Channels'
  <2>1. SUFFICES ASSUME AllLabelled', NEW q \in Members', NEW r \in Members' \ {q}
                 PROVE  Channel(q, r)'
    BY DEF Channels
  <2>2. AllLabelled
    BY <1>1, <2>1, LabelsKept
  <2>3. Members' = Members
    <3>1. job' = job
      BY <1>1 DEF Next, Rank, Listen, Connect, Accept, Ready, Sending, Receiving, Advance,
             GiveUp, vars
    <3> QED BY <3>1, SameJob
  <2>4. CASE UNCHANGED vars
    <3>1. UNCHANGED <<job, pc, op, at, chan>>
      BY <2>4 DEF vars, opVars
    <3>2. Sent(q, r)' = Sent(q, r) /\ Rcvd(q, r)' = Rcvd(q, r)
      BY <3>1, SameTalk DEF Sent, Rcvd
    <3>3. Channel(q, r) /\ Gone(r)' = Gone(r)
      BY <1>1, <2>2, <2>3, <3>1 DEF Channels, Gone
    <3> QED BY <3>1, <3>2, <3>3, ChannelKept
  <2>5. ASSUME NEW s \in Members, Rank(s) \/ GiveUp(s)
        PROVE  Channel(q, r)'
    BY <1>1, <2>2, <2>3, <2>5, SendingChannels, ReceivingChannels, QuietChannels DEF Rank
  <2> QED BY <1>1, <2>4, <2>5 DEF Next
<1> QED BY InitChannels, <1>1, NetHolds, PTL DEF Spec

\* A rank passes a barrier only after all the others have come to it, whoever
\* exits meanwhile (li_dpar_barrier), in a world whose sockets are filed right.
THEOREM BarriersWait == Spec => [](AllLabelled => BarrierWaits)
<1>1. ASSUME Types, Net, Channels, AllLabelled
      PROVE  BarrierWaits
  <2> SUFFICES ASSUME NEW r \in Members, NEW q \in Members, NEW b \in DOMAIN job.program,
                      job.program[b] = "barrier", op[r] > b, pc[q] # "exited"
               PROVE  op[q] >= b /\ pc[q] \notin {"start", "init"}
    BY <1>1 DEF BarrierWaits
  <2>1. /\ job \in Jobs /\ job.program \in Seq(Operations) /\ b \in 1 .. Len(job.program)
        /\ op[r] \in Nat /\ op[q] \in Nat /\ at[q] \in Nat /\ b \in Nat
    <3>1. job \in Jobs /\ op[r] \in Nat /\ op[q] \in Nat /\ at[q] \in Nat
      BY <1>1, Ranges
    <3>2. job.program \in Seq(Operations)
      BY <3>1, JobFacts
    <3>3. DOMAIN job.program = 1 .. Len(job.program)
      BY <3>2
    <3> QED BY <3>1, <3>2, <3>3
  <2>2. pc[q] \in {"start", "init"} => op[q] = 1 /\ at[q] = 0
    BY <1>1 DEF Net, Connected
  <2>3. CASE q = r
    BY <2>1, <2>2, <2>3
  <2>4. CASE q # r
    <3>1. Channel(q, r)
      BY <1>1, <2>4 DEF Channels
    <3>2. Talks(job.program[b], q, r)
      BY DEF Talks
    <3>3. b \in Rcvd(q, r)
      BY <2>1, <3>2 DEF Rcvd
    <3>4. b \in Sent(q, r)
      BY <3>1, <3>3 DEF Channel
    <3>5. SendTurn(job.program[b], q, r) \in Nat
      BY <2>1, <2>4, TurnTypes
    <3>6. op[q] > b \/ (op[q] = b /\ at[q] > 0)
      BY <2>1, <3>4, <3>5 DEF Sent
    <3> QED BY <2>1, <2>2, <3>6
  <2> QED BY <2>3, <2>4
<1> QED BY <1>1, NetHolds, ChannelsHold, PTL

\* A receiver finds the message of its own operation and of the right kind, in a
\* world whose sockets are filed right (li_dpar_recv_exact).
THEOREM FramesOwn == Spec => [](AllLabelled => FramesSound)
<1>1. ASSUME Types, Net, Channels, AllLabelled
      PROVE  FramesSound
  <2>1. TypeOK
    BY <1>1 DEF Types
  <2>2. ASSUME NEW r \in Members, Stepping(r), Now(r).do = "recv",
               chan[fd[r][Now(r).peer]][r] # <<>>
        PROVE  LET m == Head(chan[fd[r][Now(r).peer]][r])
               IN  m.kind = Kind(Op(r)) /\ m.of = op[r]
    <3> DEFINE q == Now(r).peer
    <3>1. q \in Members \ {r} /\ pc[r] = "run"
      BY <1>1, <2>2, NowIs DEF Stepping
    <3>2. fd[r][q] = q /\ Channel(q, r)
      BY <1>1, <3>1, LabelledBelow DEF Channels
    <3>3. chan[q][r] # <<>> /\ chan[q][r] \in Seq(Messages)
      BY <1>1, <2>2, <3>1, <3>2, Ranges
    <3>4. Head(chan[q][r]).of = op[r]
      BY <1>1, <2>2, <3>1, <3>2, <3>3, HeadIsMine
    <3>5. 1 \in DOMAIN chan[q][r] /\ Head(chan[q][r]) = chan[q][r][1]
      BY <3>3
    <3>6. Head(chan[q][r]).kind = Kind(job.program[Head(chan[q][r]).of])
      BY <3>2, <3>5 DEF Channel
    <3> QED BY <3>2, <3>4, <3>6 DEF Op
  <2> QED BY <2>1, <2>2 DEF FramesSound, FramesMatch
<1> QED BY <1>1, NetHolds, ChannelsHold, PTL

PairLabelled == job.world = 2 => AllLabelled

\* In a world of two the only connection that rank 1 accepts is that of rank 0,
\* so no label can be wrong.
THEOREM TwoLabelled == Spec => []PairLabelled
<1>1. Init => PairLabelled
  <2> SUFFICES ASSUME Init, NEW r \in Members, NEW p \in Members \ {r}
               PROVE  fd[r][p] = None
    BY DEF PairLabelled, AllLabelled, Labelled
  <2>1. r \in Ranks /\ p \in Ranks
    BY InitNet, Ranges
  <2> QED BY <2>1 DEF Init
<1>2. ASSUME Types, Net, [Next]_vars, PairLabelled, job'.world = 2
      PROVE  AllLabelled'
  <2>0. job' = job /\ Members' = Members
    <3>1. job' = job
      BY <1>2 DEF Next, Rank, Listen, Connect, Accept, Ready, Sending, Receiving, Advance,
             GiveUp, vars
    <3> QED BY <3>1, SameJob
  <2>1. AllLabelled /\ Members = {0, 1} /\ job.world = 2
    BY <1>2, <2>0 DEF PairLabelled, Members
  <2>2. CASE fd' = fd
    BY <2>0, <2>1, <2>2 DEF AllLabelled, Labelled
  <2>3. ASSUME NEW s \in Members, fd' = [fd EXCEPT ![s][peer[s]] = peer[s]]
        PROVE  AllLabelled'
    <3>1. fd \in [Ranks -> [Ranks -> Ranks \cup {None}]] /\ s \in Ranks /\ Members \subseteq Ranks
      BY <1>2, Ranges DEF Types, TypeOK
    <3>2. \A r \in Members : \A p \in Members \ {r} : fd'[r][p] \in {fd[r][p], p}
      BY <2>3, <3>1
    <3> QED BY <2>0, <2>1, <3>2 DEF AllLabelled, Labelled
  <2>4. ASSUME NEW s \in Members, Accept(s)
        PROVE  fd' = [fd EXCEPT ![s][peer[s]] = peer[s]]
    <3>1. /\ peer[s] \in Nat /\ s \in Nat /\ peer[s] < s /\ backlog[s] \in Seq(Ranks)
          /\ backlog[s] # <<>> /\ Connected(s)
      BY <1>2, <2>4, Ranges DEF Accept, Net
    <3>2. s = 1 /\ peer[s] = 0
      BY <2>1, <3>1
    <3>3. 1 \in DOMAIN backlog[s] /\ Head(backlog[s]) = backlog[s][1]
      BY <3>1
    <3>4. Head(backlog[s]) = 0
      BY <2>1, <3>1, <3>2, <3>3 DEF Connected
    <3> QED BY <2>4, <3>2, <3>4 DEF Accept
  <2>5. \/ fd' = fd
        \/ \E s \in Members : Accept(s) \/ fd' = [fd EXCEPT ![s][peer[s]] = peer[s]]
    BY <1>2 DEF Next, Rank, Listen, Connect, Ready, Sending, Receiving, Advance, GiveUp,
                vars, netVars
  <2> QED BY <2>2, <2>3, <2>4, <2>5
<1>3. Types /\ Net /\ [Next]_vars /\ PairLabelled => PairLabelled'
  BY <1>2 DEF PairLabelled
<1> QED BY <1>1, <1>3, NetHolds, PTL DEF Spec

-----------------------------------------------------------------------------
(* Values. As long as no rank exits, every message carries the number that *)
(* its operation is to carry, and the buffers hold what the turns so far   *)
(* have put there.                                                         *)

\* The turns of a loop over all peers differ.
LEMMA TurnsDiffer ==
  ASSUME job \in Jobs, NEW r \in Members, NEW p \in Members \ {r}, NEW q \in Members \ {r},
         Turn(r, p) = Turn(r, q)
  PROVE  p = q
<1>1. Other(r, Turn(r, p)) = p /\ Other(r, Turn(r, q)) = q
  BY TurnBelow
<1> QED BY <1>1

\* A rank begins an operation with its local value.
LEMMA StartBuffers ==
  ASSUME Types, NEW r \in Members, NEW o \in Operations
  PROVE  Buffers(o, r, 0, Local(o, r), Gathered(o, r))
<1>1. /\ job \in Jobs /\ r \in Ranks /\ r \in Nat /\ 0 \in Ranks /\ Members \subseteq Ranks
      /\ job.root \in Members
  BY Ranges, JobFacts
<1>2. o \in {"allreduce", "gather", "scan"} => Local(o, r) = Own(r)
  BY DEF Local
<1>3. /\ o = "bcast" /\ r = job.root => Local(o, r) = Own(job.root)
      /\ o = "scatter" /\ InPlace(r) /\ r = job.root => Local(o, r) = Own(r)
  BY DEF Local, InPlace
<1>4. o \in {"gather", "scan"} => GatheredSoFar(o, r, 0, Gathered(o, r))
  <2>1. \A p \in Members \ {r} : ~(RecvTurn(o, p, r) < 0)
    BY <1>1, TurnTypes
  <2>2. r = 0 => Gathered(o, r)[0] = Local(o, r)
    BY <1>1 DEF Gathered
  <2> QED BY <1>2, <2>1, <2>2 DEF GatheredSoFar
<1>5. o = "allreduce" /\ job.world = 2 => r < 2
  BY <1>1, JobFacts
<1> QED BY <1>1, <1>2, <1>3, <1>4, <1>5 DEF Buffers

\* A send leaves the buffers as the next turn expects them.
LEMMA SendBuffers ==
  ASSUME Types, NEW r \in Members, NEW p \in Members \ {r}, NEW o \in Operations,
         Talks(o, r, p), NEW v, NEW g, Buffers(o, r, SendTurn(o, r, p), v, g)
  PROVE  Buffers(o, r, SendTurn(o, r, p) + 1, v, g)
<1>1. /\ job \in Jobs /\ r \in Nat /\ p \in Nat /\ r < job.world /\ p < job.world
      /\ Others \in Nat /\ job.world \in Nat
  BY Ranges, JobFacts
<1>2. SendTurn(o, r, p) \in Nat
  BY <1>1, TurnTypes
<1>3. CASE o \in {"bcast", "scatter"}
  <2>1. r = job.root
    BY <1>3 DEF Talks
  <2> QED BY <1>3, <2>1 DEF Buffers
<1>4. CASE o = "gather"
  <2>1. r # job.root
    BY <1>4 DEF Talks
  <2> QED BY <1>4, <2>1 DEF Buffers
<1>5. CASE o = "scan" /\ r # 0
  BY <1>5 DEF Buffers, SendTurn
<1>6. CASE o = "scan" /\ r = 0
  <2>1. \A q \in Members \ {r} : RecvTurn(o, q, r) < SendTurn(o, r, p)
    <3> SUFFICES ASSUME NEW q \in Members \ {r}
                 PROVE  RecvTurn(o, q, r) < SendTurn(o, r, p)
      OBVIOUS
    <3>1. /\ Turn(r, q) \in Nat /\ Turn(r, q) < Others /\ Turn(r, p) \in Nat
      BY <1>1, TurnBelow
    <3> QED BY <1>1, <1>6, <3>1 DEF SendTurn, RecvTurn
  <2>2. GatheredSoFar(o, r, SendTurn(o, r, p) + 1, g)
    BY <1>6, <2>1 DEF Buffers, GatheredSoFar
  <2> QED BY <1>6, <2>2 DEF Buffers
<1>7. CASE o = "allreduce" /\ job.world = 2
  <2>1. (r = 0 /\ p = 1) \/ (r = 1 /\ p = 0)
    BY <1>1, <1>7
  <2>2. SendTurn(o, r, p) = r
    BY <1>7, <2>1 DEF SendTurn, Turn
  <2>3. (r + r < 2) <=> ((r + 1) + r < 2)
    BY <2>1
  <2> QED BY <1>7, <2>2, <2>3 DEF Buffers
<1>8. CASE o = "barrier" \/ (o = "allreduce" /\ job.world # 2)
  BY <1>8 DEF Buffers
<1> QED BY <1>3, <1>4, <1>5, <1>6, <1>7, <1>8 DEF Operations

\* The prefix that the root of a scan sends, when it has gathered everything.
LEMMA PrefixIs ==
  ASSUME Types, NEW p \in Members,
         \A k \in 0 .. (p - 1) : got[0][k] = Own(k)
  PROVE  Prefix(0, p) = SumOf(0 .. (p - 1))
<1>1. p \in Nat /\ p \in Ranks /\ 0 \in Ranks /\ \A k \in 0 .. (p - 1) : k \in Ranks
  <2>1. p \in Nat /\ p \in Ranks /\ MaxWorld \in Nat \ {0}
    BY Ranges, DparAssumption
  <2> QED BY <2>1 DEF Ranks
<1>2. ASSUME NEW i \in Ranks
      PROVE  SumTo([q \in Ranks |-> got[0][q][i]], p) = IF i \in 0 .. (p - 1) THEN 1 ELSE 0
  <2> DEFINE f == [q \in Ranks |-> got[0][q][i]]
  <2>1. \A k \in 0 .. (p - 1) : f[k] = got[0][k][i]
    BY <1>1
  <2>2. \A k \in 0 .. (p - 1) : Own(k)[i] = IF k = i THEN 1 ELSE 0
    BY <1>1 DEF Own, Zero
  <2>3. i \in Nat
    BY DEF Ranks
  <2>4. \A k \in 0 .. (p - 1) : f[k] = IF k = i THEN 1 ELSE 0
    BY <2>1, <2>2
  <2> HIDE DEF f
  <2>5. SumTo(f, p) = IF i < p THEN 1 ELSE 0
    BY <1>1, <2>3, <2>4, SumToOne
  <2> QED BY <1>1, <2>3, <2>5 DEF f
<1> QED BY <1>2 DEF Prefix, SumFirst, SumOf

\* What a rank sends is what the operation is to carry.
LEMMA PayloadIs ==
  ASSUME Types, NEW r \in Members, Stepping(r), NEW p \in Members \ {r},
         Now(r).do = "send", Now(r).peer = p, Exact(Op(r)),
         Buffers(Op(r), r, at[r], acc[r], got[r])
  PROVE  Payload(r, p) = Carried(Op(r), r, p)
<1> DEFINE o == Op(r)
<1>1. /\ job \in Jobs /\ r \in Nat /\ p \in Nat /\ r < job.world /\ p < job.world
      /\ Others \in Nat /\ job.world \in Nat /\ Members \subseteq Nat
  BY Ranges, JobFacts
<1>2. o \in Operations /\ Talks(o, r, p) /\ at[r] = SendTurn(o, r, p) /\ at[r] \in Nat
  BY NowIs
<1>3. CASE o = "bcast"
  BY <1>2, <1>3 DEF Talks, Buffers, Payload, Carried
<1>4. CASE o = "scatter"
  BY <1>4 DEF Payload, Carried, Slice
<1>5. CASE o = "gather"
  BY <1>5 DEF Buffers, Payload, Carried
<1>6. CASE o = "scan" /\ r # 0
  <2>1. p = 0 /\ at[r] = 0
    BY <1>2, <1>6 DEF Talks, SendTurn
  <2>2. acc[r] = Own(r)
    BY <1>6, <2>1 DEF Buffers
  <2> QED BY <1>6, <2>1, <2>2 DEF Payload, Carried
<1>7. CASE o = "scan" /\ r = 0
  <2>1. GatheredSoFar(o, 0, at[r], got[0])
    BY <1>7 DEF Buffers
  <2>2. ASSUME NEW k \in 0 .. (p - 1)
        PROVE  got[0][k] = Own(k)
    <3>1. CASE k = 0
      BY <2>1, <3>1 DEF GatheredSoFar
    <3>2. CASE k # 0
      <4>1. k \in Members \ {r}
        BY <1>1, <1>7, <3>2 DEF Members
      <4>2. Turn(r, k) < Others /\ Turn(r, k) \in Nat /\ Turn(r, p) \in Nat
        BY <1>1, <4>1, TurnBelow
      <4>3. RecvTurn(o, k, r) < at[r]
        BY <1>1, <1>2, <1>7, <4>2 DEF RecvTurn, SendTurn
      <4> QED BY <1>7, <2>1, <4>1, <4>3 DEF GatheredSoFar
    <3> QED BY <3>1, <3>2
  <2>3. Prefix(0, p) = SumOf(0 .. (p - 1))
    BY <2>2, PrefixIs
  <2> QED BY <1>7, <2>3 DEF Payload, Carried
<1>8. CASE o = "allreduce"
  <2>1. job.world = 2
    BY <1>8 DEF Exact
  <2>2. (r = 0 /\ p = 1) \/ (r = 1 /\ p = 0)
    BY <1>1, <2>1
  <2>3. at[r] = r
    BY <1>2, <1>8, <2>2 DEF SendTurn, Turn
  <2>4. acc[r] = IF r + r < 2 THEN Own(r) ELSE SumOf(Members)
    BY <1>8, <2>1, <2>3 DEF Buffers
  <2>5. Payload(r, p) = acc[r]
    BY <1>8 DEF Payload
  <2> QED BY <1>8, <2>2, <2>4, <2>5 DEF Carried
<1> QED BY <1>2, <1>3, <1>4, <1>5, <1>6, <1>7, <1>8 DEF Operations, Exact

\* The sum of two in a world of two.
LEMMA BothOfTwo ==
  ASSUME job \in Jobs, job.world = 2
  PROVE  Plus(Own(1), Own(0)) = SumOf(Members)
<1>1. Members = {0, 1} /\ Members \subseteq Ranks
  BY JobFacts DEF Members
<1>2. \A i \in Ranks : Own(1)[i] + Own(0)[i] = IF i \in Members THEN 1 ELSE 0
  BY <1>1 DEF Own, Zero
<1> QED BY <1>2 DEF Plus, SumOf

\* A root that gathers has the value of one more peer.
LEMMA GatherBuffers ==
  ASSUME Types, NEW r \in Members, NEW p \in Members \ {r}, NEW o \in {"gather", "scan"},
         r = (IF o = "scan" THEN 0 ELSE job.root),
         NEW g \in [Ranks -> Contributions], NEW h, h = [g EXCEPT ![p] = Own(p)],
         NEW v, Buffers(o, r, RecvTurn(o, p, r), v, g)
  PROVE  Buffers(o, r, RecvTurn(o, p, r) + 1, v, h)
<1>1. /\ job \in Jobs /\ r \in Nat /\ p \in Nat /\ p \in Ranks /\ Members \subseteq Ranks
  BY Ranges
<1>2. RecvTurn(o, p, r) = Turn(r, p) /\ Turn(r, p) \in Nat
  BY <1>1, TurnBelow DEF RecvTurn
<1>3. GatheredSoFar(o, r, RecvTurn(o, p, r), g)
  BY DEF Buffers
<1>4. h[p] = Own(p) /\ \A q \in Ranks \ {p} : h[q] = g[q]
  BY <1>1
<1>5. GatheredSoFar(o, r, RecvTurn(o, p, r) + 1, h)
  <2>1. r = 0 => h[0] = Own(0)
    BY <1>1, <1>3, <1>4 DEF GatheredSoFar
  <2>2. ASSUME NEW q \in Members \ {r}, RecvTurn(o, q, r) < RecvTurn(o, p, r) + 1
        PROVE  h[q] = Own(q)
    <3>1. RecvTurn(o, q, r) = Turn(r, q) /\ Turn(r, q) \in Nat
      BY <1>1, TurnBelow DEF RecvTurn
    <3>2. CASE q = p
      BY <1>4, <3>2
    <3>3. CASE q # p
      <4>1. Turn(r, q) # Turn(r, p)
        BY <1>1, <3>3, TurnsDiffer
      <4>2. RecvTurn(o, q, r) < RecvTurn(o, p, r)
        BY <1>2, <2>2, <3>1, <4>1
      <4> QED BY <1>1, <1>3, <1>4, <3>3, <4>2 DEF GatheredSoFar
    <3> QED BY <3>2, <3>3
  <2> QED BY <2>1, <2>2 DEF GatheredSoFar
<1>6. o = "gather" => v = Own(r)
  BY DEF Buffers
<1> QED BY <1>5, <1>6 DEF Buffers

\* Elsewhere the value is what the operation delivers.
LEMMA TakeBuffers ==
  ASSUME Types, NEW r \in Members, NEW p \in Members \ {r}, NEW o \in Operations,
         o = Op(r), Talks(o, p, r),
         ~(o \in {"gather", "scan"} /\ r = (IF o = "scan" THEN 0 ELSE job.root)),
         NEW g, NEW m, Exact(o) => m = Carried(o, p, r),
         Buffers(o, r, RecvTurn(o, p, r), acc[r], g)
  PROVE  Buffers(o, r, RecvTurn(o, p, r) + 1, Received(r, p, m), g)
<1>1. /\ job \in Jobs /\ r \in Nat /\ p \in Nat /\ r < job.world /\ p < job.world
      /\ job.world \in Nat
  BY Ranges, JobFacts
<1>2. RecvTurn(o, p, r) \in Nat
  BY <1>1, TurnTypes
<1>3. CASE o = "bcast"
  <2>1. Received(r, p, m) = Own(job.root)
    BY <1>3 DEF Received, Exact, Carried
  <2> QED BY <1>3, <2>1 DEF Buffers
<1>4. CASE o = "scatter"
  <2>1. Received(r, p, m) = Own(r)
    BY <1>4 DEF Received, Exact, Carried
  <2> QED BY <1>4, <2>1 DEF Buffers
<1>5. CASE o = "gather"
  BY <1>5 DEF Talks
<1>6. CASE o = "scan"
  <2>1. r # 0 /\ RecvTurn(o, p, r) = 1
    BY <1>6 DEF RecvTurn
  <2>2. Received(r, p, m) = SumOf(0 .. (r - 1))
    BY <1>6, <2>1 DEF Received, Exact, Carried
  <2> QED BY <1>6, <2>1, <2>2 DEF Buffers
<1>7. CASE o = "allreduce" /\ job.world = 2
  <2>1. m = Carried(o, p, r)
    BY <1>7 DEF Exact
  <2>2. CASE r = 0 /\ p = 1
    <3>1. RecvTurn(o, p, r) = 1
      BY <1>7, <2>2 DEF RecvTurn, Turn
    <3>2. Received(r, p, m) = SumOf(Members)
      BY <1>7, <2>1, <2>2 DEF Received, Carried
    <3> QED BY <1>7, <2>2, <3>1, <3>2 DEF Buffers
  <2>3. CASE r = 1 /\ p = 0
    <3>1. RecvTurn(o, p, r) = 0
      BY <1>7, <2>3 DEF RecvTurn, Turn
    <3>2. acc[r] = Own(1)
      BY <1>7, <2>3, <3>1 DEF Buffers
    <3>3. Received(r, p, m) = Plus(Own(1), Own(0))
      BY <1>7, <2>1, <2>3, <3>2 DEF Received, Carried
    <3>4. Received(r, p, m) = SumOf(Members)
      BY <1>1, <1>7, <3>3, BothOfTwo
    <3> QED BY <1>7, <2>3, <3>1, <3>4 DEF Buffers
  <2> QED BY <1>1, <1>7, <2>2, <2>3
<1>8. CASE o = "barrier" \/ (o = "allreduce" /\ job.world # 2)
  BY <1>8 DEF Buffers
<1> QED BY <1>3, <1>4, <1>5, <1>6, <1>7, <1>8 DEF Operations

\* The buffers of a rank after a step.
LEMMA BufferedNext ==
  ASSUME NEW r, job' = job, op'[r] <= Len(job.program) =>
           Buffers(job.program[op'[r]], r, at'[r], acc'[r], got'[r])
  PROVE  Buffered(r)'
<1>1. \A o, i, v, g : Buffers(o, r, i, v, g)' = Buffers(o, r, i, v, g)
  <2>1. /\ InPlace(r)' = InPlace(r) /\ Members' = Members /\ job'.world = job.world
        /\ job'.root = job.root
    BY DEF InPlace, Members
  <2>2. \A o, i, g : GatheredSoFar(o, r, i, g)' = GatheredSoFar(o, r, i, g)
    BY <2>1, SameTalk DEF GatheredSoFar
  <2> QED BY <2>1, <2>2 DEF Buffers
<1> QED BY <1>1 DEF Buffered, Op

\* The messages of a channel after a step are those before it, or one more.
LEMMA CarriesNext ==
  ASSUME NEW q, NEW r, job' = job, Carries(q, r),
         \A i \in DOMAIN chan'[q][r] :
           \/ \E j \in DOMAIN chan[q][r] : chan'[q][r][i] = chan[q][r][j]
           \/ LET m == chan'[q][r][i]
              IN  Exact(job.program[m.of]) => m.val = Carried(job.program[m.of], q, r)
  PROVE  Carries(q, r)'
<1>1. \A o : (Exact(o)' <=> Exact(o)) /\ Carried(o, q, r)' = Carried(o, q, r)
  BY DEF Exact, Carried, Members
<1>2. ASSUME NEW i \in DOMAIN chan'[q][r]
      PROVE  LET m == chan'[q][r][i]
             IN  Exact(job.program[m.of]) => m.val = Carried(job.program[m.of], q, r)
  BY <1>2 DEF Carries
<1> QED BY <1>1, <1>2 DEF Carries

\* A rank that a step leaves alone.
LEMMA BufferedKept ==
  ASSUME NEW r, Buffered(r), job' = job, pc'[r] = "run" => pc[r] = "run",
         op'[r] = op[r], at'[r] = at[r], acc'[r] = acc[r], got'[r] = got[r]
  PROVE  Buffered(r)'
<1>1. CASE pc'[r] = "run"
  <2>1. op'[r] <= Len(job.program) =>
          Buffers(job.program[op'[r]], r, at'[r], acc'[r], got'[r])
    BY <1>1 DEF Buffered, Op
  <2> QED BY <2>1, BufferedNext
<1>2. CASE pc'[r] # "run"
  BY <1>2 DEF Buffered
<1> QED BY <1>1, <1>2

LEMMA SendingValues ==
  ASSUME Types, Net, AllLabelled, NoExits', ValuesHere, NEW s \in Members, Sending(s)
  PROVE  ValuesHere'
<1> DEFINE p == Now(s).peer
           m == [kind |-> Kind(Op(s)), val |-> Payload(s, p), of |-> op[s]]
<1>1. /\ Stepping(s) /\ Now(s).do = "send" /\ pc[s] = "run" /\ job' = job
      /\ UNCHANGED <<op, acc, got>> /\ Members' = Members
      /\ job \in Jobs /\ s \in Ranks /\ Members \subseteq Ranks
      /\ op[s] <= Len(job.program)
      /\ pc \in [Ranks -> {"start", "init", "run", "done", "exited"}]
  BY Ranges, SameJob DEF Sending, Stepping, Types, TypeOK
<1>2. /\ p \in Members \ {s} /\ fd[s][p] = p /\ Op(s) \in Operations
      /\ Talks(Op(s), s, p) /\ at[s] = SendTurn(Op(s), s, p) /\ at[s] \in Nat
  BY <1>1, NowIs, LabelledBelow
<1>3. pc'[s] # "exited"
  BY <1>1 DEF NoExits
<1>4. /\ at' = [at EXCEPT ![s] = @ + 1]
      /\ chan' = IF Gone(p) THEN chan ELSE [chan EXCEPT ![s][p] = Append(@, m)]
      /\ pc' = pc
  BY <1>1, <1>2, <1>3 DEF Sending
<1>5. Buffers(Op(s), s, at[s], acc[s], got[s])
  BY <1>1 DEF ValuesHere, Buffered
<1>6. Exact(Op(s)) => Payload(s, p) = Carried(Op(s), s, p)
  <2> HIDE DEF p
  <2> QED BY <1>1, <1>2, <1>5, PayloadIs DEF p
<1>7. ASSUME NEW q \in Members, NEW r \in Members \ {q}
      PROVE  Carries(q, r)'
  <2>1. Carries(q, r)
    BY DEF ValuesHere
  <2>2. CASE chan'[q][r] = chan[q][r]
    BY <1>1, <2>1, <2>2, CarriesNext
  <2>3. CASE chan'[q][r] # chan[q][r]
    <3>1. q \in Ranks /\ r \in Ranks /\ p \in Ranks
      BY <1>1, <1>2
    <3>2. chan \in [Ranks -> [Ranks -> Seq(Messages)]] /\ chan[q][r] \in Seq(Messages)
      BY <3>1 DEF Types
    <3> HIDE DEF Messages, m, p
    <3>3. q = s /\ r = p /\ chan'[q][r] = Append(chan[q][r], m)
      BY <1>1, <1>4, <2>3, <3>1, <3>2
    <3>4. m.of = op[s] /\ m.val = Payload(s, p)
      BY DEF m
    <3>5. Exact(job.program[m.of]) => m.val = Carried(job.program[m.of], q, r)
      BY <1>6, <3>3, <3>4 DEF Op
    <3>6. \A i \in DOMAIN chan'[q][r] :
            (\E j \in DOMAIN chan[q][r] : chan'[q][r][i] = chan[q][r][j]) \/ chan'[q][r][i] = m
      <4>1. ASSUME NEW c \in Seq(Messages), NEW i \in DOMAIN Append(c, m)
            PROVE  (\E j \in DOMAIN c : Append(c, m)[i] = c[j]) \/ Append(c, m)[i] = m
        BY <4>1
      <4> QED BY <3>2, <3>3, <4>1
    <3> QED BY <1>1, <2>1, <3>5, <3>6, CarriesNext
  <2> QED BY <2>2, <2>3
<1>8. ASSUME NEW r \in Members
      PROVE  Buffered(r)'
  <2>1. at \in [Ranks -> Nat] /\ r \in Ranks
    BY <1>1 DEF Types, TypeOK
  <2>2. CASE r = s
    <3>1. at'[s] = SendTurn(Op(s), s, p) + 1
      BY <1>1, <1>2, <1>4, <2>1
    <3>2. Buffers(Op(s), s, SendTurn(Op(s), s, p) + 1, acc[s], got[s])
      <4> HIDE DEF p
      <4>1. Buffers(Op(s), s, SendTurn(Op(s), s, p), acc[s], got[s])
        BY <1>2, <1>5
      <4> QED BY <1>2, <4>1, SendBuffers
    <3>3. Buffers(job.program[op'[s]], s, at'[s], acc'[s], got'[s])
      BY <1>1, <3>1, <3>2 DEF Op
    <3> QED BY <1>1, <2>2, <3>3, BufferedNext
  <2>3. CASE r # s
    <3>1. at'[r] = at[r]
      BY <1>1, <1>4, <2>1, <2>3
    <3>2. Buffered(r)
      BY DEF ValuesHere
    <3> QED BY <1>1, <1>4, <3>1, <3>2, BufferedKept
  <2> QED BY <2>2, <2>3
<1> QED BY <1>1, <1>7, <1>8 DEF ValuesHere

LEMMA ReceivingValues ==
  ASSUME Types, Net, AllLabelled, Channels, NoExits, ValuesHere,
         NEW s \in Members, Receiving(s)
  PROVE  ValuesHere'
<1> DEFINE p == Now(s).peer
           v == Head(chan[p][s]).val
           gathers == s = (IF Op(s) = "scan" THEN 0 ELSE job.root)
                      /\ Op(s) \in {"gather", "scan"}
<1>1. /\ Stepping(s) /\ Now(s).do = "recv" /\ pc[s] = "run" /\ job' = job
      /\ UNCHANGED <<op, pc>> /\ Members' = Members
      /\ job \in Jobs /\ s \in Ranks /\ Members \subseteq Ranks
      /\ op[s] <= Len(job.program)
      /\ at' = [at EXCEPT ![s] = @ + 1]
  BY Ranges, SameJob DEF Receiving, Stepping
<1>2. /\ p \in Members \ {s} /\ fd[s][p] = p /\ Op(s) \in Operations
      /\ Talks(Op(s), p, s) /\ at[s] = RecvTurn(Op(s), p, s) /\ at[s] \in Nat
  BY <1>1, NowIs, LabelledBelow
<1>3. Channel(p, s)
  BY <1>2 DEF Channels
<1>4. /\ chan[p][s] # <<>> => Head(chan[p][s]).of = op[s]
      /\ ~(chan[p][s] = <<>> /\ Gone(p))
  <2> HIDE DEF p
  <2>1. p \in Members \ {s} /\ Now(s).peer = p /\ pc[p] # "exited"
    BY <1>2 DEF p, NoExits
  <2> QED BY <1>1, <1>3, <2>1, HeadIsMine
<1>5. /\ chan[p][s] # <<>>
      /\ chan' = [chan EXCEPT ![p][s] = Tail(@)]
      /\ IF gathers THEN got' = [got EXCEPT ![s][p] = v] /\ acc' = acc
                    ELSE acc' = [acc EXCEPT ![s] = Received(s, p, v)] /\ got' = got
  BY <1>2, <1>4 DEF Receiving, Place
<1>6. chan \in [Ranks -> [Ranks -> Seq(Messages)]] /\ p \in Ranks
  BY <1>1, <1>2 DEF Types
<1>7. /\ 1 \in DOMAIN chan[p][s] /\ Head(chan[p][s]) = chan[p][s][1]
      /\ \A i \in DOMAIN Tail(chan[p][s]) : \E j \in DOMAIN chan[p][s] :
           Tail(chan[p][s])[i] = chan[p][s][j]
  <2>1. chan[p][s] \in Seq(Messages) /\ chan[p][s] # <<>>
    BY <1>1, <1>5, <1>6
  <2>2. ASSUME NEW c \in Seq(Messages), c # <<>>
        PROVE  /\ 1 \in DOMAIN c /\ Head(c) = c[1]
               /\ \A i \in DOMAIN Tail(c) : i + 1 \in DOMAIN c /\ Tail(c)[i] = c[i + 1]
    <3> HIDE DEF Messages
    <3> QED BY <2>2
  <2> HIDE DEF Messages, p
  <2> QED BY <2>1, <2>2
<1>8. Exact(Op(s)) => v = Carried(Op(s), p, s)
  <2>1. Carries(p, s)
    BY <1>2 DEF ValuesHere
  <2> QED BY <1>4, <1>5, <1>7, <2>1 DEF Carries, Op
<1>9. Buffers(Op(s), s, at[s], acc[s], got[s])
  BY <1>1 DEF ValuesHere, Buffered
<1>10. at \in [Ranks -> Nat] /\ acc \in [Ranks -> Contributions]
       /\ got \in [Ranks -> [Ranks -> Contributions]]
  BY DEF Types, TypeOK
<1>11. ASSUME NEW q \in Members, NEW r \in Members \ {q}
       PROVE  Carries(q, r)'
  <2>1. Carries(q, r) /\ q \in Ranks /\ r \in Ranks
    BY <1>1 DEF ValuesHere
  <2> HIDE DEF p, Messages
  <2>2. CASE q = p /\ r = s
    <3>1. chan'[q][r] = Tail(chan[q][r])
      BY <1>1, <1>5, <1>6, <2>2
    <3> QED BY <1>1, <1>7, <2>1, <2>2, <3>1, CarriesNext
  <2>3. CASE ~(q = p /\ r = s)
    <3>1. chan'[q][r] = chan[q][r]
      BY <1>1, <1>5, <1>6, <2>1, <2>3
    <3> QED BY <1>1, <2>1, <3>1, CarriesNext
  <2> QED BY <2>2, <2>3
<1> HIDE DEF v, p
<1>12. Buffers(Op(s), s, RecvTurn(Op(s), p, s) + 1, acc'[s], got'[s])
  <2>1. CASE gathers
    <3>1. Exact(Op(s)) /\ Carried(Op(s), p, s) = Own(p) /\ v = Own(p)
      BY <1>8, <2>1 DEF Exact, Carried
    <3>2. got'[s] = [got[s] EXCEPT ![p] = Own(p)] /\ acc'[s] = acc[s]
      BY <1>1, <1>5, <1>10, <2>1, <3>1
    <3>3. got[s] \in [Ranks -> Contributions]
      BY <1>1, <1>10
    <3> QED BY <1>1, <1>2, <1>9, <2>1, <3>2, <3>3, GatherBuffers
  <2>2. CASE ~gathers
    <3>1. got'[s] = got[s] /\ acc'[s] = Received(s, p, v)
      BY <1>1, <1>5, <1>10, <2>2
    <3>2. ~(Op(s) \in {"gather", "scan"} /\ s = (IF Op(s) = "scan" THEN 0 ELSE job.root))
      BY <2>2
    <3>3. Buffers(Op(s), s, RecvTurn(Op(s), p, s), acc[s], got[s])
      BY <1>2, <1>9
    <3> QED BY <1>1, <1>2, <1>8, <3>1, <3>2, <3>3, TakeBuffers
  <2> QED BY <2>1, <2>2
<1>13. ASSUME NEW r \in Members
       PROVE  Buffered(r)'
  <2>1. CASE r = s
    <3>1. at'[s] = RecvTurn(Op(s), p, s) + 1
      BY <1>1, <1>2, <1>10
    <3>2. Buffers(job.program[op'[s]], s, at'[s], acc'[s], got'[s])
      BY <1>1, <1>12, <3>1 DEF Op
    <3> QED BY <1>1, <2>1, <3>2, BufferedNext
  <2>2. CASE r # s
    <3>1. at'[r] = at[r] /\ acc'[r] = acc[r] /\ got'[r] = got[r]
      BY <1>1, <1>5, <1>10, <2>2
    <3>2. Buffered(r)
      BY DEF ValuesHere
    <3> QED BY <1>1, <3>1, <3>2, BufferedKept
  <2> QED BY <2>1, <2>2
<1> QED BY <1>1, <1>11, <1>13 DEF ValuesHere

\* A step that begins an operation, or changes neither messages nor buffers.
LEMMA StartValues ==
  ASSUME Types, ValuesHere, NEW s \in Members, job' = job, chan' = chan,
         \A r \in Members \ {s} : pc'[r] = pc[r],
         NEW k \in Nat \ {0}, op' = [op EXCEPT ![s] = k], at' = [at EXCEPT ![s] = 0],
         acc' = [acc EXCEPT ![s] = Local(OpAt(k), s)],
         got' = [got EXCEPT ![s] = Gathered(OpAt(k), s)]
  PROVE  ValuesHere'
<1>1. Members' = Members /\ s \in Ranks /\ Members \subseteq Ranks /\ job \in Jobs
      /\ job.program \in Seq(Operations)
  BY SameJob, Ranges, JobFacts
<1>2. /\ op \in [Ranks -> 1 .. (Len(job.program) + 1)] /\ at \in [Ranks -> Nat]
      /\ acc \in [Ranks -> Contributions] /\ got \in [Ranks -> [Ranks -> Contributions]]
  BY DEF Types, TypeOK
<1>3. \A q \in Members : \A r \in Members \ {q} : Carries(q, r)'
  BY CarriesNext DEF ValuesHere
<1>4. ASSUME NEW r \in Members
      PROVE  Buffered(r)'
  <2>1. CASE r = s
    <3>1. /\ op'[s] = k /\ at'[s] = 0 /\ acc'[s] = Local(OpAt(k), s)
          /\ got'[s] = Gathered(OpAt(k), s)
      BY <1>1, <1>2
    <3>2. k <= Len(job.program) => job.program[k] \in Operations /\ OpAt(k) = job.program[k]
      BY <1>1 DEF OpAt
    <3>3. k <= Len(job.program) => Buffers(job.program[k], s, 0, Local(OpAt(k), s), Gathered(OpAt(k), s))
      BY <3>2, StartBuffers
    <3> QED BY <2>1, <3>1, <3>3, BufferedNext
  <2>2. CASE r # s
    <3>1. op'[r] = op[r] /\ at'[r] = at[r] /\ acc'[r] = acc[r] /\ got'[r] = got[r] /\ pc'[r] = pc[r]
      BY <1>1, <1>2, <2>2
    <3> QED BY <3>1, BufferedKept DEF ValuesHere
  <2> QED BY <2>1, <2>2
<1> QED BY <1>1, <1>3, <1>4 DEF ValuesHere

LEMMA QuietValues ==
  ASSUME Types, ValuesHere, job' = job, chan' = chan, UNCHANGED opVars,
         \A r \in Members : pc'[r] = "run" => pc[r] = "run"
  PROVE  ValuesHere'
<1>1. Members' = Members
  BY SameJob
<1>2. \A q \in Members : \A r \in Members \ {q} : Carries(q, r)'
  BY CarriesNext DEF ValuesHere
<1>3. \A r \in Members : Buffered(r)'
  BY BufferedKept DEF ValuesHere, opVars
<1> QED BY <1>1, <1>2, <1>3 DEF ValuesHere

LEMMA RankValues ==
  ASSUME Types, Net, AllLabelled, Channels, NoExits, NoExits', ValuesHere,
         NEW s \in Members, Rank(s) \/ GiveUp(s)
  PROVE  ValuesHere'
<1>1. /\ s \in Ranks /\ Members \subseteq Ranks /\ op[s] \in Nat \ {0}
      /\ pc \in [Ranks -> {"start", "init", "run", "done", "exited"}]
      /\ op \in [Ranks -> 1 .. (Len(job.program) + 1)] /\ at \in [Ranks -> Nat]
  <2>1. /\ pc \in [Ranks -> {"start", "init", "run", "done", "exited"}]
        /\ op \in [Ranks -> 1 .. (Len(job.program) + 1)] /\ at \in [Ranks -> Nat]
    BY DEF Types, TypeOK
  <2>2. s \in Ranks /\ Members \subseteq Ranks /\ op[s] \in 1 .. (Len(job.program) + 1)
    BY Ranges
  <2> QED BY <2>1, <2>2
<1>2. CASE Listen(s) \/ Connect(s) \/ Accept(s)
  <2>1. job' = job /\ chan' = chan /\ UNCHANGED opVars
    BY <1>2 DEF Listen, Connect, Accept, opVars
  <2>2. pc' = pc \/ pc' = [pc EXCEPT ![s] = "init"]
    BY <1>2 DEF Listen, Connect, Accept
  <2>3. \A r \in Members : pc'[r] = "run" => pc[r] = "run"
    BY <1>1, <2>2
  <2> QED BY <2>1, <2>3, QuietValues
<1>3. CASE GiveUp(s)
  <2>1. pc'[s] = "exited" /\ Members' = Members
    BY <1>1, <1>3, SameJob DEF GiveUp
  <2> QED BY <2>1 DEF NoExits
<1>4. CASE Ready(s)
  <2>1. op[s] = 1 /\ at[s] = 0
    BY <1>4 DEF Ready, Net, Connected
  <2>2. op' = [op EXCEPT ![s] = 1] /\ at' = [at EXCEPT ![s] = 0]
    BY <1>1, <1>4, <2>1 DEF Ready
  <2>3. \A r \in Members \ {s} : pc'[r] = pc[r]
    BY <1>1, <1>4 DEF Ready
  <2>4. job' = job /\ chan' = chan /\ 1 \in Nat \ {0}
    BY <1>4 DEF Ready
  <2> QED BY <1>4, <2>2, <2>3, <2>4, StartValues DEF Ready
<1>5. CASE Advance(s)
  <2>1. job' = job /\ chan' = chan
    BY <1>5 DEF Advance
  <2>2. CASE pc' = [pc EXCEPT ![s] = "done"] /\ UNCHANGED opVars
    <3>1. \A r \in Members : pc'[r] = "run" => pc[r] = "run"
      BY <1>1, <2>2
    <3> QED BY <2>1, <2>2, <3>1, QuietValues
  <2>3. CASE /\ op' = [op EXCEPT ![s] = @ + 1]
             /\ at' = [at EXCEPT ![s] = 0]
             /\ acc' = [acc EXCEPT ![s] = Local(OpAt(op[s] + 1), s)]
             /\ got' = [got EXCEPT ![s] = Gathered(OpAt(op[s] + 1), s)]
             /\ UNCHANGED pc
    <3>1. op[s] + 1 \in Nat \ {0}
      BY <1>1
    <3> QED BY <2>1, <2>3, <3>1, StartValues
  <2> QED BY <1>5, <2>2, <2>3 DEF Advance
<1> QED BY <1>2, <1>3, <1>4, <1>5, SendingValues, ReceivingValues DEF Rank

\* An exit is final.
LEMMA ExitsKept ==
  ASSUME Types, [Next]_vars, NoExits'
  PROVE  NoExits
<1>1. job' = job /\ Members' = Members
  <2>1. job' = job
    BY DEF Next, Rank, Listen, Connect, Accept, Ready, Sending, Receiving, Advance,
           GiveUp, vars
  <2> QED BY <2>1, SameJob
<1>2. pc' = pc \/ \E s \in Members : pc[s] # "exited" /\ \E to : pc' = [pc EXCEPT ![s] = to]
  BY DEF Next, Rank, Listen, Connect, Accept, Ready, Sending, Receiving, Advance, Stepping,
         GiveUp, vars
<1>3. pc \in [Ranks -> {"start", "init", "run", "done", "exited"}] /\ Members \subseteq Ranks
  <2>1. pc \in [Ranks -> {"start", "init", "run", "done", "exited"}] /\ job \in Jobs
    BY DEF Types, TypeOK
  <2> QED BY <2>1, JobFacts
<1> QED BY <1>1, <1>2, <1>3 DEF NoExits

\* In every world whose sockets are filed right, until a rank exits: each message
\* carries its operation's number, and each buffer holds what the turns so far
\* have put there; for an allreduce in a world of two only.
THEOREM ValuesHold == Spec => []Values
<1>1. Init => Values
  <2>1. ASSUME Init, NEW q \in Members, NEW r \in Members \ {q}
        PROVE  Carries(q, r)
    <3>1. q \in Ranks /\ r \in Ranks
      BY <2>1, InitNet, Ranges
    <3>2. chan[q][r] = <<>>
      BY <2>1, <3>1 DEF Init
    <3> QED BY <3>2 DEF Carries
  <2>2. ASSUME Init, NEW r \in Members
        PROVE  Buffered(r)
    BY <2>2, InitNet, Ranges DEF Init, Buffered
  <2> QED BY <2>1, <2>2 DEF Values, ValuesHere
<1>2. ASSUME Types, Net, Channels, Values, [Next]_vars
      PROVE  Values'
  <2>1. SUFFICES ASSUME AllLabelled', NoExits' PROVE ValuesHere'
    BY DEF Values
  <2>2. AllLabelled /\ NoExits /\ ValuesHere
    BY <1>2, <2>1, LabelsKept, ExitsKept DEF Values
  <2>3. CASE UNCHANGED vars
    BY <1>2, <2>2, <2>3, QuietValues DEF vars
  <2> QED BY <1>2, <2>1, <2>2, <2>3, RankValues DEF Next
<1> QED BY <1>1, <1>2, NetHolds, ChannelsHold, PTL DEF Spec

\* What a rank has in its buffers when an operation ends.
LEMMA EndBuffers ==
  ASSUME Types, Values, AllLabelled, NoExits, NEW r \in Members, NEW o, Ended(r, o)
  PROVE  Buffers(o, r, Length(o, r), acc[r], got[r])
<1>1. pc[r] = "run" /\ op[r] <= Len(job.program) /\ o = Op(r) /\ at[r] = Length(o, r)
  BY DEF Ended, In, Op
<1> QED BY <1>1 DEF Values, ValuesHere, Buffered

LEMMA EndRoot ==
  ASSUME Types, Values, AllLabelled
  PROVE  RootDelivers
<1> SUFFICES ASSUME NEW r \in Members, NoExits
             PROVE  /\ Ended(r, "bcast") => acc[r] = Own(job.root)
                    /\ Ended(r, "scatter") /\ InPlace(r) => acc[r] = Own(r)
  BY DEF RootDelivers
<1>1. FanLength(job.root, r) >= 1
  BY Ranges, JobFacts DEF FanLength
<1>2. Length("bcast", r) = FanLength(job.root, r) /\ Length("scatter", r) = FanLength(job.root, r)
  BY DEF Length
<1>3. Ended(r, "bcast") => acc[r] = Own(job.root)
  BY <1>1, <1>2, EndBuffers DEF Buffers
<1>4. Ended(r, "scatter") /\ InPlace(r) => acc[r] = Own(r)
  BY <1>1, <1>2, EndBuffers DEF Buffers
<1> QED BY <1>3, <1>4

LEMMA EndGather ==
  ASSUME Types, Values, AllLabelled
  PROVE  GatherPlaces
<1> DEFINE r == job.root
<1> SUFFICES ASSUME Ended(r, "gather"), NoExits, NEW p \in Members, InPlace(p)
             PROVE  got[r][p] = Own(p)
  BY DEF GatherPlaces
<1>1. r \in Members /\ Length("gather", r) = Others /\ job \in Jobs
  BY Ranges, JobFacts DEF Length, FanLength, Types, TypeOK
<1>2. GatheredSoFar("gather", r, Others, got[r])
  BY <1>1, EndBuffers DEF Buffers
<1>3. CASE p = r
  BY <1>2, <1>3 DEF InPlace, GatheredSoFar
<1>4. CASE p # r
  <2>1. Turn(r, p) < Others
    BY <1>1, <1>4, TurnBelow
  <2>2. RecvTurn("gather", p, r) < Others
    BY <2>1 DEF RecvTurn
  <2> QED BY <1>2, <1>4, <2>2 DEF GatheredSoFar
<1> QED BY <1>3, <1>4

LEMMA EndScan ==
  ASSUME Types, Values, AllLabelled
  PROVE  ScanSums
<1> SUFFICES ASSUME NEW r \in Members, Ended(r, "scan"), NoExits, r # 0
             PROVE  acc[r] = SumOf(0 .. (r - 1))
  BY DEF ScanSums
<1>1. Length("scan", r) = 2
  BY DEF Length, FanLength
<1> QED BY <1>1, EndBuffers DEF Buffers

LEMMA EndAllreduce ==
  ASSUME Types, Values, AllLabelled, job.world = 2
  PROVE  AllreduceSums
<1> SUFFICES ASSUME NEW r \in Members, Ended(r, "allreduce"), NoExits
             PROVE  acc[r] = SumOf(Members)
  BY DEF AllreduceSums
<1>1. Length("allreduce", r) = 2 /\ r \in Nat
  BY Ranges DEF Length, Others
<1> QED BY <1>1, EndBuffers DEF Buffers

\* Broadcast and scatter give every rank the root's value and its own slice, in
\* every world whose sockets are filed right (li_dpar_bcast_f64, li_dpar_scatter).
THEOREM RootsDeliver == Spec => [](AllLabelled => RootDelivers)
<1>1. Types /\ Values => (AllLabelled => RootDelivers)
  BY EndRoot
<1> QED BY <1>1, NetHolds, ValuesHold, PTL

\* The root of a gather has every peer's value at that peer's place.
THEOREM GathersPlace == Spec => [](AllLabelled => GatherPlaces)
<1>1. Types /\ Values => (AllLabelled => GatherPlaces)
  BY EndGather
<1> QED BY <1>1, NetHolds, ValuesHold, PTL

\* An exclusive scan gives every rank the sum of the values below it.
THEOREM ScansSum == Spec => [](AllLabelled => ScanSums)
<1>1. Types /\ Values => (AllLabelled => ScanSums)
  BY EndScan
<1> QED BY <1>1, NetHolds, ValuesHold, PTL

\* In a world of two, with either root and whatever the program, everything that
\* the runtime promises holds, the sum of an allreduce included.
THEOREM PairsSound ==
  Spec => [](job.world = 2 => /\ AllreduceSums
                              /\ BarrierWaits /\ FramesSound
                              /\ RootDelivers /\ GatherPlaces /\ ScanSums)
<1>1. /\ Types /\ Values /\ PairLabelled
      /\ (AllLabelled => BarrierWaits) /\ (AllLabelled => FramesSound)
      => (job.world = 2 => /\ AllreduceSums
                           /\ BarrierWaits /\ FramesSound
                           /\ RootDelivers /\ GatherPlaces /\ ScanSums)
  BY EndAllreduce, EndRoot, EndGather, EndScan DEF PairLabelled
<1> QED BY <1>1, NetHolds, ValuesHold, TwoLabelled, BarriersWait, FramesOwn, PTL

=============================================================================
