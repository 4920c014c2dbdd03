--------------------------- MODULE PartitionProofs ---------------------------
(***************************************************************************)
(* The block partition for every number of iterations and every team: the  *)
(* closed form of Partition is what the loop of the code accumulates, and  *)
(* its blocks are disjoint and cover all iterations.                       *)
(***************************************************************************)
EXTENDS Partition, TLAPS

\* Quotient and remainder, as the SMT solver needs them.
LEMMA DivMod ==
  ASSUME NEW n \in Nat, NEW t \in Nat \ {0}
  PROVE  /\ n \div t \in Nat
         /\ n % t \in 0 .. (t - 1)
         /\ n = t * (n \div t) + (n % t)
  OBVIOUS

\* Multiplication by a natural number is monotone and distributes.
LEMMA TimesMono ==
  ASSUME NEW q \in Nat, NEW v \in Nat, NEW w \in Nat, w < v
  PROVE  /\ v * q >= (w + 1) * q
         /\ (w + 1) * q = w * q + q
         /\ w * q \in Nat
         /\ v * q \in Nat
<1>1. (w + 1) * q = w * q + q
  OBVIOUS
<1>2. PICK d \in Nat : v = w + 1 + d
  <2>1. v - (w + 1) \in Nat
    OBVIOUS
  <2>2. v = w + 1 + (v - (w + 1))
    OBVIOUS
  <2> QED BY <2>1, <2>2
<1>3. v * q = (w + 1) * q + d * q
  BY <1>2
<1>4. w * q \in Nat /\ d * q \in Nat /\ v * q \in Nat
  OBVIOUS
<1> QED BY <1>1, <1>3, <1>4

\* The loop starts at 0, worker w + 1 starts where worker w ends, and the last
\* worker ends at `trip`: `cur` runs through BlockBegin.
THEOREM BlocksAccumulate ==
  ASSUME NEW trip \in Nat, NEW team \in Nat \ {0}
  PROVE  /\ BlockBegin(trip, team, 0) = 0
         /\ \A w \in 0 .. (team - 1) :
              /\ BlockBegin(trip, team, w + 1) = BlockEnd(trip, team, w)
              /\ BlockLen(trip, team, w) \in Nat
         /\ BlockBegin(trip, team, team) = trip
<1> DEFINE q == trip \div team
           r == trip % team
<1>1. q \in Nat /\ r \in 0 .. (team - 1) /\ trip = team * q + r
  BY DivMod
<1> HIDE DEF q, r
<1>2. BlockBegin(trip, team, 0) = 0
  <2>1. BlockBegin(trip, team, 0) = 0 * q + (IF 0 < r THEN 0 ELSE r)
    BY DEF BlockBegin, q, r
  <2> QED BY <2>1, <1>1
<1>3. ASSUME NEW w \in 0 .. (team - 1)
      PROVE  /\ BlockBegin(trip, team, w + 1) = BlockEnd(trip, team, w)
             /\ BlockLen(trip, team, w) \in Nat
  <2>1. BlockBegin(trip, team, w + 1)
          = (w + 1) * q + (IF w + 1 < r THEN w + 1 ELSE r)
    BY DEF BlockBegin, q, r
  <2>2. BlockEnd(trip, team, w)
          = w * q + (IF w < r THEN w ELSE r) + (q + (IF w < r THEN 1 ELSE 0))
    BY DEF BlockEnd, BlockBegin, BlockLen, q, r
  <2>3. BlockLen(trip, team, w) = q + (IF w < r THEN 1 ELSE 0)
    BY DEF BlockLen, q, r
  <2>4. (w + 1) * q = w * q + q /\ w * q \in Nat
    BY <1>1
  <2> QED BY <2>1, <2>2, <2>3, <2>4, <1>1
<1>4. BlockBegin(trip, team, team) = trip
  <2>1. BlockBegin(trip, team, team)
          = team * q + (IF team < r THEN team ELSE r)
    BY DEF BlockBegin, q, r
  <2> QED BY <2>1, <1>1
<1> QED BY <1>2, <1>3, <1>4

\* A later worker starts at or after the end of an earlier one, and no block
\* reaches outside the iterations.
THEOREM BlocksOrdered ==
  ASSUME NEW trip \in Nat, NEW team \in Nat \ {0},
         NEW w \in 0 .. (team - 1)
  PROVE  /\ BlockBegin(trip, team, w) \in Nat
         /\ BlockEnd(trip, team, w) \in Nat
         /\ BlockBegin(trip, team, w) <= BlockEnd(trip, team, w)
         /\ BlockEnd(trip, team, w) <= trip
         /\ \A v \in 0 .. (team - 1) :
              w < v => BlockEnd(trip, team, w) <= BlockBegin(trip, team, v)
<1> DEFINE q == trip \div team
           r == trip % team
<1>1. q \in Nat /\ r \in 0 .. (team - 1) /\ trip = team * q + r
  BY DivMod
<1>2. /\ BlockBegin(trip, team, w) = w * q + (IF w < r THEN w ELSE r)
      /\ BlockEnd(trip, team, w)
           = w * q + (IF w < r THEN w ELSE r) + (q + (IF w < r THEN 1 ELSE 0))
  BY DEF BlockBegin, BlockEnd, BlockLen
<1> HIDE DEF q, r
<1>3. /\ team * q >= (w + 1) * q
      /\ (w + 1) * q = w * q + q
      /\ w * q \in Nat
  BY <1>1, TimesMono
<1>4. ASSUME NEW v \in 0 .. (team - 1), w < v
      PROVE  BlockEnd(trip, team, w) <= BlockBegin(trip, team, v)
  <2>1. BlockBegin(trip, team, v) = v * q + (IF v < r THEN v ELSE r)
    BY DEF BlockBegin, q, r
  <2>2. v * q >= (w + 1) * q /\ v * q \in Nat
    BY <1>1, <1>4, TimesMono
  <2> QED BY <2>1, <2>2, <1>1, <1>2, <1>3, <1>4
<1>5. /\ BlockBegin(trip, team, w) \in Nat
      /\ BlockEnd(trip, team, w) \in Nat
      /\ BlockBegin(trip, team, w) <= BlockEnd(trip, team, w)
  BY <1>1, <1>2, <1>3
<1>6. BlockEnd(trip, team, w) <= trip
  BY <1>1, <1>2, <1>3
<1> QED BY <1>4, <1>5, <1>6

\* Blocks of different workers are disjoint and every iteration is in a block:
\* the partition hands out each iteration exactly once.
THEOREM BlocksPartition ==
  ASSUME NEW trip \in Nat, NEW team \in Nat \ {0}
  PROVE  /\ \A v, w \in 0 .. (team - 1) :
              v # w => Block(trip, team, v) \cap Block(trip, team, w) = {}
         /\ UNION {Block(trip, team, w) : w \in 0 .. (team - 1)}
              = 0 .. (trip - 1)
<1>1. ASSUME NEW v \in 0 .. (team - 1), NEW w \in 0 .. (team - 1), v < w
      PROVE  Block(trip, team, v) \cap Block(trip, team, w) = {}
  <2>1. BlockEnd(trip, team, v) <= BlockBegin(trip, team, w)
    BY <1>1, BlocksOrdered
  <2>2. BlockEnd(trip, team, v) \in Nat /\ BlockBegin(trip, team, w) \in Nat
    BY BlocksOrdered
  <2>3. BlockBegin(trip, team, v) \in Nat /\ BlockEnd(trip, team, w) \in Nat
    BY BlocksOrdered
  <2> QED BY <2>1, <2>2, <2>3 DEF Block
<1>2. ASSUME NEW w \in 0 .. (team - 1)
      PROVE  Block(trip, team, w) \subseteq 0 .. (trip - 1)
  <2>1. /\ BlockBegin(trip, team, w) \in Nat
        /\ BlockEnd(trip, team, w) \in Nat
        /\ BlockEnd(trip, team, w) <= trip
    BY BlocksOrdered
  <2> QED BY <2>1 DEF Block
<1>3. ASSUME NEW i \in 0 .. (trip - 1)
      PROVE  \E w \in 0 .. (team - 1) : i \in Block(trip, team, w)
  <2> DEFINE q == trip \div team
             r == trip % team
  <2>1. q \in Nat /\ r \in 0 .. (team - 1) /\ trip = team * q + r
    BY DivMod
  <2>2. \A w \in 0 .. (team - 1) :
          Block(trip, team, w)
            = (w * q + (IF w < r THEN w ELSE r))
                .. (w * q + (IF w < r THEN w ELSE r)
                      + (q + (IF w < r THEN 1 ELSE 0)) - 1)
    BY DEF Block, BlockBegin, BlockEnd, BlockLen
  <2> HIDE DEF q, r
  <2> DEFINE a == i \div (q + 1)
             b == (i - r) \div q
  <2>3. CASE i < r * (q + 1)
    <3>0. i \in Nat /\ q + 1 \in Nat \ {0}
      BY <2>1
    <3>1. /\ a \in Nat
          /\ i % (q + 1) \in 0 .. q
          /\ i = (q + 1) * a + (i % (q + 1))
      <4>1. i % (q + 1) \in 0 .. ((q + 1) - 1)
        BY <3>0, DivMod
      <4>2. a \in Nat /\ i = (q + 1) * a + (i % (q + 1))
        BY <3>0, DivMod
      <4> QED BY <4>1, <4>2, <2>1
    <3> HIDE DEF a
    <3>2. a < r
      <4>1. SUFFICES ASSUME r <= a PROVE FALSE
        BY <2>1, <3>1
      <4>2. r * (q + 1) <= a * (q + 1)
        <5>1. CASE r = a
          <6>1. r * (q + 1) \in Nat
            BY <2>1
          <6> QED BY <5>1, <6>1
        <5>2. CASE r < a
          <6>1. a * (q + 1) >= (r + 1) * (q + 1)
            BY <5>2, <2>1, <3>1, TimesMono, q + 1 \in Nat
          <6>2. (r + 1) * (q + 1) = r * (q + 1) + (q + 1)
            BY <2>1
          <6>3. r * (q + 1) \in Nat /\ a * (q + 1) \in Nat
            BY <2>1, <3>1
          <6> QED BY <6>1, <6>2, <6>3, <2>1
        <5> QED BY <4>1, <5>1, <5>2, <2>1, <3>1
      <4>3. (q + 1) * a = a * (q + 1)
        BY <2>1, <3>1
      <4>4. r * (q + 1) \in Nat /\ a * (q + 1) \in Nat
        BY <2>1, <3>1
      <4> QED BY <4>2, <4>3, <4>4, <2>3, <3>1
    <3>3. a \in 0 .. (team - 1)
      BY <3>1, <3>2, <2>1
    <3>4. (q + 1) * a = a * q + a
      BY <2>1, <3>1
    <3>5. a * q \in Nat
      BY <2>1, <3>1
    <3>6. i \in (a * q + a) .. (a * q + a + (q + 1) - 1)
      BY <3>1, <3>4, <3>5, <2>1
    <3>7. i \in Block(trip, team, a)
      BY <2>2, <3>2, <3>3, <3>6
    <3> QED BY <3>3, <3>7
  <2>4. CASE i >= r * (q + 1)
    <3>1. r * (q + 1) = r * q + r /\ r * q \in Nat
      BY <2>1
    <3>2. i - r \in Nat /\ i - r >= r * q
      BY <2>4, <3>1, <2>1
    <3>3. q # 0
      BY <2>1, <2>4, <3>1
    <3>4. /\ b \in Nat
          /\ (i - r) % q \in 0 .. (q - 1)
          /\ i - r = q * b + ((i - r) % q)
      BY <2>1, <3>2, <3>3, DivMod
    <3> HIDE DEF b
    <3>5. b >= r
      <4>1. SUFFICES ASSUME b < r PROVE FALSE
        BY <2>1, <3>4
      <4>2. r * q >= (b + 1) * q /\ (b + 1) * q = b * q + q /\ b * q \in Nat
        BY <4>1, <2>1, <3>4, TimesMono
      <4>3. q * b = b * q
        BY <2>1, <3>4
      <4> QED BY <4>2, <4>3, <3>1, <3>2, <3>4, <2>1
    <3>6. b < team
      <4>1. SUFFICES ASSUME team <= b PROVE FALSE
        BY <3>4
      <4>2. team * q <= b * q
        <5>1. CASE team = b
          <6>1. team * q \in Nat
            BY <2>1
          <6> QED BY <5>1, <6>1
        <5>2. CASE team < b
          <6>1. b * q >= (team + 1) * q /\ (team + 1) * q = team * q + q
                  /\ team * q \in Nat /\ b * q \in Nat
            BY <5>2, <2>1, <3>4, TimesMono
          <6> QED BY <6>1, <2>1
        <5> QED BY <4>1, <5>1, <5>2, <3>4
      <4>3. q * b = b * q /\ b * q \in Nat /\ team * q \in Nat
        BY <2>1, <3>4
      <4>4. i - r < team * q
        BY <2>1, <4>3
      <4> QED BY <4>2, <4>3, <4>4, <3>2, <3>4, <2>1
    <3>7. b \in 0 .. (team - 1) /\ ~(b < r)
      BY <3>4, <3>5, <3>6, <2>1
    <3>8. q * b = b * q /\ b * q \in Nat
      BY <2>1, <3>4
    <3>9. i \in (b * q + r) .. (b * q + r + (q + 0) - 1)
      BY <3>4, <3>8, <2>1
    <3>10. i \in Block(trip, team, b)
      BY <2>2, <3>7, <3>9
    <3> QED BY <3>7, <3>10
  <2>5. r * (q + 1) \in Nat
    BY <2>1
  <2> QED BY <2>3, <2>4, <2>5
<1>4. ASSUME NEW v \in 0 .. (team - 1), NEW w \in 0 .. (team - 1), v # w
      PROVE  Block(trip, team, v) \cap Block(trip, team, w) = {}
  <2>1. v < w \/ w < v
    BY <1>4
  <2> QED BY <2>1, <1>1
<1>5. UNION {Block(trip, team, w) : w \in 0 .. (team - 1)} = 0 .. (trip - 1)
  BY <1>2, <1>3
<1> QED BY <1>4, <1>5

\* The same of single iterations: a block lies in the trip, two blocks share none,
\* and each iteration of the trip is in one.
LEMMA BlocksCover ==
  ASSUME NEW trip \in Nat, NEW team \in Nat \ {0}
  PROVE  LET T        == 0 .. (team - 1)
             In(v, i) == BlockBegin(trip, team, v) <= i /\ i < BlockEnd(trip, team, v)
         IN  /\ \A v \in T : /\ BlockBegin(trip, team, v) \in Nat
                             /\ BlockEnd(trip, team, v) \in Nat
                             /\ BlockBegin(trip, team, v) <= BlockEnd(trip, team, v)
                             /\ BlockEnd(trip, team, v) <= trip
             /\ \A u, v \in T : \A i \in Nat : In(u, i) /\ In(v, i) => u = v
             /\ \A i \in Nat : i < trip => \E v \in T : In(v, i)
<1> DEFINE T == 0 .. (team - 1)
           B(v) == Block(trip, team, v)
           In(v, i) == BlockBegin(trip, team, v) <= i /\ i < BlockEnd(trip, team, v)
<1>1. \A v \in T : /\ BlockBegin(trip, team, v) \in Nat
                   /\ BlockEnd(trip, team, v) \in Nat
                   /\ BlockBegin(trip, team, v) <= BlockEnd(trip, team, v)
                   /\ BlockEnd(trip, team, v) <= trip
  BY BlocksOrdered
<1>2. \A v \in T : \A i \in Nat : i \in B(v) <=> In(v, i)
  BY <1>1 DEF Block
<1>3. /\ \A u, v \in T : u # v => B(u) \cap B(v) = {}
      /\ UNION {B(v) : v \in T} = 0 .. (trip - 1)
  BY BlocksPartition
<1> HIDE DEF B, In
<1>4. \A u, v \in T : \A i \in Nat : In(u, i) /\ In(v, i) => u = v
  BY <1>2, <1>3
<1>5. ASSUME NEW i \in Nat, i < trip PROVE \E v \in T : In(v, i)
  <2>1. i \in 0 .. (trip - 1)
    BY <1>5
  <2>2. PICK v \in T : i \in B(v)
    <3> HIDE DEF T
    <3> QED BY <1>3, <2>1
  <2> QED BY <1>2, <2>2
<1> QED BY <1>1, <1>4, <1>5 DEF In
=============================================================================
