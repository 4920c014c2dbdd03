---------------------------- MODULE CorpusProofs ----------------------------
(***************************************************************************)
(* The proof database, for every plan, catalog, register and overlay, with *)
(* tools in any order that are killed at any write.  Corpus is inductive:  *)
(* what the writes a tool has still to do will make true (Planning).  For  *)
(* the register two more are, each given Corpus: Links (no row names a     *)
(* specimen that is not there) and Phased (what overlays, specimens and    *)
(* catalog leave, one after the other).                                    *)
(***************************************************************************)
EXTENDS ProofDb, FiniteSetTheorems, TLAPS

-----------------------------------------------------------------------------
(* The files of the proof database.                                        *)

AllTools == CorpusTools \cup ErdosTools
Trails == AllTools \cup {"killed", "killed, register"}

IsSeq(s) == Len(s) \in Nat /\ s = [i \in 1..Len(s) |-> s[i]]

HasFiles(d) ==
  /\ DOMAIN d = {"entries", "manifests", "specimens", "register", "catalog", "sheets"}
  /\ DOMAIN d.entries = ToSet(Catalogs)

RowFits(id, field, stmt) == id \in ToSet(Planned) /\ FieldOf(id) = field /\ IsStatement(stmt)

CorpusFiles(d) ==
  /\ \A f \in ToSet(Fields) : \A id \in RowsOf(d, f) : RowFits(id, f, d.entries[f][id])
  /\ \A id \in DOMAIN d.specimens : DOMAIN d.specimens[id] = {"head", "body"}
  /\ Rows(d) \subseteq DOMAIN d.specimens

OpsOf(tool) ==
  CASE tool = "write-manifests" -> {"manifest"}
    [] tool = "bootstrap" -> {"specimen", "append"}
    [] tool = "dedupe" -> {"drop"}
    [] tool = "destub-basic" -> {"patch", "patchPlan", "header"}
    [] tool = "de-stub-catalog" -> {"patch", "patchPlan", "header", "heading"}
    [] tool = "patch-catalog" -> {"repatch"}
    [] tool = "enrich" -> {"rewrite"}
    [] tool = "destub-proc" -> {"migrate"}
    [] tool \in {"fetch", "tier1", "overlays"} -> {"register"}
    [] tool \in {"specimens", "specimens --limit"} -> {"sheet", "register", "relink"}
    [] tool \in {"sync", "sync --limit", "sync --merge"} -> {"catalog"}
    [] OTHER -> {}

SpecimenFirst(d, w, i) ==
  \/ w[i].on \in DOMAIN d.specimens
  \/ \E j \in DOMAIN w : j < i /\ w[j].op = "specimen" /\ w[j].on = w[i].on

CorpusWrites(d, w) ==
  \A i \in DOMAIN w :
    /\ w[i].op \in {"patch", "repatch"} => w[i].on \in ToSet(Catalogs)
    /\ w[i].op \in {"specimen", "append"} => w[i].on \in ToSet(Planned)
    /\ w[i].op = "append" => SpecimenFirst(d, w, i)
    /\ w[i].op = "migrate" => w[i].on \in DOMAIN d.specimens
    /\ w[i].op = "drop" => w[i].on = "other" /\ \A p \in w[i].what : Superseded[p] \in Rows(d)

ToDo(w, op, on) == \E i \in DOMAIN w : w[i].op = op /\ w[i].on = on

Clean(d, f) == \A id \in RowsOf(d, f) : Destubbed(id, d.entries[f][id]) = d.entries[f][id]
HeadFits(d, id) == d.specimens[id].head \in {None, Statement(d, id)}

Cleaning(d, w) ==
  /\ \A f \in ToSet(Fields) : ToDo(w, "patch", f) \/ Clean(d, f)
  /\ \A id \in Rows(d) : ToDo(w, "header", id) \/ HeadFits(d, id)
  /\ (\E i \in DOMAIN w : w[i].op = "patch") => \A id \in Rows(d) : ToDo(w, "header", id)
  /\ \A i, j \in DOMAIN w : i < j /\ w[i].op = "header" => w[j].op # "patch"

Rich(d, id) == HasNamedDef(d.specimens[id].body) /\ d.specimens[id].head = Statement(d, id)

Enriching(d, w) ==
  /\ \A i \in DOMAIN w : w[i].on \in Rows(d) /\ w[i].what = Statement(d, w[i].on)
  /\ \A id \in Rows(d) : ToDo(w, "rewrite", id) \/ Rich(d, id)

IsTable(t, fields) ==
  /\ DOMAIN t \subseteq Nat /\ IsFiniteSet(DOMAIN t)
  /\ \A n \in DOMAIN t : DOMAIN t[n] = fields
IsRegister(r) == IsTable(r, {"stmt", "tier", "status", "spec"})
IsCatalog(c) == IsTable(c, {"stmt", "status", "spec"})

ErdosFiles(d) ==
  /\ d.register = None \/ IsRegister(d.register)
  /\ IsCatalog(d.catalog)
  /\ \A n \in DOMAIN d.sheets : DOMAIN d.sheets[n] = {"head"}

TableWrites(w) ==
  \A i \in DOMAIN w :
    /\ w[i].op = "register" => IsRegister(w[i].what)
    /\ w[i].op = "catalog" => IsCatalog(w[i].what)

\* What the first step of a tool leaves: a plan that fits the files.
Planning(d, tool, w) ==
  /\ IsSeq(w) /\ \A i \in DOMAIN w : w[i].op \in OpsOf(tool)
  /\ TableWrites(w) /\ CorpusWrites(d, w)
  /\ tool \in {"destub-basic", "de-stub-catalog"} => Cleaning(d, w)
  /\ tool = "enrich" => Enriching(d, w)

NotLost(d, c) ==
  \A prior \in DOMAIN Superseded :
    LET canonical == Superseded[prior]
    IN  \/ prior \in RowsOf(d, "other") \/ canonical \in Rows(d)
        \/ {<<"entries", "other">>, <<"entries", FieldOf(canonical)>>} \cap c # {}

Jobs ==
  /\ job = [tool |-> job.tool, writes |-> job.writes]
  /\ job.tool \in AllTools \cup {None}
  /\ job.tool = None => job.writes = <<>>
  /\ trail \in Seq(Trails)

Corpus ==
  /\ Jobs
  /\ HasFiles(db) /\ CorpusFiles(db) /\ ErdosFiles(db)
  /\ Planning(db, job.tool, job.writes)
  /\ Settled /\ Enriched /\ NotLost(db, cut)

-----------------------------------------------------------------------------
(* Sequences, enumerations and tables.                                     *)

LEMMA AscendingOnto ==
  ASSUME NEW S, S \subseteq Nat, IsFiniteSet(S)
  PROVE  /\ Cardinality(S) \in Nat
         /\ DOMAIN Ascending(S) = 1..Cardinality(S)
         /\ \A k \in 1..Cardinality(S) : Ascending(S)[k] \in S
         /\ \A n \in S : \E k \in 1..Cardinality(S) : Ascending(S)[k] = n
<1> DEFINE N == Cardinality(S)
           upTo(n) == {m \in S : m <= n}
           rank == [n \in S |-> Cardinality(upTo(n))]
           Q == {rank[n] : n \in S}
<1>1. N \in Nat  BY FS_CardinalityType
<1>2. ASSUME NEW n \in S
      PROVE  rank[n] \in 1..N /\ IsFiniteSet(upTo(n)) /\ Cardinality(upTo(n)) = rank[n]
  <2>1. upTo(n) \subseteq S  OBVIOUS
  <2>2. IsFiniteSet(upTo(n)) /\ Cardinality(upTo(n)) <= N  BY <2>1, FS_Subset
  <2>3. Cardinality(upTo(n)) \in Nat  BY <2>2, FS_CardinalityType
  <2>4. n \in upTo(n)  OBVIOUS
  <2>5. Cardinality(upTo(n)) # 0  BY <2>2, <2>4, FS_EmptySet
  <2>6. rank[n] = Cardinality(upTo(n))  OBVIOUS
  <2> QED BY <2>2, <2>3, <2>5, <2>6, <1>1
<1>3. ASSUME NEW n \in S, NEW m \in S, n < m
      PROVE  rank[n] < rank[m]
  <2>0. n \in Nat /\ m \in Nat /\ \A x \in S : x \in Nat  OBVIOUS
  <2>1. \A x \in upTo(n) : x \in upTo(m)
    <3> TAKE x \in upTo(n)
    <3>1. x \in S /\ x <= n  OBVIOUS
    <3>2. x \in Nat  BY <3>1, <2>0
    <3>3. x <= m  BY <3>1, <3>2, <2>0, <1>3
    <3> QED BY <3>1, <3>3
  <2>2. upTo(n) # upTo(m)
    <3>1. m \in upTo(m) /\ m \notin upTo(n)  BY <1>3, <2>0
    <3> QED BY <3>1
  <2>3. Cardinality(upTo(n)) < Cardinality(upTo(m))  
    <3>1. IsFiniteSet(upTo(m)) /\ upTo(n) \in SUBSET upTo(m)  BY <2>1, <1>2
    <3>2. /\ Cardinality(upTo(n)) <= Cardinality(upTo(m))
          /\ Cardinality(upTo(m)) = Cardinality(upTo(n)) => upTo(m) = upTo(n)
      BY <3>1, FS_Subset
    <3>3. Cardinality(upTo(n)) \in Nat /\ Cardinality(upTo(m)) \in Nat  BY <1>2, FS_CardinalityType
    <3> HIDE DEF upTo
    <3> QED BY <3>2, <3>3, <2>2
  <2> QED BY <2>3, <1>2
<1>4. \A n, m \in S : rank[n] = rank[m] => n = m
  <2> SUFFICES ASSUME NEW n \in S, NEW m \in S, rank[n] = rank[m], n # m  PROVE FALSE
    OBVIOUS
  <2>1. n < m \/ m < n  OBVIOUS
  <2>2. rank[n] \in Nat /\ rank[m] \in Nat  BY <1>2
  <2> QED BY <2>1, <2>2, <1>3
<1>5. rank \in Bijection(S, Q)
  <2>1. rank \in [S -> Q]  OBVIOUS
  <2>2. IsInjective(rank)  BY <1>4 DEF IsInjective
  <2>3. \A t \in Q : \E n \in S : rank[n] = t  OBVIOUS
  <2> QED BY <2>1, <2>2, <2>3 DEF Bijection, Injection, Surjection
<1>6. IsFiniteSet(Q) /\ Cardinality(Q) = N
  <2>1. ExistsBijection(S, Q)  BY <1>5 DEF ExistsBijection
  <2> QED BY <2>1, FS_Bijection
<1>7. Q \subseteq 1..N  BY <1>2
<1>8. IsFiniteSet(1..N) /\ Cardinality(1..N) = N
  <2>1. IsFiniteSet(1..N) /\ Cardinality(1..N) = IF 1 > N THEN 0 ELSE N - 1 + 1
    BY <1>1, FS_Interval
  <2> QED BY <2>1, <1>1
<1>9. Q = 1..N  BY <1>6, <1>7, <1>8, FS_Subset
<1>10. ASSUME NEW k \in 1..N
       PROVE  Ascending(S)[k] \in S /\ rank[Ascending(S)[k]] = k
  <2>1. PICK n \in S : rank[n] = k  BY <1>9
  <2>2. Cardinality({m \in S : m <= n}) = k  BY <2>1
  <2>3. Ascending(S)[k] = CHOOSE x \in S : Cardinality({m \in S : m <= x}) = k
    BY DEF Ascending
  <2>4. Ascending(S)[k] \in S /\ Cardinality({m \in S : m <= Ascending(S)[k]}) = k
    BY <2>2, <2>3
  <2> QED BY <2>4
<1>11. ASSUME NEW n \in S  PROVE \E k \in 1..N : Ascending(S)[k] = n
  <2>1. rank[n] \in 1..N  BY <1>2
  <2>2. Ascending(S)[rank[n]] \in S /\ rank[Ascending(S)[rank[n]]] = rank[n]  BY <2>1, <1>10
  <2>3. Ascending(S)[rank[n]] = n  BY <2>2, <1>4
  <2> QED BY <2>1, <2>3
<1>12. DOMAIN Ascending(S) = 1..N  BY DEF Ascending
<1> QED BY <1>1, <1>10, <1>11, <1>12

LEMMA AscendingIsSeq ==
  ASSUME NEW S, S \subseteq Nat, IsFiniteSet(S)
  PROVE  IsSeq(Ascending(S))
<1> DEFINE N == Cardinality(S)
           nth(k) == CHOOSE n \in S : Cardinality({m \in S : m <= n}) = k
           f == [k \in 1..N |-> nth(k)]
<1>1. N \in Nat  BY FS_CardinalityType
<1>2. Ascending(S) = f  BY DEF Ascending
<1> HIDE DEF N, nth
<1>3. Len(f) = N /\ f = [k \in 1..N |-> f[k]]  BY <1>1
<1> HIDE DEF f
<1> QED BY <1>1, <1>2, <1>3 DEF IsSeq

LEMMA KeptFacts ==
  ASSUME NEW seq, NEW set, NEW len \in Nat, DOMAIN seq = 1..len
  PROVE  /\ Len(Kept(seq, set)) \in Nat /\ DOMAIN Kept(seq, set) = 1..Len(Kept(seq, set))
         /\ IsSeq(Kept(seq, set))
         /\ ToSet(Kept(seq, set)) = ToSet(seq) \cap set
<1> DEFINE P == {i \in DOMAIN seq : seq[i] \in set}
           a == Ascending(P)
           N == Cardinality(P)
           s == [k \in 1..N |-> seq[a[k]]]
<1>1. IsFiniteSet(P) /\ P \subseteq Nat
  BY FS_Interval, FS_Subset
<1>2. /\ N \in Nat /\ DOMAIN a = 1..N
      /\ \A k \in 1..N : a[k] \in P
      /\ \A n \in P : \E k \in 1..N : a[k] = n
  BY <1>1, AscendingOnto
<1>3. Kept(seq, set) = s  BY <1>2 DEF Kept
<1>4. Len(s) = N /\ DOMAIN s = 1..N  BY <1>2
<1> HIDE DEF a
<1>5. ToSet(s) \subseteq ToSet(seq) \cap set  BY <1>2, <1>4 DEF ToSet
<1>6. ASSUME NEW x \in ToSet(seq) \cap set  PROVE x \in ToSet(s)
  <2>1. PICK i \in DOMAIN seq : x = seq[i]  BY DEF ToSet
  <2>2. i \in P  BY <2>1
  <2>3. PICK k \in 1..N : a[k] = i  BY <1>2, <2>2
  <2>4. s[k] = x  BY <2>1, <2>3
  <2> QED BY <2>4, <1>4 DEF ToSet
<1>7. IsSeq(s)  BY <1>2, <1>4 DEF IsSeq
<1> QED BY <1>2, <1>3, <1>4, <1>5, <1>6, <1>7

LEMMA SeqFacts ==
  ASSUME NEW w, IsSeq(w)
  PROVE  Len(w) \in Nat /\ DOMAIN w = 1..Len(w) /\ w \in Seq(ToSet(w))
<1>1. Len(w) \in Nat /\ w = [i \in 1..Len(w) |-> w[i]]  BY DEF IsSeq
<1>2. DOMAIN w = 1..Len(w)  BY <1>1
<1>3. w \in [1..Len(w) -> ToSet(w)]  BY <1>1, <1>2 DEF ToSet
<1> QED BY <1>1, <1>2, <1>3

LEMMA SeqIsSeq ==
  ASSUME NEW S, NEW w \in Seq(S)
  PROVE  IsSeq(w)
BY DEF IsSeq

LEMMA TailFacts ==
  ASSUME NEW w, IsSeq(w), w # <<>>
  PROVE  /\ Len(w) \in Nat \ {0} /\ DOMAIN w = 1..Len(w) /\ 1 \in DOMAIN w /\ Head(w) = w[1]
         /\ IsSeq(Tail(w)) /\ Len(Tail(w)) = Len(w) - 1 /\ DOMAIN Tail(w) = 1..(Len(w) - 1)
         /\ \A i \in DOMAIN Tail(w) : i + 1 \in DOMAIN w /\ Tail(w)[i] = w[i + 1]
         /\ \A i \in DOMAIN w : i # 1 => i - 1 \in DOMAIN Tail(w) /\ Tail(w)[i - 1] = w[i]
<1>1. Len(w) \in Nat /\ DOMAIN w = 1..Len(w) /\ w \in Seq(ToSet(w))  BY SeqFacts
<1>2. Len(w) # 0  BY <1>1
<1>3. Tail(w) \in Seq(ToSet(w)) /\ Len(Tail(w)) = Len(w) - 1  BY <1>1, <1>2
<1>4. IsSeq(Tail(w))  BY <1>3, SeqIsSeq
<1>5. DOMAIN Tail(w) = 1..(Len(w) - 1)  BY <1>3
<1>6. \A i \in 1..(Len(w) - 1) : Tail(w)[i] = w[i + 1]  BY <1>1, <1>2
<1>7. Head(w) = w[1]  BY <1>1, <1>2
<1>8. ASSUME NEW i \in DOMAIN w, i # 1
      PROVE  i - 1 \in DOMAIN Tail(w) /\ Tail(w)[i - 1] = w[i]
  <2>1. i \in 1..Len(w)  BY <1>1
  <2>2. i - 1 \in 1..(Len(w) - 1)  BY <2>1, <1>8, <1>1
  <2>3. Tail(w)[i - 1] = w[(i - 1) + 1]  BY <2>2, <1>6
  <2>4. (i - 1) + 1 = i  BY <2>1, <1>1
  <2> QED BY <2>2, <2>3, <2>4, <1>5
<1> QED BY <1>1, <1>2, <1>4, <1>5, <1>3, <1>6, <1>7, <1>8

LEMMA EmptyFacts ==
  ASSUME NEW w, w = <<>>
  PROVE  IsSeq(w) /\ Len(w) = 0 /\ DOMAIN w = {}
<1>1. w \in Seq({}) /\ Len(w) = 0  OBVIOUS
<1>2. IsSeq(w)  BY <1>1, SeqIsSeq
<1>3. DOMAIN w = 1..Len(w)  BY <1>2, SeqFacts
<1>4. ASSUME NEW x \in DOMAIN w  PROVE FALSE  BY <1>1, <1>3
<1>5. DOMAIN w = {}  BY <1>4
<1>6. Len(w) = 0  BY <1>1
<1> QED BY <1>2, <1>5, <1>6

LEMMA JoinFacts ==
  ASSUME NEW s, NEW t, IsSeq(s), IsSeq(t)
  PROVE  /\ IsSeq(s \o t) /\ Len(s \o t) = Len(s) + Len(t)
         /\ \A i \in DOMAIN s : i \in DOMAIN (s \o t) /\ (s \o t)[i] = s[i]
         /\ \A i \in DOMAIN t : Len(s) + i \in DOMAIN (s \o t) /\ (s \o t)[Len(s) + i] = t[i]
         /\ \A k \in DOMAIN (s \o t) :
              \/ k \in DOMAIN s /\ (s \o t)[k] = s[k]
              \/ k > Len(s) /\ k - Len(s) \in DOMAIN t /\ (s \o t)[k] = t[k - Len(s)]
<1> DEFINE S == ToSet(s) \cup ToSet(t)
           j == s \o t
<1>1. Len(s) \in Nat /\ DOMAIN s = 1..Len(s) /\ s \in Seq(ToSet(s))  BY SeqFacts
<1>2. Len(t) \in Nat /\ DOMAIN t = 1..Len(t) /\ t \in Seq(ToSet(t))  BY SeqFacts
<1>3. s \in Seq(S) /\ t \in Seq(S)  BY <1>1, <1>2
<1>4. j \in Seq(S) /\ Len(j) = Len(s) + Len(t)  BY <1>3
<1>5. DOMAIN j = 1..(Len(s) + Len(t))  BY <1>4
<1>6. \A i \in 1..(Len(s) + Len(t)) : j[i] = IF i <= Len(s) THEN s[i] ELSE t[i - Len(s)]
  BY <1>1, <1>2, <1>3
<1>7. IsSeq(j)  BY <1>4, SeqIsSeq
<1>8. ASSUME NEW i \in DOMAIN s  PROVE i \in DOMAIN j /\ j[i] = s[i]
  BY <1>1, <1>2, <1>5, <1>6
<1>9. ASSUME NEW i \in DOMAIN t  PROVE Len(s) + i \in DOMAIN j /\ j[Len(s) + i] = t[i]
  <2>1. i \in 1..Len(t)  BY <1>2
  <2>2. Len(s) + i \in 1..(Len(s) + Len(t)) /\ ~(Len(s) + i <= Len(s)) /\ (Len(s) + i) - Len(s) = i
    BY <2>1, <1>1, <1>2
  <2> QED BY <2>2, <1>5, <1>6
<1>10. ASSUME NEW k \in DOMAIN j
       PROVE  \/ k \in DOMAIN s /\ j[k] = s[k]
              \/ k > Len(s) /\ k - Len(s) \in DOMAIN t /\ j[k] = t[k - Len(s)]
  <2>1. k \in 1..(Len(s) + Len(t))  BY <1>5
  <2>2. CASE k <= Len(s)  BY <2>1, <2>2, <1>1, <1>6
  <2>3. CASE ~(k <= Len(s))
    <3>1. k > Len(s) /\ k - Len(s) \in 1..Len(t)  BY <2>1, <2>3, <1>1, <1>2
    <3> QED BY <3>1, <2>1, <2>3, <1>2, <1>6
  <2> QED BY <2>2, <2>3
<1> HIDE DEF j
<1> QED BY <1>4, <1>7, <1>8, <1>9, <1>10 DEF j

LEMMA EachFacts ==
  ASSUME NEW op, NEW s, IsSeq(s)
  PROVE  /\ IsSeq(Each(op, s)) /\ Len(Each(op, s)) = Len(s) /\ DOMAIN Each(op, s) = DOMAIN s
         /\ \A i \in DOMAIN s : Each(op, s)[i].op = op /\ Each(op, s)[i].on = s[i]
<1>1. Len(s) \in Nat /\ DOMAIN s = 1..Len(s)  BY SeqFacts
<1> DEFINE e == [i \in 1..Len(s) |-> Write(op, s[i], None)]
<1>2. Each(op, s) = e  BY <1>1 DEF Each
<1>3. DOMAIN e = 1..Len(s) /\ Len(e) = Len(s)  BY <1>1
<1>4. IsSeq(e)  BY <1>1, <1>3 DEF IsSeq
<1>5. \A i \in 1..Len(s) : e[i].op = op /\ e[i].on = s[i]  BY DEF Write
<1> QED BY <1>1, <1>2, <1>3, <1>4, <1>5

-----------------------------------------------------------------------------
(* The texts.                                                              *)

LEMMA DestubbedForm ==
  ASSUME NEW id, NEW stmt, IsStatement(stmt)
  PROVE  \/ Destubbed(id, stmt) = stmt
         \/ Destubbed(id, stmt)[1] \in {"plain", "made", "pool", "concrete"}
<1>1. CASE stmt[1] = "stub"
  <2>1. Destubbed(id, stmt) = FromStubMap(stmt)
    <3>1. ~IsVariant(stmt)  BY <1>1 DEF IsVariant
    <3> QED BY <1>1, <3>1 DEF Destubbed
  <2>2. CASE stmt[2] = "GAU"
    <3>1. FromStubMap(stmt) = NormalPdf  BY <2>2 DEF FromStubMap
    <3> QED BY <2>1, <3>1 DEF NormalPdf
  <2>3. CASE stmt[2] # "GAU"
    <3>1. stmt[3] \in PhysicsStubs  BY <1>1, <2>3 DEF IsStatement
    <3>2. FromStubMap(stmt) = <<"made", "P", stmt[3]>>  BY <2>3, <3>1 DEF FromStubMap, PhysicsStubMap
    <3> QED BY <2>1, <3>2
  <2> QED BY <2>2, <2>3
<1>2. CASE stmt[1] # "stub" /\ IsVariant(stmt)
  <2>1. Destubbed(id, stmt) = FromFamily(id, stmt)
    <3>1. stmt[1] # "modeling"  BY <1>2 DEF IsVariant
    <3> QED BY <1>2, <3>1 DEF Destubbed
  <2>2. \A family, slot : Pool(family, slot)[1] = "pool"  BY DEF Pool
  <2>3. KolmogorovAxioms[1] = "plain"  BY DEF KolmogorovAxioms
  <2>4. FromFamily(id, stmt)[1] \in {"plain", "pool"}
    BY <2>2, <2>3 DEF FromFamily, KolmogorovConsequence
  <2> QED BY <2>1, <2>4
<1>3. CASE stmt[1] # "stub" /\ ~IsVariant(stmt) /\ stmt[1] = "modeling"
  <2>1. Destubbed(id, stmt) = GeneralStubMap(stmt)  BY <1>3 DEF Destubbed
  <2> QED BY <2>1 DEF GeneralStubMap
<1>4. CASE stmt[1] # "stub" /\ ~IsVariant(stmt) /\ stmt[1] # "modeling"
  BY <1>4 DEF Destubbed
<1> QED BY <1>1, <1>2, <1>3, <1>4

LEMMA Settles ==
  ASSUME NEW id, NEW stmt, stmt[1] \in {"plain", "made", "pool", "concrete"}
  PROVE  Destubbed(id, stmt) = stmt /\ IsStatement(stmt)
<1>1. stmt[1] # "stub" /\ stmt[1] # "modeling"  OBVIOUS
<1>2. ~IsVariant(stmt)  BY DEF IsVariant
<1> QED BY <1>1, <1>2 DEF Destubbed, IsStatement

\* A statement that the lookup has replaced is not replaced again.
LEMMA DestubbedOnce ==
  ASSUME NEW id, NEW stmt, IsStatement(stmt)
  PROVE  /\ Destubbed(id, Destubbed(id, stmt)) = Destubbed(id, stmt)
         /\ IsStatement(Destubbed(id, stmt))
BY DestubbedForm, Settles

LEMMA PatchedIsStatement ==
  ASSUME NEW stmt, IsStatement(stmt)
  PROVE  IsStatement(Patched(stmt))
<1>1. Patched(stmt) = stmt \/ Patched(stmt)[1] \in {"plain", "variant", "case", "made"}
  BY DEF Patched, KolmogorovAxioms
<1> QED BY <1>1 DEF IsStatement

LEMMA RawStatements ==
  ASSUME NEW r \in RawPlan
  PROVE  IsStatement(r.stmt)
<1>1. CASE r \in PhysicsPlan
  <2>1. PICK n \in 1..50 : r.stmt = <<IF n \in PhysicsStubs THEN "stub" ELSE "plain", "P", n>>
    BY <1>1 DEF PhysicsPlan
  <2> QED BY <2>1 DEF IsStatement
<1>2. CASE r \in StatsPlan
  <2>1. PICK n \in 1..50 : r.stmt = StatsStatement(n)  BY <1>2 DEF StatsPlan
  <2>2. StatsStatement(n)[1] # "stub" \/ StatsStatement(n)[2] = "GAU"  BY DEF StatsStatement
  <2> QED BY <2>1, <2>2 DEF IsStatement
<1>3. CASE r \in DiscretePlan
  <2>1. r.stmt[1] = "variant"  BY <1>3 DEF DiscretePlan
  <2> QED BY <2>1 DEF IsStatement
<1>4. CASE r \in GraphPlan
  <2>1. r.stmt[1] = "variant"  BY <1>4 DEF GraphPlan
  <2> QED BY <2>1 DEF IsStatement
<1>5. CASE r \in ChemistryPlan
  <2>1. r.stmt[1] = "case"  BY <1>5 DEF ChemistryPlan
  <2> QED BY <2>1 DEF IsStatement
<1> QED BY <1>1, <1>2, <1>3, <1>4, <1>5 DEF RawPlan

LEMMA PlannedInPlan ==
  ASSUME NEW id \in ToSet(Planned)
  PROVE  \E r \in Plan : r.id = id
<1>1. Planned \in Seq({r.id : r \in Plan})  BY PlannedAssumption
<1>2. \A i \in DOMAIN Planned : Planned[i] \in {r.id : r \in Plan}  BY <1>1
<1> QED BY <1>2 DEF ToSet

LEMMA PlanStatements ==
  ASSUME NEW id \in ToSet(Planned)
  PROVE  IsStatement(PlanStatement(id))
<1> DEFINE p == CHOOSE r \in Plan : r.id = id
<1>1. p \in Plan  BY PlannedInPlan
<1>2. PICK r \in RawPlan : p = [id |-> r.id, stmt |-> Destubbed(r.id, r.stmt)]  BY <1>1 DEF Plan
<1>3. PlanStatement(id) = p.stmt  BY DEF PlanStatement
<1> HIDE DEF p
<1>4. p.stmt = Destubbed(r.id, r.stmt)  BY <1>2
<1>5. IsStatement(r.stmt)  BY RawStatements
<1> QED BY <1>3, <1>4, <1>5, DestubbedOnce

LEMMA FieldOfFive ==
  ASSUME NEW id
  PROVE  FieldOf(id) \in {"chemistry", "discrete", "graph", "physics", "statistics"}
BY DEF FieldOf

LEMMA FieldsFacts ==
  /\ IsSeq(Fields) /\ ToSet(Fields) = {FieldOf(id) : id \in ToSet(Planned)}
  /\ "other" \notin ToSet(Fields)
  /\ IsSeq(Catalogs) /\ ToSet(Catalogs) = ToSet(Fields) \cup {"other"}
<1> DEFINE five == <<"chemistry", "discrete", "graph", "physics", "statistics">>
           set == {FieldOf(id) : id \in ToSet(Planned)}
<1>1. DOMAIN five = 1..5  OBVIOUS
<1>2. Fields = Kept(five, set)  BY DEF Fields
<1>3. ToSet(five) = {"chemistry", "discrete", "graph", "physics", "statistics"}
  <2>1. \A i \in 1..5 : i = 1 \/ i = 2 \/ i = 3 \/ i = 4 \/ i = 5  OBVIOUS
  <2>2. /\ five[1] = "chemistry" /\ five[2] = "discrete" /\ five[3] = "graph"
        /\ five[4] = "physics" /\ five[5] = "statistics"
    OBVIOUS
  <2>3. 1 \in 1..5 /\ 2 \in 1..5 /\ 3 \in 1..5 /\ 4 \in 1..5 /\ 5 \in 1..5  OBVIOUS
  <2> HIDE DEF five
  <2>4. \A x \in ToSet(five) : x \in {"chemistry", "discrete", "graph", "physics", "statistics"}
    BY <1>1, <2>1, <2>2 DEF ToSet
  <2>5. \A x \in {"chemistry", "discrete", "graph", "physics", "statistics"} : x \in ToSet(five)
    BY <1>1, <2>2, <2>3 DEF ToSet
  <2> QED BY <2>4, <2>5
<1> HIDE DEF five
<1>4. IsSeq(Kept(five, set)) /\ ToSet(Kept(five, set)) = ToSet(five) \cap set
  <2>1. 5 \in Nat  OBVIOUS
  <2> QED BY <1>1, <2>1, KeptFacts
<1>5. set \subseteq ToSet(five)  BY <1>3, FieldOfFive
<1>6. IsSeq(Fields) /\ ToSet(Fields) = set  BY <1>2, <1>4, <1>5
<1>7. "other" \notin ToSet(Fields)
  <2>1. "other" \notin ToSet(five)  BY <1>3
  <2> QED BY <2>1, <1>5, <1>6
<1> DEFINE c == Append(Fields, "other")
<1>8. Len(Fields) \in Nat /\ DOMAIN Fields = 1..Len(Fields) /\ Fields \in Seq(ToSet(Fields))
  BY <1>6, SeqFacts
<1>9. c \in Seq(ToSet(Fields) \cup {"other"}) /\ Len(c) = Len(Fields) + 1
  BY <1>8
<1>10. DOMAIN c = 1..(Len(Fields) + 1)  BY <1>9
<1>11. \A i \in 1..(Len(Fields) + 1) : c[i] = IF i = Len(Fields) + 1 THEN "other" ELSE Fields[i]
  BY <1>8
<1>12. IsSeq(c)  BY <1>9, SeqIsSeq
<1> HIDE DEF c
<1>13. \A x \in ToSet(c) : x \in ToSet(Fields) \cup {"other"}
  <2> TAKE x \in ToSet(c)
  <2>1. PICK i \in 1..(Len(Fields) + 1) : x = c[i]  BY <1>10 DEF ToSet
  <2>2. i = Len(Fields) + 1 \/ i \in DOMAIN Fields  BY <1>8
  <2> QED BY <2>1, <2>2, <1>11 DEF ToSet
<1>14. \A x \in ToSet(Fields) : x \in ToSet(c)
  <2> TAKE x \in ToSet(Fields)
  <2>1. PICK i \in 1..Len(Fields) : x = Fields[i]  BY <1>8 DEF ToSet
  <2>2. i \in 1..(Len(Fields) + 1) /\ i # Len(Fields) + 1  BY <1>8
  <2>3. c[i] = x  BY <2>1, <2>2, <1>11
  <2> QED BY <2>2, <2>3, <1>10 DEF ToSet
<1>15. "other" \in ToSet(c)
  <2>1. Len(Fields) + 1 \in 1..(Len(Fields) + 1)  BY <1>8
  <2>2. c[Len(Fields) + 1] = "other"  BY <2>1, <1>11
  <2> QED BY <2>1, <2>2, <1>10 DEF ToSet
<1>16. ToSet(c) = ToSet(Fields) \cup {"other"}  BY <1>13, <1>14, <1>15
<1>17. Catalogs = c  BY DEF Catalogs, c
<1> HIDE DEF set
<1> QED BY <1>6, <1>7, <1>12, <1>16, <1>17 DEF set

LEMMA OrderedFacts ==
  ASSUME NEW ids
  PROVE  /\ IsSeq(Ordered(ids))
         /\ ToSet(Ordered(ids)) = ToSet(Planned) \cap ids
<1>1. Planned \in Seq({r.id : r \in Plan})  BY PlannedAssumption
<1>2. Len(Planned) \in Nat /\ DOMAIN Planned = 1..Len(Planned)  BY <1>1
<1> QED BY <1>2, KeptFacts DEF Ordered

LEMMA FamilyNames ==
  ASSUME NEW n \in 1..50
  PROVE  /\ StatsFamily(n) \in {"PR", "EX", "VR", "CH", "CLT", "BN", "COV", "MGF", "BER", "GAU"}
         /\ DiscreteFamily(n) \in {"IND", "CMB", "NT", "REC", "LOG"}
         /\ GraphFamily(n) \in {"HS", "TR", "CON", "COL", "GR"}
         /\ ChemistryFamily(n) \in {"IG", "RX", "EQ", "TH", "AX"}
<1> DEFINE ten == ((n - 1) % 10) + 1
           five == ((n - 1) % 5) + 1
<1>1. ten \in 1..10 /\ five \in 1..5  OBVIOUS
<1>2. \A i \in 1..10 : \/ i = 1 \/ i = 2 \/ i = 3 \/ i = 4 \/ i = 5
                       \/ i = 6 \/ i = 7 \/ i = 8 \/ i = 9 \/ i = 10
  OBVIOUS
<1>3. \A i \in 1..5 : i = 1 \/ i = 2 \/ i = 3 \/ i = 4 \/ i = 5  OBVIOUS
<1> HIDE DEF ten, five
<1>4. <<"PR", "EX", "VR", "CH", "CLT", "BN", "COV", "MGF", "BER", "GAU">>[ten]
        \in {"PR", "EX", "VR", "CH", "CLT", "BN", "COV", "MGF", "BER", "GAU"}
  BY <1>1, <1>2
<1>5. <<"IND", "CMB", "NT", "REC", "LOG">>[five] \in {"IND", "CMB", "NT", "REC", "LOG"}
  BY <1>1, <1>3
<1>6. <<"HS", "TR", "CON", "COL", "GR">>[five] \in {"HS", "TR", "CON", "COL", "GR"}
  BY <1>1, <1>3
<1>7. <<"IG", "RX", "EQ", "TH", "AX">>[five] \in {"IG", "RX", "EQ", "TH", "AX"}
  BY <1>1, <1>3
<1> QED
  BY <1>4, <1>5, <1>6, <1>7 DEF ten, five, StatsFamily, DiscreteFamily, GraphFamily, ChemistryFamily

\* Every planned entry gets a definition that stub-audit.py finds.
LEMMA EnrichedNamed ==
  ASSUME NEW id \in ToSet(Planned), NEW stmt
  PROVE  HasNamedDef(EnrichedBody(id, stmt))
<1>1. PICK r \in RawPlan : r.id = id
  <2>1. PICK p \in Plan : p.id = id  BY PlannedInPlan
  <2>2. PICK r \in RawPlan : p = [id |-> r.id, stmt |-> Destubbed(r.id, r.stmt)]  BY DEF Plan
  <2> QED BY <2>1, <2>2
<1> DEFINE body == EnrichedBody(id, stmt)
<1>2. ASSUME Prefix(id) = "ST-AX"  PROVE body \in {"kolmogorov_mass_normalized", "expectation_linear"}
  BY <1>2 DEF EnrichedBody, StatsAxiomBody
<1>3. ASSUME Prefix(id) = "ST-LM"  PROVE body = StatsLemmaBody[Family(id)]
  BY <1>3 DEF EnrichedBody
<1>4. ASSUME Prefix(id) # "ST-AX", Prefix(id) # "ST-LM"
      PROVE  \/ body = "bernoulli_variance"
             \/ FieldOf(id) = "physics" /\ body = PhysicsBody(id, stmt)
             \/ FieldOf(id) = "graph" /\ body = GraphBody[Family(id)]
             \/ FieldOf(id) = "chemistry" /\ body = ChemistryBody[Family(id)]
             \/ FieldOf(id) \notin {"physics", "graph", "chemistry"} /\ body = DiscreteBody[Family(id)]
  <2>1. CASE Mentions("Bernoulli", stmt)
    <3>1. body = StatsLemmaBody.BER  BY <2>1, <1>4 DEF EnrichedBody
    <3> QED BY <3>1 DEF StatsLemmaBody
  <2>2. CASE ~Mentions("Bernoulli", stmt)
    <3> HIDE DEF body
    <3> QED BY <2>2, <1>4 DEF EnrichedBody, body
  <2> QED BY <2>1, <2>2
<1>5. PhysicsBody(id, stmt) \in {"newton_second", "axiom_witness", "kinetic_energy", "ohm_law",
                                 "ideal_gas_pressure", "witness"}
  BY DEF PhysicsBody
<1> HIDE DEF body
<1>6. CASE r \in PhysicsPlan
  <2>1. Prefix(id) \in {"P-AX", "P-LM"}  BY <1>1, <1>6 DEF PhysicsPlan, Prefix
  <2>2. FieldOf(id) = "physics"  BY <2>1 DEF FieldOf
  <2>3. body = "bernoulli_variance" \/ body = PhysicsBody(id, stmt)  BY <2>1, <2>2, <1>4
  <2> QED BY <2>3, <1>5 DEF HasNamedDef, body
<1>7. CASE r \in StatsPlan
  <2>1. PICK n \in 1..50 : id = <<IF StatsFamily(n) \in {"PR", "EX"} THEN "ST-AX" ELSE "ST-LM", StatsFamily(n), n>>
    BY <1>1, <1>7 DEF StatsPlan
  <2>2. \/ Prefix(id) = "ST-AX"
        \/ Prefix(id) = "ST-LM" /\ Family(id) \in {"VR", "CH", "CLT", "BN", "COV", "MGF", "BER", "GAU"}
    BY <2>1, FamilyNames DEF Prefix, Family
  <2>3. CASE Prefix(id) = "ST-AX"  BY <2>3, <1>2 DEF HasNamedDef, body
  <2>4. CASE Prefix(id) = "ST-LM" /\ Family(id) \in {"VR", "CH", "CLT", "BN", "COV", "MGF", "BER", "GAU"}
    <3>1. \A f \in {"VR", "CH", "CLT", "BN", "COV", "MGF", "BER", "GAU"} : HasNamedDef(StatsLemmaBody[f])
      BY DEF HasNamedDef, StatsLemmaBody
    <3> QED BY <3>1, <2>4, <1>3 DEF body
  <2> QED BY <2>2, <2>3, <2>4
<1>8. CASE r \in DiscretePlan
  <2>1. PICK n \in 1..50 : id = <<IF DiscreteFamily(n) = "LOG" THEN "D-AX" ELSE "D-LM", DiscreteFamily(n), n>>
    BY <1>1, <1>8 DEF DiscretePlan
  <2>2. Prefix(id) \in {"D-AX", "D-LM"} /\ Family(id) \in {"IND", "CMB", "NT", "REC", "LOG"}
    BY <2>1, FamilyNames DEF Prefix, Family
  <2>3. FieldOf(id) = "discrete"  BY <2>2 DEF FieldOf
  <2>4. body = "bernoulli_variance" \/ body = DiscreteBody[Family(id)]  BY <2>2, <2>3, <1>4
  <2>5. \A f \in {"IND", "CMB", "NT", "REC", "LOG"} : HasNamedDef(DiscreteBody[f])
    BY DEF HasNamedDef, DiscreteBody
  <2>6. HasNamedDef("bernoulli_variance")  BY DEF HasNamedDef
  <2> QED BY <2>2, <2>4, <2>5, <2>6 DEF body
<1>9. CASE r \in GraphPlan
  <2>1. PICK n \in 1..50 : id = <<IF GraphFamily(n) = "GR" THEN "GT-AX" ELSE "GT-LM", GraphFamily(n), n>>
    BY <1>1, <1>9 DEF GraphPlan
  <2>2. Prefix(id) \in {"GT-AX", "GT-LM"} /\ Family(id) \in {"HS", "TR", "CON", "COL", "GR"}
    BY <2>1, FamilyNames DEF Prefix, Family
  <2>3. FieldOf(id) = "graph"  BY <2>2 DEF FieldOf
  <2>4. body = "bernoulli_variance" \/ body = GraphBody[Family(id)]  BY <2>2, <2>3, <1>4
  <2>5. \A f \in {"HS", "TR", "CON", "COL", "GR"} : HasNamedDef(GraphBody[f])
    BY DEF HasNamedDef, GraphBody
  <2>6. HasNamedDef("bernoulli_variance")  BY DEF HasNamedDef
  <2> QED BY <2>2, <2>4, <2>5, <2>6 DEF body
<1>10. CASE r \in ChemistryPlan
  <2>1. PICK n \in 1..50 :
          id = <<IF ChemistryFamily(n) = "AX" THEN "CHEM-AX" ELSE "CHEM-LM", ChemistryFamily(n), n>>
    BY <1>1, <1>10 DEF ChemistryPlan
  <2>2. Prefix(id) \in {"CHEM-AX", "CHEM-LM"} /\ Family(id) \in {"IG", "RX", "EQ", "TH", "AX"}
    BY <2>1, FamilyNames DEF Prefix, Family
  <2>3. FieldOf(id) = "chemistry"  BY <2>2 DEF FieldOf
  <2>4. body = "bernoulli_variance" \/ body = ChemistryBody[Family(id)]  BY <2>2, <2>3, <1>4
  <2>5. \A f \in {"IG", "RX", "EQ", "TH", "AX"} : HasNamedDef(ChemistryBody[f])
    BY DEF HasNamedDef, ChemistryBody
  <2>6. HasNamedDef("bernoulli_variance")  BY DEF HasNamedDef
  <2> QED BY <2>2, <2>4, <2>5, <2>6 DEF body
<1> QED BY <1>6, <1>7, <1>8, <1>9, <1>10 DEF RawPlan

-----------------------------------------------------------------------------
(* What a write leaves alone.                                              *)

WithEntries(d, f, t) == [d EXCEPT !.entries[f] = t]
WithManifests(d, t) == [d EXCEPT !.manifests = t]
WithSpecimens(d, t) == [d EXCEPT !.specimens = t]
WithRegister(d, t) == [d EXCEPT !.register = t]
WithCatalog(d, t) == [d EXCEPT !.catalog = t]
WithSheets(d, t) == [d EXCEPT !.sheets = t]

SameCorpus(d, e) == e.entries = d.entries /\ e.specimens = d.specimens
SameErdos(d, e) == e.register = d.register /\ e.catalog = d.catalog /\ e.sheets = d.sheets

LEMMA DoneManifest ==
  ASSUME NEW d, NEW w, HasFiles(d), w.op \in {"manifest", "patchPlan"}
  PROVE  HasFiles(Done(d, w)) /\ SameCorpus(d, Done(d, w)) /\ SameErdos(d, Done(d, w))
<1>1. \E m : Done(d, w) = WithManifests(d, m)
  <2>1. CASE w.op = "manifest"
    <3>1. Done(d, w) = [d EXCEPT !.manifests[w.on] = PlanOf(w.on)]  BY <2>1 DEF Done, WithManifests
    <3>2. Done(d, w) = WithManifests(d, [d.manifests EXCEPT ![w.on] = PlanOf(w.on)])  BY <3>1 DEF WithManifests
    <3> QED BY <3>2
  <2>2. CASE w.op = "patchPlan"
    <3> DEFINE m == [id \in DOMAIN d.manifests[w.on] |-> Destubbed(id, d.manifests[w.on][id])]
    <3>1. Done(d, w) = [d EXCEPT !.manifests[w.on] = m]  BY <2>2 DEF Done, WithManifests
    <3>2. Done(d, w) = WithManifests(d, [d.manifests EXCEPT ![w.on] = m])  BY <3>1 DEF WithManifests
    <3> QED BY <3>2
  <2> QED BY <2>1, <2>2
<1>2. PICK m : Done(d, w) = WithManifests(d, m)  BY <1>1
<1> QED BY <1>2 DEF HasFiles, SameCorpus, SameErdos, WithManifests

LEMMA DoneSpecimen ==
  ASSUME NEW d, NEW w, HasFiles(d), w.op = "specimen"
  PROVE  /\ HasFiles(Done(d, w)) /\ SameErdos(d, Done(d, w))
         /\ Done(d, w).entries = d.entries
         /\ Done(d, w).specimens =
              IF w.on \in DOMAIN d.specimens THEN d.specimens
              ELSE Put(d.specimens, w.on, [head |-> PlanStatement(w.on), body |-> BootstrapBody(w.on)])
<1> DEFINE s == Put(d.specimens, w.on, [head |-> PlanStatement(w.on), body |-> BootstrapBody(w.on)])
<1>1. Done(d, w) = IF w.on \in DOMAIN d.specimens THEN d ELSE WithSpecimens(d, s)
  BY DEF Done, WithSpecimens
<1> HIDE DEF s
<1>2. CASE w.on \in DOMAIN d.specimens  BY <1>1, <1>2 DEF SameErdos
<1>3. CASE w.on \notin DOMAIN d.specimens
  <2>1. Done(d, w) = WithSpecimens(d, s)  BY <1>1, <1>3
  <2>2. HasFiles(Done(d, w)) /\ SameErdos(d, Done(d, w)) /\ Done(d, w).entries = d.entries
    BY <2>1 DEF WithSpecimens, HasFiles, SameErdos
  <2>3. Done(d, w).specimens = s  BY <2>1 DEF WithSpecimens, HasFiles
  <2> QED BY <1>3, <2>2, <2>3 DEF s
<1> QED BY <1>2, <1>3

\* A write of the catalog file of field f.
LEMMA EntriesWrite ==
  ASSUME NEW d, NEW e, NEW f, NEW t, HasFiles(d), f \in ToSet(Catalogs), e = WithEntries(d, f, t)
  PROVE  /\ HasFiles(e) /\ SameErdos(d, e)
         /\ e.specimens = d.specimens
         /\ e.entries[f] = t
         /\ \A g \in ToSet(Catalogs) : g # f => e.entries[g] = d.entries[g]
<1>1. e = [d EXCEPT !.entries = [d.entries EXCEPT ![f] = t]]  BY DEF WithEntries
<1>2. e.entries = [d.entries EXCEPT ![f] = t]  BY <1>1 DEF HasFiles
<1>3. SameErdos(d, e) /\ e.specimens = d.specimens /\ DOMAIN e = DOMAIN d
  BY <1>1 DEF HasFiles, SameErdos
<1>4. DOMAIN e.entries = DOMAIN d.entries  BY <1>2
<1> QED BY <1>2, <1>3, <1>4 DEF HasFiles

LEMMA DoneEntries ==
  ASSUME NEW d, NEW w
  PROVE  /\ w.op = "append" =>
              Done(d, w) = WithEntries(d, FieldOf(w.on), Put(d.entries[FieldOf(w.on)], w.on, PlanStatement(w.on)))
         /\ w.op = "drop" =>
              Done(d, w) = WithEntries(d, "other", Restrict(d.entries["other"], DOMAIN d.entries["other"] \ w.what))
         /\ w.op = "patch" =>
              Done(d, w) = WithEntries(d, w.on, [id \in DOMAIN d.entries[w.on] |-> Destubbed(id, d.entries[w.on][id])])
         /\ w.op = "repatch" =>
              Done(d, w) = WithEntries(d, w.on, [id \in DOMAIN d.entries[w.on] |-> Patched(d.entries[w.on][id])])
<1>1. w.op = "append" =>
        Done(d, w) = WithEntries(d, FieldOf(w.on), Put(d.entries[FieldOf(w.on)], w.on, PlanStatement(w.on)))
  BY DEF Done, WithEntries
<1>2. w.op = "drop" =>
        Done(d, w) = WithEntries(d, "other", Restrict(d.entries["other"], DOMAIN d.entries["other"] \ w.what))
  BY DEF Done, WithEntries
<1>3. w.op = "patch" =>
        Done(d, w) = WithEntries(d, w.on, [id \in DOMAIN d.entries[w.on] |-> Destubbed(id, d.entries[w.on][id])])
  BY DEF Done, WithEntries
<1>4. w.op = "repatch" =>
        Done(d, w) = WithEntries(d, w.on, [id \in DOMAIN d.entries[w.on] |-> Patched(d.entries[w.on][id])])
  BY DEF Done, WithEntries
<1> QED BY <1>1, <1>2, <1>3, <1>4

\* A write of specimens, and one of a file of the register.
LEMMA SpecimensWrite ==
  ASSUME NEW d, NEW e, NEW t, HasFiles(d), e = WithSpecimens(d, t)
  PROVE  HasFiles(e) /\ SameErdos(d, e) /\ e.entries = d.entries /\ e.specimens = t
BY DEF WithSpecimens, WithRegister, WithCatalog, WithSheets, HasFiles, SameErdos

LEMMA DoneSpecimens ==
  ASSUME NEW d, NEW w
  PROVE  /\ w.op = "header" =>
              Done(d, w) = IF w.on \in Rows(d) \cap DOMAIN d.specimens
                           THEN WithSpecimens(d, 
                                   [d.specimens EXCEPT ![w.on] = Headed(d.specimens[w.on], Statement(d, w.on))])
                           ELSE d
         /\ w.op = "rewrite" =>
              Done(d, w) = WithSpecimens(d, 
                              Put(d.specimens, w.on, [head |-> w.what, body |-> EnrichedBody(w.on, w.what)]))
         /\ w.op = "migrate" =>
              Done(d, w) = WithSpecimens(d, 
                              [d.specimens EXCEPT ![w.on] = [d.specimens[w.on] EXCEPT !.body = "main"]])
<1>1. ASSUME w.op = "header"
      PROVE  Done(d, w) = IF w.on \in Rows(d) \cap DOMAIN d.specimens
                          THEN WithSpecimens(d, 
                                  [d.specimens EXCEPT ![w.on] = Headed(d.specimens[w.on], Statement(d, w.on))])
                          ELSE d
  <2>1. Done(d, w) = IF w.on \in Rows(d) \cap DOMAIN d.specimens
                     THEN [d EXCEPT !.specimens[w.on] = Headed(d.specimens[w.on], Statement(d, w.on))]
                     ELSE d
    BY <1>1 DEF Done, WithSpecimens
  <2> QED BY <2>1 DEF WithSpecimens, WithSheets
<1>2. ASSUME w.op = "rewrite"
      PROVE  Done(d, w) = WithSpecimens(d, 
                             Put(d.specimens, w.on, [head |-> w.what, body |-> EnrichedBody(w.on, w.what)]))
  BY <1>2 DEF Done, WithSpecimens
<1>3. ASSUME w.op = "migrate"
      PROVE  Done(d, w) = WithSpecimens(d, 
                             [d.specimens EXCEPT ![w.on] = [d.specimens[w.on] EXCEPT !.body = "main"]])
  <2>1. Done(d, w) = [d EXCEPT !.specimens[w.on].body = "main"]  BY <1>3 DEF Done, WithSpecimens
  <2> QED BY <2>1 DEF WithSpecimens, WithSheets
<1> QED BY <1>1, <1>2, <1>3

LEMMA DoneErdos ==
  ASSUME NEW d, NEW w
  PROVE  /\ w.op = "heading" =>
              Done(d, w) = IF w.on \in DOMAIN d.catalog \cap DOMAIN d.sheets /\ d.catalog[w.on].spec
                           THEN WithSheets(d, 
                                   [d.sheets EXCEPT ![w.on] = Headed(d.sheets[w.on], InHeader(d.catalog[w.on].stmt))])
                           ELSE d
         /\ w.op = "register" => Done(d, w) = WithRegister(d, w.what)
         /\ w.op = "sheet" => Done(d, w) = WithSheets(d, Put(d.sheets, w.on, [head |-> w.what]))
         /\ w.op = "relink" =>
              Done(d, w) = WithCatalog(d, [n \in DOMAIN d.catalog |->
                              IF n \in w.what THEN [d.catalog[n] EXCEPT !.spec = TRUE] ELSE d.catalog[n]])
         /\ w.op = "catalog" => Done(d, w) = WithCatalog(d, w.what)
<1>1. ASSUME w.op = "heading"
      PROVE  Done(d, w) = IF w.on \in DOMAIN d.catalog \cap DOMAIN d.sheets /\ d.catalog[w.on].spec
                          THEN WithSheets(d, 
                                  [d.sheets EXCEPT ![w.on] = Headed(d.sheets[w.on], InHeader(d.catalog[w.on].stmt))])
                          ELSE d
  <2>1. Done(d, w) = IF w.on \in DOMAIN d.catalog \cap DOMAIN d.sheets /\ d.catalog[w.on].spec
                     THEN [d EXCEPT !.sheets[w.on] = Headed(d.sheets[w.on], InHeader(d.catalog[w.on].stmt))]
                     ELSE d
    BY <1>1 DEF Done, WithRegister, WithCatalog, WithSheets
  <2> QED BY <2>1 DEF WithSpecimens, WithSheets
<1>2. w.op = "register" => Done(d, w) = WithRegister(d, w.what)  BY DEF Done, WithRegister, WithCatalog, WithSheets
<1>3. w.op = "sheet" => Done(d, w) = WithSheets(d, Put(d.sheets, w.on, [head |-> w.what]))
  BY DEF Done, WithRegister, WithCatalog, WithSheets
<1>4. w.op = "relink" =>
        Done(d, w) = WithCatalog(d, [n \in DOMAIN d.catalog |->
                        IF n \in w.what THEN [d.catalog[n] EXCEPT !.spec = TRUE] ELSE d.catalog[n]])
  BY DEF Done, WithRegister, WithCatalog, WithSheets
<1>5. w.op = "catalog" => Done(d, w) = WithCatalog(d, w.what)  BY DEF Done, WithRegister, WithCatalog, WithSheets
<1> QED BY <1>1, <1>2, <1>3, <1>4, <1>5

LEMMA ErdosWrite ==
  ASSUME NEW d, NEW e, NEW t, HasFiles(d),
         \/ e = WithRegister(d, t)
         \/ e = WithCatalog(d, t)
         \/ e = WithSheets(d, t)
  PROVE  HasFiles(e) /\ SameCorpus(d, e)
BY DEF WithSpecimens, WithRegister, WithCatalog, WithSheets, HasFiles, SameCorpus

LEMMA RegisterWrite ==
  ASSUME NEW d, NEW e, NEW t, HasFiles(d), e = WithRegister(d, t)
  PROVE  e.register = t /\ e.catalog = d.catalog /\ e.sheets = d.sheets
BY DEF WithSpecimens, WithRegister, WithCatalog, WithSheets, HasFiles

LEMMA CatalogWrite ==
  ASSUME NEW d, NEW e, NEW t, HasFiles(d), e = WithCatalog(d, t)
  PROVE  e.register = d.register /\ e.catalog = t /\ e.sheets = d.sheets
BY DEF WithSpecimens, WithRegister, WithCatalog, WithSheets, HasFiles

LEMMA SheetsWrite ==
  ASSUME NEW d, NEW e, NEW t, HasFiles(d), e = WithSheets(d, t)
  PROVE  e.register = d.register /\ e.catalog = d.catalog /\ e.sheets = t
BY DEF WithSpecimens, WithRegister, WithCatalog, WithSheets, HasFiles

\* What a kill inside a write leaves.
LEMMA EmptiedFiles ==
  ASSUME NEW d, NEW w
  PROVE  /\ w.op \in {"drop", "patch", "repatch"} => Emptied(d, w) = WithEntries(d, w.on, <<>>)
         /\ w.op \in {"manifest", "patchPlan"} => Emptied(d, w) = WithManifests(d, [d.manifests EXCEPT ![w.on] = <<>>])
         /\ w.op \in {"specimen", "header", "rewrite", "migrate"} =>
              Emptied(d, w) = WithSpecimens(d, Put(d.specimens, w.on, [head |-> None, body |-> "empty"]))
         /\ w.op \in {"sheet", "heading"} => Emptied(d, w) = WithSheets(d, Put(d.sheets, w.on, [head |-> None]))
         /\ w.op \in {"relink", "catalog"} => Emptied(d, w) = WithCatalog(d, <<>>)
         /\ w.op = "register" => Emptied(d, w) = WithRegister(d, None)
<1>1. w.op \in {"drop", "patch", "repatch"} => Emptied(d, w) = WithEntries(d, w.on, <<>>)  BY DEF Emptied, WithEntries, WithManifests, WithSpecimens, WithRegister, WithCatalog, WithSheets
<1>2. w.op \in {"manifest", "patchPlan"} => Emptied(d, w) = WithManifests(d, [d.manifests EXCEPT ![w.on] = <<>>])
  BY DEF Emptied, WithEntries, WithManifests, WithSpecimens, WithRegister, WithCatalog, WithSheets
<1>3. w.op \in {"specimen", "header", "rewrite", "migrate"} =>
        Emptied(d, w) = WithSpecimens(d, Put(d.specimens, w.on, [head |-> None, body |-> "empty"]))
  BY DEF Emptied, WithEntries, WithManifests, WithSpecimens, WithRegister, WithCatalog, WithSheets
<1>4. w.op \in {"sheet", "heading"} => Emptied(d, w) = WithSheets(d, Put(d.sheets, w.on, [head |-> None]))
  BY DEF Emptied, WithEntries, WithManifests, WithSpecimens, WithRegister, WithCatalog, WithSheets
<1>5. w.op \in {"relink", "catalog"} => Emptied(d, w) = WithCatalog(d, <<>>)  BY DEF Emptied, WithEntries, WithManifests, WithSpecimens, WithRegister, WithCatalog, WithSheets
<1>6. w.op = "register" => Emptied(d, w) = WithRegister(d, None)  BY DEF Emptied, WithEntries, WithManifests, WithSpecimens, WithRegister, WithCatalog, WithSheets
<1> QED BY <1>1, <1>2, <1>3, <1>4, <1>5, <1>6

-----------------------------------------------------------------------------
(* The corpus, write by write.                                             *)

Grows(d, e) ==
  /\ \A f \in ToSet(Fields) : RowsOf(d, f) \subseteq RowsOf(e, f)
  /\ DOMAIN d.specimens \subseteq DOMAIN e.specimens
OtherKept(d, e) == \A p \in RowsOf(d, "other") : p \in RowsOf(e, "other") \/ Superseded[p] \in Rows(d)

LEMMA InRows ==
  ASSUME NEW d
  PROVE  /\ \A f \in ToSet(Fields) : \A id \in RowsOf(d, f) : id \in Rows(d)
         /\ \A id \in Rows(d) : \E f \in ToSet(Fields) : id \in RowsOf(d, f)
BY DEF Rows

\* An entry is in the catalog of its field.
LEMMA RowsFit ==
  ASSUME NEW d, CorpusFiles(d), NEW id \in Rows(d)
  PROVE  /\ id \in ToSet(Planned) /\ FieldOf(id) \in ToSet(Fields) /\ id \in RowsOf(d, FieldOf(id))
         /\ IsStatement(Statement(d, id)) /\ id \in DOMAIN d.specimens
         /\ DOMAIN d.specimens[id] = {"head", "body"}
<1>1. PICK f \in ToSet(Fields) : id \in RowsOf(d, f)  BY InRows
<1>2. RowFits(id, f, d.entries[f][id])  BY <1>1 DEF CorpusFiles
<1>3. id \in DOMAIN d.specimens  BY DEF CorpusFiles
<1>4. DOMAIN d.specimens[id] = {"head", "body"}  BY <1>3 DEF CorpusFiles
<1> QED BY <1>1, <1>2, <1>3, <1>4 DEF RowFits, Statement

LEMMA SameKeeps ==
  ASSUME NEW d, NEW e, CorpusFiles(d), SameCorpus(d, e)
  PROVE  CorpusFiles(e) /\ Grows(d, e) /\ OtherKept(d, e) /\ Rows(e) = Rows(d)
<1>1. \A f : RowsOf(e, f) = RowsOf(d, f)  BY DEF SameCorpus, RowsOf
<1>2. Rows(e) = Rows(d)  BY <1>1, Zenon DEF Rows
<1>3. \A f, id : e.entries[f][id] = d.entries[f][id]  BY DEF SameCorpus
<1>4. e.specimens = d.specimens  BY DEF SameCorpus
<1>5. CorpusFiles(e)  BY <1>1, <1>2, <1>3, <1>4 DEF CorpusFiles
<1> QED BY <1>1, <1>2, <1>4, <1>5 DEF Grows, OtherKept

LEMMA SpecimensKeep ==
  ASSUME NEW d, NEW e, CorpusFiles(d), e.entries = d.entries,
         DOMAIN d.specimens \subseteq DOMAIN e.specimens,
         \A id \in DOMAIN e.specimens : DOMAIN e.specimens[id] = {"head", "body"}
  PROVE  CorpusFiles(e) /\ Grows(d, e) /\ OtherKept(d, e) /\ Rows(e) = Rows(d)
<1>1. \A f : RowsOf(e, f) = RowsOf(d, f)  BY DEF RowsOf
<1>2. Rows(e) = Rows(d)  BY <1>1, Zenon DEF Rows
<1>3. \A f, id : e.entries[f][id] = d.entries[f][id]  OBVIOUS
<1>5. CorpusFiles(e)  BY <1>1, <1>2, <1>3 DEF CorpusFiles
<1> QED BY <1>1, <1>5, <1>2 DEF Grows, OtherKept

LEMMA EntriesKeep ==
  ASSUME NEW d, NEW e, NEW f, NEW t, HasFiles(d), CorpusFiles(d), f \in ToSet(Catalogs),
         e = WithEntries(d, f, t),
         f \in ToSet(Fields) => \A id \in DOMAIN t : RowFits(id, f, t[id]) /\ id \in DOMAIN d.specimens
  PROVE  CorpusFiles(e)
<1>1. /\ e.specimens = d.specimens
      /\ e.entries[f] = t
      /\ \A g \in ToSet(Catalogs) : g # f => e.entries[g] = d.entries[g]
  BY EntriesWrite
<1>2. \A g \in ToSet(Fields) : g \in ToSet(Catalogs)  BY FieldsFacts
<1>3. ASSUME NEW g \in ToSet(Fields), NEW id \in RowsOf(e, g)
      PROVE  RowFits(id, g, e.entries[g][id]) /\ id \in DOMAIN e.specimens
  <2>1. CASE g = f  BY <1>1, <1>3, <2>1 DEF RowsOf
  <2>2. CASE g # f
    <3>1. e.entries[g] = d.entries[g]  BY <1>1, <1>2, <2>2
    <3>2. id \in RowsOf(d, g)  BY <3>1 DEF RowsOf
    <3>3. id \in Rows(d)  BY <3>2, InRows
    <3> QED BY <1>1, <3>1, <3>2, <3>3 DEF CorpusFiles
  <2> QED BY <2>1, <2>2
<1>4. Rows(e) \subseteq DOMAIN e.specimens  BY <1>3, InRows
<1>5. \A id \in DOMAIN e.specimens : DOMAIN e.specimens[id] = {"head", "body"}
  BY <1>1 DEF CorpusFiles
<1> QED BY <1>3, <1>4, <1>5 DEF CorpusFiles

LEMMA EntriesGrow ==
  ASSUME NEW d, NEW e, NEW f, NEW t, HasFiles(d), f \in ToSet(Catalogs),
         e = WithEntries(d, f, t), DOMAIN d.entries[f] \subseteq DOMAIN t
  PROVE  Grows(d, e) /\ OtherKept(d, e)
<1>1. /\ e.specimens = d.specimens
      /\ e.entries[f] = t
      /\ \A g \in ToSet(Catalogs) : g # f => e.entries[g] = d.entries[g]
  BY EntriesWrite
<1>2. \A g \in ToSet(Catalogs) : RowsOf(d, g) \subseteq RowsOf(e, g)  BY <1>1 DEF RowsOf
<1>3. "other" \in ToSet(Catalogs) /\ ToSet(Fields) \subseteq ToSet(Catalogs)  BY FieldsFacts
<1> QED BY <1>1, <1>2, <1>3 DEF Grows, OtherKept

\* What is asked of the next write.
WriteFits(d, w) ==
  /\ w.op \in {"patch", "repatch"} => w.on \in ToSet(Catalogs)
  /\ w.op \in {"specimen", "append"} => w.on \in ToSet(Planned)
  /\ w.op = "append" => w.on \in DOMAIN d.specimens
  /\ w.op = "migrate" => w.on \in DOMAIN d.specimens
  /\ w.op = "drop" => w.on = "other" /\ \A p \in w.what : Superseded[p] \in Rows(d)

StepKeeps(d, e) == HasFiles(e) /\ CorpusFiles(e) /\ Grows(d, e) /\ OtherKept(d, e)

LEMMA KeepsSpecimens ==
  ASSUME NEW d, NEW e, NEW t, HasFiles(d), CorpusFiles(d), e = WithSpecimens(d, t),
         DOMAIN d.specimens \subseteq DOMAIN t,
         \A id \in DOMAIN t : DOMAIN t[id] = {"head", "body"}
  PROVE  StepKeeps(d, e)
<1>1. HasFiles(e) /\ e.entries = d.entries /\ e.specimens = t  BY SpecimensWrite
<1> QED BY <1>1, SpecimensKeep DEF StepKeeps

SpecimenTable(t) == \A i \in DOMAIN t : DOMAIN t[i] = {"head", "body"}

LEMMA PutSheet ==
  ASSUME NEW t, NEW id, NEW r, SpecimenTable(t), DOMAIN r = {"head", "body"}
  PROVE  /\ DOMAIN Put(t, id, r) = {id} \cup DOMAIN t
         /\ SpecimenTable(Put(t, id, r))
<1> DEFINE p == Put(t, id, r)
<1>2. DOMAIN p = {id} \cup DOMAIN t  BY DEF Put
<1>3. \A i \in DOMAIN p : p[i] = IF i = id THEN r ELSE t[i]  BY DEF Put
<1> HIDE DEF p
<1>4. SpecimenTable(p)  BY <1>2, <1>3 DEF SpecimenTable
<1> QED BY <1>2, <1>4 DEF p

LEMMA HeadedSheet ==
  ASSUME NEW sheet, NEW stmt, "head" \in DOMAIN sheet
  PROVE  /\ DOMAIN Headed(sheet, stmt) = DOMAIN sheet
         /\ Headed(sheet, stmt).head = IF sheet.head = None THEN None ELSE stmt
         /\ \A k \in DOMAIN sheet : k # "head" => Headed(sheet, stmt)[k] = sheet[k]
BY DEF Headed

LEMMA DoneKeeps ==
  ASSUME NEW d, NEW w, HasFiles(d), CorpusFiles(d), WriteFits(d, w),
         NEW tool, w.op \in OpsOf(tool)
  PROVE  StepKeeps(d, Done(d, w))
<1> DEFINE e == Done(d, w)
<1>0. w.op \in {"manifest", "specimen", "append", "drop", "patch", "patchPlan", "repatch", "header",
                "heading", "rewrite", "migrate", "register", "sheet", "relink", "catalog"}
  BY DEF OpsOf
<1> HIDE DEF e
<1>1. CASE w.op \in {"manifest", "patchPlan"}
  <2>1. HasFiles(e) /\ SameCorpus(d, e)  BY <1>1, DoneManifest DEF e
  <2> QED BY <2>1, SameKeeps DEF StepKeeps, e
<1>2. CASE w.op = "specimen"
  <2>1. HasFiles(e) /\ e.entries = d.entries
    BY <1>2, DoneSpecimen DEF e
  <2> DEFINE s == Put(d.specimens, w.on, [head |-> PlanStatement(w.on), body |-> BootstrapBody(w.on)])
  <2>2. e.specimens = IF w.on \in DOMAIN d.specimens THEN d.specimens ELSE s
    BY <1>2, DoneSpecimen DEF e
  <2>3. \A i \in DOMAIN d.specimens : DOMAIN d.specimens[i] = {"head", "body"}  BY DEF CorpusFiles
  <2>4. DOMAIN s = {w.on} \cup DOMAIN d.specimens /\ \A i \in DOMAIN s : DOMAIN s[i] = {"head", "body"}
    <3> DEFINE r == [head |-> PlanStatement(w.on), body |-> BootstrapBody(w.on)]
    <3>1. DOMAIN r = {"head", "body"}  OBVIOUS
    <3> HIDE DEF r
    <3>2. SpecimenTable(d.specimens)  BY <2>3 DEF SpecimenTable
    <3>3. DOMAIN Put(d.specimens, w.on, r) = {w.on} \cup DOMAIN d.specimens /\ SpecimenTable(Put(d.specimens, w.on, r))
      BY <3>1, <3>2, PutSheet
    <3> QED BY <3>3 DEF SpecimenTable, r
  <2> HIDE DEF s
  <2>5. /\ DOMAIN d.specimens \subseteq DOMAIN e.specimens
        /\ \A id \in DOMAIN e.specimens : DOMAIN e.specimens[id] = {"head", "body"}
    BY <2>2, <2>3, <2>4
  <2> QED BY <2>1, <2>5, SpecimensKeep DEF StepKeeps, e
<1>3. CASE w.op = "append"
  <2> DEFINE f == FieldOf(w.on)
             t == Put(d.entries[f], w.on, PlanStatement(w.on))
  <2>1. w.on \in ToSet(Planned) /\ w.on \in DOMAIN d.specimens  BY <1>3 DEF WriteFits
  <2>2. f \in ToSet(Fields) /\ f \in ToSet(Catalogs)  BY <2>1, FieldsFacts
  <2>3. e = WithEntries(d, f, t)  BY <1>3, DoneEntries DEF e
  <2>4. DOMAIN t = {w.on} \cup DOMAIN d.entries[f]
        /\ \A id \in DOMAIN t : t[id] = IF id = w.on THEN PlanStatement(w.on) ELSE d.entries[f][id]
    BY DEF Put
  <2> HIDE DEF t
  <2>5. ASSUME NEW id \in DOMAIN t  PROVE RowFits(id, f, t[id]) /\ id \in DOMAIN d.specimens
    <3>1. CASE id = w.on
      <4>1. t[id] = PlanStatement(w.on) /\ IsStatement(PlanStatement(w.on))  BY <2>1, <2>4, <3>1, PlanStatements
      <4> QED BY <4>1, <2>1, <3>1 DEF RowFits
    <3>2. CASE id # w.on
      <4>1. id \in RowsOf(d, f) /\ t[id] = d.entries[f][id]  BY <2>4, <3>2 DEF RowsOf
      <4>2. id \in Rows(d)  BY <4>1, <2>2, InRows
      <4> QED BY <4>1, <4>2, <2>2 DEF CorpusFiles
    <3> QED BY <3>1, <3>2
  <2> HIDE DEF f
  <2>6. HasFiles(e)  BY <2>2, <2>3, EntriesWrite
  <2>7. CorpusFiles(e)  BY <2>2, <2>3, <2>5, EntriesKeep
  <2>8. Grows(d, e) /\ OtherKept(d, e)  BY <2>2, <2>3, <2>4, EntriesGrow
  <2> QED BY <2>6, <2>7, <2>8 DEF StepKeeps, e
<1>4. CASE w.op = "drop"
  <2> DEFINE t == Restrict(d.entries["other"], DOMAIN d.entries["other"] \ w.what)
  <2>1. e = WithEntries(d, "other", t)  BY <1>4, DoneEntries DEF e
  <2>2. "other" \in ToSet(Catalogs) /\ "other" \notin ToSet(Fields) /\ ToSet(Fields) \subseteq ToSet(Catalogs)
    BY FieldsFacts
  <2>3. DOMAIN t = DOMAIN d.entries["other"] \ w.what  BY DEF Restrict
  <2> HIDE DEF t
  <2>4. HasFiles(e) /\ e.specimens = d.specimens /\ e.entries["other"] = t
        /\ \A g \in ToSet(Catalogs) : g # "other" => e.entries[g] = d.entries[g]
    BY <2>1, <2>2, EntriesWrite
  <2>5. CorpusFiles(e)  BY <2>1, <2>2, EntriesKeep
  <2>6. Grows(d, e)  BY <2>2, <2>4 DEF Grows, RowsOf
  <2>7. OtherKept(d, e)
    <3>1. \A p \in w.what : Superseded[p] \in Rows(d)  BY <1>4 DEF WriteFits
    <3> QED BY <2>3, <2>4, <3>1 DEF OtherKept, RowsOf
  <2> QED BY <2>4, <2>5, <2>6, <2>7 DEF StepKeeps, e
<1>5. CASE w.op \in {"patch", "repatch"}
  <2> DEFINE f == w.on
             old == d.entries[f]
  <2>1. f \in ToSet(Catalogs)  BY <1>5 DEF WriteFits
  <2>2. PICK t : /\ e = WithEntries(d, f, t) /\ DOMAIN t = DOMAIN old
                 /\ \A id \in DOMAIN old : t[id] \in {Destubbed(id, old[id]), Patched(old[id])}
    <3>1. CASE w.op = "patch"
      <4> DEFINE t == [id \in DOMAIN old |-> Destubbed(id, old[id])]
      <4>1. e = WithEntries(d, f, t)  BY <3>1, DoneEntries DEF e
      <4> QED BY <4>1
    <3>2. CASE w.op = "repatch"
      <4> DEFINE t == [id \in DOMAIN old |-> Patched(old[id])]
      <4>1. e = WithEntries(d, f, t)  BY <3>2, DoneEntries DEF e
      <4> QED BY <4>1
    <3> QED BY <1>5, <3>1, <3>2
  <2>3. ASSUME f \in ToSet(Fields), NEW id \in DOMAIN t
        PROVE  RowFits(id, f, t[id]) /\ id \in DOMAIN d.specimens
    <3>1. id \in RowsOf(d, f)  BY <2>2 DEF RowsOf
    <3>2. RowFits(id, f, old[id])  BY <2>3, <3>1 DEF CorpusFiles
    <3>3. id \in DOMAIN d.specimens  BY <2>3, <3>1, InRows DEF CorpusFiles
    <3>4. IsStatement(t[id])
      <4>1. IsStatement(old[id])  BY <3>2 DEF RowFits
      <4>2. IsStatement(Destubbed(id, old[id])) /\ IsStatement(Patched(old[id]))
        BY <4>1, DestubbedOnce, PatchedIsStatement
      <4>3. t[id] = Destubbed(id, old[id]) \/ t[id] = Patched(old[id])  BY <2>2
      <4> QED BY <4>2, <4>3
    <3> QED BY <3>2, <3>3, <3>4 DEF RowFits
  <2> HIDE DEF f
  <2>4. HasFiles(e)  BY <2>1, <2>2, EntriesWrite
  <2>5. CorpusFiles(e)  BY <2>1, <2>2, <2>3, EntriesKeep
  <2>6. Grows(d, e) /\ OtherKept(d, e)  BY <2>1, <2>2, EntriesGrow
  <2> QED BY <2>4, <2>5, <2>6 DEF StepKeeps, e
<1>6. CASE w.op \in {"heading", "register", "sheet", "relink", "catalog"}
  <2>1. \/ e = d
        \/ \E t : e = WithRegister(d, t) \/ e = WithCatalog(d, t) \/ e = WithSheets(d, t)
    BY <1>6, DoneErdos DEF e
  <2>2. HasFiles(e) /\ SameCorpus(d, e)
    BY <2>1, ErdosWrite DEF SameCorpus
  <2> QED BY <2>2, SameKeeps DEF StepKeeps, e
<1>7. CASE w.op \in {"header", "rewrite", "migrate"}
  <2>1. \A i \in DOMAIN d.specimens : DOMAIN d.specimens[i] = {"head", "body"}  BY DEF CorpusFiles
  <2>2. CASE w.op = "header"
    <3>1. CASE w.on \in Rows(d) \cap DOMAIN d.specimens
      <4> DEFINE h == Headed(d.specimens[w.on], Statement(d, w.on))
                 t == [d.specimens EXCEPT ![w.on] = h]
      <4>1. e = WithSpecimens(d, t)  BY <2>2, <3>1, DoneSpecimens DEF e
      <4>2. DOMAIN h = {"head", "body"}
        <5>1. DOMAIN d.specimens[w.on] = {"head", "body"}  BY <2>1, <3>1
        <5> QED BY <5>1, HeadedSheet
      <4> HIDE DEF h
      <4>3. DOMAIN t = DOMAIN d.specimens /\ \A i \in DOMAIN t : DOMAIN t[i] = {"head", "body"}
        BY <2>1, <4>2
      <4> HIDE DEF t
      <4> QED BY <4>1, <4>3, KeepsSpecimens DEF e
    <3>2. CASE w.on \notin Rows(d) \cap DOMAIN d.specimens
      <4>1. e = d  BY <2>2, <3>2, DoneSpecimens DEF e
      <4>2. SameCorpus(d, e)  BY <4>1 DEF SameCorpus
      <4> QED BY <4>1, <4>2, SameKeeps DEF StepKeeps, e
    <3> QED BY <3>1, <3>2
  <2>3. CASE w.op = "rewrite"
    <3> DEFINE t == Put(d.specimens, w.on, [head |-> w.what, body |-> EnrichedBody(w.on, w.what)])
    <3>1. e = WithSpecimens(d, t)  BY <2>3, DoneSpecimens DEF e
    <3>2. DOMAIN t = {w.on} \cup DOMAIN d.specimens /\ \A i \in DOMAIN t : DOMAIN t[i] = {"head", "body"}
      <4> DEFINE r == [head |-> w.what, body |-> EnrichedBody(w.on, w.what)]
      <4>1. DOMAIN r = {"head", "body"}  OBVIOUS
      <4> HIDE DEF r
      <4>2. SpecimenTable(d.specimens)  BY <2>1 DEF SpecimenTable
      <4>3. DOMAIN Put(d.specimens, w.on, r) = {w.on} \cup DOMAIN d.specimens /\ SpecimenTable(Put(d.specimens, w.on, r))
        BY <4>1, <4>2, PutSheet
      <4> QED BY <4>3 DEF SpecimenTable, r
    <3> HIDE DEF t
    <3> QED BY <3>1, <3>2, KeepsSpecimens DEF e
  <2>4. CASE w.op = "migrate"
    <3> DEFINE m == [d.specimens[w.on] EXCEPT !.body = "main"]
               t == [d.specimens EXCEPT ![w.on] = m]
    <3>1. e = WithSpecimens(d, t)  BY <2>4, DoneSpecimens DEF e
    <3>2. w.on \in DOMAIN d.specimens  BY <2>4 DEF WriteFits
    <3>3. DOMAIN m = {"head", "body"}  BY <2>1, <3>2
    <3> HIDE DEF m
    <3>4. DOMAIN t = DOMAIN d.specimens /\ \A i \in DOMAIN t : DOMAIN t[i] = {"head", "body"}
      BY <2>1, <3>3
    <3> HIDE DEF t
    <3> QED BY <3>1, <3>4, KeepsSpecimens DEF e
  <2> QED BY <1>7, <2>2, <2>3, <2>4
<1> QED BY <1>0, <1>1, <1>2, <1>3, <1>4, <1>5, <1>6, <1>7 DEF e

LEMMA WritesFit ==
  ASSUME NEW d, NEW w, IsSeq(w), w # <<>>, CorpusWrites(d, w)
  PROVE  WriteFits(d, w[1])
<1>1. 1 \in DOMAIN w /\ DOMAIN w = 1..Len(w) /\ Len(w) \in Nat  BY TailFacts
<1>2. w[1].op = "append" => w[1].on \in DOMAIN d.specimens
  <2>1. \A j \in DOMAIN w : ~(j < 1)  BY <1>1
  <2>2. w[1].op = "append" => SpecimenFirst(d, w, 1)  BY <1>1 DEF CorpusWrites
  <2> QED BY <2>1, <2>2 DEF SpecimenFirst
<1>3. /\ w[1].op \in {"patch", "repatch"} => w[1].on \in ToSet(Catalogs)
      /\ w[1].op \in {"specimen", "append"} => w[1].on \in ToSet(Planned)
      /\ w[1].op = "migrate" => w[1].on \in DOMAIN d.specimens
      /\ w[1].op = "drop" => w[1].on = "other" /\ \A p \in w[1].what : Superseded[p] \in Rows(d)
  BY <1>1 DEF CorpusWrites
<1> QED BY <1>2, <1>3 DEF WriteFits

LEMMA GrowsRows ==
  ASSUME NEW d, NEW e, Grows(d, e)
  PROVE  Rows(d) \subseteq Rows(e)
<1> SUFFICES ASSUME NEW id \in Rows(d) PROVE id \in Rows(e)  OBVIOUS
<1>1. PICK f \in ToSet(Fields) : id \in RowsOf(d, f)  BY InRows
<1>2. id \in RowsOf(e, f)  BY <1>1 DEF Grows
<1> QED BY <1>2, InRows

LEMMA WritesKeep ==
  ASSUME NEW d, NEW e, NEW w, IsSeq(w), w # <<>>, CorpusWrites(d, w), Grows(d, e),
         w[1].op = "specimen" => w[1].on \in DOMAIN e.specimens
  PROVE  CorpusWrites(e, Tail(w))
<1> DEFINE v == Tail(w)
<1>0. Rows(d) \subseteq Rows(e) /\ DOMAIN d.specimens \subseteq DOMAIN e.specimens
  BY GrowsRows DEF Grows
<1>1. /\ Len(w) \in Nat \ {0} /\ DOMAIN w = 1..Len(w) /\ DOMAIN v = 1..(Len(w) - 1)
      /\ \A i \in DOMAIN v : i + 1 \in DOMAIN w /\ v[i] = w[i + 1]
      /\ \A i \in DOMAIN w : i # 1 => i - 1 \in DOMAIN v /\ v[i - 1] = w[i]
  BY TailFacts
<1> HIDE DEF v
<1>2. ASSUME NEW i \in DOMAIN v, v[i].op = "append"
      PROVE  SpecimenFirst(e, v, i)
  <2>1. i + 1 \in DOMAIN w /\ v[i] = w[i + 1]  BY <1>1
  <2>2. SpecimenFirst(d, w, i + 1)  BY <2>1, <1>2 DEF CorpusWrites
  <2>3. CASE w[i + 1].on \in DOMAIN d.specimens
    BY <2>1, <2>3, <1>0 DEF SpecimenFirst
  <2>4. ASSUME NEW j \in DOMAIN w, j < i + 1, w[j].op = "specimen", w[j].on = w[i + 1].on
        PROVE  SpecimenFirst(e, v, i)
    <3>1. CASE j = 1
      <4>1. w[1].on \in DOMAIN e.specimens  BY <2>4, <3>1
      <4> QED BY <4>1, <2>1, <2>4, <3>1 DEF SpecimenFirst
    <3>2. CASE j # 1
      <4>1. j - 1 \in DOMAIN v /\ v[j - 1] = w[j]  BY <1>1, <3>2
      <4>2. j - 1 < i  BY <2>4, <1>1
      <4> QED BY <4>1, <4>2, <2>1, <2>4 DEF SpecimenFirst
    <3> QED BY <3>1, <3>2
  <2> QED BY <2>2, <2>3, <2>4 DEF SpecimenFirst
<1>3. ASSUME NEW i \in DOMAIN v
      PROVE  /\ v[i].op \in {"patch", "repatch"} => v[i].on \in ToSet(Catalogs)
             /\ v[i].op \in {"specimen", "append"} => v[i].on \in ToSet(Planned)
             /\ v[i].op = "migrate" => v[i].on \in DOMAIN e.specimens
             /\ v[i].op = "drop" => v[i].on = "other" /\ \A p \in v[i].what : Superseded[p] \in Rows(e)
  <2>1. i + 1 \in DOMAIN w /\ v[i] = w[i + 1]  BY <1>1
  <2> DEFINE u == w[i + 1]
  <2>2. /\ u.op \in {"patch", "repatch"} => u.on \in ToSet(Catalogs)
        /\ u.op \in {"specimen", "append"} => u.on \in ToSet(Planned)
        /\ u.op = "migrate" => u.on \in DOMAIN d.specimens
        /\ u.op = "drop" => u.on = "other" /\ \A p \in u.what : Superseded[p] \in Rows(d)
    BY <2>1 DEF CorpusWrites
  <2> QED BY <2>1, <2>2, <1>0
<1>4. CorpusWrites(e, v)  BY <1>2, <1>3 DEF CorpusWrites
<1> QED BY <1>4 DEF v

LEMMA KeptNotLost ==
  ASSUME NEW d, NEW e, NEW c, NEW b, CorpusFiles(d), Grows(d, e), OtherKept(d, e), NotLost(d, c),
         \A f : <<"entries", f>> \in c => <<"entries", f>> \in b
  PROVE  NotLost(e, b)
<1>1. Rows(d) \subseteq Rows(e)  BY GrowsRows
<1>2. ASSUME NEW p \in DOMAIN Superseded
      PROVE  \/ p \in RowsOf(e, "other") \/ Superseded[p] \in Rows(e)
             \/ {<<"entries", "other">>, <<"entries", FieldOf(Superseded[p])>>} \cap b # {}
  <2>1. \/ p \in RowsOf(d, "other") \/ Superseded[p] \in Rows(d)
        \/ {<<"entries", "other">>, <<"entries", FieldOf(Superseded[p])>>} \cap c # {}
    BY DEF NotLost
  <2>2. CASE p \in RowsOf(d, "other")  BY <2>2, <1>1 DEF OtherKept
  <2>3. CASE Superseded[p] \in Rows(d)  BY <2>3, <1>1
  <2>4. CASE {<<"entries", "other">>, <<"entries", FieldOf(Superseded[p])>>} \cap c # {}  BY <2>4
  <2> QED BY <2>1, <2>2, <2>3, <2>4
<1> QED BY <1>2 DEF NotLost

LEMMA WholeFiles ==
  ASSUME NEW w, IsWhole(w), NEW f
  PROVE  FileOf(w) # <<"entries", f>>
<1>1. w.op \in {"manifest", "rewrite", "register", "sheet", "catalog"}  BY DEF IsWhole
<1>2. w.op \notin {"drop", "patch", "repatch"}  BY <1>1
<1>3. CASE w.op = "manifest"
  <2>1. FileOf(w) = <<"manifests", w.on>>  BY <1>3 DEF FileOf
  <2> QED BY <2>1
<1>4. CASE w.op = "rewrite"
  <2>1. FileOf(w) = <<"specimens", w.on>>  BY <1>4 DEF FileOf
  <2> QED BY <2>1
<1>5. CASE w.op = "register"
  <2>1. FileOf(w) = <<"register">>  BY <1>5 DEF FileOf
  <2> QED BY <2>1
<1>6. CASE w.op = "sheet"
  <2>1. FileOf(w) = <<"sheets", w.on>>  BY <1>6 DEF FileOf
  <2> QED BY <2>1
<1>7. CASE w.op = "catalog"
  <2>1. FileOf(w) = <<"catalog">>  BY <1>7 DEF FileOf
  <2> QED BY <2>1
<1> QED BY <1>1, <1>3, <1>4, <1>5, <1>6, <1>7

\* A kill inside a write of the catalog of a field is noted.
LEMMA EmptiedKeeps ==
  ASSUME NEW d, NEW w, NEW c, HasFiles(d), CorpusFiles(d), WriteFits(d, w), NotLost(d, c),
         NEW tool, w.op \in OpsOf(tool), w.op # "append"
  PROVE  HasFiles(Emptied(d, w)) /\ CorpusFiles(Emptied(d, w)) /\ NotLost(Emptied(d, w), c \cup {FileOf(w)})
<1> DEFINE e == Emptied(d, w)
           b == c \cup {FileOf(w)}
<1>0. w.op \in {"manifest", "specimen", "append", "drop", "patch", "patchPlan", "repatch", "header",
                "heading", "rewrite", "migrate", "register", "sheet", "relink", "catalog"}
  BY DEF OpsOf
<1>1. CASE w.op \in {"drop", "patch", "repatch"}
  <2>1. e = WithEntries(d, w.on, <<>>)  BY <1>1, EmptiedFiles
  <2>2. FileOf(w) = <<"entries", w.on>>  BY <1>1 DEF FileOf
  <2>3. "other" \in ToSet(Catalogs) /\ ToSet(Fields) \subseteq ToSet(Catalogs)  BY FieldsFacts
  <2>4. w.on \in ToSet(Catalogs)  BY <1>1, <2>3 DEF WriteFits
  <2> HIDE DEF e
  <2>5. HasFiles(e) /\ \A g \in ToSet(Catalogs) : g # w.on => e.entries[g] = d.entries[g]
    BY <2>1, <2>4, EntriesWrite
  <2> DEFINE t == <<>>
  <2>6. DOMAIN t = {}  BY EmptyFacts
  <2> HIDE DEF t
  <2>7. CorpusFiles(e)
    <3>1. e = WithEntries(d, w.on, t)  BY <2>1 DEF t
    <3> QED BY <3>1, <2>4, <2>6, EntriesKeep
  <2>8. ASSUME NEW p \in DOMAIN Superseded
        PROVE  \/ p \in RowsOf(e, "other") \/ Superseded[p] \in Rows(e)
               \/ {<<"entries", "other">>, <<"entries", FieldOf(Superseded[p])>>} \cap b # {}
    <3>1. \/ p \in RowsOf(d, "other") \/ Superseded[p] \in Rows(d)
          \/ {<<"entries", "other">>, <<"entries", FieldOf(Superseded[p])>>} \cap c # {}
      BY DEF NotLost
    <3>2. CASE p \in RowsOf(d, "other")
      <4>1. CASE w.on = "other"  BY <4>1, <2>2
      <4>2. CASE w.on # "other"  BY <4>2, <3>2, <2>3, <2>5 DEF RowsOf
      <4> QED BY <4>1, <4>2
    <3>3. CASE Superseded[p] \in Rows(d)
      <4> DEFINE f == FieldOf(Superseded[p])
      <4>1. f \in ToSet(Fields) /\ Superseded[p] \in RowsOf(d, f)  BY <3>3, RowsFit
      <4>2. CASE w.on = f  BY <4>2, <2>2
      <4>3. CASE w.on # f
        <5>1. Superseded[p] \in RowsOf(e, f)  BY <4>1, <4>3, <2>3, <2>5 DEF RowsOf
        <5> QED BY <5>1, <4>1, InRows
      <4> QED BY <4>2, <4>3
    <3>4. CASE {<<"entries", "other">>, <<"entries", FieldOf(Superseded[p])>>} \cap c # {}  BY <3>4
    <3> QED BY <3>1, <3>2, <3>3, <3>4
  <2>9. NotLost(e, b)  BY <2>8 DEF NotLost
  <2> QED BY <2>5, <2>7, <2>9 DEF e
<1>2. CASE w.op \notin {"drop", "patch", "repatch"}
  <2>1. HasFiles(e) /\ CorpusFiles(e) /\ Grows(d, e) /\ OtherKept(d, e)
    <3>1. CASE w.op \in {"manifest", "patchPlan"}
      <4>1. PICK m : e = WithManifests(d, m)  BY <3>1, EmptiedFiles
      <4> HIDE DEF e
      <4>2. HasFiles(e) /\ SameCorpus(d, e)  BY <4>1 DEF WithManifests, HasFiles, SameCorpus
      <4> QED BY <4>2, SameKeeps
    <3>2. CASE w.op \in {"specimen", "header", "rewrite", "migrate"}
      <4> DEFINE r == [head |-> None, body |-> "empty"]
                 t == Put(d.specimens, w.on, r)
      <4>1. e = WithSpecimens(d, t)  BY <3>2, EmptiedFiles
      <4>2. DOMAIN r = {"head", "body"}  OBVIOUS
      <4>3. SpecimenTable(d.specimens)  BY DEF CorpusFiles, SpecimenTable
      <4> HIDE DEF r
      <4>4. DOMAIN t = {w.on} \cup DOMAIN d.specimens /\ SpecimenTable(t)  BY <4>2, <4>3, PutSheet
      <4> HIDE DEF t, e
      <4>5. \A i \in DOMAIN t : DOMAIN t[i] = {"head", "body"}  BY <4>4 DEF SpecimenTable
      <4>6. StepKeeps(d, e)  BY <4>1, <4>4, <4>5, KeepsSpecimens
      <4> QED BY <4>6 DEF StepKeeps
    <3>3. CASE w.op \in {"heading", "register", "sheet", "relink", "catalog"}
      <4>1. \E t : e = WithRegister(d, t) \/ e = WithCatalog(d, t) \/ e = WithSheets(d, t)
        BY <3>3, EmptiedFiles
      <4> HIDE DEF e
      <4>2. HasFiles(e) /\ SameCorpus(d, e)  BY <4>1, ErdosWrite
      <4> QED BY <4>2, SameKeeps
    <3> QED BY <1>0, <1>2, <3>1, <3>2, <3>3
  <2>2. \A f : <<"entries", f>> \in c => <<"entries", f>> \in b  OBVIOUS
  <2> HIDE DEF e, b
  <2>3. NotLost(e, b)  BY <2>1, <2>2, KeptNotLost
  <2> QED BY <2>1, <2>3 DEF e, b
<1> QED BY <1>1, <1>2

LEMMA SameEntries ==
  ASSUME NEW d, NEW e, e.entries = d.entries
  PROVE  /\ \A f : RowsOf(e, f) = RowsOf(d, f) /\ (Clean(d, f) => Clean(e, f))
         /\ Rows(e) = Rows(d)
         /\ \A id : Statement(e, id) = Statement(d, id)
<1>1. \A f : RowsOf(e, f) = RowsOf(d, f)  BY DEF RowsOf
<1>2. Rows(e) = Rows(d)  BY <1>1, Zenon DEF Rows
<1>3. \A id : Statement(e, id) = Statement(d, id)  BY DEF Statement
<1>4. \A f : Clean(d, f) => Clean(e, f)  BY <1>1 DEF Clean
<1> QED BY <1>1, <1>2, <1>3, <1>4

LEMMA ToDoTail ==
  ASSUME NEW w, IsSeq(w), w # <<>>, NEW op, NEW on, ToDo(w, op, on), w[1].op # op \/ w[1].on # on
  PROVE  ToDo(Tail(w), op, on)
<1>1. PICK i \in DOMAIN w : w[i].op = op /\ w[i].on = on  BY DEF ToDo
<1>2. i # 1  BY <1>1
<1>3. i - 1 \in DOMAIN Tail(w) /\ Tail(w)[i - 1] = w[i]  BY <1>2, TailFacts
<1> QED BY <1>1, <1>3 DEF ToDo

PatchesFirst(w) == \A i, j \in DOMAIN w : i < j /\ w[i].op = "header" => w[j].op # "patch"

LEMMA PatchesTail ==
  ASSUME NEW w, IsSeq(w), w # <<>>, PatchesFirst(w)
  PROVE  /\ PatchesFirst(Tail(w))
         /\ w[1].op = "header" => \A i \in DOMAIN w : w[i].op # "patch"
<1> DEFINE v == Tail(w)
<1>1. /\ Len(w) \in Nat \ {0} /\ DOMAIN w = 1..Len(w) /\ DOMAIN v = 1..(Len(w) - 1) /\ 1 \in DOMAIN w
      /\ \A i \in DOMAIN v : i + 1 \in DOMAIN w /\ v[i] = w[i + 1]
  BY TailFacts
<1> HIDE DEF v
<1>2. ASSUME NEW i \in DOMAIN v, NEW j \in DOMAIN v, i < j, v[i].op = "header"
      PROVE  v[j].op # "patch"
  <2>1. i + 1 < j + 1  BY <1>1, <1>2
  <2>2. i + 1 \in DOMAIN w /\ j + 1 \in DOMAIN w /\ v[i] = w[i + 1] /\ v[j] = w[j + 1]  BY <1>1
  <2> QED BY <1>2, <2>1, <2>2 DEF PatchesFirst
<1>3. PatchesFirst(v)  BY <1>2 DEF PatchesFirst
<1>4. ASSUME w[1].op = "header", NEW i \in DOMAIN w  PROVE w[i].op # "patch"
  <2>1. CASE i = 1  BY <2>1, <1>4
  <2>2. CASE i # 1
    <3>1. 1 < i  BY <2>2, <1>1
    <3> QED BY <3>1, <1>1, <1>4 DEF PatchesFirst
  <2> QED BY <2>1, <2>2
<1> QED BY <1>3, <1>4 DEF v

LEMMA CleaningSame ==
  ASSUME NEW d, NEW e, NEW w, IsSeq(w), w # <<>>, Cleaning(d, w), SameCorpus(d, e),
         w[1].op \notin {"patch", "header"}
  PROVE  Cleaning(e, Tail(w))
<1> DEFINE v == Tail(w)
<1>1. /\ \A f : RowsOf(e, f) = RowsOf(d, f) /\ (Clean(d, f) => Clean(e, f))
      /\ Rows(e) = Rows(d)
      /\ \A id : Statement(e, id) = Statement(d, id)
      /\ e.specimens = d.specimens
  BY SameEntries DEF SameCorpus
<1>2. \A on : /\ ToDo(w, "patch", on) => ToDo(v, "patch", on)
              /\ ToDo(w, "header", on) => ToDo(v, "header", on)
  BY ToDoTail
<1>3. PatchesFirst(v)  BY PatchesTail DEF Cleaning, PatchesFirst
<1>4. (\E i \in DOMAIN v : v[i].op = "patch") => \E i \in DOMAIN w : w[i].op = "patch"  BY TailFacts
<1> HIDE DEF v
<1>5. \A f \in ToSet(Fields) : ToDo(v, "patch", f) \/ Clean(e, f)  BY <1>1, <1>2 DEF Cleaning
<1>6. \A id \in Rows(e) : ToDo(v, "header", id) \/ HeadFits(e, id)  BY <1>1, <1>2 DEF Cleaning, HeadFits
<1>7. (\E i \in DOMAIN v : v[i].op = "patch") => \A id \in Rows(e) : ToDo(v, "header", id)
  BY <1>1, <1>2, <1>4 DEF Cleaning
<1>8. Cleaning(e, v)  BY <1>3, <1>5, <1>6, <1>7 DEF Cleaning, PatchesFirst
<1> QED BY <1>8 DEF v

LEMMA CleaningPatch ==
  ASSUME NEW d, NEW w, IsSeq(w), w # <<>>, HasFiles(d), CorpusFiles(d), Cleaning(d, w),
         w[1].op = "patch", w[1].on \in ToSet(Catalogs)
  PROVE  Cleaning(Done(d, w[1]), Tail(w))
<1> DEFINE e == Done(d, w[1])
           v == Tail(w)
           f == w[1].on
           old == d.entries[f]
           t == [id \in DOMAIN old |-> Destubbed(id, old[id])]
<1>1. e = WithEntries(d, f, t)  BY DoneEntries
<1>2. DOMAIN t = DOMAIN old /\ \A id \in DOMAIN old : t[id] = Destubbed(id, old[id])  OBVIOUS
<1>3. 1 \in DOMAIN w  BY TailFacts
<1>4. \A id \in Rows(d) : ToDo(v, "header", id)
  <2>1. \A id \in Rows(d) : ToDo(w, "header", id)  BY <1>3 DEF Cleaning
  <2> QED BY <2>1, ToDoTail
<1>5. PatchesFirst(v)  BY PatchesTail DEF Cleaning, PatchesFirst
<1>6. \A g : g # f /\ ToDo(w, "patch", g) => ToDo(v, "patch", g)  BY ToDoTail
<1> HIDE DEF e, v, t
<1>7. /\ e.entries[f] = t
      /\ \A g \in ToSet(Catalogs) : g # f => e.entries[g] = d.entries[g]
  BY <1>1, EntriesWrite
<1>8. ToSet(Fields) \subseteq ToSet(Catalogs)  BY FieldsFacts
<1>9. \A g \in ToSet(Catalogs) : RowsOf(e, g) = RowsOf(d, g)  BY <1>2, <1>7 DEF RowsOf
<1>10. \A id \in Rows(e) : id \in Rows(d)  BY <1>8, <1>9, InRows
<1>11. ASSUME NEW g \in ToSet(Fields)  PROVE ToDo(v, "patch", g) \/ Clean(e, g)
  <2>1. CASE g = f
    <3>1. ASSUME NEW id \in RowsOf(e, g)  PROVE Destubbed(id, e.entries[g][id]) = e.entries[g][id]
      <4>1. id \in DOMAIN old /\ e.entries[g][id] = Destubbed(id, old[id])  BY <2>1, <1>2, <1>7 DEF RowsOf
      <4>2. RowFits(id, g, old[id])  BY <2>1, <4>1 DEF CorpusFiles, RowsOf
      <4>3. IsStatement(old[id])  BY <4>2 DEF RowFits
      <4> QED BY <4>1, <4>3, DestubbedOnce
    <3> QED BY <3>1 DEF Clean
  <2>2. CASE g # f
    <3>1. e.entries[g] = d.entries[g]  BY <2>2, <1>7, <1>8
    <3>2. Clean(d, g) => Clean(e, g)  BY <3>1 DEF Clean, RowsOf
    <3>3. ToDo(w, "patch", g) \/ Clean(d, g)  BY DEF Cleaning
    <3> QED BY <2>2, <3>2, <3>3, <1>6
  <2> QED BY <2>1, <2>2
<1>12. \A id \in Rows(e) : ToDo(v, "header", id)  BY <1>4, <1>10
<1>13. Cleaning(e, v)  BY <1>5, <1>11, <1>12 DEF Cleaning, PatchesFirst
<1> QED BY <1>13 DEF e, v

LEMMA CleaningHeader ==
  ASSUME NEW d, NEW w, IsSeq(w), w # <<>>, HasFiles(d), CorpusFiles(d), Cleaning(d, w),
         w[1].op = "header"
  PROVE  Cleaning(Done(d, w[1]), Tail(w))
<1> DEFINE e == Done(d, w[1])
           v == Tail(w)
           on == w[1].on
           h == Headed(d.specimens[on], Statement(d, on))
           t == [d.specimens EXCEPT ![on] = h]
<1>1. e = IF on \in Rows(d) \cap DOMAIN d.specimens THEN WithSpecimens(d, t) ELSE d
  BY DoneSpecimens
<1>2. DOMAIN t = DOMAIN d.specimens /\ (on \in DOMAIN t => t[on] = h)
      /\ \A id \in DOMAIN d.specimens : id # on => t[id] = d.specimens[id]
  OBVIOUS
<1>3. PatchesFirst(v) /\ \A i \in DOMAIN w : w[i].op # "patch"
  BY PatchesTail DEF Cleaning, PatchesFirst
<1>4. \A i \in DOMAIN v : v[i].op # "patch"  BY <1>3, TailFacts
<1>5. \A id : id # on /\ ToDo(w, "header", id) => ToDo(v, "header", id)  BY ToDoTail
<1>6. "head" \in DOMAIN d.specimens[on] => h.head = IF d.specimens[on].head = None THEN None ELSE Statement(d, on)
  BY HeadedSheet
<1> HIDE DEF e, v, h, t
<1>7. /\ e.entries = d.entries
      /\ on \in Rows(d) \cap DOMAIN d.specimens => e.specimens = t
      /\ on \notin Rows(d) \cap DOMAIN d.specimens => e.specimens = d.specimens
  <2>1. CASE on \in Rows(d) \cap DOMAIN d.specimens  BY <1>1, <2>1, SpecimensWrite
  <2>2. CASE on \notin Rows(d) \cap DOMAIN d.specimens  BY <1>1, <2>2
  <2> QED BY <2>1, <2>2
<1>8. /\ \A f : Clean(d, f) => Clean(e, f)
      /\ Rows(e) = Rows(d)
      /\ \A id : Statement(e, id) = Statement(d, id)
  BY <1>7, SameEntries
<1>9. \A f \in ToSet(Fields) : Clean(e, f)
  <2>1. \A f \in ToSet(Fields) : ToDo(w, "patch", f) \/ Clean(d, f)  BY DEF Cleaning
  <2>2. \A f : ~ToDo(w, "patch", f)  BY <1>3 DEF ToDo
  <2> QED BY <2>1, <2>2, <1>8
<1>10. ASSUME NEW id \in Rows(e)  PROVE ToDo(v, "header", id) \/ HeadFits(e, id)
  <2>1. id \in DOMAIN d.specimens /\ DOMAIN d.specimens[id] = {"head", "body"}
    BY <1>8, RowsFit
  <2>2. CASE id = on
    <3>1. e.specimens[on] = h  BY <2>1, <2>2, <1>2, <1>7, <1>8
    <3>2. h.head \in {None, Statement(d, on)}  BY <2>1, <2>2, <1>6
    <3> QED BY <2>2, <3>1, <3>2, <1>8 DEF HeadFits
  <2>3. CASE id # on
    <3>1. e.specimens[id] = d.specimens[id]  BY <2>1, <2>3, <1>2, <1>7
    <3>2. ToDo(w, "header", id) \/ HeadFits(d, id)  BY <1>8 DEF Cleaning
    <3> QED BY <2>3, <3>1, <3>2, <1>5, <1>8 DEF HeadFits
  <2> QED BY <2>2, <2>3
<1>11. Cleaning(e, v)  BY <1>3, <1>4, <1>9, <1>10 DEF Cleaning, PatchesFirst
<1> QED BY <1>11 DEF e, v

LEMMA EnrichingStep ==
  ASSUME NEW d, NEW w, IsSeq(w), w # <<>>, HasFiles(d), CorpusFiles(d), Enriching(d, w),
         w[1].op = "rewrite"
  PROVE  Enriching(Done(d, w[1]), Tail(w))
<1> DEFINE e == Done(d, w[1])
           v == Tail(w)
           on == w[1].on
           r == [head |-> w[1].what, body |-> EnrichedBody(on, w[1].what)]
           t == Put(d.specimens, on, r)
<1>1. e = WithSpecimens(d, t)  BY DoneSpecimens
<1>2. DOMAIN r = {"head", "body"} /\ r.head = w[1].what /\ r.body = EnrichedBody(on, w[1].what)  OBVIOUS
<1>3. \A id : id # on /\ ToDo(w, "rewrite", id) => ToDo(v, "rewrite", id)  BY ToDoTail
<1>4. /\ 1 \in DOMAIN w
      /\ \A i \in DOMAIN v : i + 1 \in DOMAIN w /\ v[i] = w[i + 1]
  BY TailFacts
<1>5. SpecimenTable(d.specimens)  BY DEF CorpusFiles, SpecimenTable
<1> HIDE DEF e, v, r
<1>6. t[on] = r /\ \A i \in DOMAIN d.specimens : i # on => t[i] = d.specimens[i]
  <2> HIDE DEF on
  <2> QED BY DEF Put
<1> HIDE DEF t
<1>7. e.entries = d.entries /\ e.specimens = t  BY <1>1, SpecimensWrite
<1>8. Rows(e) = Rows(d) /\ \A id : Statement(e, id) = Statement(d, id)  BY <1>7, SameEntries
<1>9. on \in Rows(d) /\ w[1].what = Statement(d, on)  BY <1>4 DEF Enriching
<1>10. Rich(e, on)
  <2>1. HasNamedDef(EnrichedBody(on, w[1].what))  BY <1>9, RowsFit, EnrichedNamed
  <2>2. e.specimens[on] = r  BY <1>6, <1>7
  <2>3. e.specimens[on].body = EnrichedBody(on, w[1].what)  BY <2>2, <1>2
  <2>4. e.specimens[on].head = Statement(e, on)  BY <2>2, <1>2, <1>8, <1>9
  <2>5. HasNamedDef(e.specimens[on].body)  BY <2>1, <2>3
  <2> QED BY <2>4, <2>5 DEF Rich
<1>11. ASSUME NEW id \in Rows(e)  PROVE ToDo(v, "rewrite", id) \/ Rich(e, id)
  <2>1. CASE id = on  BY <2>1, <1>10
  <2>2. CASE id # on
    <3>1. id \in DOMAIN d.specimens  BY <1>8, RowsFit
    <3>2. e.specimens[id] = d.specimens[id]  BY <2>2, <3>1, <1>6, <1>7
    <3>3. ToDo(w, "rewrite", id) \/ Rich(d, id)  BY <1>8 DEF Enriching
    <3> QED BY <2>2, <3>2, <3>3, <1>3, <1>8 DEF Rich
  <2> QED BY <2>1, <2>2
<1>12. \A i \in DOMAIN v : v[i].on \in Rows(e) /\ v[i].what = Statement(e, v[i].on)
  BY <1>4, <1>8 DEF Enriching
<1>13. Enriching(e, v)  BY <1>11, <1>12 DEF Enriching
<1> QED BY <1>13 DEF e, v

-----------------------------------------------------------------------------
(* What a tool plans to write.                                             *)

Fits(d, w, ops) == IsSeq(w) /\ \A i \in DOMAIN w : w[i].op \in ops /\ WriteFits(d, w[i])

LEMMA FitsJoin ==
  ASSUME NEW d, NEW s, NEW t, NEW ops, Fits(d, s, ops), Fits(d, t, ops)
  PROVE  Fits(d, s \o t, ops)
<1>1. IsSeq(s) /\ IsSeq(t)  BY DEF Fits
<1>2. /\ IsSeq(s \o t)
      /\ \A k \in DOMAIN (s \o t) :
           \/ k \in DOMAIN s /\ (s \o t)[k] = s[k]
           \/ k > Len(s) /\ k - Len(s) \in DOMAIN t /\ (s \o t)[k] = t[k - Len(s)]
  BY <1>1, JoinFacts
<1>3. ASSUME NEW k \in DOMAIN (s \o t)  PROVE (s \o t)[k].op \in ops /\ WriteFits(d, (s \o t)[k])
  <2>1. \/ k \in DOMAIN s /\ (s \o t)[k] = s[k]
        \/ k - Len(s) \in DOMAIN t /\ (s \o t)[k] = t[k - Len(s)]
    BY <1>2
  <2>2. CASE k \in DOMAIN s /\ (s \o t)[k] = s[k]  BY <2>2 DEF Fits
  <2>3. CASE k - Len(s) \in DOMAIN t /\ (s \o t)[k] = t[k - Len(s)]  BY <2>3 DEF Fits
  <2> QED BY <2>1, <2>2, <2>3
<1> QED BY <1>2, <1>3 DEF Fits

LEMMA FitsEach ==
  ASSUME NEW d, NEW op, NEW s, NEW ops, IsSeq(s), op \in ops, op \notin {"append", "drop"},
         op \in {"patch", "repatch"} => ToSet(s) \subseteq ToSet(Catalogs),
         op = "specimen" => ToSet(s) \subseteq ToSet(Planned),
         op = "migrate" => ToSet(s) \subseteq DOMAIN d.specimens
  PROVE  Fits(d, Each(op, s), ops)
<1> DEFINE w == Each(op, s)
<1>1. IsSeq(w) /\ DOMAIN w = DOMAIN s /\ \A i \in DOMAIN s : w[i].op = op /\ w[i].on = s[i]
  BY EachFacts
<1> HIDE DEF w
<1>2. ASSUME NEW i \in DOMAIN w  PROVE w[i].op \in ops /\ WriteFits(d, w[i])
  <2>1. w[i].op = op /\ w[i].on = s[i] /\ s[i] \in ToSet(s)  BY <1>1 DEF ToSet
  <2> QED BY <2>1 DEF WriteFits
<1>3. Fits(d, w, ops)  BY <1>1, <1>2 DEF Fits
<1> QED BY <1>3 DEF w

LEMMA OneFacts ==
  ASSUME NEW u
  PROVE  /\ IsSeq(<<u>>) /\ Len(<<u>>) = 1 /\ DOMAIN <<u>> = 1..1
         /\ \A i \in DOMAIN <<u>> : <<u>>[i] = u
<1>1. <<u>> \in Seq({u}) /\ Len(<<u>>) = 1  OBVIOUS
<1>2. IsSeq(<<u>>)  BY <1>1, SeqIsSeq
<1>3. DOMAIN <<u>> = 1..1  BY <1>1
<1>4. \A i \in 1..1 : i = 1  OBVIOUS
<1>5. <<u>>[1] = u  OBVIOUS
<1> QED BY <1>1, <1>2, <1>3, <1>4, <1>5

LEMMA FitsOne ==
  ASSUME NEW d, NEW u, NEW ops, u.op \in ops, WriteFits(d, u)
  PROVE  Fits(d, <<u>>, ops)
<1> DEFINE w == <<u>>
<1>1. IsSeq(w) /\ \A i \in DOMAIN w : w[i] = u  BY OneFacts
<1> HIDE DEF w
<1>2. Fits(d, w, ops)  BY <1>1 DEF Fits
<1> QED BY <1>2 DEF w

LEMMA FitsNone ==
  ASSUME NEW d, NEW ops
  PROVE  Fits(d, <<>>, ops)
<1> DEFINE w == <<>>
<1>1. IsSeq(w) /\ DOMAIN w = {}  BY EmptyFacts
<1> HIDE DEF w
<1>2. Fits(d, w, ops)  BY <1>1 DEF Fits
<1> QED BY <1>2 DEF w

LEMMA FitsWrites ==
  ASSUME NEW d, NEW w, NEW ops, Fits(d, w, ops)
  PROVE  CorpusWrites(d, w)
<1>1. ASSUME NEW i \in DOMAIN w
      PROVE  /\ w[i].op \in {"patch", "repatch"} => w[i].on \in ToSet(Catalogs)
             /\ w[i].op \in {"specimen", "append"} => w[i].on \in ToSet(Planned)
             /\ w[i].op = "append" => SpecimenFirst(d, w, i)
             /\ w[i].op = "migrate" => w[i].on \in DOMAIN d.specimens
             /\ w[i].op = "drop" => w[i].on = "other" /\ \A p \in w[i].what : Superseded[p] \in Rows(d)
  <2>1. WriteFits(d, w[i])  BY DEF Fits
  <2> QED BY <2>1 DEF WriteFits, SpecimenFirst
<1> QED BY <1>1 DEF CorpusWrites

LEMMA ToDoEach ==
  ASSUME NEW op, NEW s, IsSeq(s), NEW x \in ToSet(s)
  PROVE  ToDo(Each(op, s), op, x)
<1>1. PICK i \in DOMAIN s : s[i] = x  BY DEF ToSet
<1>2. DOMAIN Each(op, s) = DOMAIN s /\ Each(op, s)[i].op = op /\ Each(op, s)[i].on = s[i]  BY EachFacts
<1> QED BY <1>1, <1>2 DEF ToDo

LEMMA ToDoJoin ==
  ASSUME NEW s, NEW t, IsSeq(s), IsSeq(t), NEW op, NEW x, ToDo(s, op, x) \/ ToDo(t, op, x)
  PROVE  ToDo(s \o t, op, x)
<1> DEFINE j == s \o t
<1>0. /\ IsSeq(j) /\ Len(j) = Len(s) + Len(t)
      /\ \A i \in DOMAIN s : i \in DOMAIN j /\ j[i] = s[i]
      /\ \A i \in DOMAIN t : Len(s) + i \in DOMAIN j /\ j[Len(s) + i] = t[i]
      /\ \A k \in DOMAIN j :
           \/ k \in DOMAIN s /\ j[k] = s[k]
           \/ k > Len(s) /\ k - Len(s) \in DOMAIN t /\ j[k] = t[k - Len(s)]
  BY JoinFacts
<1> HIDE DEF j
<1>1. /\ \A i \in DOMAIN s : i \in DOMAIN j /\ j[i] = s[i]
      /\ \A i \in DOMAIN t : Len(s) + i \in DOMAIN j /\ j[Len(s) + i] = t[i]
  BY <1>0
<1>2. ASSUME NEW i \in DOMAIN s, s[i].op = op, s[i].on = x  PROVE ToDo(j, op, x)
  BY <1>1, <1>2 DEF ToDo
<1>3. ASSUME NEW i \in DOMAIN t, t[i].op = op, t[i].on = x  PROVE ToDo(j, op, x)
  BY <1>1, <1>3 DEF ToDo
<1>4. ToDo(j, op, x)  BY <1>2, <1>3 DEF ToDo
<1> QED BY <1>4 DEF j

LEMMA PatchesJoin ==
  ASSUME NEW s, NEW t, IsSeq(s), IsSeq(t), PatchesFirst(s),
         \A i \in DOMAIN t : t[i].op # "patch"
  PROVE  PatchesFirst(s \o t)
<1> DEFINE j == s \o t
<1>1. /\ Len(s) \in Nat /\ DOMAIN s = 1..Len(s) /\ IsSeq(j)
      /\ \A k \in DOMAIN j :
           \/ k \in DOMAIN s /\ j[k] = s[k]
           \/ k > Len(s) /\ k - Len(s) \in DOMAIN t /\ j[k] = t[k - Len(s)]
  BY JoinFacts, SeqFacts
<1> HIDE DEF j
<1>2. Len(j) \in Nat /\ DOMAIN j = 1..Len(j)  BY <1>1, SeqFacts
<1>3. ASSUME NEW i \in DOMAIN j, NEW k \in DOMAIN j, i < k, j[i].op = "header", j[k].op = "patch"
      PROVE  FALSE
  <2>1. k \in DOMAIN s /\ j[k] = s[k]  BY <1>1, <1>3
  <2>2. i \in DOMAIN s
    <3>1. k <= Len(s) /\ i \in 1..Len(j)  BY <1>1, <1>2, <2>1
    <3> QED BY <3>1, <1>1, <1>2, <1>3
  <2>3. j[i] = s[i]
    <3>1. ~(i > Len(s))  BY <2>2, <1>1
    <3> QED BY <3>1, <1>1
  <2> QED BY <1>3, <2>1, <2>2, <2>3 DEF PatchesFirst
<1>4. PatchesFirst(j)  BY <1>3 DEF PatchesFirst
<1> QED BY <1>4 DEF j

BasicOps == {"patch", "patchPlan", "header"}
DestubOps == BasicOps \cup {"heading"}

\* The two tools that remove placeholders plan to patch every catalog and
\* every manifest, and then every specimen.
LEMMA DestubPlans ==
  ASSUME NEW d, NEW c, IsSeq(c), ToSet(Fields) \subseteq ToSet(c), ToSet(c) \subseteq ToSet(Catalogs),
         CorpusFiles(d), NEW w,
         w = Each("patch", c) \o Each("patchPlan", Fields) \o Each("header", Ordered(Rows(d)))
  PROVE  Fits(d, w, BasicOps) /\ Cleaning(d, w)
<1> DEFINE p == Each("patch", c)
           m == Each("patchPlan", Fields)
           h == Each("header", Ordered(Rows(d)))
<1>1. IsSeq(Fields) /\ IsSeq(Ordered(Rows(d))) /\ ToSet(Ordered(Rows(d))) = ToSet(Planned) \cap Rows(d)
  BY FieldsFacts, OrderedFacts
<1>2. Fits(d, p, BasicOps)
  <2>1. "patch" \in BasicOps  BY DEF BasicOps
  <2> QED BY <2>1, FitsEach
<1>3. Fits(d, m, BasicOps)
  <2>1. "patchPlan" \in BasicOps  BY DEF BasicOps
  <2> QED BY <1>1, <2>1, FitsEach
<1>4. Fits(d, h, BasicOps)
  <2>1. "header" \in BasicOps  BY DEF BasicOps
  <2> QED BY <1>1, <2>1, FitsEach
<1>5. IsSeq(p) /\ IsSeq(m) /\ IsSeq(h)  BY <1>2, <1>3, <1>4 DEF Fits
<1>6. /\ \A i \in DOMAIN p : p[i].op = "patch"
      /\ \A i \in DOMAIN m : m[i].op = "patchPlan"
      /\ \A i \in DOMAIN h : h[i].op = "header"
  BY <1>1, EachFacts
<1>7. \A f \in ToSet(Fields) : ToDo(p, "patch", f)  BY ToDoEach
<1>8. \A id \in Rows(d) : ToDo(h, "header", id)
  <2> SUFFICES ASSUME NEW id \in Rows(d)  PROVE ToDo(h, "header", id)  OBVIOUS
  <2>1. id \in ToSet(Ordered(Rows(d)))  BY <1>1, RowsFit
  <2> QED BY <1>1, <2>1, ToDoEach
<1> HIDE DEF p, m, h
<1>9. Fits(d, p \o m, BasicOps) /\ IsSeq(p \o m)  BY <1>2, <1>3, FitsJoin DEF Fits
<1>10. Fits(d, w, BasicOps)
  <2>1. w = (p \o m) \o h  BY DEF p, m, h
  <2> QED BY <1>4, <1>9, <2>1, FitsJoin
<1>11. PatchesFirst(w)
  <2>1. PatchesFirst(p)  BY <1>6 DEF PatchesFirst
  <2>2. PatchesFirst(p \o m)  BY <2>1, <1>5, <1>6, PatchesJoin
  <2>3. w = (p \o m) \o h  BY DEF p, m, h
  <2> QED BY <2>2, <2>3, <1>5, <1>6, <1>9, PatchesJoin
<1>12. \A f \in ToSet(Fields) : ToDo(w, "patch", f)
  <2> SUFFICES ASSUME NEW f \in ToSet(Fields)  PROVE ToDo(w, "patch", f)  OBVIOUS
  <2>1. ToDo(p \o m, "patch", f)  BY <1>5, <1>7, ToDoJoin
  <2>2. w = (p \o m) \o h  BY DEF p, m, h
  <2> QED BY <2>1, <2>2, <1>5, <1>9, ToDoJoin
<1>13. \A id \in Rows(d) : ToDo(w, "header", id)
  <2> SUFFICES ASSUME NEW id \in Rows(d)  PROVE ToDo(w, "header", id)  OBVIOUS
  <2>1. w = (p \o m) \o h  BY DEF p, m, h
  <2> QED BY <2>1, <1>5, <1>8, <1>9, ToDoJoin
<1> QED BY <1>10, <1>11, <1>12, <1>13 DEF Cleaning, PatchesFirst

LEMMA HeadingsLast ==
  ASSUME NEW d, NEW w, NEW t, Fits(d, w, DestubOps), Cleaning(d, w), Fits(d, t, DestubOps),
         \A i \in DOMAIN t : t[i].op = "heading"
  PROVE  Cleaning(d, w \o t)
<1> DEFINE j == w \o t
<1>1. IsSeq(w) /\ IsSeq(t)  BY DEF Fits
<1>2. PatchesFirst(j)
  <2>1. PatchesFirst(w)  BY DEF Cleaning, PatchesFirst
  <2> QED BY <1>1, <2>1, PatchesJoin
<1>3. \A op, x : ToDo(w, op, x) => ToDo(j, op, x)  BY <1>1, ToDoJoin
<1>4. \A k \in DOMAIN j : j[k].op = "patch" => \E i \in DOMAIN w : w[i].op = "patch"
  <2> SUFFICES ASSUME NEW k \in DOMAIN j, j[k].op = "patch"  PROVE \E i \in DOMAIN w : w[i].op = "patch"
    OBVIOUS
  <2>1. \/ k \in DOMAIN w /\ j[k] = w[k]
        \/ k > Len(w) /\ k - Len(w) \in DOMAIN t /\ j[k] = t[k - Len(w)]
    BY <1>1, JoinFacts
  <2>2. CASE k \in DOMAIN w /\ j[k] = w[k]  BY <2>2
  <2>3. CASE k > Len(w) /\ k - Len(w) \in DOMAIN t /\ j[k] = t[k - Len(w)]
    <3>1. t[k - Len(w)].op = "heading"  BY <2>3
    <3> QED BY <2>3, <3>1
  <2> QED BY <2>1, <2>2, <2>3
<1> HIDE DEF j
<1>5. Cleaning(d, j)
  <2>1. \A f \in ToSet(Fields) : ToDo(j, "patch", f) \/ Clean(d, f)  BY <1>3 DEF Cleaning
  <2>2. \A id \in Rows(d) : ToDo(j, "header", id) \/ HeadFits(d, id)  BY <1>3 DEF Cleaning
  <2>3. (\E i \in DOMAIN j : j[i].op = "patch") => \A id \in Rows(d) : ToDo(j, "header", id)
    BY <1>3, <1>4 DEF Cleaning
  <2> QED BY <2>1, <2>2, <2>3, <1>2 DEF Cleaning, PatchesFirst
<1> QED BY <1>5 DEF j

LEMMA PendingFacts ==
  ASSUME NEW d, NEW tranche, NEW limit \in Nat
  PROVE  /\ IsSeq(Pending(d, tranche, limit))
         /\ ToSet(Pending(d, tranche, limit)) \subseteq ToSet(Planned)
<1> DEFINE missing == Ordered({id \in ToSet(Planned) :
                                 id \notin Rows(d) /\ Tranche(EntryIndex(id)) <= tranche})
           part == SubSeq(missing, 1, limit)
<1>1. IsSeq(missing) /\ ToSet(missing) \subseteq ToSet(Planned)  BY OrderedFacts
<1>2. Pending(d, tranche, limit) = IF Len(missing) <= limit THEN missing ELSE part  BY DEF Pending
<1> HIDE DEF missing
<1>3. Len(missing) \in Nat /\ DOMAIN missing = 1..Len(missing) /\ missing \in Seq(ToSet(missing))
  BY <1>1, SeqFacts
<1>4. ASSUME ~(Len(missing) <= limit)
      PROVE  IsSeq(part) /\ ToSet(part) \subseteq ToSet(missing)
  <2>1. part \in Seq(ToSet(missing)) /\ Len(part) = limit  BY <1>3, <1>4
  <2>2. IsSeq(part)  BY <2>1, SeqIsSeq
  <2>3. DOMAIN part = 1..limit  BY <2>1
  <2>4. \A i \in 1..limit : part[i] \in ToSet(missing)  BY <2>1
  <2> HIDE DEF part
  <2> QED BY <2>2, <2>3, <2>4 DEF ToSet
<1> QED BY <1>1, <1>2, <1>4

\* An entry is appended to its catalog after its specimen is written.
LEMMA BootstrapPlans ==
  ASSUME NEW d, NEW tranche, NEW limit \in Nat
  PROVE  /\ IsSeq(Bootstrap(d, tranche, limit))
         /\ \A i \in DOMAIN Bootstrap(d, tranche, limit) :
              Bootstrap(d, tranche, limit)[i].op \in {"specimen", "append"}
         /\ CorpusWrites(d, Bootstrap(d, tranche, limit))
<1> DEFINE p == Pending(d, tranche, limit)
           n == Len(p)
           w == [k \in 1..2 * n |-> Write(IF k % 2 = 1 THEN "specimen" ELSE "append", p[(k + 1) \div 2], None)]
<1>1. IsSeq(p) /\ ToSet(p) \subseteq ToSet(Planned)  BY PendingFacts
<1>2. n \in Nat /\ DOMAIN p = 1..n  BY <1>1, SeqFacts
<1>3. Bootstrap(d, tranche, limit) = w  BY DEF Bootstrap
<1> HIDE DEF p, n
<1>4. DOMAIN w = 1..2 * n /\ Len(w) = 2 * n /\ 2 * n \in Nat  BY <1>2
<1>5. IsSeq(w)  BY <1>4 DEF IsSeq
<1>6. \A k \in 1..2 * n :
        w[k].op = (IF k % 2 = 1 THEN "specimen" ELSE "append") /\ w[k].on = p[(k + 1) \div 2]
  BY DEF Write
<1> HIDE DEF w
<1>7. ASSUME NEW k \in 1..2 * n  PROVE w[k].on \in ToSet(Planned)
  <2>1. (k + 1) \div 2 \in 1..n  BY <1>2
  <2>2. p[(k + 1) \div 2] \in ToSet(p)  BY <2>1, <1>2 DEF ToSet
  <2> QED BY <2>2, <1>1, <1>6
<1>8. ASSUME NEW k \in 1..2 * n, w[k].op = "append"  PROVE SpecimenFirst(d, w, k)
  <2>1. k % 2 # 1  BY <1>6, <1>8
  <2>2. k - 1 \in 1..2 * n /\ (k - 1) % 2 = 1 /\ k - 1 < k  BY <2>1, <1>2
  <2>3. ((k - 1) + 1) \div 2 = (k + 1) \div 2  BY <2>1, <1>2
  <2>4. w[k - 1].op = "specimen"  BY <2>2, <1>6
  <2>5. w[k - 1].on = w[k].on  BY <2>2, <2>3, <1>6
  <2> QED BY <2>2, <2>4, <2>5, <1>4 DEF SpecimenFirst
<1>9. \A k \in 1..2 * n : w[k].op \in {"specimen", "append"}  BY <1>6
<1>10. CorpusWrites(d, w)  BY <1>4, <1>7, <1>8, <1>9 DEF CorpusWrites
<1> QED BY <1>3, <1>4, <1>5, <1>9, <1>10

LEMMA DedupeFits ==
  ASSUME NEW d
  PROVE  Fits(d, Dedupe(d), {"drop"})
<1> DEFINE u == Write("drop", "other", ToDrop(d))
<1>1. u.op = "drop" /\ u.on = "other" /\ u.what = ToDrop(d)  BY DEF Write
<1>2. \A p \in ToDrop(d) : Superseded[p] \in Rows(d)  BY DEF ToDrop
<1> HIDE DEF u
<1>3. WriteFits(d, u)  BY <1>1, <1>2 DEF WriteFits
<1>4. Fits(d, <<u>>, {"drop"})
  <2>1. u.op \in {"drop"}  BY <1>1
  <2> QED BY <2>1, <1>3, FitsOne
<1>5. Fits(d, <<>>, {"drop"})  BY FitsNone
<1> QED BY <1>4, <1>5 DEF Dedupe, u

LEMMA EnrichPlans ==
  ASSUME NEW d, CorpusFiles(d)
  PROVE  Fits(d, Enrich(d), {"rewrite"}) /\ Enriching(d, Enrich(d))
<1> DEFINE o == Ordered(Rows(d))
           w == [i \in 1..Len(o) |-> Write("rewrite", o[i], Statement(d, o[i]))]
<1>1. IsSeq(o) /\ ToSet(o) = ToSet(Planned) \cap Rows(d)  BY OrderedFacts
<1>2. Len(o) \in Nat /\ DOMAIN o = 1..Len(o)  BY <1>1, SeqFacts
<1>3. Enrich(d) = w  BY <1>2 DEF Enrich
<1> HIDE DEF o
<1>4. DOMAIN w = 1..Len(o) /\ Len(w) = Len(o)  BY <1>2
<1>5. IsSeq(w)  BY <1>2, <1>4 DEF IsSeq
<1>6. \A i \in 1..Len(o) : w[i].op = "rewrite" /\ w[i].on = o[i] /\ w[i].what = Statement(d, o[i])
  BY DEF Write
<1> HIDE DEF w
<1>7. \A i \in 1..Len(o) : WriteFits(d, w[i])  BY <1>6 DEF WriteFits
<1>8. Fits(d, w, {"rewrite"})  BY <1>4, <1>5, <1>6, <1>7 DEF Fits
<1>9. \A i \in DOMAIN w : w[i].on \in Rows(d) /\ w[i].what = Statement(d, w[i].on)
  BY <1>1, <1>2, <1>4, <1>6 DEF ToSet
<1>10. ASSUME NEW id \in Rows(d)  PROVE ToDo(w, "rewrite", id)
  <2>1. id \in ToSet(o)  BY <1>1, RowsFit
  <2>2. PICK i \in 1..Len(o) : o[i] = id  BY <2>1, <1>2 DEF ToSet
  <2> QED BY <2>2, <1>4, <1>6 DEF ToDo
<1>11. Enriching(d, w)  BY <1>9, <1>10 DEF Enriching
<1> QED BY <1>3, <1>8, <1>11

-----------------------------------------------------------------------------
(* The tables of the register and of its catalog.                          *)

LEMMA FirstOfFacts ==
  ASSUME NEW numbers, NEW limit
  PROVE  FirstOf(numbers, limit) \subseteq numbers /\ FirstOf(numbers, 0) = numbers
BY DEF FirstOf

LEMMA RowDomain ==
  ASSUME NEW stmt, NEW tier, NEW status
  PROVE  DOMAIN Row(stmt, tier, status) = {"stmt", "tier", "status", "spec"}
BY DEF Row

LEMMA RowFields ==
  ASSUME NEW stmt, NEW tier, NEW status
  PROVE  /\ DOMAIN Row(stmt, tier, status) = {"stmt", "tier", "status", "spec"}
         /\ Row(stmt, tier, status).stmt = stmt /\ Row(stmt, tier, status).tier = tier
         /\ Row(stmt, tier, status).spec = FALSE
<1>1. DOMAIN Row(stmt, tier, status) = {"stmt", "tier", "status", "spec"}  BY DEF Row
<1>2. Row(stmt, tier, status).stmt = stmt /\ Row(stmt, tier, status).tier = tier  BY DEF Row
<1>3. Row(stmt, tier, status).spec = FALSE  BY DEF Row
<1> QED BY <1>1, <1>2, <1>3

LEMMA OverFacts ==
  ASSUME NEW s, NEW t, NEW fields, IsTable(s, fields), IsTable(t, fields)
  PROVE  IsTable(Over(s, t), fields)
<1> DEFINE o == Over(s, t)
<1>1. DOMAIN o = DOMAIN s \cup DOMAIN t
      /\ \A n \in DOMAIN s \cup DOMAIN t : o[n] = IF n \in DOMAIN s THEN s[n] ELSE t[n]
  BY DEF Over
<1> HIDE DEF o
<1>2. IsFiniteSet(DOMAIN s \cup DOMAIN t)  BY FS_Union DEF IsTable
<1>3. \A n \in DOMAIN o : DOMAIN o[n] = fields  BY <1>1 DEF IsTable
<1>4. DOMAIN o \subseteq Nat  BY <1>1 DEF IsTable
<1>5. IsTable(o, fields)  BY <1>1, <1>2, <1>3, <1>4 DEF IsTable
<1> QED BY <1>5 DEF o

\* Tables over a set of numbers.
LEMMA TableOver ==
  ASSUME NEW t, NEW fields, NEW N, IsFiniteSet(N), N \subseteq Nat, DOMAIN t \subseteq N,
         \A n \in DOMAIN t : DOMAIN t[n] = fields
  PROVE  IsTable(t, fields)
BY FS_Subset DEF IsTable

LEMMA FetchedTable ==
  ASSUME NEW d, NEW skip, NEW found, IsRegister(d.register)
  PROVE  IsRegister(Fetched(d, skip, found))
<1> DEFINE N == found \cap Todo(d, skip)
           s == [n \in N |-> Row(<<"page", n>>, None, "open")]
<1>1. Fetched(d, skip, found) = Over(s, d.register)  BY DEF Fetched
<1>2. N \subseteq Numbers  BY DEF Todo
<1> HIDE DEF N
<1>3. DOMAIN s = N /\ \A n \in N : DOMAIN s[n] = {"stmt", "tier", "status", "spec"}  BY RowDomain
<1> HIDE DEF s
<1>4. Numbers \subseteq Nat /\ IsFiniteSet(Numbers)  BY NumbersAssumption
<1>5. IsTable(s, {"stmt", "tier", "status", "spec"})  BY <1>2, <1>3, <1>4, TableOver
<1> QED BY <1>1, <1>5, OverFacts DEF IsRegister

LEMMA FixedRow ==
  ASSUME NEW d, NEW n, n \in DOMAIN d.register => DOMAIN d.register[n] = {"stmt", "tier", "status", "spec"}
  PROVE  DOMAIN Fixed(d, n) = {"stmt", "tier", "status", "spec"}
<1>1. CASE n \in DOMAIN d.register
  <2> DEFINE r == d.register[n]
  <2>1. Fixed(d, n) = [r EXCEPT !.stmt = <<"fix", n>>, !.status = "proved"]  BY <1>1 DEF Fixed
  <2>2. DOMAIN r = {"stmt", "tier", "status", "spec"}  BY <1>1
  <2> HIDE DEF r
  <2> QED BY <2>1, <2>2
<1>2. CASE n \notin DOMAIN d.register  BY <1>2, RowDomain DEF Fixed
<1> QED BY <1>1, <1>2

Tier1Table(d) ==
  Over([n \in Fixes |-> Fixed(d, n)], Over(d.register, [n \in NewRows |-> Row(<<"new", n>>, None, "open")]))

LEMMA Tier1IsTable ==
  ASSUME NEW d, IsRegister(d.register)
  PROVE  IsRegister(Tier1Table(d))
<1> DEFINE s == [n \in Fixes |-> Fixed(d, n)]
           t == [n \in NewRows |-> Row(<<"new", n>>, None, "open")]
           fields == {"stmt", "tier", "status", "spec"}
<1>1. DOMAIN s = Fixes /\ \A n \in Fixes : DOMAIN s[n] = fields
  <2>1. \A n \in DOMAIN d.register : DOMAIN d.register[n] = fields  BY DEF IsRegister, IsTable
  <2>2. \A n \in Fixes : DOMAIN Fixed(d, n) = fields  BY <2>1, FixedRow
  <2> QED BY <2>2
<1>2. DOMAIN t = NewRows /\ \A n \in NewRows : DOMAIN t[n] = fields  BY RowDomain
<1>3. Tier1Table(d) = Over(s, Over(d.register, t))  BY DEF Tier1Table
<1> HIDE DEF s, t, fields
<1>4. Fixes \subseteq Nat /\ IsFiniteSet(Fixes) /\ NewRows \subseteq Nat /\ IsFiniteSet(NewRows)
  BY NumbersAssumption
<1>5. IsTable(s, fields) /\ IsTable(t, fields)  BY <1>1, <1>2, <1>4, TableOver
<1>6. IsTable(d.register, fields)  BY DEF IsRegister, fields
<1>7. IsTable(Over(s, Over(d.register, t)), fields)  BY <1>5, <1>6, OverFacts
<1> QED BY <1>3, <1>7 DEF IsRegister, fields

OverlaidTable(d) ==
  [n \in DOMAIN d.register |-> IF n \in DOMAIN Overlays THEN Merged(d.register[n], Overlays[n]) ELSE d.register[n]]

LEMMA MergedRow ==
  ASSUME NEW row, NEW overlay, DOMAIN row = {"stmt", "tier", "status", "spec"}
  PROVE  /\ DOMAIN Merged(row, overlay) = {"stmt", "tier", "status", "spec"}
         /\ Merged(row, overlay).spec = row.spec
         /\ row.tier = "polished" => Merged(row, overlay).stmt = row.stmt /\ Merged(row, overlay).tier = "polished"
         /\ row.tier # "polished" =>
              Merged(row, overlay).stmt = IF overlay.stmt = None THEN row.stmt ELSE overlay.stmt
<1> DEFINE stmt == IF overlay.stmt = None THEN row.stmt ELSE overlay.stmt
           m == [row EXCEPT !.tier = overlay.tier, !.stmt = stmt]
<1>1. Merged(row, overlay) = IF row.tier = "polished" THEN row ELSE m  BY DEF Merged
<1>2. DOMAIN m = DOMAIN row /\ m.stmt = stmt  OBVIOUS
<1>3. m.spec = row.spec  OBVIOUS
<1> HIDE DEF m
<1>4. CASE row.tier = "polished"  BY <1>1, <1>4
<1>5. CASE row.tier # "polished"  
  <2>1. Merged(row, overlay) = m  BY <1>1, <1>5
  <2> QED BY <2>1, <1>2, <1>3, <1>5
<1> QED BY <1>4, <1>5

LEMMA OverlaidIsTable ==
  ASSUME NEW d, IsRegister(d.register)
  PROVE  IsRegister(OverlaidTable(d))
<1> DEFINE r == d.register
           t == OverlaidTable(d)
           fields == {"stmt", "tier", "status", "spec"}
<1>1. DOMAIN r \subseteq Nat /\ IsFiniteSet(DOMAIN r) /\ \A n \in DOMAIN r : DOMAIN r[n] = fields
  BY DEF IsRegister, IsTable
<1>2. DOMAIN t = DOMAIN r
      /\ \A n \in DOMAIN r : t[n] = IF n \in DOMAIN Overlays THEN Merged(r[n], Overlays[n]) ELSE r[n]
  BY DEF OverlaidTable
<1> HIDE DEF r, t
<1>3. ASSUME NEW n \in DOMAIN t  PROVE DOMAIN t[n] = fields
  <2>1. DOMAIN r[n] = fields  BY <1>1, <1>2
  <2>2. DOMAIN Merged(r[n], Overlays[n]) = fields  BY <2>1, MergedRow
  <2> QED BY <2>1, <2>2, <1>2
<1>4. IsTable(t, fields)  BY <1>1, <1>2, <1>3, TableOver
<1> QED BY <1>4 DEF IsRegister, t

LEMMA LinkedTable ==
  ASSUME NEW d, NEW numbers, IsRegister(d.register)
  PROVE  /\ IsRegister(Linked(d, numbers)) /\ DOMAIN Linked(d, numbers) = DOMAIN d.register
         /\ \A n \in DOMAIN d.register :
              /\ Linked(d, numbers)[n].stmt = d.register[n].stmt /\ Linked(d, numbers)[n].tier = d.register[n].tier
              /\ n \in numbers => Linked(d, numbers)[n].spec = TRUE
              /\ n \notin numbers => Linked(d, numbers)[n].spec = d.register[n].spec
<1> DEFINE r == d.register
           t == Linked(d, numbers)
           fields == {"stmt", "tier", "status", "spec"}
           m(row) == [row EXCEPT !.spec = TRUE]
<1>1. DOMAIN r \subseteq Nat /\ IsFiniteSet(DOMAIN r) /\ \A n \in DOMAIN r : DOMAIN r[n] = fields
  BY DEF IsRegister, IsTable
<1>2. DOMAIN t = DOMAIN r /\ \A n \in DOMAIN r : t[n] = IF n \in numbers THEN m(r[n]) ELSE r[n]
  BY DEF Linked
<1>3. ASSUME NEW row, DOMAIN row = fields
      PROVE  DOMAIN m(row) = fields /\ m(row).stmt = row.stmt /\ m(row).tier = row.tier /\ m(row).spec = TRUE
  <2>1. DOMAIN m(row) = fields  BY <1>3
  <2>2. m(row).stmt = row.stmt /\ m(row).tier = row.tier  BY <1>3
  <2>3. m(row).spec = TRUE  BY <1>3
  <2> QED BY <2>1, <2>2, <2>3
<1> HIDE DEF r, t, m, fields
<1>4. ASSUME NEW n \in DOMAIN r
      PROVE  /\ DOMAIN t[n] = fields /\ t[n].stmt = r[n].stmt /\ t[n].tier = r[n].tier
             /\ n \in numbers => t[n].spec = TRUE
             /\ n \notin numbers => t[n].spec = r[n].spec
  <2>1. CASE n \in numbers
    <3>1. t[n] = m(r[n])  BY <2>1, <1>2
    <3> QED BY <2>1, <3>1, <1>1, <1>3
  <2>2. CASE n \notin numbers
    <3>1. t[n] = r[n]  BY <2>2, <1>2
    <3> QED BY <2>2, <3>1, <1>1
  <2> QED BY <2>1, <2>2
<1>5. IsTable(t, fields)  BY <1>1, <1>2, <1>4, TableOver
<1>6. IsRegister(t)  BY <1>5 DEF IsRegister, fields
<1> QED BY <1>2, <1>4, <1>6 DEF r, t

LEMMA EntryFields ==
  ASSUME NEW row
  PROVE  DOMAIN Entry(row) = {"stmt", "status", "spec"} /\ Entry(row).spec = row.spec /\ Entry(row).stmt = row.stmt
<1>1. DOMAIN Entry(row) = {"stmt", "status", "spec"}  BY DEF Entry
<1>2. Entry(row).spec = row.spec  BY DEF Entry
<1>3. Entry(row).stmt = row.stmt  BY DEF Entry
<1> QED BY <1>1, <1>2, <1>3

Batch(d, limit) == [n \in FirstOf(DOMAIN d.register, limit) |-> Entry(d.register[n])]
Synced(d, limit, merge) == IF merge THEN Over(Batch(d, limit), d.catalog) ELSE Batch(d, limit)

LEMMA SyncedTable ==
  ASSUME NEW d, NEW limit, NEW merge \in BOOLEAN, IsRegister(d.register), IsCatalog(d.catalog)
  PROVE  IsCatalog(Synced(d, limit, merge))
<1> DEFINE b == Batch(d, limit)
           fields == {"stmt", "status", "spec"}
<1>1. DOMAIN b = FirstOf(DOMAIN d.register, limit) /\ \A n \in DOMAIN b : DOMAIN b[n] = fields
  BY EntryFields DEF Batch
<1>2. DOMAIN d.register \subseteq Nat /\ IsFiniteSet(DOMAIN d.register)  BY DEF IsRegister, IsTable
<1>3. DOMAIN b \subseteq DOMAIN d.register  BY <1>1, FirstOfFacts
<1> HIDE DEF b, fields
<1>4. IsTable(b, fields)  BY <1>1, <1>2, <1>3, TableOver
<1>5. IsTable(d.catalog, fields)  BY DEF IsCatalog, fields
<1>6. IsTable(Over(b, d.catalog), fields)  BY <1>4, <1>5, OverFacts
<1>7. Synced(d, limit, merge) = Over(b, d.catalog) \/ Synced(d, limit, merge) = b  BY DEF Synced, b
<1> QED BY <1>4, <1>6, <1>7 DEF IsCatalog, fields

RelinkedTable(d, numbers) ==
  [n \in DOMAIN d.catalog |-> IF n \in numbers THEN [d.catalog[n] EXCEPT !.spec = TRUE] ELSE d.catalog[n]]

LEMMA RelinkedIsTable ==
  ASSUME NEW d, NEW numbers, IsCatalog(d.catalog)
  PROVE  /\ IsCatalog(RelinkedTable(d, numbers)) /\ DOMAIN RelinkedTable(d, numbers) = DOMAIN d.catalog
         /\ \A n \in DOMAIN d.catalog : n \notin numbers => RelinkedTable(d, numbers)[n] = d.catalog[n]
<1> DEFINE c == d.catalog
           t == RelinkedTable(d, numbers)
           fields == {"stmt", "status", "spec"}
           m(row) == [row EXCEPT !.spec = TRUE]
<1>1. DOMAIN c \subseteq Nat /\ IsFiniteSet(DOMAIN c) /\ \A n \in DOMAIN c : DOMAIN c[n] = fields
  BY DEF IsCatalog, IsTable
<1>2. DOMAIN t = DOMAIN c /\ \A n \in DOMAIN c : t[n] = IF n \in numbers THEN m(c[n]) ELSE c[n]
  BY DEF RelinkedTable
<1>3. \A row : DOMAIN m(row) = DOMAIN row  OBVIOUS
<1> HIDE DEF c, t, m, fields
<1>4. \A n \in DOMAIN t : DOMAIN t[n] = fields  BY <1>1, <1>2, <1>3
<1>5. IsTable(t, fields)  BY <1>1, <1>2, <1>4, TableOver
<1>6. IsCatalog(t)  BY <1>5 DEF IsCatalog, fields
<1> QED BY <1>2, <1>6 DEF c, t

LEMMA WriteFields ==
  ASSUME NEW op, NEW on, NEW what
  PROVE  Write(op, on, what).op = op /\ Write(op, on, what).on = on /\ Write(op, on, what).what = what
BY DEF Write

LEMMA OneWrite ==
  ASSUME NEW op, NEW on, NEW what, NEW w, w = <<Write(op, on, what)>>
  PROVE  /\ IsSeq(w) /\ Len(w) = 1 /\ DOMAIN w = 1..1 /\ w # <<>> /\ 1 \in DOMAIN w
         /\ \A i \in DOMAIN w : w[i].op = op /\ w[i].on = on /\ w[i].what = what
<1> DEFINE u == Write(op, on, what)
<1>1. u.op = op /\ u.on = on /\ u.what = what  BY WriteFields
<1> HIDE DEF u
<1>2. IsSeq(w) /\ Len(w) = 1 /\ DOMAIN w = 1..1 /\ \A i \in DOMAIN w : w[i] = u
  <2>1. w = <<u>>  BY DEF u
  <2> QED BY <2>1, OneFacts
<1>3. w # <<>>
  <2>1. 1 \in DOMAIN w  BY <1>2
  <2> QED BY <2>1, EmptyFacts
<1> QED BY <1>1, <1>2, <1>3

LEMMA TwoFacts ==
  ASSUME NEW a, NEW b, NEW w, w = <<a, b>>
  PROVE  IsSeq(w) /\ Len(w) = 2 /\ DOMAIN w = 1..2 /\ w[1] = a /\ w[2] = b
<1>1. w \in Seq({a, b}) /\ Len(w) = 2  OBVIOUS
<1>2. IsSeq(w)  BY <1>1, SeqIsSeq
<1>3. DOMAIN w = 1..2  BY <1>1
<1>4. w[1] = a /\ w[2] = b  OBVIOUS
<1> QED BY <1>1, <1>2, <1>3, <1>4

SpecimensSteps(d, w, chosen, n) ==
  /\ IsSeq(w) /\ Len(w) = n + 2 /\ DOMAIN w = 1..(n + 2)
  /\ \A i \in 1..n : w[i].op = "sheet" /\ w[i].on \in chosen /\ w[i].what = Rendered(d, w[i].on)
  /\ \A x \in chosen : \E i \in 1..n : w[i].on = x
  /\ w[n + 1].op = "register" /\ w[n + 1].what = Linked(d, chosen)
  /\ w[n + 2].op = "relink" /\ w[n + 2].what = DOMAIN d.register

\* The tool writes the specimens of the problems it takes, then the register,
\* and then the catalog.
LEMMA SpecimensPlan ==
  ASSUME NEW d, NEW limit, IsRegister(d.register)
  PROVE  \E n \in Nat : SpecimensSteps(d, Specimens(d, limit), FirstOf(DOMAIN d.register, limit), n)
<1> DEFINE w == Specimens(d, limit)
           chosen == FirstOf(DOMAIN d.register, limit)
           o == Ascending(chosen)
           n == Cardinality(chosen)
           s == [i \in 1..n |-> Write("sheet", o[i], Rendered(d, o[i]))]
           a == Write("register", None, Linked(d, chosen))
           b == Write("relink", "catalog", DOMAIN d.register)
           t == <<a, b>>
<1>1. chosen \subseteq Nat /\ IsFiniteSet(chosen)
  <2>1. DOMAIN d.register \subseteq Nat /\ IsFiniteSet(DOMAIN d.register)  BY DEF IsRegister, IsTable
  <2>2. chosen \subseteq DOMAIN d.register  BY FirstOfFacts
  <2> QED BY <2>1, <2>2, FS_Subset
<1>2. /\ n \in Nat /\ DOMAIN o = 1..n
      /\ \A k \in 1..n : o[k] \in chosen
      /\ \A x \in chosen : \E k \in 1..n : o[k] = x
  BY <1>1, AscendingOnto
<1>3. w = s \o t  BY <1>2 DEF Specimens
<1>4. DOMAIN s = 1..n /\ Len(s) = n  BY <1>2
<1>5. IsSeq(s)  BY <1>2, <1>4 DEF IsSeq
<1> HIDE DEF o, n, w, chosen
<1>6. \A i \in 1..n : s[i].op = "sheet" /\ s[i].on = o[i] /\ s[i].what = Rendered(d, o[i])  BY WriteFields
<1>7. a.op = "register" /\ a.what = Linked(d, chosen) /\ b.op = "relink" /\ b.what = DOMAIN d.register
  BY WriteFields
<1> HIDE DEF s, a, b
<1>8. IsSeq(t) /\ Len(t) = 2 /\ DOMAIN t = 1..2 /\ t[1] = a /\ t[2] = b  BY TwoFacts
<1> HIDE DEF t
<1>9. /\ IsSeq(w) /\ Len(w) = n + 2
      /\ \A i \in 1..n : w[i] = s[i]
      /\ \A i \in 1..2 : w[n + i] = t[i]
  <2>0. IsSeq(t)  BY <1>8
  <2>1. /\ IsSeq(s \o t) /\ Len(s \o t) = Len(s) + Len(t)
        /\ \A i \in DOMAIN s : i \in DOMAIN (s \o t) /\ (s \o t)[i] = s[i]
        /\ \A i \in DOMAIN t : Len(s) + i \in DOMAIN (s \o t) /\ (s \o t)[Len(s) + i] = t[i]
        /\ \A k \in DOMAIN (s \o t) :
             \/ k \in DOMAIN s /\ (s \o t)[k] = s[k]
             \/ k > Len(s) /\ k - Len(s) \in DOMAIN t /\ (s \o t)[k] = t[k - Len(s)]
    BY <1>5, <2>0, JoinFacts
  <2>2. Len(s) + Len(t) = n + 2  BY <1>4, <1>8
  <2> QED BY <2>1, <2>2, <1>3, <1>4, <1>8
<1>10. DOMAIN w = 1..(n + 2)  BY <1>9, SeqFacts
<1>11. w[n + 1] = a /\ w[n + 2] = b  BY <1>8, <1>9
<1>12. \A i \in 1..n : w[i].op = "sheet" /\ w[i].on = o[i] /\ w[i].what = Rendered(d, o[i])  BY <1>6, <1>9
<1>13. \A i \in 1..n : w[i].on \in chosen /\ w[i].what = Rendered(d, w[i].on)  BY <1>2, <1>12
<1>14. \A x \in chosen : \E i \in 1..n : w[i].on = x  BY <1>2, <1>12
<1>15. SpecimensSteps(d, w, chosen, n)
  BY <1>7, <1>9, <1>10, <1>11, <1>12, <1>13, <1>14 DEF SpecimensSteps
<1> QED BY <1>2, <1>15 DEF w, chosen

-----------------------------------------------------------------------------
(* What a tool of the register plans to write.                             *)

LEMMA RegisterPlans ==
  ASSUME NEW d, IsRegister(d.register)
  PROVE  /\ \A skip, found :
              Fetch(d, skip, found) \in {<<>>, <<Write("register", None, Fetched(d, skip, found))>>}
         /\ Tier1(d) = <<Write("register", None, Tier1Table(d))>>
         /\ ApplyOverlays(d) = <<Write("register", None, OverlaidTable(d))>>
         /\ \A limit, merge : Sync(d, limit, merge) = <<Write("catalog", "catalog", Synced(d, limit, merge))>>
<1>1. \A skip, found : Fetch(d, skip, found) \in {<<>>, <<Write("register", None, Fetched(d, skip, found))>>}
  BY DEF Fetch
<1>2. Tier1(d) = <<Write("register", None, Tier1Table(d))>>  BY DEF Tier1, Tier1Table
<1>3. ApplyOverlays(d) = <<Write("register", None, OverlaidTable(d))>>  BY DEF ApplyOverlays, OverlaidTable
<1>4. \A limit, merge : Sync(d, limit, merge) = <<Write("catalog", "catalog", Synced(d, limit, merge))>>
  BY DEF Sync, Synced, Batch
<1> QED BY <1>1, <1>2, <1>3, <1>4

LEMMA FitsRegister ==
  ASSUME NEW d, NEW w, IsSeq(w), NEW ops, ops \subseteq {"register", "sheet", "relink", "catalog"},
         \A i \in DOMAIN w : w[i].op \in ops
  PROVE  Fits(d, w, ops)
<1>1. ASSUME NEW i \in DOMAIN w  PROVE WriteFits(d, w[i])
  BY DEF WriteFits
<1> QED BY <1>1 DEF Fits

LEMMA OneRegister ==
  ASSUME NEW d, NEW what, NEW tool \in {"fetch", "tier1", "overlays"}, IsRegister(what)
  PROVE  Planning(d, tool, <<Write("register", None, what)>>)
<1> DEFINE w == <<Write("register", None, what)>>
<1>1. IsSeq(w) /\ \A i \in DOMAIN w : w[i].op = "register" /\ w[i].what = what  BY OneWrite
<1> HIDE DEF w
<1>2. Fits(d, w, {"register"})  BY <1>1, FitsRegister
<1>3. CorpusWrites(d, w)  BY <1>2, FitsWrites
<1>4. TableWrites(w)  BY <1>1 DEF TableWrites
<1>5. tool \notin {"destub-basic", "de-stub-catalog", "enrich"} /\ "register" \in OpsOf(tool)  BY DEF OpsOf
<1>6. Planning(d, tool, w)  BY <1>1, <1>3, <1>4, <1>5 DEF Planning
<1> QED BY <1>6 DEF w

LEMMA OneCatalog ==
  ASSUME NEW d, NEW what, NEW tool \in {"sync", "sync --limit", "sync --merge"}, IsCatalog(what)
  PROVE  Planning(d, tool, <<Write("catalog", "catalog", what)>>)
<1> DEFINE u == Write("catalog", "catalog", what)
           w == <<u>>
<1>0. u.op = "catalog" /\ u.what = what  BY DEF Write
<1> HIDE DEF u
<1>1. IsSeq(w) /\ \A i \in DOMAIN w : w[i].op = "catalog" /\ w[i].what = what  BY <1>0, OneFacts
<1> HIDE DEF w
<1>2. Fits(d, w, {"catalog"})  BY <1>1, FitsRegister
<1>3. CorpusWrites(d, w)  BY <1>2, FitsWrites
<1>4. TableWrites(w)  BY <1>1 DEF TableWrites
<1>5. tool \notin {"destub-basic", "de-stub-catalog", "enrich"} /\ "catalog" \in OpsOf(tool)  BY DEF OpsOf
<1>6. Planning(d, tool, w)  BY <1>1, <1>3, <1>4, <1>5 DEF Planning
<1> QED BY <1>6 DEF w, u

LEMMA NoTable ==
  ASSUME NEW d, NEW tool, tool \in ErdosTools
  PROVE  Planning(d, tool, <<>>)
<1> DEFINE w == <<>>
<1>1. IsSeq(w) /\ DOMAIN w = {}  BY EmptyFacts
<1> HIDE DEF w
<1>2. tool \notin {"destub-basic", "de-stub-catalog", "enrich"}  BY DEF ErdosTools
<1>3. Planning(d, tool, w)  BY <1>1, <1>2 DEF Planning, TableWrites, CorpusWrites
<1> QED BY <1>3 DEF w

LEMMA LastTwo ==
  ASSUME NEW n \in Nat
  PROVE  \A i \in 1..(n + 2) : i \in 1..n \/ i = n + 1 \/ i = n + 2
OBVIOUS

LEMMA SpecimensPlanned ==
  ASSUME NEW d, NEW limit, IsRegister(d.register), NEW tool \in {"specimens", "specimens --limit"}
  PROVE  Planning(d, tool, Specimens(d, limit))
<1> DEFINE w == Specimens(d, limit)
           chosen == FirstOf(DOMAIN d.register, limit)
<1>0. PICK n \in Nat : SpecimensSteps(d, w, chosen, n)  BY SpecimensPlan
<1>2. IsRegister(Linked(d, chosen))  BY LinkedTable
<1> HIDE DEF w, chosen
<1>1. /\ IsSeq(w) /\ DOMAIN w = 1..(n + 2)
      /\ \A i \in 1..n : w[i].op = "sheet"
      /\ w[n + 1].op = "register" /\ w[n + 1].what = Linked(d, chosen)
      /\ w[n + 2].op = "relink"
  BY <1>0 DEF SpecimensSteps
<1>3. \A i \in DOMAIN w : i \in 1..n \/ i = n + 1 \/ i = n + 2
  <2>1. n \in Nat  BY <1>0
  <2>2. \A i \in 1..(n + 2) : i \in 1..n \/ i = n + 1 \/ i = n + 2  BY <2>1, LastTwo
  <2> QED BY <2>2, <1>1
<1>4. \A i \in DOMAIN w : w[i].op \in {"sheet", "register", "relink"}  BY <1>1, <1>3
<1>5. \A i \in DOMAIN w : w[i].op = "register" => w[i].what = Linked(d, chosen)  BY <1>1, <1>3
<1>6. TableWrites(w)  BY <1>2, <1>4, <1>5 DEF TableWrites
<1>7. Fits(d, w, {"sheet", "register", "relink"})  BY <1>1, <1>4, FitsRegister
<1>8. CorpusWrites(d, w)  BY <1>7, FitsWrites
<1>9. OpsOf(tool) = {"sheet", "register", "relink"}  BY DEF OpsOf
<1>10. tool \notin {"destub-basic", "de-stub-catalog", "enrich"}  OBVIOUS
<1>11. Planning(d, tool, w)  BY <1>1, <1>4, <1>6, <1>8, <1>9, <1>10 DEF Planning
<1> QED BY <1>11 DEF w

LEMMA ErdosToolPlans ==
  ASSUME NEW d, IsRegister(d.register), IsCatalog(d.catalog)
  PROVE  /\ \A skip, found : Planning(d, "fetch", Fetch(d, skip, found))
         /\ Planning(d, "tier1", Tier1(d))
         /\ Planning(d, "overlays", ApplyOverlays(d))
         /\ \A limit : Planning(d, "specimens", Specimens(d, limit)) /\ Planning(d, "specimens --limit", Specimens(d, limit))
         /\ \A tool \in {"sync", "sync --limit", "sync --merge"} : \A limit : \A merge \in BOOLEAN :
              Planning(d, tool, Sync(d, limit, merge))
<1>1. ASSUME NEW skip, NEW found  PROVE Planning(d, "fetch", Fetch(d, skip, found))
  <2> DEFINE r == Fetched(d, skip, found)
  <2>1. IsRegister(r)  BY FetchedTable
  <2>2. "fetch" \in ErdosTools  BY DEF ErdosTools
  <2> HIDE DEF r
  <2>3. Planning(d, "fetch", <<Write("register", None, r)>>)  BY <2>1, OneRegister
  <2>4. Planning(d, "fetch", <<>>)  BY <2>2, NoTable
  <2>5. Fetch(d, skip, found) \in {<<>>, <<Write("register", None, r)>>}  BY RegisterPlans DEF r
  <2> QED BY <2>3, <2>4, <2>5
<1>2. Planning(d, "tier1", Tier1(d))
  <2>1. IsRegister(Tier1Table(d))  BY Tier1IsTable
  <2>3. Tier1(d) = <<Write("register", None, Tier1Table(d))>>  BY RegisterPlans
  <2>4. Planning(d, "tier1", <<Write("register", None, Tier1Table(d))>>)  BY <2>1, OneRegister
  <2> QED BY <2>3, <2>4
<1>3. Planning(d, "overlays", ApplyOverlays(d))
  <2>1. IsRegister(OverlaidTable(d))  BY OverlaidIsTable
  <2>3. ApplyOverlays(d) = <<Write("register", None, OverlaidTable(d))>>  BY RegisterPlans
  <2>4. Planning(d, "overlays", <<Write("register", None, OverlaidTable(d))>>)  BY <2>1, OneRegister
  <2> QED BY <2>3, <2>4
<1>4. ASSUME NEW limit
      PROVE  Planning(d, "specimens", Specimens(d, limit)) /\ Planning(d, "specimens --limit", Specimens(d, limit))
  BY SpecimensPlanned
<1>5. ASSUME NEW tool \in {"sync", "sync --limit", "sync --merge"}, NEW limit, NEW merge \in BOOLEAN
      PROVE  Planning(d, tool, Sync(d, limit, merge))
  <2>1. IsCatalog(Synced(d, limit, merge))  BY SyncedTable
  <2>3. Sync(d, limit, merge) = <<Write("catalog", "catalog", Synced(d, limit, merge))>>  BY RegisterPlans
  <2>4. Planning(d, tool, <<Write("catalog", "catalog", Synced(d, limit, merge))>>)  BY <2>1, OneCatalog
  <2> QED BY <2>3, <2>4
<1> QED BY <1>1, <1>2, <1>3, <1>4, <1>5

-----------------------------------------------------------------------------
(* The files of the register, write by write.                              *)

CorpusOps == {"manifest", "specimen", "append", "drop", "patch", "patchPlan", "repatch", "header", "rewrite",
              "migrate"}
ErdosOps == {"heading", "register", "sheet", "relink", "catalog"}

LEMMA OpsOfTools ==
  ASSUME NEW tool
  PROVE  OpsOf(tool) \subseteq CorpusOps \cup ErdosOps
BY DEF OpsOf, CorpusOps, ErdosOps

LEMMA DoneSameErdos ==
  ASSUME NEW d, NEW w, HasFiles(d), WriteFits(d, w), w.op \in CorpusOps
  PROVE  SameErdos(d, Done(d, w))
<1> DEFINE e == Done(d, w)
<1>0. "other" \in ToSet(Catalogs) /\ ToSet(Fields) \subseteq ToSet(Catalogs)  BY FieldsFacts
<1>1. CASE w.op \in {"manifest", "patchPlan"}  BY <1>1, DoneManifest
<1>2. CASE w.op = "specimen"  BY <1>2, DoneSpecimen
<1>3. CASE w.op = "append"
  <2>1. w.on \in ToSet(Planned)  BY <1>3 DEF WriteFits
  <2>2. FieldOf(w.on) \in ToSet(Catalogs)  BY <2>1, FieldsFacts, <1>0
  <2>3. \E t : e = WithEntries(d, FieldOf(w.on), t)  BY <1>3, DoneEntries
  <2> HIDE DEF e
  <2> QED BY <2>2, <2>3, EntriesWrite DEF e
<1>4. CASE w.op = "drop"
  <2>1. \E t : e = WithEntries(d, "other", t)  BY <1>4, DoneEntries
  <2> HIDE DEF e
  <2> QED BY <2>1, <1>0, EntriesWrite DEF e
<1>5. CASE w.op \in {"patch", "repatch"}
  <2>1. w.on \in ToSet(Catalogs)  BY <1>5 DEF WriteFits
  <2>2. \E t : e = WithEntries(d, w.on, t)
    <3>1. CASE w.op = "patch"  BY <3>1, DoneEntries
    <3>2. CASE w.op = "repatch"  BY <3>2, DoneEntries
    <3> QED BY <1>5, <3>1, <3>2
  <2> HIDE DEF e
  <2> QED BY <2>1, <2>2, EntriesWrite DEF e
<1>6. CASE w.op \in {"header", "rewrite", "migrate"}
  <2>1. e = d \/ \E t : e = WithSpecimens(d, t)
    <3>1. CASE w.op = "header"  BY <3>1, DoneSpecimens
    <3>2. CASE w.op = "rewrite"  BY <3>2, DoneSpecimens
    <3>3. CASE w.op = "migrate"  BY <3>3, DoneSpecimens
    <3> QED BY <1>6, <3>1, <3>2, <3>3
  <2> HIDE DEF e
  <2>2. SameErdos(d, d)  BY DEF SameErdos
  <2> QED BY <2>1, <2>2, SpecimensWrite DEF e
<1> QED BY <1>1, <1>2, <1>3, <1>4, <1>5, <1>6 DEF CorpusOps

LEMMA EmptiedSameErdos ==
  ASSUME NEW d, NEW w, HasFiles(d), WriteFits(d, w), w.op \in CorpusOps, w.op # "append"
  PROVE  SameErdos(d, Emptied(d, w))
<1> DEFINE e == Emptied(d, w)
<1>1. CASE w.op \in {"drop", "patch", "repatch"}
  <2>1. w.on \in ToSet(Catalogs)  BY <1>1, FieldsFacts DEF WriteFits
  <2>2. \E t : e = WithEntries(d, w.on, t)  BY <1>1, EmptiedFiles
  <2> HIDE DEF e
  <2> QED BY <2>1, <2>2, EntriesWrite DEF e
<1>2. CASE w.op \in {"manifest", "patchPlan"}
  <2>1. \E t : e = WithManifests(d, t)  BY <1>2, EmptiedFiles
  <2> HIDE DEF e
  <2> QED BY <2>1 DEF e, WithManifests, HasFiles, SameErdos
<1>3. CASE w.op \in {"specimen", "header", "rewrite", "migrate"}
  <2>1. \E t : e = WithSpecimens(d, t)  BY <1>3, EmptiedFiles
  <2> HIDE DEF e
  <2> QED BY <2>1, SpecimensWrite DEF e
<1> QED BY <1>1, <1>2, <1>3 DEF CorpusOps

LEMMA SameTables ==
  ASSUME NEW d, NEW e, ErdosFiles(d), SameErdos(d, e)
  PROVE  ErdosFiles(e)
BY DEF ErdosFiles, SameErdos

SheetTable(t) == \A n \in DOMAIN t : DOMAIN t[n] = {"head"}

\* What each write leaves of the three files.
LEMMA DoneRegister ==
  ASSUME NEW d, NEW w, HasFiles(d), w.op = "register", NEW e, e = Done(d, w)
  PROVE  e.register = w.what /\ e.catalog = d.catalog /\ e.sheets = d.sheets
<1>1. e = WithRegister(d, w.what)  BY DoneErdos
<1> QED BY <1>1, RegisterWrite

LEMMA DoneCatalog ==
  ASSUME NEW d, NEW w, HasFiles(d), w.op = "catalog", NEW e, e = Done(d, w)
  PROVE  e.register = d.register /\ e.catalog = w.what /\ e.sheets = d.sheets
<1>1. e = WithCatalog(d, w.what)  BY DoneErdos
<1> QED BY <1>1, CatalogWrite

LEMMA DoneRelink ==
  ASSUME NEW d, NEW w, HasFiles(d), w.op = "relink", NEW e, e = Done(d, w)
  PROVE  e.register = d.register /\ e.catalog = RelinkedTable(d, w.what) /\ e.sheets = d.sheets
<1>1. e = WithCatalog(d, RelinkedTable(d, w.what))  BY DoneErdos DEF RelinkedTable
<1> QED BY <1>1, CatalogWrite

LEMMA DoneSheet ==
  ASSUME NEW d, NEW w, HasFiles(d), ErdosFiles(d), w.op = "sheet", NEW e, e = Done(d, w)
  PROVE  /\ e.register = d.register /\ e.catalog = d.catalog
         /\ SheetTable(e.sheets) /\ DOMAIN e.sheets = {w.on} \cup DOMAIN d.sheets
         /\ e.sheets[w.on].head = w.what
         /\ \A m \in DOMAIN d.sheets : m # w.on => e.sheets[m] = d.sheets[m]
<1> DEFINE r == [head |-> w.what]
           t == d.sheets
           n == w.on
           p == Put(t, n, r)
<1>1. e = WithSheets(d, p)  BY DoneErdos
<1>2. SheetTable(t)  BY DEF ErdosFiles, SheetTable
<1>3. DOMAIN r = {"head"} /\ r.head = w.what  OBVIOUS
<1> HIDE DEF r, t, n
<1>5. DOMAIN p = {n} \cup DOMAIN t /\ \A m \in DOMAIN p : p[m] = IF m = n THEN r ELSE t[m]  BY DEF Put
<1> HIDE DEF p
<1>6. SheetTable(p)  BY <1>2, <1>3, <1>5 DEF SheetTable
<1>7. p[n].head = w.what  BY <1>3, <1>5
<1>8. \A m \in DOMAIN t : m # n => p[m] = t[m]  BY <1>5
<1>4. e.register = d.register /\ e.catalog = d.catalog /\ e.sheets = p  BY <1>1, SheetsWrite
<1> QED BY <1>4, <1>5, <1>6, <1>7, <1>8 DEF t, n

LEMMA DoneHeading ==
  ASSUME NEW d, NEW w, HasFiles(d), ErdosFiles(d), w.op = "heading", NEW e, e = Done(d, w)
  PROVE  /\ e.register = d.register /\ e.catalog = d.catalog
         /\ SheetTable(e.sheets) /\ DOMAIN e.sheets = DOMAIN d.sheets
         /\ \A m \in DOMAIN d.sheets :
              \/ e.sheets[m] = d.sheets[m]
              \/ m \in DOMAIN d.catalog /\ d.sheets[m].head # None /\ e.sheets[m].head = InHeader(d.catalog[m].stmt)
<1> DEFINE on == w.on
           h == Headed(d.sheets[on], InHeader(d.catalog[on].stmt))
           t == [d.sheets EXCEPT ![on] = h]
<1>1. e = IF on \in DOMAIN d.catalog \cap DOMAIN d.sheets /\ d.catalog[on].spec THEN WithSheets(d, t) ELSE d
  BY DoneErdos
<1>2. \A n \in DOMAIN d.sheets : DOMAIN d.sheets[n] = {"head"}  BY DEF ErdosFiles
<1>3. DOMAIN t = DOMAIN d.sheets /\ (on \in DOMAIN t => t[on] = h)
      /\ \A m \in DOMAIN d.sheets : m # on => t[m] = d.sheets[m]
  OBVIOUS
<1>4. ASSUME on \in DOMAIN d.sheets
      PROVE  /\ DOMAIN h = {"head"}
             /\ d.sheets[on].head = None => h = d.sheets[on]
             /\ d.sheets[on].head # None => h.head = InHeader(d.catalog[on].stmt)
  <2> DEFINE s == d.sheets[on]
             stmt == InHeader(d.catalog[on].stmt)
  <2>1. DOMAIN s = {"head"} /\ "head" \in DOMAIN s  BY <1>2, <1>4
  <2> HIDE DEF s, stmt
  <2>2. DOMAIN Headed(s, stmt) = {"head"}  BY <2>1, HeadedSheet
  <2>3. s.head # None => Headed(s, stmt).head = stmt  BY <2>1, HeadedSheet
  <2>4. s.head = None => Headed(s, stmt) = s  BY DEF Headed
  <2> QED BY <2>2, <2>3, <2>4 DEF s, stmt
<1> HIDE DEF h, t
<1>5. CASE on \in DOMAIN d.catalog \cap DOMAIN d.sheets /\ d.catalog[on].spec
  <2>1. e = WithSheets(d, t)  BY <1>1, <1>5
  <2>2. e.register = d.register /\ e.catalog = d.catalog /\ e.sheets = t  BY <2>1, SheetsWrite
  <2>3. SheetTable(t)  BY <1>2, <1>3, <1>4 DEF SheetTable
  <2>4. \A m \in DOMAIN d.sheets :
          \/ t[m] = d.sheets[m]
          \/ m \in DOMAIN d.catalog /\ d.sheets[m].head # None /\ t[m].head = InHeader(d.catalog[m].stmt)
    <3>1. on \in DOMAIN d.catalog /\ on \in DOMAIN d.sheets  BY <1>5
    <3> QED BY <3>1, <1>3, <1>4
  <2> QED BY <2>2, <2>3, <2>4, <1>3
<1>6. CASE ~(on \in DOMAIN d.catalog \cap DOMAIN d.sheets /\ d.catalog[on].spec)
  <2>1. e = d  BY <1>1, <1>6
  <2>2. SheetTable(d.sheets)  BY <1>2 DEF SheetTable
  <2> QED BY <2>1, <2>2
<1> QED BY <1>5, <1>6

LEMMA DoneTables ==
  ASSUME NEW d, NEW w, HasFiles(d), ErdosFiles(d), WriteFits(d, w), w.op \in CorpusOps \cup ErdosOps,
         w.op = "register" => IsRegister(w.what), w.op = "catalog" => IsCatalog(w.what)
  PROVE  ErdosFiles(Done(d, w))
<1> DEFINE e == Done(d, w)
<1>0. SheetTable(d.sheets)  BY DEF ErdosFiles, SheetTable
<1>1. CASE w.op \in CorpusOps  BY <1>1, DoneSameErdos, SameTables
<1>2. CASE w.op = "register"
  <2>1. e.register = w.what /\ e.catalog = d.catalog /\ e.sheets = d.sheets  BY <1>2, DoneRegister
  <2> HIDE DEF e
  <2> QED BY <2>1, <1>2 DEF ErdosFiles, e
<1>3. CASE w.op = "catalog"
  <2>1. e.register = d.register /\ e.catalog = w.what /\ e.sheets = d.sheets  BY <1>3, DoneCatalog
  <2> HIDE DEF e
  <2> QED BY <2>1, <1>3 DEF ErdosFiles, e
<1>4. CASE w.op = "relink"
  <2>1. e.register = d.register /\ e.catalog = RelinkedTable(d, w.what) /\ e.sheets = d.sheets
    BY <1>4, DoneRelink
  <2>2. IsCatalog(d.catalog)  BY DEF ErdosFiles
  <2>3. IsCatalog(RelinkedTable(d, w.what))  BY <2>2, RelinkedIsTable
  <2> HIDE DEF e
  <2> QED BY <2>1, <2>3 DEF ErdosFiles, e
<1>5. CASE w.op = "sheet"
  <2>1. e.register = d.register /\ e.catalog = d.catalog /\ SheetTable(e.sheets)  BY <1>5, DoneSheet
  <2> HIDE DEF e
  <2> QED BY <2>1 DEF ErdosFiles, SheetTable, e
<1>6. CASE w.op = "heading"
  <2>1. e.register = d.register /\ e.catalog = d.catalog /\ SheetTable(e.sheets)  BY <1>6, DoneHeading
  <2> HIDE DEF e
  <2> QED BY <2>1 DEF ErdosFiles, SheetTable, e
<1> QED BY <1>1, <1>2, <1>3, <1>4, <1>5, <1>6 DEF ErdosOps

LEMMA EmptiedSheet ==
  ASSUME NEW d, NEW w, HasFiles(d), ErdosFiles(d), w.op \in {"sheet", "heading"}, NEW e, e = Emptied(d, w)
  PROVE  /\ e.register = d.register /\ e.catalog = d.catalog
         /\ SheetTable(e.sheets) /\ DOMAIN e.sheets = {w.on} \cup DOMAIN d.sheets
         /\ \A m \in DOMAIN d.sheets : m # w.on => e.sheets[m] = d.sheets[m]
<1> DEFINE r == [head |-> None]
           t == d.sheets
           n == w.on
           p == Put(t, n, r)
<1>1. e = WithSheets(d, p)  BY EmptiedFiles
<1>2. SheetTable(t)  BY DEF ErdosFiles, SheetTable
<1>3. DOMAIN r = {"head"}  OBVIOUS
<1> HIDE DEF r, t, n
<1>5. DOMAIN p = {n} \cup DOMAIN t /\ \A m \in DOMAIN p : p[m] = IF m = n THEN r ELSE t[m]  BY DEF Put
<1> HIDE DEF p
<1>6. SheetTable(p)  BY <1>2, <1>3, <1>5 DEF SheetTable
<1>8. \A m \in DOMAIN t : m # n => p[m] = t[m]  BY <1>5
<1>4. e.register = d.register /\ e.catalog = d.catalog /\ e.sheets = p  BY <1>1, SheetsWrite
<1> QED BY <1>4, <1>5, <1>6, <1>8 DEF t, n

EmptyTable == <<>>

LEMMA EmptyTableFacts == IsCatalog(EmptyTable) /\ DOMAIN EmptyTable = {}
<1>1. DOMAIN EmptyTable = {}  BY EmptyFacts DEF EmptyTable
<1>2. IsFiniteSet({})  BY FS_EmptySet
<1> QED BY <1>1, <1>2 DEF IsCatalog, IsTable

LEMMA EmptiedTable ==
  ASSUME NEW d, NEW w, HasFiles(d), NEW e, e = Emptied(d, w)
  PROVE  /\ w.op \in {"relink", "catalog"} =>
              e.register = d.register /\ e.catalog = EmptyTable /\ e.sheets = d.sheets
         /\ w.op = "register" => e.register = None /\ e.catalog = d.catalog /\ e.sheets = d.sheets
<1>1. w.op \in {"relink", "catalog"} => e = WithCatalog(d, EmptyTable)  BY EmptiedFiles DEF EmptyTable
<1>2. w.op = "register" => e = WithRegister(d, None)  BY EmptiedFiles
<1> QED BY <1>1, <1>2, CatalogWrite, RegisterWrite

LEMMA EmptiedTables ==
  ASSUME NEW d, NEW w, HasFiles(d), ErdosFiles(d), WriteFits(d, w), w.op \in CorpusOps \cup ErdosOps,
         w.op # "append"
  PROVE  ErdosFiles(Emptied(d, w))
<1> DEFINE e == Emptied(d, w)
<1>0. SheetTable(d.sheets)  BY DEF ErdosFiles, SheetTable
<1>1. CASE w.op \in CorpusOps  BY <1>1, EmptiedSameErdos, SameTables
<1>2. CASE w.op = "register"
  <2>1. e.register = None /\ e.catalog = d.catalog /\ e.sheets = d.sheets  BY <1>2, EmptiedTable
  <2> HIDE DEF e
  <2> QED BY <2>1 DEF ErdosFiles, e
<1>3. CASE w.op \in {"catalog", "relink"}
  <2>1. e.register = d.register /\ e.catalog = EmptyTable /\ e.sheets = d.sheets  BY <1>3, EmptiedTable
  <2> HIDE DEF e
  <2> QED BY <2>1, EmptyTableFacts DEF ErdosFiles, e
<1>4. CASE w.op \in {"sheet", "heading"}
  <2>1. e.register = d.register /\ e.catalog = d.catalog /\ SheetTable(e.sheets)  BY <1>4, EmptiedSheet
  <2> HIDE DEF e
  <2> QED BY <2>1 DEF ErdosFiles, SheetTable, e
<1> QED BY <1>1, <1>2, <1>3, <1>4 DEF ErdosOps

-----------------------------------------------------------------------------
(* What a tool of the corpus plans to write.                               *)

LEMMA FitsPlanning ==
  ASSUME NEW d, NEW w, NEW ops, NEW tool, Fits(d, w, ops), ops \subseteq OpsOf(tool),
         "register" \notin ops, "catalog" \notin ops,
         tool \in {"destub-basic", "de-stub-catalog"} => Cleaning(d, w),
         tool = "enrich" => Enriching(d, w)
  PROVE  Planning(d, tool, w)
<1>1. IsSeq(w) /\ \A i \in DOMAIN w : w[i].op \in ops  BY DEF Fits
<1>2. TableWrites(w)  BY <1>1 DEF TableWrites
<1>3. CorpusWrites(d, w)  BY FitsWrites
<1>4. \A i \in DOMAIN w : w[i].op \in OpsOf(tool)  BY <1>1
<1> QED BY <1>1, <1>2, <1>3, <1>4 DEF Planning

LEMMA CorpusToolPlans ==
  ASSUME NEW d, CorpusFiles(d), IsCatalog(d.catalog)
  PROVE  /\ Planning(d, "write-manifests", WriteManifests(d))
         /\ \A tranche : \A limit \in Nat : Planning(d, "bootstrap", Bootstrap(d, tranche, limit))
         /\ Planning(d, "dedupe", Dedupe(d))
         /\ Planning(d, "destub-basic", DestubBasic(d))
         /\ Planning(d, "de-stub-catalog", DestubCatalog(d))
         /\ Planning(d, "patch-catalog", PatchCatalog(d))
         /\ Planning(d, "enrich", Enrich(d))
         /\ Planning(d, "destub-proc", DestubProc(d))
<1>0. IsSeq(Fields) /\ IsSeq(Catalogs) /\ ToSet(Fields) \subseteq ToSet(Catalogs)  BY FieldsFacts
<1>1. Planning(d, "write-manifests", WriteManifests(d))
  <2>1. Fits(d, Each("manifest", Fields), {"manifest"})  BY <1>0, FitsEach
  <2>2. OpsOf("write-manifests") = {"manifest"}  BY DEF OpsOf
  <2> QED BY <2>1, <2>2, FitsPlanning DEF WriteManifests
<1>2. ASSUME NEW tranche, NEW limit \in Nat
      PROVE  Planning(d, "bootstrap", Bootstrap(d, tranche, limit))
  <2> DEFINE w == Bootstrap(d, tranche, limit)
  <2>1. IsSeq(w) /\ (\A i \in DOMAIN w : w[i].op \in {"specimen", "append"}) /\ CorpusWrites(d, w)
    BY BootstrapPlans
  <2> HIDE DEF w
  <2>2. OpsOf("bootstrap") = {"specimen", "append"}  BY DEF OpsOf
  <2>3. TableWrites(w)  BY <2>1 DEF TableWrites
  <2>4. Planning(d, "bootstrap", w)  BY <2>1, <2>2, <2>3 DEF Planning
  <2> QED BY <2>4 DEF w
<1>3. Planning(d, "dedupe", Dedupe(d))
  <2>1. Fits(d, Dedupe(d), {"drop"})  BY DedupeFits
  <2>2. OpsOf("dedupe") = {"drop"}  BY DEF OpsOf
  <2> QED BY <2>1, <2>2, FitsPlanning
<1>4. Planning(d, "destub-basic", DestubBasic(d))
  <2>1. Fits(d, DestubBasic(d), BasicOps) /\ Cleaning(d, DestubBasic(d))
    <3> DEFINE w == Each("patch", Fields) \o Each("patchPlan", Fields) \o Each("header", Ordered(Rows(d)))
    <3>1. DestubBasic(d) = w  BY DEF DestubBasic
    <3>2. Fits(d, w, BasicOps) /\ Cleaning(d, w)  BY <1>0, DestubPlans
    <3> QED BY <3>1, <3>2
  <2>2. OpsOf("destub-basic") = BasicOps  BY DEF OpsOf, BasicOps
  <2>3. "register" \notin BasicOps /\ "catalog" \notin BasicOps  BY DEF BasicOps
  <2> QED BY <2>1, <2>2, <2>3, FitsPlanning
<1>5. Planning(d, "de-stub-catalog", DestubCatalog(d))
  <2> DEFINE w == Each("patch", Catalogs) \o Each("patchPlan", Fields) \o Each("header", Ordered(Rows(d)))
             o == Ascending(DOMAIN d.catalog)
             t == Each("heading", o)
  <2>1. DestubCatalog(d) = w \o t  BY DEF DestubCatalog
  <2>2. Fits(d, w, DestubOps) /\ Cleaning(d, w)
    <3>1. Fits(d, w, BasicOps) /\ Cleaning(d, w)  BY <1>0, DestubPlans
    <3>2. BasicOps \subseteq DestubOps  BY DEF DestubOps
    <3> QED BY <3>1, <3>2 DEF Fits
  <2>3. IsSeq(o)
    <3>1. DOMAIN d.catalog \subseteq Nat /\ IsFiniteSet(DOMAIN d.catalog)  BY DEF IsCatalog, IsTable
    <3> QED BY <3>1, AscendingIsSeq
  <2> HIDE DEF o, w
  <2>4. Fits(d, t, DestubOps)
    <3>1. "heading" \in DestubOps  BY DEF DestubOps
    <3> QED BY <2>3, <3>1, FitsEach
  <2>5. \A i \in DOMAIN t : t[i].op = "heading"  BY <2>3, EachFacts
  <2> HIDE DEF t
  <2>6. Fits(d, w \o t, DestubOps)  BY <2>2, <2>4, FitsJoin
  <2>7. Cleaning(d, w \o t)  BY <2>2, <2>4, <2>5, HeadingsLast
  <2>8. OpsOf("de-stub-catalog") = DestubOps  BY DEF OpsOf, BasicOps, DestubOps
  <2>9. "register" \notin DestubOps /\ "catalog" \notin DestubOps  BY DEF BasicOps, DestubOps
  <2> QED BY <2>1, <2>6, <2>7, <2>8, <2>9, FitsPlanning
<1>6. Planning(d, "patch-catalog", PatchCatalog(d))
  <2>1. Fits(d, Each("repatch", Fields), {"repatch"})  BY <1>0, FitsEach
  <2>2. OpsOf("patch-catalog") = {"repatch"}  BY DEF OpsOf
  <2> QED BY <2>1, <2>2, FitsPlanning DEF PatchCatalog
<1>7. Planning(d, "enrich", Enrich(d))
  <2>1. Fits(d, Enrich(d), {"rewrite"}) /\ Enriching(d, Enrich(d))  BY EnrichPlans
  <2>2. OpsOf("enrich") = {"rewrite"}  BY DEF OpsOf
  <2> QED BY <2>1, <2>2, FitsPlanning
<1>8. Planning(d, "destub-proc", DestubProc(d))
  <2> DEFINE s == Ordered({id \in DOMAIN d.specimens : d.specimens[id].body = "open_witness"})
  <2>1. IsSeq(s) /\ ToSet(s) \subseteq DOMAIN d.specimens  BY OrderedFacts
  <2>2. DestubProc(d) = Each("migrate", s)  BY DEF DestubProc
  <2> HIDE DEF s
  <2>3. Fits(d, Each("migrate", s), {"migrate"})  BY <2>1, FitsEach
  <2>4. OpsOf("destub-proc") = {"migrate"}  BY DEF OpsOf
  <2> QED BY <2>2, <2>3, <2>4, FitsPlanning
<1> QED BY <1>1, <1>2, <1>3, <1>4, <1>5, <1>6, <1>7, <1>8

-----------------------------------------------------------------------------
(* The steps of a tool.                                                    *)

LEMMA TablesTail ==
  ASSUME NEW w, IsSeq(w), w # <<>>, TableWrites(w), NEW ops, \A i \in DOMAIN w : w[i].op \in ops
  PROVE  TableWrites(Tail(w)) /\ \A i \in DOMAIN Tail(w) : Tail(w)[i].op \in ops
<1> DEFINE v == Tail(w)
<1>1. \A i \in DOMAIN v : i + 1 \in DOMAIN w /\ v[i] = w[i + 1]  BY TailFacts
<1> HIDE DEF v
<1>2. TableWrites(v)
  <2>1. ASSUME NEW i \in DOMAIN v
        PROVE  /\ v[i].op = "register" => IsRegister(v[i].what)
               /\ v[i].op = "catalog" => IsCatalog(v[i].what)
    <3>1. i + 1 \in DOMAIN w /\ v[i] = w[i + 1]  BY <1>1
    <3> DEFINE u == w[i + 1]
    <3>2. (u.op = "register" => IsRegister(u.what)) /\ (u.op = "catalog" => IsCatalog(u.what))
      BY <3>1 DEF TableWrites
    <3> QED BY <3>1, <3>2
  <2> QED BY <2>1 DEF TableWrites
<1>3. \A i \in DOMAIN v : v[i].op \in ops  BY <1>1
<1> QED BY <1>2, <1>3 DEF v

LEMMA OpsOfDestub ==
  ASSUME NEW tool \in {"destub-basic", "de-stub-catalog"}
  PROVE  OpsOf(tool) \subseteq DestubOps
BY DEF OpsOf, BasicOps, DestubOps

LEMMA CleaningStep ==
  ASSUME NEW d, NEW w, IsSeq(w), w # <<>>, HasFiles(d), CorpusFiles(d), Cleaning(d, w),
         w[1].op \in DestubOps, WriteFits(d, w[1])
  PROVE  Cleaning(Done(d, w[1]), Tail(w))
<1>1. CASE w[1].op = "patch"
  <2>1. w[1].on \in ToSet(Catalogs)  BY <1>1 DEF WriteFits
  <2> QED BY <1>1, <2>1, CleaningPatch
<1>2. CASE w[1].op = "header"  BY <1>2, CleaningHeader
<1>3. CASE w[1].op = "patchPlan"
  <2>1. SameCorpus(d, Done(d, w[1]))  BY <1>3, DoneManifest
  <2> QED BY <1>3, <2>1, CleaningSame
<1>4. CASE w[1].op = "heading"
  <2> DEFINE e == Done(d, w[1])
  <2>1. e = d \/ \E t : e = WithSheets(d, t)  BY <1>4, DoneErdos
  <2> HIDE DEF e
  <2>2. SameCorpus(d, d)  BY DEF SameCorpus
  <2>3. SameCorpus(d, e)  BY <2>1, <2>2, ErdosWrite
  <2>4. Cleaning(e, Tail(w))  BY <1>4, <2>3, CleaningSame
  <2> QED BY <2>4 DEF e
<1> QED BY <1>1, <1>2, <1>3, <1>4 DEF BasicOps, DestubOps

LEMMA PlanningStep ==
  ASSUME NEW d, NEW w, NEW tool, HasFiles(d), CorpusFiles(d), Planning(d, tool, w), w # <<>>
  PROVE  Planning(Done(d, w[1]), tool, Tail(w)) /\ WriteFits(d, w[1])
<1> DEFINE e == Done(d, w[1])
           v == Tail(w)
<1>1. IsSeq(w) /\ TableWrites(w) /\ CorpusWrites(d, w) /\ \A i \in DOMAIN w : w[i].op \in OpsOf(tool)
  BY DEF Planning
<1>2. WriteFits(d, w[1])  BY <1>1, WritesFit
<1>3. 1 \in DOMAIN w /\ IsSeq(v)  BY <1>1, TailFacts
<1>4. w[1].op \in OpsOf(tool)  BY <1>1, <1>3
<1>5. TableWrites(v) /\ \A i \in DOMAIN v : v[i].op \in OpsOf(tool)  BY <1>1, TablesTail
<1>6. StepKeeps(d, e)  BY <1>2, <1>4, DoneKeeps
<1>7. CorpusWrites(e, v)
  <2>1. Grows(d, e)  BY <1>6 DEF StepKeeps
  <2>2. ASSUME w[1].op = "specimen"  PROVE w[1].on \in DOMAIN e.specimens
    <3> DEFINE u == w[1]
               r == [head |-> PlanStatement(u.on), body |-> BootstrapBody(u.on)]
    <3>1. e.specimens = IF u.on \in DOMAIN d.specimens THEN d.specimens ELSE Put(d.specimens, u.on, r)
      BY <2>2, DoneSpecimen
    <3> HIDE DEF r, e
    <3>2. u.on \in DOMAIN Put(d.specimens, u.on, r)  BY DEF Put
    <3> QED BY <3>1, <3>2
  <2> HIDE DEF e
  <2> QED BY <2>1, <2>2, <1>1, WritesKeep
<1>8. ASSUME tool \in {"destub-basic", "de-stub-catalog"}  PROVE Cleaning(e, v)
  <2>1. Cleaning(d, w)  BY <1>8 DEF Planning
  <2>2. w[1].op \in DestubOps  BY <1>4, <1>8, OpsOfDestub
  <2> QED BY <2>1, <2>2, <1>1, <1>2, CleaningStep
<1>9. ASSUME tool = "enrich"  PROVE Enriching(e, v)
  <2>1. Enriching(d, w)  BY <1>9 DEF Planning
  <2>2. w[1].op = "rewrite"  BY <1>4, <1>9 DEF OpsOf
  <2> QED BY <2>1, <2>2, <1>1, EnrichingStep
<1> HIDE DEF e, v
<1>10. Planning(e, tool, v)  BY <1>3, <1>5, <1>7, <1>8, <1>9 DEF Planning
<1> QED BY <1>2, <1>10 DEF e, v

\* One write.
LEMMA WriteKeeps ==
  ASSUME NEW d, NEW w, NEW tool, NEW c, HasFiles(d), CorpusFiles(d), ErdosFiles(d), Planning(d, tool, w),
         w # <<>>, NotLost(d, c)
  PROVE  /\ HasFiles(Done(d, w[1])) /\ CorpusFiles(Done(d, w[1])) /\ ErdosFiles(Done(d, w[1]))
         /\ Planning(Done(d, w[1]), tool, Tail(w))
         /\ NotLost(Done(d, w[1]), c \ (IF IsWhole(w[1]) THEN {FileOf(w[1])} ELSE {}))
<1> DEFINE e == Done(d, w[1])
           b == c \ (IF IsWhole(w[1]) THEN {FileOf(w[1])} ELSE {})
<1>1. Planning(e, tool, Tail(w)) /\ WriteFits(d, w[1])  BY PlanningStep
<1>2. w[1].op \in OpsOf(tool)
  <2>1. IsSeq(w) /\ \A i \in DOMAIN w : w[i].op \in OpsOf(tool)  BY DEF Planning
  <2>2. 1 \in DOMAIN w  BY <2>1, TailFacts
  <2> QED BY <2>1, <2>2
<1>3. HasFiles(e) /\ CorpusFiles(e) /\ Grows(d, e) /\ OtherKept(d, e)
  <2>1. StepKeeps(d, e)  BY <1>1, <1>2, DoneKeeps
  <2> QED BY <2>1 DEF StepKeeps
<1>4. ErdosFiles(e)
  <2>1. w[1].op \in CorpusOps \cup ErdosOps  BY <1>2, OpsOfTools
  <2>2. (w[1].op = "register" => IsRegister(w[1].what)) /\ (w[1].op = "catalog" => IsCatalog(w[1].what))
    <3>1. IsSeq(w) /\ TableWrites(w)  BY DEF Planning
    <3>2. 1 \in DOMAIN w  BY <3>1, TailFacts
    <3> QED BY <3>1, <3>2 DEF TableWrites
  <2> QED BY <1>1, <2>1, <2>2, DoneTables
<1>5. \A f : <<"entries", f>> \in c => <<"entries", f>> \in b
  <2> SUFFICES ASSUME NEW f, <<"entries", f>> \in c  PROVE <<"entries", f>> \in b  OBVIOUS
  <2>1. IsWhole(w[1]) => FileOf(w[1]) # <<"entries", f>>  BY WholeFiles
  <2> QED BY <2>1
<1> HIDE DEF e, b
<1>6. NotLost(e, b)  BY <1>3, <1>5, KeptNotLost
<1> QED BY <1>1, <1>3, <1>4, <1>6 DEF e, b

\* A kill inside a write.
LEMMA KillKeeps ==
  ASSUME NEW d, NEW w, NEW tool, NEW c, HasFiles(d), CorpusFiles(d), ErdosFiles(d), Planning(d, tool, w),
         w # <<>>, NotLost(d, c), w[1].op # "append"
  PROVE  /\ HasFiles(Emptied(d, w[1])) /\ CorpusFiles(Emptied(d, w[1])) /\ ErdosFiles(Emptied(d, w[1]))
         /\ NotLost(Emptied(d, w[1]), c \cup {FileOf(w[1])})
<1>1. WriteFits(d, w[1])  BY PlanningStep
<1>2. w[1].op \in OpsOf(tool)
  <2>1. IsSeq(w) /\ \A i \in DOMAIN w : w[i].op \in OpsOf(tool)  BY DEF Planning
  <2>2. 1 \in DOMAIN w  BY <2>1, TailFacts
  <2> QED BY <2>1, <2>2
<1>3. HasFiles(Emptied(d, w[1])) /\ CorpusFiles(Emptied(d, w[1])) /\ NotLost(Emptied(d, w[1]), c \cup {FileOf(w[1])})
  BY <1>1, <1>2, EmptiedKeeps
<1>4. w[1].op \in CorpusOps \cup ErdosOps  BY <1>2, OpsOfTools
<1>5. ErdosFiles(Emptied(d, w[1]))  BY <1>1, <1>4, EmptiedTables
<1> QED BY <1>3, <1>5

\* The tool has no more to write.
LEMMA CleanedAll ==
  ASSUME NEW d, NEW w, w = <<>>, CorpusFiles(d), Cleaning(d, w), NEW id \in Rows(d)
  PROVE  /\ Destubbed(id, Statement(d, id)) = Statement(d, id)
         /\ d.specimens[id].head \in {None, Statement(d, id)}
<1>1. DOMAIN w = {}  BY EmptyFacts
<1>2. \A op, on : ~ToDo(w, op, on)  BY <1>1 DEF ToDo
<1> DEFINE f == FieldOf(id)
<1>3. f \in ToSet(Fields) /\ id \in RowsOf(d, f)  BY RowsFit
<1>4. Clean(d, f)  BY <1>2, <1>3 DEF Cleaning
<1>5. Statement(d, id) = d.entries[f][id]  BY DEF Statement
<1>6. HeadFits(d, id)  BY <1>2 DEF Cleaning
<1> QED BY <1>3, <1>4, <1>5, <1>6 DEF Clean, HeadFits

LEMMA EnrichedAll ==
  ASSUME NEW d, NEW w, w = <<>>, Enriching(d, w), NEW id \in Rows(d)
  PROVE  HasNamedDef(d.specimens[id].body) /\ d.specimens[id].head = Statement(d, id)
<1>1. DOMAIN w = {}  BY EmptyFacts
<1>2. ~ToDo(w, "rewrite", id)  BY <1>1 DEF ToDo
<1> QED BY <1>2 DEF Enriching, Rich

LEMMA NothingPlanned ==
  ASSUME NEW d, NEW w, w = <<>>
  PROVE  Planning(d, None, w)
<1>1. IsSeq(w) /\ DOMAIN w = {}  BY EmptyFacts
<1>2. None \notin {"destub-basic", "de-stub-catalog"} /\ None # "enrich"  BY NoneAssumption DEF CorpusTools
<1> QED BY <1>1, <1>2 DEF Planning, TableWrites, CorpusWrites

-----------------------------------------------------------------------------
(* The corpus after any tools and kills.                                   *)

LEMMA ToolNames ==
  /\ None \notin AllTools
  /\ CorpusTools \subseteq AllTools /\ ErdosTools \subseteq AllTools
  /\ AllTools \subseteq Trails
BY NoneAssumption DEF AllTools, Trails

LEMMA IdleFacts == Idle.tool = None /\ Idle.writes = <<>> /\ Idle = [tool |-> None, writes |-> <<>>]
BY DEF Idle

InitEntries(corpus) ==
  [f \in ToSet(Catalogs) |->
     IF f = "other" THEN [p \in DOMAIN Superseded |-> <<"modeling", "prior", p[3]>>]
     ELSE Restrict(corpus, {id \in DOMAIN corpus : FieldOf(id) = f})]
InitFiles(d, corpus, register, synced, body) ==
  /\ DOMAIN d = {"entries", "manifests", "specimens", "register", "catalog", "sheets"}
  /\ d.entries = InitEntries(corpus)
  /\ d.specimens = [id \in DOMAIN corpus |-> [head |-> corpus[id], body |-> body]]
  /\ d.register = register
  /\ d.catalog = IF synced THEN [n \in DOMAIN register |-> Entry(register[n])] ELSE EmptyTable
  /\ d.sheets = EmptyTable

LEMMA InitFilesThere ==
  ASSUME DbInit
  PROVE  \E corpus \in Corpora, register \in Registers, synced \in BOOLEAN, body \in {"main", "open_witness", "by_hand"} :
           InitFiles(db, corpus, register, synced, body)
<1>1. PICK corpus \in Corpora, register \in Registers, synced \in BOOLEAN,
           body \in {"main", "open_witness", "by_hand"} :
        db = [entries   |-> InitEntries(corpus),
              manifests |-> [f \in ToSet(Fields) |->
                              Restrict(corpus, {id \in DOMAIN corpus : FieldOf(id) = f})],
              specimens |-> [id \in DOMAIN corpus |-> [head |-> corpus[id], body |-> body]],
              register  |-> register,
              catalog   |-> IF synced THEN [n \in DOMAIN register |-> Entry(register[n])] ELSE EmptyTable,
              sheets    |-> EmptyTable]
  BY DEF DbInit, InitEntries, EmptyTable
<1> DEFINE m == [f \in ToSet(Fields) |-> Restrict(corpus, {id \in DOMAIN corpus : FieldOf(id) = f})]
           s == [id \in DOMAIN corpus |-> [head |-> corpus[id], body |-> body]]
           c == IF synced THEN [n \in DOMAIN register |-> Entry(register[n])] ELSE EmptyTable
<1>2. db = [entries |-> InitEntries(corpus), manifests |-> m, specimens |-> s, register |-> register,
            catalog |-> c, sheets |-> EmptyTable]
  BY <1>1
<1> HIDE DEF m, s, c
<1>3. /\ DOMAIN db = {"entries", "manifests", "specimens", "register", "catalog", "sheets"}
      /\ db.entries = InitEntries(corpus) /\ db.specimens = s /\ db.register = register
      /\ db.catalog = c /\ db.sheets = EmptyTable
  BY <1>2
<1>4. InitFiles(db, corpus, register, synced, body)  BY <1>3 DEF InitFiles, s, c
<1> QED BY <1>4

LEMMA InitRegister ==
  ASSUME NEW register \in Registers
  PROVE  IsRegister(register) /\ \A n \in DOMAIN register : register[n].spec = FALSE
<1>1. /\ DOMAIN register \subseteq Nat /\ IsFiniteSet(DOMAIN register)
      /\ \A n \in DOMAIN register : register[n] = Row(register[n].stmt, register[n].tier, register[n].status)
  BY RegistersAssumption
<1>2. ASSUME NEW n \in DOMAIN register
      PROVE  DOMAIN register[n] = {"stmt", "tier", "status", "spec"}
  <2>1. DOMAIN Row(register[n].stmt, register[n].tier, register[n].status) = {"stmt", "tier", "status", "spec"}
    BY RowDomain
  <2> QED BY <2>1, <1>1
<1>3. ASSUME NEW n \in DOMAIN register  PROVE register[n].spec = FALSE
  <2>1. Row(register[n].stmt, register[n].tier, register[n].status).spec = FALSE  BY DEF Row
  <2> QED BY <2>1, <1>1
<1> QED BY <1>1, <1>2, <1>3 DEF IsRegister, IsTable

LEMMA InitCatalog ==
  ASSUME NEW register, IsRegister(register)
  PROVE  LET c == [n \in DOMAIN register |-> Entry(register[n])]
         IN  IsCatalog(c) /\ DOMAIN c = DOMAIN register /\ \A n \in DOMAIN register : c[n].spec = register[n].spec
<1> DEFINE c == [n \in DOMAIN register |-> Entry(register[n])]
           N == DOMAIN register
<1>1. DOMAIN c = N /\ \A n \in N : DOMAIN c[n] = {"stmt", "status", "spec"} /\ c[n].spec = register[n].spec
  BY EntryFields
<1>2. N \subseteq Nat /\ IsFiniteSet(N)  BY DEF IsRegister, IsTable
<1> HIDE DEF c, N
<1>3. IsTable(c, {"stmt", "status", "spec"})  BY <1>1, <1>2, TableOver
<1>4. IsCatalog(c)  BY <1>3 DEF IsCatalog
<1> QED BY <1>1, <1>4 DEF c, N

LEMMA CorpusInit ==
  ASSUME DbInit
  PROVE  Corpus
<1>1. PICK corpus \in Corpora, register \in Registers, synced \in BOOLEAN,
           body \in {"main", "open_witness", "by_hand"} :
        InitFiles(db, corpus, register, synced, body)
  BY InitFilesThere
<1>2. job = Idle /\ trail = <<>> /\ cut = {}  BY DEF DbInit
<1>3. job.tool = None /\ job.writes = <<>> /\ job = [tool |-> job.tool, writes |-> job.writes]
  BY <1>2, IdleFacts
<1>4. Jobs
  <2>1. trail \in Seq(Trails)  BY <1>2
  <2> QED BY <1>3, <2>1 DEF Jobs
<1>5. /\ ToSet(Fields) \subseteq ToSet(Catalogs) /\ "other" \in ToSet(Catalogs) /\ "other" \notin ToSet(Fields)
  BY FieldsFacts
<1>6. HasFiles(db)
  <2>1. DOMAIN db.entries = ToSet(Catalogs)  BY <1>1 DEF InitFiles, InitEntries
  <2> QED BY <2>1, <1>1 DEF InitFiles, HasFiles
<1>7. CorpusFiles(db)
  <2>1. DOMAIN corpus \subseteq ToSet(Planned) /\ \A id \in DOMAIN corpus : IsStatement(corpus[id])
    BY CorporaAssumption
  <2>2. ASSUME NEW f \in ToSet(Fields), NEW id \in RowsOf(db, f)
        PROVE  RowFits(id, f, db.entries[f][id]) /\ id \in DOMAIN corpus
    <3> DEFINE part == Restrict(corpus, {i \in DOMAIN corpus : FieldOf(i) = f})
    <3>1. db.entries[f] = part  BY <1>1, <1>5 DEF InitFiles, InitEntries
    <3>2. DOMAIN part = {i \in DOMAIN corpus : FieldOf(i) = f} /\ \A i \in DOMAIN part : part[i] = corpus[i]
      BY DEF Restrict
    <3> HIDE DEF part
    <3>3. id \in DOMAIN part  BY <3>1, <2>2 DEF RowsOf
    <3>4. id \in DOMAIN corpus /\ FieldOf(id) = f /\ db.entries[f][id] = corpus[id]  BY <3>1, <3>2, <3>3
    <3> QED BY <3>4, <2>1 DEF RowFits
  <2>3. DOMAIN db.specimens = DOMAIN corpus /\ \A id \in DOMAIN corpus : DOMAIN db.specimens[id] = {"head", "body"}
    BY <1>1 DEF InitFiles
  <2>4. Rows(db) \subseteq DOMAIN db.specimens  BY <2>2, <2>3, InRows
  <2> QED BY <2>2, <2>3, <2>4 DEF CorpusFiles
<1>8. ErdosFiles(db)
  <2>1. IsRegister(register)  BY InitRegister
  <2>2. IsCatalog(db.catalog)
    <3>1. IsCatalog([n \in DOMAIN register |-> Entry(register[n])])  BY <2>1, InitCatalog
    <3> QED BY <3>1, <1>1, EmptyTableFacts DEF InitFiles
  <2>3. DOMAIN db.sheets = {}  BY <1>1, EmptyTableFacts DEF InitFiles
  <2>4. db.register = register  BY <1>1 DEF InitFiles
  <2> QED BY <2>1, <2>2, <2>3, <2>4 DEF ErdosFiles
<1>9. Planning(db, job.tool, job.writes)  BY <1>3, NothingPlanned
<1>10. Settled /\ Enriched  BY <1>2 DEF Settled, Enriched, JustEnded
<1>11. NotLost(db, cut)
  <2>1. RowsOf(db, "other") = DOMAIN Superseded
    <3>1. db.entries["other"] = [p \in DOMAIN Superseded |-> <<"modeling", "prior", p[3]>>]
      BY <1>1, <1>5 DEF InitFiles, InitEntries
    <3> QED BY <3>1 DEF RowsOf
  <2> QED BY <2>1 DEF NotLost
<1> QED BY <1>4, <1>6, <1>7, <1>8, <1>9, <1>10, <1>11 DEF Corpus

\* A tool is started when no other one runs.
LEMMA CorpusStart ==
  ASSUME Corpus, NEW tool \in AllTools, NEW w, Start(tool, w), Planning(db, tool, w)
  PROVE  Corpus' /\ job'.tool = tool /\ job'.writes = w
<1>1. db' = db /\ trail' = trail /\ cut' = cut /\ job' = [tool |-> tool, writes |-> w]  BY DEF Start
<1>2. job'.tool = tool /\ job'.writes = w /\ job' = [tool |-> job'.tool, writes |-> job'.writes]  BY <1>1
<1>3. job'.tool # None  BY <1>2, ToolNames
<1>4. Jobs'  BY <1>1, <1>2, <1>3 DEF Corpus, Jobs
<1>5. job' # Idle  BY <1>3, IdleFacts
<1>6. Settled' /\ Enriched'  BY <1>5 DEF Settled, Enriched, JustEnded
<1>7. HasFiles(db') /\ CorpusFiles(db') /\ ErdosFiles(db') /\ NotLost(db', cut')  BY <1>1 DEF Corpus
<1>8. Planning(db', job'.tool, job'.writes)  BY <1>1, <1>2
<1> QED BY <1>2, <1>4, <1>6, <1>7, <1>8 DEF Corpus

LEMMA WriteJob ==
  ASSUME Corpus, WriteOne
  PROVE  /\ job.writes # <<>> /\ job.tool \in AllTools /\ 1 \in DOMAIN job.writes
         /\ db' = Done(db, job.writes[1])
         /\ job'.tool = job.tool /\ job'.writes = Tail(job.writes)
         /\ job' = [tool |-> job'.tool, writes |-> job'.writes]
         /\ cut' = cut \ (IF IsWhole(job.writes[1]) THEN {FileOf(job.writes[1])} ELSE {})
         /\ trail' = trail
<1>1. job.writes # <<>> /\ job' = [job EXCEPT !.writes = Tail(@)] /\ trail' = trail  BY DEF WriteOne
<1>2. IsSeq(job.writes)  BY DEF Corpus, Planning
<1>3. 1 \in DOMAIN job.writes /\ Head(job.writes) = job.writes[1]  BY <1>1, <1>2, TailFacts
<1>4. db' = Done(db, job.writes[1])
      /\ cut' = cut \ (IF IsWhole(job.writes[1]) THEN {FileOf(job.writes[1])} ELSE {})
  BY <1>3 DEF WriteOne
<1>5. job.tool \in AllTools  BY <1>1 DEF Corpus, Jobs
<1> DEFINE tool == job.tool
           v == Tail(job.writes)
<1>6. job = [tool |-> tool, writes |-> job.writes]  BY DEF Corpus, Jobs
<1>7. job' = [tool |-> tool, writes |-> v]  BY <1>1, <1>6
<1> HIDE DEF v, tool
<1>8. job'.tool = tool /\ job'.writes = v  BY <1>7
<1> QED BY <1>1, <1>3, <1>4, <1>5, <1>7, <1>8 DEF v, tool

LEMMA CorpusWrite ==
  ASSUME Corpus, WriteOne
  PROVE  Corpus'
<1>1. /\ job.writes # <<>> /\ job.tool \in AllTools
      /\ db' = Done(db, job.writes[1])
      /\ job'.tool = job.tool /\ job'.writes = Tail(job.writes)
      /\ job' = [tool |-> job'.tool, writes |-> job'.writes]
      /\ cut' = cut \ (IF IsWhole(job.writes[1]) THEN {FileOf(job.writes[1])} ELSE {})
      /\ trail' = trail
  BY WriteJob
<1>2. job'.tool # None  BY <1>1, ToolNames
<1>3. Jobs'  BY <1>1, <1>2 DEF Corpus, Jobs
<1>4. job' # Idle  BY <1>2, IdleFacts
<1>5. Settled' /\ Enriched'  BY <1>4 DEF Settled, Enriched, JustEnded
<1>6. /\ HasFiles(db') /\ CorpusFiles(db') /\ ErdosFiles(db')
      /\ Planning(db', job'.tool, job'.writes)
      /\ NotLost(db', cut')
  <2>1. /\ HasFiles(db) /\ CorpusFiles(db) /\ ErdosFiles(db) /\ Planning(db, job.tool, job.writes)
        /\ NotLost(db, cut)
    BY DEF Corpus
  <2> DEFINE e == Done(db, job.writes[1])
             c == cut \ (IF IsWhole(job.writes[1]) THEN {FileOf(job.writes[1])} ELSE {})
  <2>2. HasFiles(e) /\ CorpusFiles(e) /\ ErdosFiles(e) /\ Planning(e, job.tool, Tail(job.writes)) /\ NotLost(e, c)
    BY <1>1, <2>1, WriteKeeps
  <2> HIDE DEF e, c
  <2> QED BY <1>1, <2>2 DEF e, c
<1> QED BY <1>3, <1>5, <1>6 DEF Corpus

LEMMA LastFacts ==
  ASSUME NEW S, NEW tr \in Seq(S), NEW x \in S
  PROVE  /\ Append(tr, x) \in Seq(S) /\ Append(tr, x) # <<>> /\ Last(Append(tr, x)) = x
BY DEF Last

LEMMA JobOfTool ==
  ASSUME Corpus, job # Idle
  PROVE  job.tool \in AllTools
BY DEF Corpus, Jobs, Idle

LEMMA CorpusEnd ==
  ASSUME Corpus, End
  PROVE  Corpus'
<1>1. job # Idle /\ job.writes = <<>> /\ trail' = Append(trail, job.tool) /\ job' = Idle /\ db' = db /\ cut' = cut
  BY DEF End
<1>2. job.tool \in AllTools  BY <1>1, JobOfTool
<1>3. trail' \in Seq(Trails) /\ Last(trail') = job.tool
  <2>1. trail \in Seq(Trails) /\ job.tool \in Trails  BY <1>2, ToolNames DEF Corpus, Jobs
  <2> QED BY <1>1, <2>1, LastFacts
<1>4. job'.tool = None /\ job'.writes = <<>> /\ job' = [tool |-> job'.tool, writes |-> job'.writes]
  BY <1>1, IdleFacts
<1>5. Jobs'  BY <1>3, <1>4 DEF Jobs
<1>6. Planning(db', job'.tool, job'.writes)  BY <1>4, NothingPlanned
<1>7. HasFiles(db') /\ CorpusFiles(db') /\ ErdosFiles(db') /\ NotLost(db', cut')  BY <1>1 DEF Corpus
<1>8. CorpusFiles(db) /\ Planning(db, job.tool, job.writes)  BY DEF Corpus
<1>9. Settled'
  <2> SUFFICES ASSUME job.tool \in {"destub-basic", "de-stub-catalog"}, NEW id \in Rows(db)
               PROVE  /\ Destubbed(id, Statement(db, id)) = Statement(db, id)
                      /\ db.specimens[id].head \in {None, Statement(db, id)}
    BY <1>1, <1>3 DEF Settled, JustEnded
  <2>1. Cleaning(db, job.writes)  BY <1>8 DEF Planning
  <2> QED BY <1>1, <1>8, <2>1, CleanedAll
<1>10. Enriched'
  <2> SUFFICES ASSUME job.tool = "enrich", NEW id \in Rows(db)
               PROVE  HasNamedDef(db.specimens[id].body) /\ db.specimens[id].head = Statement(db, id)
    BY <1>1, <1>3 DEF Enriched, JustEnded
  <2>1. Enriching(db, job.writes)  BY <1>8 DEF Planning
  <2> QED BY <1>1, <2>1, EnrichedAll
<1> QED BY <1>5, <1>6, <1>7, <1>9, <1>10 DEF Corpus

LEMMA KillJob ==
  ASSUME Corpus, Kill
  PROVE  /\ job.writes # <<>> /\ job.tool \in AllTools
         /\ trail' = Append(trail, Killed(job.tool)) /\ job' = Idle
         /\ \/ db' = db /\ cut' = cut
            \/ /\ job.writes[1].op # "append"
               /\ db' = Emptied(db, job.writes[1]) /\ cut' = cut \cup {FileOf(job.writes[1])}
<1>1. job.writes # <<>> /\ trail' = Append(trail, Killed(job.tool)) /\ job' = Idle  BY DEF Kill
<1>2. IsSeq(job.writes)  BY DEF Corpus, Planning
<1>3. Head(job.writes) = job.writes[1]  BY <1>1, <1>2, TailFacts
<1>4. job.tool \in AllTools  BY <1>1 DEF Corpus, Jobs
<1>5. WritesFile(job.writes[1]) => job.writes[1].op # "append"  BY DEF WritesFile, IsWhole
<1> QED BY <1>1, <1>3, <1>4, <1>5 DEF Kill

LEMMA CorpusKill ==
  ASSUME Corpus, Kill
  PROVE  Corpus'
<1>1. /\ job.writes # <<>> /\ job.tool \in AllTools
      /\ trail' = Append(trail, Killed(job.tool)) /\ job' = Idle
      /\ \/ db' = db /\ cut' = cut
         \/ /\ job.writes[1].op # "append"
            /\ db' = Emptied(db, job.writes[1]) /\ cut' = cut \cup {FileOf(job.writes[1])}
  BY KillJob
<1>2. Killed(job.tool) \in {"killed", "killed, register"}  BY DEF Killed
<1>3. trail' \in Seq(Trails) /\ Last(trail') = Killed(job.tool)
  <2>1. trail \in Seq(Trails) /\ Killed(job.tool) \in Trails  BY <1>2 DEF Corpus, Jobs, Trails
  <2> QED BY <1>1, <2>1, LastFacts
<1>4. job'.tool = None /\ job'.writes = <<>> /\ job' = [tool |-> job'.tool, writes |-> job'.writes]
  BY <1>1, IdleFacts
<1>5. Jobs'  BY <1>3, <1>4 DEF Jobs
<1>6. Planning(db', job'.tool, job'.writes)  BY <1>4, NothingPlanned
<1>7. /\ HasFiles(db) /\ CorpusFiles(db) /\ ErdosFiles(db) /\ Planning(db, job.tool, job.writes)
      /\ NotLost(db, cut)
  BY DEF Corpus
<1>8. HasFiles(db') /\ CorpusFiles(db') /\ ErdosFiles(db') /\ NotLost(db', cut')
  <2>1. CASE db' = db /\ cut' = cut  BY <2>1, <1>7
  <2>2. CASE /\ job.writes[1].op # "append"
             /\ db' = Emptied(db, job.writes[1]) /\ cut' = cut \cup {FileOf(job.writes[1])}
    <3> DEFINE e == Emptied(db, job.writes[1])
               c == cut \cup {FileOf(job.writes[1])}
    <3>1. HasFiles(e) /\ CorpusFiles(e) /\ ErdosFiles(e) /\ NotLost(e, c)  BY <1>1, <1>7, <2>2, KillKeeps
    <3>2. db' = e /\ cut' = c  BY <2>2
    <3> HIDE DEF e, c
    <3> QED BY <3>1, <3>2
  <2> QED BY <1>1, <2>1, <2>2
<1>9. Settled' /\ Enriched'
  <2>1. Last(trail') \notin {"destub-basic", "de-stub-catalog", "enrich"}  BY <1>2, <1>3
  <2> QED BY <2>1 DEF Settled, Enriched, JustEnded
<1> QED BY <1>5, <1>6, <1>8, <1>9 DEF Corpus

LEMMA CorpusNext ==
  ASSUME Corpus, [DbNext]_dbVars
  PROVE  Corpus'
<1>0. CorpusFiles(db) /\ IsCatalog(db.catalog)  BY DEF Corpus, ErdosFiles
<1>1. CASE StartCorpusTool
  <2>1. /\ Planning(db, "write-manifests", WriteManifests(db))
        /\ \A tranche : \A limit \in Nat : Planning(db, "bootstrap", Bootstrap(db, tranche, limit))
        /\ Planning(db, "dedupe", Dedupe(db))
        /\ Planning(db, "destub-basic", DestubBasic(db))
        /\ Planning(db, "de-stub-catalog", DestubCatalog(db))
        /\ Planning(db, "patch-catalog", PatchCatalog(db))
        /\ Planning(db, "enrich", Enrich(db))
        /\ Planning(db, "destub-proc", DestubProc(db))
    BY <1>0, CorpusToolPlans
  <2>2. Len(Planned) \in Nat  BY PlannedAssumption
  <2>3. \A tool \in CorpusTools : tool \in AllTools  BY ToolNames
  <2>4. \A tool \in AllTools : \A w : Start(tool, w) /\ Planning(db, tool, w) => Corpus'  BY CorpusStart
  <2>5. ASSUME NEW tranche \in {1, 3}, NEW limit \in {1, Len(Planned)},
               Start("bootstrap", Bootstrap(db, tranche, limit))
        PROVE  Corpus'
    <3>1. limit \in Nat  BY <2>2
    <3>2. Planning(db, "bootstrap", Bootstrap(db, tranche, limit))  BY <2>1, <3>1
    <3>3. "bootstrap" \in AllTools  BY <2>3 DEF CorpusTools
    <3> QED BY <2>4, <2>5, <3>2, <3>3
  <2>6. \A tool \in {"write-manifests", "dedupe", "destub-basic", "de-stub-catalog", "patch-catalog", "enrich",
                     "destub-proc"} : tool \in AllTools
    BY <2>3 DEF CorpusTools
  <2>7. CASE Start("write-manifests", WriteManifests(db))  BY <2>1, <2>4, <2>6, <2>7
  <2>8. CASE Start("dedupe", Dedupe(db))  BY <2>1, <2>4, <2>6, <2>8
  <2>9. CASE Start("destub-basic", DestubBasic(db))  BY <2>1, <2>4, <2>6, <2>9
  <2>10. CASE Start("de-stub-catalog", DestubCatalog(db))  BY <2>1, <2>4, <2>6, <2>10
  <2>11. CASE Start("patch-catalog", PatchCatalog(db))  BY <2>1, <2>4, <2>6, <2>11
  <2>12. CASE Start("enrich", Enrich(db))  BY <2>1, <2>4, <2>6, <2>12
  <2>13. CASE Start("destub-proc", DestubProc(db))  BY <2>1, <2>4, <2>6, <2>13
  <2> QED BY <1>1, <2>5, <2>7, <2>8, <2>9, <2>10, <2>11, <2>12, <2>13 DEF StartCorpusTool
<1>2. CASE StartErdosTool
  <2>1. IsRegister(db.register)  BY <1>2 DEF StartErdosTool, Corpus, ErdosFiles
  <2>2. /\ \A skip, found : Planning(db, "fetch", Fetch(db, skip, found))
        /\ Planning(db, "tier1", Tier1(db))
        /\ Planning(db, "overlays", ApplyOverlays(db))
        /\ \A limit : Planning(db, "specimens", Specimens(db, limit)) /\ Planning(db, "specimens --limit", Specimens(db, limit))
        /\ \A tool \in {"sync", "sync --limit", "sync --merge"} : \A limit : \A merge \in BOOLEAN :
             Planning(db, tool, Sync(db, limit, merge))
    BY <1>0, <2>1, ErdosToolPlans
  <2>3. \A tool \in ErdosTools : tool \in AllTools  BY ToolNames
  <2>4. \A tool \in ErdosTools : \A w : Start(tool, w) /\ Planning(db, tool, w) => Corpus'
    BY <2>3, CorpusStart
  <2>5. PICK tool \in ErdosTools : \E w : Start(tool, w) /\ Planning(db, tool, w)
    <3>1. CASE \E skip \in BOOLEAN, found \in Finds : Start("fetch", Fetch(db, skip, found))
      BY <2>2, <3>1 DEF ErdosTools
    <3>2. CASE Start("tier1", Tier1(db))  BY <2>2, <3>2 DEF ErdosTools
    <3>3. CASE Start("overlays", ApplyOverlays(db))  BY <2>2, <3>3 DEF ErdosTools
    <3>4. CASE Start("specimens", Specimens(db, 0))  BY <2>2, <3>4 DEF ErdosTools
    <3>5. CASE Start("specimens --limit", Specimens(db, 1))  BY <2>2, <3>5 DEF ErdosTools
    <3>6. CASE Start("sync", Sync(db, 0, FALSE))  BY <2>2, <3>6 DEF ErdosTools
    <3>7. CASE Start("sync --limit", Sync(db, 1, FALSE))  BY <2>2, <3>7 DEF ErdosTools
    <3>8. CASE \E limit \in {0, 1} : Start("sync --merge", Sync(db, limit, TRUE))  BY <2>2, <3>8 DEF ErdosTools
    <3> QED BY <1>2, <3>1, <3>2, <3>3, <3>4, <3>5, <3>6, <3>7, <3>8 DEF StartErdosTool
  <2> QED BY <2>4, <2>5
<1>3. CASE WriteOne  BY <1>3, CorpusWrite
<1>4. CASE End  BY <1>4, CorpusEnd
<1>5. CASE Kill  BY <1>5, CorpusKill
<1>6. CASE UNCHANGED dbVars
  BY <1>6 DEF dbVars, Corpus, Jobs, Settled, Enriched, JustEnded, Rows, RowsOf, Statement
<1> QED BY <1>1, <1>2, <1>3, <1>4, <1>5, <1>6 DEF DbNext

LEMMA CorpusAlways == DbSpec => []Corpus
<1>1. DbInit => Corpus  BY CorpusInit
<1>2. Corpus /\ [DbNext]_dbVars => Corpus'  BY CorpusNext
<1> QED BY <1>1, <1>2, PTL DEF DbSpec

\* Whatever tools are run over the corpus, and wherever they are killed: after a
\* run of destub-basic-corpus.py or de-stub-catalog.py no entry has a statement
\* that the lookup would replace and no specimen the first line of another
\* statement; after a run of enrich-basic-corpus-specimens.py every specimen
\* has a definition; an earlier entry that dedupe-basic-corpus.py dropped is
\* superseded by one that is there, unless a kill emptied its catalog; and an
\* entry of a catalog has a specimen.
THEOREM CorpusIsSound == DbSpec => []CorpusSound
<1>1. Corpus => CorpusSound
  <2> SUFFICES ASSUME Corpus  PROVE CorpusSound  OBVIOUS
  <2>1. Settled /\ Enriched /\ NotLost(db, cut) /\ CorpusFiles(db)  BY DEF Corpus
  <2>2. NothingLost  BY <2>1 DEF NothingLost, NotLost
  <2>3. Rows(db) \subseteq DOMAIN db.specimens  BY <2>1 DEF CorpusFiles
  <2> QED BY <2>1, <2>2, <2>3 DEF CorpusSound
<1> QED BY <1>1, CorpusAlways, PTL

-----------------------------------------------------------------------------
(* The register of Erdos problems names specimens that are there.          *)

LinksFound(t, sheets) == \A n \in DOMAIN t : t[n].spec => n \in sheets
LimitedBefore(tr) == \E i \in DOMAIN tr : tr[i] = "specimens --limit"
Limited(tool, w, tr) == LimitedBefore(tr) \/ (tool = "specimens --limit" /\ w = <<>>)

\* The specimens there are when a tool comes to its i-th write.
Before(w, i) == {w[j].on : j \in {k \in DOMAIN w : k < i /\ w[k].op = "sheet"}}
LinkedWrite(u, found, tool, tr) ==
  /\ u.op = "register" => LinksFound(u.what, found)
  /\ u.op = "catalog" => LimitedBefore(tr) \/ LinksFound(u.what, found)
  /\ u.op = "relink" => tool = "specimens --limit" \/ u.what \subseteq found
LinkedWrites(sheets, tool, w, tr) ==
  \A i \in DOMAIN w :
    /\ LinkedWrite(w[i], sheets \cup Before(w, i), tool, tr)
    /\ w[i].op = "relink" => i = Len(w)

LinkedFiles(d, tool, w, tr) ==
  /\ d.register # None => LinksFound(d.register, DOMAIN d.sheets)
  /\ Limited(tool, w, tr) \/ LinksFound(d.catalog, DOMAIN d.sheets)

Linking(d, tool, w, tr) == LinkedFiles(d, tool, w, tr) /\ LinkedWrites(DOMAIN d.sheets, tool, w, tr)

LEMMA LinksGrow ==
  ASSUME NEW t, NEW sheets, NEW more, LinksFound(t, sheets), sheets \subseteq more
  PROVE  LinksFound(t, more)
BY DEF LinksFound

LEMMA LinkedWriteGrows ==
  ASSUME NEW u, NEW found, NEW more, NEW tool, NEW tr, LinkedWrite(u, found, tool, tr), found \subseteq more
  PROVE  LinkedWrite(u, more, tool, tr)
<1>1. u.op = "register" => LinksFound(u.what, more)  BY LinksGrow DEF LinkedWrite
<1>2. u.op = "catalog" => LimitedBefore(tr) \/ LinksFound(u.what, more)  BY LinksGrow DEF LinkedWrite
<1>3. u.op = "relink" => tool = "specimens --limit" \/ u.what \subseteq more  BY DEF LinkedWrite
<1> QED BY <1>1, <1>2, <1>3 DEF LinkedWrite

\* What the first write leaves to the others.
LEMMA BeforeTail ==
  ASSUME NEW w, IsSeq(w), w # <<>>, NEW sheets, NEW more, sheets \subseteq more,
         w[1].op = "sheet" => w[1].on \in more, NEW i \in DOMAIN Tail(w)
  PROVE  sheets \cup Before(w, i + 1) \subseteq more \cup Before(Tail(w), i)
<1> DEFINE v == Tail(w)
<1>1. /\ Len(w) \in Nat \ {0} /\ DOMAIN w = 1..Len(w) /\ DOMAIN v = 1..(Len(w) - 1)
      /\ \A k \in DOMAIN w : k # 1 => k - 1 \in DOMAIN v /\ v[k - 1] = w[k]
  BY TailFacts
<1> HIDE DEF v
<1>2. ASSUME NEW x \in Before(w, i + 1)  PROVE x \in more \cup Before(v, i)
  <2>1. PICK k \in DOMAIN w : k < i + 1 /\ w[k].op = "sheet" /\ x = w[k].on  BY DEF Before
  <2>2. CASE k = 1  BY <2>1, <2>2
  <2>3. CASE k # 1
    <3>1. k - 1 \in DOMAIN v /\ v[k - 1] = w[k]  BY <2>3, <1>1
    <3>2. i \in Nat /\ k \in Nat  BY <1>1 DEF v
    <3>3. k - 1 < i  BY <2>1, <3>2
    <3>4. v[k - 1].op = "sheet" /\ x = v[k - 1].on  BY <2>1, <3>1
    <3>5. x \in Before(v, i)  BY <3>1, <3>3, <3>4 DEF Before
    <3> QED BY <3>5
  <2> QED BY <2>2, <2>3
<1> QED BY <1>2 DEF v

LEMMA LinkedTail ==
  ASSUME NEW w, IsSeq(w), w # <<>>, NEW sheets, NEW more, sheets \subseteq more,
         w[1].op = "sheet" => w[1].on \in more, NEW tool, NEW tr, LinkedWrites(sheets, tool, w, tr)
  PROVE  LinkedWrites(more, tool, Tail(w), tr)
<1> DEFINE v == Tail(w)
<1>1. /\ Len(w) \in Nat \ {0} /\ DOMAIN w = 1..Len(w) /\ DOMAIN v = 1..(Len(w) - 1) /\ Len(v) = Len(w) - 1
      /\ \A i \in DOMAIN v : i + 1 \in DOMAIN w /\ v[i] = w[i + 1]
  BY TailFacts
<1>2. \A i \in DOMAIN v : sheets \cup Before(w, i + 1) \subseteq more \cup Before(v, i)  BY BeforeTail
<1> HIDE DEF v
<1>3. ASSUME NEW i \in DOMAIN v
      PROVE  LinkedWrite(v[i], more \cup Before(v, i), tool, tr) /\ (v[i].op = "relink" => i = Len(v))
  <2>1. i + 1 \in DOMAIN w /\ v[i] = w[i + 1]  BY <1>1
  <2>2. LinkedWrite(v[i], sheets \cup Before(w, i + 1), tool, tr) /\ (v[i].op = "relink" => i + 1 = Len(w))
    BY <2>1 DEF LinkedWrites
  <2>3. LinkedWrite(v[i], more \cup Before(v, i), tool, tr)
    <3>1. LinkedWrite(v[i], sheets \cup Before(w, i + 1), tool, tr)  BY <2>1, <2>2
    <3>2. sheets \cup Before(w, i + 1) \subseteq more \cup Before(v, i)  BY <1>2
    <3> QED BY <3>1, <3>2, LinkedWriteGrows
  <2>4. i + 1 = Len(w) => i = Len(v)  BY <1>1
  <2> QED BY <2>2, <2>3, <2>4
<1>4. LinkedWrites(more, tool, v, tr)  BY <1>3 DEF LinkedWrites
<1> QED BY <1>4 DEF v

LEMMA FirstLinked ==
  ASSUME NEW w, IsSeq(w), w # <<>>, NEW sheets, NEW tool, NEW tr, LinkedWrites(sheets, tool, w, tr)
  PROVE  LinkedWrite(w[1], sheets, tool, tr) /\ (w[1].op = "relink" => Tail(w) = <<>>)
<1>1. Len(w) \in Nat \ {0} /\ DOMAIN w = 1..Len(w) /\ 1 \in DOMAIN w  BY TailFacts
<1>2. Before(w, 1) = {}
  <2>1. \A k \in DOMAIN w : ~(k < 1)  BY <1>1
  <2> QED BY <2>1 DEF Before
<1>3. LinkedWrite(w[1], sheets \cup Before(w, 1), tool, tr) /\ (w[1].op = "relink" => 1 = Len(w))
  BY <1>1 DEF LinkedWrites
<1>4. ASSUME Len(w) = 1  PROVE Tail(w) = <<>>
  <2> DEFINE v == Tail(w)
  <2>1. Len(v) = Len(w) - 1 /\ IsSeq(v)  BY TailFacts
  <2> HIDE DEF v
  <2>2. v \in Seq(ToSet(v)) /\ Len(v) = 0  BY <2>1, <1>4, SeqFacts
  <2>3. v = <<>>  BY <2>2
  <2> QED BY <2>3 DEF v
<1>5. sheets \cup Before(w, 1) = sheets  BY <1>2
<1> QED BY <1>3, <1>4, <1>5

LEMMA RegisterGrows ==
  ASSUME NEW d, NEW e, NEW tool, NEW w, NEW v, NEW tr, NEW utool, LinkedFiles(d, tool, w, tr),
         DOMAIN d.sheets \subseteq DOMAIN e.sheets,
         e.register = None \/ e.register = d.register,
         e.catalog = d.catalog \/ DOMAIN e.catalog = {},
         NEW tr2, Limited(tool, w, tr) => Limited(utool, v, tr2)
  PROVE  LinkedFiles(e, utool, v, tr2)
<1>1. e.register # None => LinksFound(e.register, DOMAIN e.sheets)  BY LinksGrow DEF LinkedFiles
<1>2. CASE e.catalog = d.catalog
  <2>1. Limited(tool, w, tr) \/ LinksFound(e.catalog, DOMAIN e.sheets)  BY <1>2, LinksGrow DEF LinkedFiles
  <2> QED BY <1>1, <2>1 DEF LinkedFiles
<1>3. CASE DOMAIN e.catalog = {}
  <2>1. LinksFound(e.catalog, DOMAIN e.sheets)  BY <1>3 DEF LinksFound
  <2> QED BY <1>1, <2>1 DEF LinkedFiles
<1> QED BY <1>2, <1>3

\* A write keeps it.
LEMMA LinkedDone ==
  ASSUME NEW d, NEW w, NEW tool, NEW tr, HasFiles(d), CorpusFiles(d), ErdosFiles(d),
         Planning(d, tool, w), w # <<>>, Linking(d, tool, w, tr)
  PROVE  Linking(Done(d, w[1]), tool, Tail(w), tr)
<1> DEFINE e == Done(d, w[1])
           u == w[1]
           v == Tail(w)
<1>1. IsSeq(w) /\ \A i \in DOMAIN w : w[i].op \in OpsOf(tool)  BY DEF Planning
<1>2. WriteFits(d, u)  BY PlanningStep
<1>3. u.op \in CorpusOps \cup ErdosOps  BY <1>1, TailFacts, OpsOfTools
<1>4. LinkedFiles(d, tool, w, tr) /\ LinkedWrites(DOMAIN d.sheets, tool, w, tr)  BY DEF Linking
<1>5. LinkedWrite(u, DOMAIN d.sheets, tool, tr) /\ (u.op = "relink" => v = <<>>)  BY <1>1, <1>4, FirstLinked
<1>6. Limited(tool, w, tr) => LimitedBefore(tr)  BY DEF Limited
<1>7. LimitedBefore(tr) => Limited(tool, v, tr)
  <2> HIDE DEF v
  <2> QED BY DEF Limited
<1>8. SUFFICES /\ LinkedFiles(e, tool, v, tr) /\ DOMAIN d.sheets \subseteq DOMAIN e.sheets
               /\ u.op = "sheet" => u.on \in DOMAIN e.sheets
  BY <1>1, <1>4, LinkedTail DEF Linking
<1>9. CASE u.op \in CorpusOps
  <2>1. SameErdos(d, e)  BY <1>2, <1>9, DoneSameErdos
  <2>2. u.op # "sheet"  BY <1>9 DEF CorpusOps
  <2> HIDE DEF e, u, v
  <2>3. e.register = d.register /\ e.catalog = d.catalog /\ DOMAIN e.sheets = DOMAIN d.sheets
    BY <2>1 DEF SameErdos
  <2> QED BY <2>2, <2>3, <1>4, <1>6, <1>7, RegisterGrows
<1>10. CASE u.op = "heading"
  <2>1. e.register = d.register /\ e.catalog = d.catalog /\ DOMAIN e.sheets = DOMAIN d.sheets
    BY <1>10, DoneHeading
  <2> HIDE DEF e, u, v
  <2> QED BY <2>1, <1>4, <1>6, <1>7, <1>10, RegisterGrows
<1>11. CASE u.op = "sheet"
  <2>1. e.register = d.register /\ e.catalog = d.catalog /\ DOMAIN e.sheets = {u.on} \cup DOMAIN d.sheets
    BY <1>11, DoneSheet
  <2> HIDE DEF e, u, v
  <2>2. DOMAIN d.sheets \subseteq DOMAIN e.sheets /\ u.on \in DOMAIN e.sheets  BY <2>1
  <2> QED BY <2>1, <2>2, <1>4, <1>6, <1>7, RegisterGrows
<1>12. CASE u.op = "register"
  <2>1. e.register = u.what /\ e.catalog = d.catalog /\ e.sheets = d.sheets  BY <1>12, DoneRegister
  <2> HIDE DEF e, u, v
  <2>2. LinksFound(e.register, DOMAIN e.sheets)  BY <2>1, <1>5, <1>12 DEF LinkedWrite
  <2>3. Limited(tool, v, tr) \/ LinksFound(e.catalog, DOMAIN e.sheets)
    BY <2>1, <1>4, <1>6, <1>7 DEF LinkedFiles
  <2> QED BY <2>1, <2>2, <2>3, <1>12 DEF LinkedFiles
<1>13. CASE u.op = "catalog"
  <2>1. e.register = d.register /\ e.catalog = u.what /\ e.sheets = d.sheets  BY <1>13, DoneCatalog
  <2> HIDE DEF e, u, v
  <2>2. LimitedBefore(tr) \/ LinksFound(e.catalog, DOMAIN e.sheets)  BY <2>1, <1>5, <1>13 DEF LinkedWrite
  <2>3. Limited(tool, v, tr) \/ LinksFound(e.catalog, DOMAIN e.sheets)  BY <2>2, <1>7
  <2>4. e.register # None => LinksFound(e.register, DOMAIN e.sheets)  BY <2>1, <1>4 DEF LinkedFiles
  <2> QED BY <2>1, <2>3, <2>4, <1>13 DEF LinkedFiles
<1>14. CASE u.op = "relink"
  <2>1. e.register = d.register /\ e.catalog = RelinkedTable(d, u.what) /\ e.sheets = d.sheets
    BY <1>14, DoneRelink
  <2>2. IsCatalog(d.catalog)  BY DEF ErdosFiles
  <2>3. /\ DOMAIN RelinkedTable(d, u.what) = DOMAIN d.catalog
        /\ \A n \in DOMAIN d.catalog : n \notin u.what => RelinkedTable(d, u.what)[n] = d.catalog[n]
    BY <2>2, RelinkedIsTable
  <2> HIDE DEF e, u, v
  <2>4. Limited(tool, v, tr) \/ LinksFound(e.catalog, DOMAIN e.sheets)
    <3>1. CASE tool = "specimens --limit"  BY <3>1, <1>5, <1>14 DEF Limited
    <3>2. CASE LimitedBefore(tr)  BY <3>2, <1>7
    <3>3. CASE u.what \subseteq DOMAIN d.sheets /\ LinksFound(d.catalog, DOMAIN d.sheets)
      <4>1. ASSUME NEW n \in DOMAIN e.catalog, e.catalog[n].spec  PROVE n \in DOMAIN e.sheets
        <5>1. n \in DOMAIN d.catalog  BY <2>1, <2>3
        <5>2. CASE n \in u.what  BY <5>2, <3>3, <2>1
        <5>3. CASE n \notin u.what
          <6>1. e.catalog[n] = d.catalog[n]  BY <5>1, <5>3, <2>1, <2>3
          <6> QED BY <6>1, <5>1, <4>1, <3>3, <2>1 DEF LinksFound
        <5> QED BY <5>2, <5>3
      <4> QED BY <4>1 DEF LinksFound
    <3>4. tool = "specimens --limit" \/ u.what \subseteq DOMAIN d.sheets  BY <1>5, <1>14 DEF LinkedWrite
    <3>5. LimitedBefore(tr) \/ LinksFound(d.catalog, DOMAIN d.sheets)  BY <1>4, <1>6 DEF LinkedFiles
    <3> QED BY <3>1, <3>2, <3>3, <3>4, <3>5
  <2>5. e.register # None => LinksFound(e.register, DOMAIN e.sheets)  BY <2>1, <1>4 DEF LinkedFiles
  <2> QED BY <2>1, <2>4, <2>5, <1>14 DEF LinkedFiles
<1> QED BY <1>3, <1>9, <1>10, <1>11, <1>12, <1>13, <1>14 DEF ErdosOps

\* A write that is killed: the file is left empty, and no tool runs.
LEMMA LinkedEmptied ==
  ASSUME NEW d, NEW w, NEW tool, NEW tr, HasFiles(d), CorpusFiles(d), ErdosFiles(d),
         Planning(d, tool, w), w # <<>>, LinkedFiles(d, tool, w, tr), w[1].op # "append",
         NEW tr2, LimitedBefore(tr) => LimitedBefore(tr2), NEW v
  PROVE  LinkedFiles(Emptied(d, w[1]), None, v, tr2)
<1> DEFINE e == Emptied(d, w[1])
           u == w[1]
<1>1. IsSeq(w) /\ \A i \in DOMAIN w : w[i].op \in OpsOf(tool)  BY DEF Planning
<1>2. WriteFits(d, u)  BY PlanningStep
<1>3. u.op \in CorpusOps \cup ErdosOps  BY <1>1, TailFacts, OpsOfTools
<1>4. Limited(tool, w, tr) => Limited(None, v, tr2)  BY DEF Limited
<1>5. SUFFICES /\ DOMAIN d.sheets \subseteq DOMAIN e.sheets
               /\ e.register = None \/ e.register = d.register
               /\ e.catalog = d.catalog \/ DOMAIN e.catalog = {}
  BY <1>4, RegisterGrows
<1>6. CASE u.op \in CorpusOps
  <2>1. SameErdos(d, e)  BY <1>2, <1>6, EmptiedSameErdos
  <2> HIDE DEF e, u
  <2> QED BY <2>1 DEF SameErdos
<1>7. CASE u.op \in {"sheet", "heading"}
  <2>1. e.register = d.register /\ e.catalog = d.catalog /\ DOMAIN e.sheets = {u.on} \cup DOMAIN d.sheets
    BY <1>7, EmptiedSheet
  <2> HIDE DEF e, u
  <2> QED BY <2>1
<1>8. CASE u.op = "register"
  <2>1. e.register = None /\ e.catalog = d.catalog /\ e.sheets = d.sheets  BY <1>8, EmptiedTable
  <2> HIDE DEF e, u
  <2> QED BY <2>1
<1>9. CASE u.op \in {"relink", "catalog"}
  <2>1. e.register = d.register /\ e.catalog = EmptyTable /\ e.sheets = d.sheets  BY <1>9, EmptiedTable
  <2> HIDE DEF e, u
  <2> QED BY <2>1, EmptyTableFacts
<1> QED BY <1>3, <1>6, <1>7, <1>8, <1>9 DEF ErdosOps

LEMMA NothingLinked ==
  ASSUME NEW sheets, NEW tool, NEW w, w = <<>>, NEW tr
  PROVE  LinkedWrites(sheets, tool, w, tr)
<1>1. DOMAIN w = {}  BY EmptyFacts
<1> QED BY <1>1 DEF LinkedWrites

\* Plans of tools that write none of the three files, or one of them.
LEMMA OthersLinked ==
  ASSUME NEW d, NEW tool, NEW w, Planning(d, tool, w), tool \in CorpusTools, NEW sheets, NEW tr
  PROVE  LinkedWrites(sheets, tool, w, tr)
<1>1. \A i \in DOMAIN w : w[i].op \in OpsOf(tool)  BY DEF Planning
<1>2. OpsOf(tool) \cap {"register", "catalog", "relink"} = {}  BY DEF OpsOf, CorpusTools
<1>3. \A i \in DOMAIN w : w[i].op \notin {"register", "catalog", "relink"}  BY <1>1, <1>2
<1> QED BY <1>3 DEF LinkedWrites, LinkedWrite

LEMMA RegisterLinked ==
  ASSUME NEW r, NEW sheets, LinksFound(r, sheets), NEW tool, NEW tr
  PROVE  LinkedWrites(sheets, tool, <<Write("register", None, r)>>, tr)
<1> DEFINE w == <<Write("register", None, r)>>
<1>1. \A i \in DOMAIN w : w[i].op = "register" /\ w[i].what = r  BY OneWrite
<1> HIDE DEF w
<1>2. \A i \in DOMAIN w : LinksFound(w[i].what, sheets \cup Before(w, i))  BY <1>1, LinksGrow
<1>3. LinkedWrites(sheets, tool, w, tr)  BY <1>1, <1>2 DEF LinkedWrites, LinkedWrite
<1> QED BY <1>3 DEF w

LEMMA CatalogLinked ==
  ASSUME NEW c, NEW sheets, NEW tr, LimitedBefore(tr) \/ LinksFound(c, sheets), NEW tool
  PROVE  LinkedWrites(sheets, tool, <<Write("catalog", "catalog", c)>>, tr)
<1> DEFINE u == Write("catalog", "catalog", c)
           w == <<u>>
<1>0. u.op = "catalog" /\ u.what = c  BY DEF Write
<1> HIDE DEF u
<1>1. \A i \in DOMAIN w : w[i].op = "catalog" /\ w[i].what = c  BY <1>0, OneFacts
<1> HIDE DEF w
<1>2. \A i \in DOMAIN w : LimitedBefore(tr) \/ LinksFound(w[i].what, sheets \cup Before(w, i))
  BY <1>1, LinksGrow
<1>3. LinkedWrites(sheets, tool, w, tr)  BY <1>1, <1>2 DEF LinkedWrites, LinkedWrite
<1> QED BY <1>3 DEF w, u

LEMMA OverLinks ==
  ASSUME NEW s, NEW t, NEW sheets, LinksFound(s, sheets), LinksFound(t, sheets)
  PROVE  LinksFound(Over(s, t), sheets)
<1> DEFINE o == Over(s, t)
<1>1. DOMAIN o = DOMAIN s \cup DOMAIN t
      /\ \A n \in DOMAIN s \cup DOMAIN t : o[n] = IF n \in DOMAIN s THEN s[n] ELSE t[n]
  BY DEF Over
<1> HIDE DEF o
<1>2. ASSUME NEW n \in DOMAIN o, o[n].spec  PROVE n \in sheets
  <2>1. CASE n \in DOMAIN s
    <3>1. o[n] = s[n]  BY <1>1, <2>1
    <3> QED BY <3>1, <2>1, <1>2 DEF LinksFound
  <2>2. CASE n \notin DOMAIN s
    <3>1. n \in DOMAIN t /\ o[n] = t[n]  BY <1>1, <2>2
    <3> QED BY <3>1, <1>2 DEF LinksFound
  <2> QED BY <2>1, <2>2
<1>3. LinksFound(o, sheets)  BY <1>2 DEF LinksFound
<1> QED BY <1>3 DEF o

\* New rows name no specimen.
NewRow(row) == \E stmt, tier, status : row = Row(stmt, tier, status)

LEMMA NewRowsLink ==
  ASSUME NEW t, \A n \in DOMAIN t : NewRow(t[n]), NEW sheets
  PROVE  LinksFound(t, sheets)
<1>1. ASSUME NEW n \in DOMAIN t  PROVE ~t[n].spec
  <2>1. PICK stmt, tier, status : t[n] = Row(stmt, tier, status)  BY DEF NewRow
  <2>2. Row(stmt, tier, status).spec = FALSE  BY DEF Row
  <2> QED BY <2>1, <2>2
<1> QED BY <1>1 DEF LinksFound

LEMMA FetchedLinks ==
  ASSUME NEW d, NEW skip, NEW found, NEW sheets, LinksFound(d.register, sheets)
  PROVE  LinksFound(Fetched(d, skip, found), sheets)
<1> DEFINE N == found \cap Todo(d, skip)
           s == [n \in N |-> Row(<<"page", n>>, None, "open")]
<1>1. Fetched(d, skip, found) = Over(s, d.register)  BY DEF Fetched
<1> HIDE DEF N
<1>2. DOMAIN s = N /\ \A n \in N : NewRow(s[n])  BY DEF NewRow
<1> HIDE DEF s
<1>3. LinksFound(s, sheets)  BY <1>2, NewRowsLink
<1> QED BY <1>1, <1>3, OverLinks

LEMMA Tier1Links ==
  ASSUME NEW d, NEW sheets, LinksFound(d.register, sheets)
  PROVE  LinksFound(Tier1Table(d), sheets)
<1> DEFINE s == [n \in Fixes |-> Fixed(d, n)]
           t == [n \in NewRows |-> Row(<<"new", n>>, None, "open")]
<1>1. ASSUME NEW n \in Fixes, Fixed(d, n).spec  PROVE n \in sheets
  <2>1. CASE n \in DOMAIN d.register
    <3> DEFINE r == d.register[n]
               f == [r EXCEPT !.stmt = <<"fix", n>>, !.status = "proved"]
    <3>1. Fixed(d, n) = f  BY <2>1 DEF Fixed
    <3>2. f.spec = r.spec  OBVIOUS
    <3> HIDE DEF f
    <3> QED BY <3>1, <3>2, <2>1, <1>1 DEF LinksFound
  <2>2. CASE n \notin DOMAIN d.register
    <3>1. Fixed(d, n) = Row(<<"fix", n>>, None, "proved")  BY <2>2 DEF Fixed
    <3>2. Row(<<"fix", n>>, None, "proved").spec = FALSE  BY DEF Row
    <3> QED BY <3>1, <3>2, <1>1
  <2> QED BY <2>1, <2>2
<1>2. LinksFound(s, sheets)  BY <1>1 DEF LinksFound
<1>3. DOMAIN t = NewRows /\ \A n \in NewRows : NewRow(t[n])  BY DEF NewRow
<1>4. Tier1Table(d) = Over(s, Over(d.register, t))  BY DEF Tier1Table
<1> HIDE DEF s, t
<1>5. LinksFound(t, sheets)  BY <1>3, NewRowsLink
<1>6. LinksFound(Over(d.register, t), sheets)  BY <1>5, OverLinks
<1>7. LinksFound(Over(s, Over(d.register, t)), sheets)  BY <1>2, <1>6, OverLinks
<1> QED BY <1>4, <1>7

LEMMA OverlaidLinks ==
  ASSUME NEW d, NEW sheets, IsRegister(d.register), LinksFound(d.register, sheets)
  PROVE  LinksFound(OverlaidTable(d), sheets)
<1> DEFINE r == d.register
           t == OverlaidTable(d)
<1>1. DOMAIN t = DOMAIN r
      /\ \A n \in DOMAIN r : t[n] = IF n \in DOMAIN Overlays THEN Merged(r[n], Overlays[n]) ELSE r[n]
  BY DEF OverlaidTable
<1>2. \A n \in DOMAIN r : DOMAIN r[n] = {"stmt", "tier", "status", "spec"}  BY DEF IsRegister, IsTable
<1> HIDE DEF t
<1>3. ASSUME NEW n \in DOMAIN t, t[n].spec  PROVE n \in sheets
  <2>1. n \in DOMAIN r  BY <1>1
  <2>2. Merged(r[n], Overlays[n]).spec = r[n].spec  BY <2>1, <1>2, MergedRow
  <2>3. t[n] = Merged(r[n], Overlays[n]) \/ t[n] = r[n]  BY <2>1, <1>1
  <2> QED BY <2>1, <2>2, <2>3, <1>3 DEF LinksFound
<1>4. LinksFound(t, sheets)  BY <1>3 DEF LinksFound
<1> QED BY <1>4 DEF t

LEMMA SyncedLinks ==
  ASSUME NEW d, NEW limit, NEW merge, NEW sheets, LinksFound(d.register, sheets)
  PROVE  /\ LinksFound(Synced(d, limit, FALSE), sheets)
         /\ LinksFound(d.catalog, sheets) => LinksFound(Synced(d, limit, merge), sheets)
<1> DEFINE b == Batch(d, limit)
<1>1. DOMAIN b = FirstOf(DOMAIN d.register, limit) /\ \A n \in DOMAIN b : b[n] = Entry(d.register[n])
  BY DEF Batch
<1>2. DOMAIN b \subseteq DOMAIN d.register  BY <1>1, FirstOfFacts
<1>3. Synced(d, limit, FALSE) = b
      /\ (Synced(d, limit, merge) = Over(b, d.catalog) \/ Synced(d, limit, merge) = b)
  BY DEF Synced
<1> HIDE DEF b
<1>4. ASSUME NEW n \in DOMAIN b, b[n].spec  PROVE n \in sheets
  <2>1. b[n].spec = d.register[n].spec  BY <1>1, EntryFields
  <2> QED BY <2>1, <1>2, <1>4 DEF LinksFound
<1>5. LinksFound(b, sheets)  BY <1>4 DEF LinksFound
<1>6. ASSUME LinksFound(d.catalog, sheets)  PROVE LinksFound(Over(b, d.catalog), sheets)
  BY <1>5, <1>6, OverLinks
<1> QED BY <1>3, <1>5, <1>6

LEMMA FirstSteps ==
  ASSUME NEW n \in Nat
  PROVE  \A i \in 1..n : i \in 1..(n + 2) /\ i < n + 1 /\ i < n + 2
OBVIOUS

\* The specimens are there before the register names them, and so they are
\* before the catalog does unless --limit left some out.
LEMMA SpecimensLinked ==
  ASSUME NEW d, NEW limit, NEW tool, limit = 0 \/ tool = "specimens --limit", NEW tr,
         IsRegister(d.register), NEW sheets, LinksFound(d.register, sheets)
  PROVE  LinkedWrites(sheets, tool, Specimens(d, limit), tr)
<1> DEFINE w == Specimens(d, limit)
           chosen == FirstOf(DOMAIN d.register, limit)
<1>1. PICK n \in Nat : SpecimensSteps(d, w, chosen, n)  BY SpecimensPlan
<1>2. chosen \subseteq DOMAIN d.register /\ (limit = 0 => chosen = DOMAIN d.register)  BY FirstOfFacts
<1> HIDE DEF w, chosen
<1>0. n \in Nat  BY <1>1
<1>3. /\ Len(w) = n + 2 /\ DOMAIN w = 1..(n + 2)
      /\ \A i \in 1..n : w[i].op = "sheet"
      /\ \A x \in chosen : \E i \in 1..n : w[i].on = x
      /\ w[n + 1].op = "register" /\ w[n + 1].what = Linked(d, chosen)
      /\ w[n + 2].op = "relink" /\ w[n + 2].what = DOMAIN d.register
  BY <1>1 DEF SpecimensSteps
<1>4. ASSUME NEW k \in {n + 1, n + 2}  PROVE chosen \subseteq Before(w, k)
  <2>0. \A i \in 1..n : i \in 1..(n + 2) /\ i < n + 1 /\ i < n + 2
    <3>1. n \in Nat  BY <1>0
    <3> QED BY <3>1, FirstSteps
  <2>1. \A i \in 1..n : i \in DOMAIN w /\ i < k
    <3>1. k = n + 1 \/ k = n + 2  OBVIOUS
    <3>2. DOMAIN w = 1..(n + 2)  BY <1>3
    <3> QED BY <2>0, <3>1, <3>2
  <2>2. ASSUME NEW x \in chosen  PROVE x \in Before(w, k)
    <3>1. PICK i \in 1..n : w[i].on = x  BY <1>3
    <3>2. i \in DOMAIN w /\ i < k /\ w[i].op = "sheet"  BY <2>1, <1>3
    <3> QED BY <3>1, <3>2 DEF Before
  <2> QED BY <2>2
<1>5. LinksFound(Linked(d, chosen), sheets \cup Before(w, n + 1))
  <2> DEFINE t == Linked(d, chosen)
             r == d.register
  <2>1. DOMAIN t = DOMAIN r /\ \A x \in DOMAIN r : x \notin chosen => t[x].spec = r[x].spec  BY LinkedTable
  <2> HIDE DEF t
  <2>2. ASSUME NEW x \in DOMAIN t, t[x].spec  PROVE x \in sheets \cup Before(w, n + 1)
    <3>1. CASE x \in chosen  BY <3>1, <1>4
    <3>2. CASE x \notin chosen
      <4>1. x \in DOMAIN r /\ t[x].spec = r[x].spec  BY <2>1, <3>2
      <4> QED BY <4>1, <2>2 DEF LinksFound
    <3> QED BY <3>1, <3>2
  <2>3. LinksFound(t, sheets \cup Before(w, n + 1))  BY <2>2 DEF LinksFound
  <2> QED BY <2>3 DEF t
<1>6. limit = 0 => DOMAIN d.register \subseteq sheets \cup Before(w, n + 2)  BY <1>2, <1>4
<1>7. ASSUME NEW i \in DOMAIN w
      PROVE  LinkedWrite(w[i], sheets \cup Before(w, i), tool, tr) /\ (w[i].op = "relink" => i = Len(w))
  <2>1. i \in 1..n \/ i = n + 1 \/ i = n + 2
    <3>1. n \in Nat  BY <1>0
    <3> QED BY <3>1, <1>3, LastTwo
  <2>2. CASE i \in 1..n
    <3>1. w[i].op = "sheet"  BY <2>2, <1>3
    <3> QED BY <3>1 DEF LinkedWrite
  <2>3. CASE i = n + 1
    <3>1. w[i].op = "register" /\ LinksFound(w[i].what, sheets \cup Before(w, i))  BY <2>3, <1>3, <1>5
    <3> QED BY <3>1 DEF LinkedWrite
  <2>4. CASE i = n + 2
    <3>1. w[i].op = "relink" /\ w[i].what = DOMAIN d.register /\ i = Len(w)  BY <2>4, <1>3
    <3>2. tool = "specimens --limit" \/ w[i].what \subseteq sheets \cup Before(w, i)  BY <3>1, <1>6, <2>4
    <3> QED BY <3>1, <3>2 DEF LinkedWrite
  <2> QED BY <2>1, <2>2, <2>3, <2>4
<1>8. LinkedWrites(sheets, tool, w, tr)  BY <1>7 DEF LinkedWrites
<1> QED BY <1>8 DEF w

LEMMA ErdosPlansLinked ==
  ASSUME NEW d, NEW tr, IsRegister(d.register), IsCatalog(d.catalog), NEW sheets,
         LinksFound(d.register, sheets), LimitedBefore(tr) \/ LinksFound(d.catalog, sheets)
  PROVE  /\ \A skip, found : LinkedWrites(sheets, "fetch", Fetch(d, skip, found), tr)
         /\ LinkedWrites(sheets, "tier1", Tier1(d), tr)
         /\ LinkedWrites(sheets, "overlays", ApplyOverlays(d), tr)
         /\ LinkedWrites(sheets, "specimens", Specimens(d, 0), tr)
         /\ LinkedWrites(sheets, "specimens --limit", Specimens(d, 1), tr)
         /\ \A tool, limit, merge : LinkedWrites(sheets, tool, Sync(d, limit, merge), tr)
<1>1. ASSUME NEW skip, NEW found  PROVE LinkedWrites(sheets, "fetch", Fetch(d, skip, found), tr)
  <2> DEFINE r == Fetched(d, skip, found)
             none == <<>>
  <2>1. LinksFound(r, sheets)  BY FetchedLinks
  <2>2. Fetch(d, skip, found) = none \/ Fetch(d, skip, found) = <<Write("register", None, r)>>
    BY RegisterPlans
  <2>3. none = <<>>  OBVIOUS
  <2> HIDE DEF r, none
  <2>4. LinkedWrites(sheets, "fetch", <<Write("register", None, r)>>, tr)  BY <2>1, RegisterLinked
  <2>5. LinkedWrites(sheets, "fetch", none, tr)  BY <2>3, NothingLinked
  <2> QED BY <2>2, <2>4, <2>5
<1>2. LinkedWrites(sheets, "tier1", Tier1(d), tr)
  <2>1. LinksFound(Tier1Table(d), sheets)  BY Tier1Links
  <2>2. Tier1(d) = <<Write("register", None, Tier1Table(d))>>  BY RegisterPlans
  <2>3. LinkedWrites(sheets, "tier1", <<Write("register", None, Tier1Table(d))>>, tr)  BY <2>1, RegisterLinked
  <2> QED BY <2>2, <2>3
<1>3. LinkedWrites(sheets, "overlays", ApplyOverlays(d), tr)
  <2>1. LinksFound(OverlaidTable(d), sheets)  BY OverlaidLinks
  <2>2. ApplyOverlays(d) = <<Write("register", None, OverlaidTable(d))>>  BY RegisterPlans
  <2>3. LinkedWrites(sheets, "overlays", <<Write("register", None, OverlaidTable(d))>>, tr)
    BY <2>1, RegisterLinked
  <2> QED BY <2>2, <2>3
<1>4. LinkedWrites(sheets, "specimens", Specimens(d, 0), tr)  BY SpecimensLinked
<1>5. LinkedWrites(sheets, "specimens --limit", Specimens(d, 1), tr)  BY SpecimensLinked
<1>6. ASSUME NEW tool, NEW limit, NEW merge  PROVE LinkedWrites(sheets, tool, Sync(d, limit, merge), tr)
  <2>1. LinksFound(d.catalog, sheets) => LinksFound(Synced(d, limit, merge), sheets)  BY SyncedLinks
  <2>2. Sync(d, limit, merge) = <<Write("catalog", "catalog", Synced(d, limit, merge))>>  BY RegisterPlans
  <2>3. LimitedBefore(tr) \/ LinksFound(Synced(d, limit, merge), sheets)  BY <2>1
  <2>4. LinkedWrites(sheets, tool, <<Write("catalog", "catalog", Synced(d, limit, merge))>>, tr)
    BY <2>3, CatalogLinked
  <2> QED BY <2>2, <2>4
<1> QED BY <1>1, <1>2, <1>3, <1>4, <1>5, <1>6

-----------------------------------------------------------------------------
(* Links is inductive: the specimens that a row names are there before the *)
(* row is written.                                                         *)

Links == Linking(db, job.tool, job.writes, trail)

LEMMA TrailGrows ==
  ASSUME NEW S, NEW tr \in Seq(S), NEW x \in S
  PROVE  /\ LimitedBefore(tr) => LimitedBefore(Append(tr, x))
         /\ x = "specimens --limit" => LimitedBefore(Append(tr, x))
<1> DEFINE a == Append(tr, x)
<1>1. /\ Len(tr) \in Nat /\ DOMAIN tr = 1..Len(tr) /\ DOMAIN a = 1..(Len(tr) + 1)
      /\ \A i \in 1..Len(tr) : a[i] = tr[i]
      /\ a[Len(tr) + 1] = x
  OBVIOUS
<1> HIDE DEF a
<1>2. \A i \in DOMAIN tr : i \in DOMAIN a /\ a[i] = tr[i]  BY <1>1
<1>3. Len(tr) + 1 \in DOMAIN a  BY <1>1
<1>4. LimitedBefore(tr) => LimitedBefore(a)  BY <1>2 DEF LimitedBefore
<1>5. x = "specimens --limit" => LimitedBefore(a)  BY <1>1, <1>3 DEF LimitedBefore
<1> QED BY <1>4, <1>5 DEF a

LEMMA LinksStart ==
  ASSUME Corpus, Links, NEW tool, NEW w, Start(tool, w),
         LinkedWrites(DOMAIN db.sheets, tool, w, trail)
  PROVE  Links'
<1>1. db' = db /\ trail' = trail /\ job = Idle /\ job' = [tool |-> tool, writes |-> w]  BY DEF Start
<1>2. job'.tool = tool /\ job'.writes = w  BY <1>1
<1>3. job.tool = None /\ job.writes = <<>>  BY <1>1, IdleFacts
<1>4. LinkedFiles(db, job.tool, job.writes, trail)  BY DEF Links, Linking
<1>5. Limited(job.tool, job.writes, trail) => LimitedBefore(trail)
  <2>1. None # "specimens --limit"  BY NoneAssumption DEF ErdosTools
  <2> QED BY <1>3, <2>1 DEF Limited
<1>6. LimitedBefore(trail) => Limited(tool, w, trail)  BY DEF Limited
<1>7. LinkedFiles(db, tool, w, trail)  BY <1>4, <1>5, <1>6 DEF LinkedFiles
<1>8. Linking(db', job'.tool, job'.writes, trail')  BY <1>1, <1>2, <1>7 DEF Linking
<1> QED BY <1>8 DEF Links

LEMMA LinksWrite ==
  ASSUME Corpus, Links, WriteOne
  PROVE  Links'
<1>1. /\ job.writes # <<>> /\ db' = Done(db, job.writes[1]) /\ trail' = trail
      /\ job'.tool = job.tool /\ job'.writes = Tail(job.writes)
  BY WriteJob
<1>2. HasFiles(db) /\ CorpusFiles(db) /\ ErdosFiles(db) /\ Planning(db, job.tool, job.writes)  BY DEF Corpus
<1>3. Linking(db, job.tool, job.writes, trail)  BY DEF Links
<1> DEFINE e == Done(db, job.writes[1])
<1>4. Linking(e, job.tool, Tail(job.writes), trail)  BY <1>1, <1>2, <1>3, LinkedDone
<1> HIDE DEF e
<1>5. Linking(db', job'.tool, job'.writes, trail')  BY <1>1, <1>4 DEF e
<1> QED BY <1>5 DEF Links

LEMMA LinksEnd ==
  ASSUME Corpus, Links, End
  PROVE  Links'
<1>1. job # Idle /\ job.writes = <<>> /\ trail' = Append(trail, job.tool) /\ job' = Idle /\ db' = db
  BY DEF End
<1>2. job.tool \in AllTools  BY <1>1, JobOfTool
<1>3. trail \in Seq(Trails) /\ job.tool \in Trails  BY <1>2, ToolNames DEF Corpus, Jobs
<1>4. Limited(job.tool, job.writes, trail) => LimitedBefore(trail')  BY <1>1, <1>3, TrailGrows DEF Limited
<1>5. job'.tool = None /\ job'.writes = <<>>  BY <1>1, IdleFacts
<1>6. LimitedBefore(trail') => Limited(job'.tool, job'.writes, trail')  BY DEF Limited
<1>7. LinkedFiles(db, job.tool, job.writes, trail)  BY DEF Links, Linking
<1>8. LinkedFiles(db', job'.tool, job'.writes, trail')  BY <1>1, <1>4, <1>6, <1>7 DEF LinkedFiles
<1>9. LinkedWrites(DOMAIN db'.sheets, job'.tool, job'.writes, trail')  BY <1>5, NothingLinked
<1> QED BY <1>8, <1>9 DEF Links, Linking

LEMMA LinksKill ==
  ASSUME Corpus, Links, Kill
  PROVE  Links'
<1>1. /\ job.writes # <<>> /\ job.tool \in AllTools
      /\ trail' = Append(trail, Killed(job.tool)) /\ job' = Idle
      /\ db' = db \/ (job.writes[1].op # "append" /\ db' = Emptied(db, job.writes[1]))
  BY KillJob
<1>2. Killed(job.tool) \in Trails  BY DEF Killed, Trails
<1>3. LimitedBefore(trail) => LimitedBefore(trail')
  <2>1. trail \in Seq(Trails)  BY DEF Corpus, Jobs
  <2> QED BY <1>1, <1>2, <2>1, TrailGrows
<1>4. job'.tool = None /\ job'.writes = <<>>  BY <1>1, IdleFacts
<1>5. LinkedFiles(db, job.tool, job.writes, trail)  BY DEF Links, Linking
<1>6. HasFiles(db) /\ CorpusFiles(db) /\ ErdosFiles(db) /\ Planning(db, job.tool, job.writes)  BY DEF Corpus
<1>7. LinkedFiles(db', None, job'.writes, trail')
  <2>1. CASE db' = db
    <3>1. Limited(job.tool, job.writes, trail) => LimitedBefore(trail)  BY <1>1 DEF Limited
    <3>2. LimitedBefore(trail') => Limited(None, job'.writes, trail')  BY DEF Limited
    <3> QED BY <2>1, <1>3, <1>5, <3>1, <3>2 DEF LinkedFiles
  <2>2. CASE job.writes[1].op # "append" /\ db' = Emptied(db, job.writes[1])
    <3> DEFINE e == Emptied(db, job.writes[1])
    <3>1. LinkedFiles(e, None, job'.writes, trail')  BY <1>1, <1>3, <1>5, <1>6, <2>2, LinkedEmptied
    <3> HIDE DEF e
    <3> QED BY <3>1, <2>2 DEF e
  <2> QED BY <1>1, <2>1, <2>2
<1>8. LinkedWrites(DOMAIN db'.sheets, job'.tool, job'.writes, trail')  BY <1>4, NothingLinked
<1> QED BY <1>4, <1>7, <1>8 DEF Links, Linking

LEMMA LinksInit ==
  ASSUME DbInit
  PROVE  Links
<1>1. PICK corpus \in Corpora, register \in Registers, synced \in BOOLEAN,
           body \in {"main", "open_witness", "by_hand"} :
        InitFiles(db, corpus, register, synced, body)
  BY InitFilesThere
<1>2. IsRegister(register) /\ \A n \in DOMAIN register : register[n].spec = FALSE  BY InitRegister
<1>3. db.register = register  BY <1>1 DEF InitFiles
<1> DEFINE c == [n \in DOMAIN register |-> Entry(register[n])]
           sheets == DOMAIN db.sheets
<1>4. db.catalog = c \/ db.catalog = EmptyTable  BY <1>1 DEF InitFiles
<1>5. DOMAIN c = DOMAIN register /\ \A n \in DOMAIN register : c[n].spec = register[n].spec
  BY <1>2, InitCatalog
<1> HIDE DEF c, sheets
<1>6. LinksFound(db.register, sheets)
  <2>1. \A n \in DOMAIN register : ~register[n].spec  BY <1>2
  <2> QED BY <2>1, <1>3 DEF LinksFound
<1>7. LinksFound(db.catalog, sheets)
  <2>1. \A n \in DOMAIN c : ~c[n].spec  BY <1>2, <1>5
  <2>2. LinksFound(c, sheets)  BY <2>1 DEF LinksFound
  <2>3. LinksFound(EmptyTable, sheets)  BY EmptyTableFacts DEF LinksFound
  <2> QED BY <2>2, <2>3, <1>4
<1>8. job.tool = None /\ job.writes = <<>>
  <2>1. job = Idle  BY DEF DbInit
  <2> QED BY <2>1, IdleFacts
<1>9. LinkedFiles(db, job.tool, job.writes, trail)  BY <1>6, <1>7 DEF LinkedFiles, sheets
<1>10. LinkedWrites(DOMAIN db.sheets, job.tool, job.writes, trail)  BY <1>8, NothingLinked
<1> QED BY <1>9, <1>10 DEF Links, Linking

\* A tool of the corpus that is started has a plan that fits the files.
LEMMA CorpusStarted ==
  ASSUME Corpus, StartCorpusTool
  PROVE  \E tool \in CorpusTools : \E w : Start(tool, w) /\ Planning(db, tool, w)
<1>1. Corpus'
  <2>1. [DbNext]_dbVars  BY DEF DbNext
  <2> QED BY <2>1, CorpusNext
<1>2. PICK tool \in CorpusTools : \E w : Start(tool, w)  BY DEF StartCorpusTool, CorpusTools
<1>3. PICK w : Start(tool, w)  BY <1>2
<1>4. db' = db /\ job' = [tool |-> tool, writes |-> w]  BY <1>3 DEF Start
<1>5. job'.tool = tool /\ job'.writes = w  BY <1>4
<1>6. Planning(db', job'.tool, job'.writes)  BY <1>1 DEF Corpus
<1>7. Planning(db, tool, w)  BY <1>4, <1>5, <1>6
<1> QED BY <1>3, <1>7

LEMMA LinksNext ==
  ASSUME Corpus, Links, [DbNext]_dbVars
  PROVE  Links'
<1>1. CASE StartCorpusTool
  <2>1. PICK tool \in CorpusTools : \E w : Start(tool, w) /\ Planning(db, tool, w)  BY <1>1, CorpusStarted
  <2>2. PICK w : Start(tool, w) /\ Planning(db, tool, w)  BY <2>1
  <2>3. LinkedWrites(DOMAIN db.sheets, tool, w, trail)  BY <2>2, OthersLinked
  <2> QED BY <2>2, <2>3, LinksStart
<1>2. CASE StartErdosTool
  <2>1. db.register # None /\ IsRegister(db.register) /\ IsCatalog(db.catalog)
    BY <1>2 DEF StartErdosTool, Corpus, ErdosFiles
  <2> DEFINE sheets == DOMAIN db.sheets
  <2>2. PICK tool, w : Start(tool, w)  BY <1>2 DEF StartErdosTool
  <2>3. job = Idle  BY <2>2 DEF Start
  <2>4. job.tool = None  BY <2>3, IdleFacts
  <2>5. LinkedFiles(db, job.tool, job.writes, trail)  BY DEF Links, Linking
  <2>6. LinksFound(db.register, sheets)  BY <2>1, <2>5 DEF LinkedFiles
  <2>7. LimitedBefore(trail) \/ LinksFound(db.catalog, sheets)
    <3>1. None # "specimens --limit"  BY NoneAssumption DEF ErdosTools
    <3> QED BY <3>1, <2>4, <2>5 DEF LinkedFiles, Limited
  <2> HIDE DEF sheets
  <2>8. /\ \A skip, found : LinkedWrites(sheets, "fetch", Fetch(db, skip, found), trail)
        /\ LinkedWrites(sheets, "tier1", Tier1(db), trail)
        /\ LinkedWrites(sheets, "overlays", ApplyOverlays(db), trail)
        /\ LinkedWrites(sheets, "specimens", Specimens(db, 0), trail)
        /\ LinkedWrites(sheets, "specimens --limit", Specimens(db, 1), trail)
        /\ \A t, limit, merge : LinkedWrites(sheets, t, Sync(db, limit, merge), trail)
    BY <2>1, <2>6, <2>7, ErdosPlansLinked
  <2>9. \E t, v : Start(t, v) /\ LinkedWrites(sheets, t, v, trail)
    <3>1. CASE \E skip \in BOOLEAN, found \in Finds : Start("fetch", Fetch(db, skip, found))  BY <3>1, <2>8
    <3>2. CASE Start("tier1", Tier1(db))  BY <3>2, <2>8
    <3>3. CASE Start("overlays", ApplyOverlays(db))  BY <3>3, <2>8
    <3>4. CASE Start("specimens", Specimens(db, 0))  BY <3>4, <2>8
    <3>5. CASE Start("specimens --limit", Specimens(db, 1))  BY <3>5, <2>8
    <3>6. CASE Start("sync", Sync(db, 0, FALSE))  BY <3>6, <2>8
    <3>7. CASE Start("sync --limit", Sync(db, 1, FALSE))  BY <3>7, <2>8
    <3>8. CASE \E limit \in {0, 1} : Start("sync --merge", Sync(db, limit, TRUE))  BY <3>8, <2>8
    <3> QED BY <1>2, <3>1, <3>2, <3>3, <3>4, <3>5, <3>6, <3>7, <3>8 DEF StartErdosTool
  <2> QED BY <2>9, LinksStart DEF sheets
<1>3. CASE WriteOne  BY <1>3, LinksWrite
<1>4. CASE End  BY <1>4, LinksEnd
<1>5. CASE Kill  BY <1>5, LinksKill
<1>6. CASE UNCHANGED dbVars
  <2>1. db' = db /\ job' = job /\ trail' = trail  BY <1>6 DEF dbVars
  <2>2. Linking(db, job.tool, job.writes, trail)  BY DEF Links
  <2>3. Linking(db', job'.tool, job'.writes, trail')  BY <2>1, <2>2
  <2> QED BY <2>3 DEF Links
<1> QED BY <1>1, <1>2, <1>3, <1>4, <1>5, <1>6 DEF DbNext

LEMMA LinksAlways == DbSpec => []Links
<1>1. DbInit => Links  BY LinksInit
<1>2. Corpus /\ Links /\ [DbNext]_dbVars => Links'  BY LinksNext
<1> QED BY <1>1, <1>2, CorpusAlways, PTL DEF DbSpec

LEMMA LinksSound ==
  ASSUME Corpus, Links
  PROVE  SpecimensFound
<1> DEFINE limited == job.tool = "specimens --limit" \/ \E i \in DOMAIN trail : trail[i] = "specimens --limit"
           found == DOMAIN db.sheets
<1>1. LinkedFiles(db, job.tool, job.writes, trail)  BY DEF Links, Linking
<1>2. Limited(job.tool, job.writes, trail) => limited  BY DEF Limited, LimitedBefore
<1> HIDE DEF limited
<1>3. db.register # None => \A n \in DOMAIN db.register : db.register[n].spec => n \in found
  BY <1>1 DEF LinkedFiles, LinksFound
<1>4. limited \/ \A n \in DOMAIN db.catalog : db.catalog[n].spec => n \in found
  BY <1>1, <1>2 DEF LinkedFiles, LinksFound
<1> QED BY <1>3, <1>4 DEF SpecimensFound, limited

-----------------------------------------------------------------------------
(* Overlays, specimens and catalog, one after the other.                   *)

RenderedAs(r, n) ==
  IF n \in DOMAIN Overlays /\ Overlays[n].stmt # None THEN Overlays[n].stmt ELSE r[n].stmt
Polished(r, n) == r[n].tier = "polished" /\ n \in DOMAIN Overlays
Overlaid(r) == IsRegister(r) /\ \A n \in DOMAIN r : RenderedAs(r, n) = r[n].stmt \/ Polished(r, n)

SameTexts(r, s) ==
  /\ IsRegister(r) /\ IsRegister(s) /\ DOMAIN s = DOMAIN r
  /\ \A n \in DOMAIN r : s[n].stmt = r[n].stmt /\ s[n].tier = r[n].tier
AllLinked(r) == \A n \in DOMAIN r : r[n].spec = TRUE

SheetSays(sheets, n, stmt) == n \in DOMAIN sheets /\ sheets[n].head = stmt

Rendering(d, w) ==
  /\ IsRegister(d.register)
  /\ \A i \in DOMAIN w : w[i].op = "sheet" => w[i].on \in DOMAIN d.register
  /\ \A n \in DOMAIN d.register :
       ToDo(w, "sheet", n) \/ SheetSays(d.sheets, n, RenderedAs(d.register, n))
  /\ \A i \in DOMAIN w : w[i].op = "sheet" => w[i].what = RenderedAs(d.register, w[i].on)
  /\ (\E i \in DOMAIN w : w[i].op = "register") \/ AllLinked(d.register)
  /\ \A i \in DOMAIN w : w[i].op = "register" => SameTexts(d.register, w[i].what) /\ AllLinked(w[i].what)

EntriesOf(r) == [n \in DOMAIN r |-> Entry(r[n])]

\* The heads that a specimen may have, before de-stub-catalog.py and after it.
Heads(stmt, doubled) == {stmt} \cup (IF doubled THEN {InHeader(stmt)} ELSE {})
HasSheet(d, n, c, doubled) ==
  /\ n \in DOMAIN d.sheets
  /\ \/ d.sheets[n].head \in Heads(d.register[n].stmt, doubled) \/ <<"sheets", n>> \in c
     \/ Polished(d.register, n)
AllSheets(d, c, doubled) ==
  /\ IsRegister(d.register) /\ AllLinked(d.register)
  /\ \A n \in DOMAIN d.register : HasSheet(d, n, c, doubled)

AfterOverlays(tr) == Len(tr) > 0 /\ tr[Len(tr)] = "overlays"
AfterSpecimens(tr) == Len(tr) > 1 /\ tr[Len(tr) - 1] = "overlays" /\ tr[Len(tr)] = "specimens"
Plain == CorpusTools \ {"de-stub-catalog"}
Killable == CorpusTools \cup {"killed"}
AfterSync(tr, tools) ==
  \E i \in DOMAIN tr :
    /\ i + 2 <= Len(tr)
    /\ tr[i] = "overlays" /\ tr[i + 1] = "specimens" /\ tr[i + 2] = "sync"
    /\ \A j \in (i + 3)..Len(tr) : tr[j] \in tools

OverlaysDone(d, w) ==
  IF w = <<>> THEN Overlaid(d.register) ELSE Len(w) = 1 /\ Overlaid(w[1].what)
SyncDone(d, w) ==
  IF w = <<>> THEN d.catalog = EntriesOf(d.register) ELSE Len(w) = 1 /\ w[1].what = EntriesOf(d.register)

Settling(d, c, doubled) == AllSheets(d, c, doubled) /\ d.catalog = EntriesOf(d.register)

Phases(d, tool, w, tr, c) ==
  /\ tool = "overlays" => OverlaysDone(d, w)
  /\ tool \in {None, "specimens"} /\ AfterOverlays(tr) => Overlaid(d.register)
  /\ tool = "specimens" => Rendering(d, w)
  /\ tool \in {None, "sync"} /\ AfterSpecimens(tr) => AllSheets(d, c, FALSE)
  /\ tool = "sync" => SyncDone(d, w)
  /\ tool \in Plain \cup {None} /\ AfterSync(tr, Plain) => Settling(d, c, FALSE)
  /\ tool \in CorpusTools \cup {None} /\ AfterSync(tr, Killable) => Settling(d, c, TRUE)

\* Trails.
LEMMA AppendFacts ==
  ASSUME NEW S, NEW tr \in Seq(S), NEW x \in S
  PROVE  /\ Len(tr) \in Nat /\ DOMAIN tr = 1..Len(tr)
         /\ Len(Append(tr, x)) = Len(tr) + 1 /\ DOMAIN Append(tr, x) = 1..(Len(tr) + 1)
         /\ \A i \in 1..Len(tr) : Append(tr, x)[i] = tr[i]
         /\ Append(tr, x)[Len(tr) + 1] = x
OBVIOUS

LEMMA AppendOverlays ==
  ASSUME NEW S, NEW tr \in Seq(S), NEW x \in S
  PROVE  AfterOverlays(Append(tr, x)) <=> x = "overlays"
<1> DEFINE a == Append(tr, x)
<1>1. Len(tr) \in Nat /\ Len(a) = Len(tr) + 1 /\ a[Len(tr) + 1] = x  BY AppendFacts
<1> HIDE DEF a
<1>2. AfterOverlays(a) <=> x = "overlays"  BY <1>1 DEF AfterOverlays
<1> QED BY <1>2 DEF a

LEMMA AppendSpecimens ==
  ASSUME NEW S, NEW tr \in Seq(S), NEW x \in S, AfterSpecimens(Append(tr, x))
  PROVE  x = "specimens" /\ AfterOverlays(tr)
<1> DEFINE a == Append(tr, x)
           N == Len(tr)
<1>1. N \in Nat /\ Len(a) = N + 1 /\ a[N + 1] = x /\ \A i \in 1..N : a[i] = tr[i]  BY AppendFacts
<1>2. AfterSpecimens(a)  OBVIOUS
<1> HIDE DEF a, N
<1>3. Len(a) > 1 /\ a[Len(a) - 1] = "overlays" /\ a[Len(a)] = "specimens"  BY <1>2 DEF AfterSpecimens
<1>4. N > 0 /\ N \in 1..N /\ Len(a) - 1 = N  BY <1>1, <1>3
<1>5. tr[N] = "overlays" /\ x = "specimens"  BY <1>1, <1>3, <1>4
<1> QED BY <1>4, <1>5 DEF AfterOverlays, N

LEMMA AppendSync ==
  ASSUME NEW S, NEW tr \in Seq(S), NEW x \in S, NEW tools, AfterSync(Append(tr, x), tools)
  PROVE  \/ x = "sync" /\ AfterSpecimens(tr)
         \/ x \in tools /\ AfterSync(tr, tools)
<1> DEFINE a == Append(tr, x)
           N == Len(tr)
<1>1. /\ N \in Nat /\ DOMAIN tr = 1..N /\ Len(a) = N + 1 /\ DOMAIN a = 1..(N + 1) /\ a[N + 1] = x
      /\ \A i \in 1..N : a[i] = tr[i]
  BY AppendFacts
<1>2. AfterSync(a, tools)  OBVIOUS
<1> HIDE DEF a, N
<1>3. PICK i \in DOMAIN a :
        /\ i + 2 <= Len(a)
        /\ a[i] = "overlays" /\ a[i + 1] = "specimens" /\ a[i + 2] = "sync"
        /\ \A j \in (i + 3)..Len(a) : a[j] \in tools
  BY <1>2 DEF AfterSync
<1>4. i \in Nat \ {0} /\ N \in Nat /\ i + 2 <= N + 1  BY <1>1, <1>3
<1>5. CASE i + 2 = N + 1
  <2>1. N > 1 /\ i \in 1..N /\ i + 1 \in 1..N /\ i = N - 1 /\ i + 1 = N  BY <1>4, <1>5
  <2>2. tr[N - 1] = "overlays" /\ tr[N] = "specimens"  BY <2>1, <1>1, <1>3
  <2>3. x = "sync"  BY <1>1, <1>3, <1>5
  <2> QED BY <2>1, <2>2, <2>3 DEF AfterSpecimens, N
<1>6. CASE i + 2 # N + 1
  <2>1. /\ i \in 1..N /\ i + 1 \in 1..N /\ i + 2 \in 1..N /\ i + 2 <= N
        /\ N + 1 \in (i + 3)..(N + 1) /\ \A j \in (i + 3)..N : j \in (i + 3)..(N + 1) /\ j \in 1..N
    BY <1>4, <1>6
  <2>2. x \in tools  BY <2>1, <1>1, <1>3
  <2>3. tr[i] = "overlays" /\ tr[i + 1] = "specimens" /\ tr[i + 2] = "sync"  BY <2>1, <1>1, <1>3
  <2>4. \A j \in (i + 3)..N : tr[j] \in tools  BY <2>1, <1>1, <1>3
  <2>5. i \in DOMAIN tr  BY <2>1, <1>1
  <2>6. AfterSync(tr, tools)  BY <2>1, <2>3, <2>4, <2>5 DEF AfterSync, N
  <2> QED BY <2>2, <2>6
<1> QED BY <1>5, <1>6

LEMMA AlignedTrail ==
  ASSUME NEW tr \in Seq(Trails), NEW tools, NEW i \in DOMAIN tr, i + 2 <= Len(tr),
         SubSeq(tr, i, i + 2) = <<"overlays", "specimens", "sync">>,
         \A j \in (i + 3)..Len(tr) : tr[j] \in tools
  PROVE  AfterSync(tr, tools)
<1>1. Len(tr) \in Nat /\ i \in 1..Len(tr)  OBVIOUS
<1> DEFINE s == SubSeq(tr, i, i + 2)
<1>2. s[1] = tr[i] /\ s[2] = tr[i + 1] /\ s[3] = tr[i + 2]
  <2>1. \A k \in 1..3 : s[k] = tr[i + k - 1]  BY <1>1
  <2> HIDE DEF s
  <2>2. s[1] = tr[i + 1 - 1] /\ s[2] = tr[i + 2 - 1] /\ s[3] = tr[i + 3 - 1]  BY <2>1
  <2>3. i + 1 - 1 = i /\ i + 2 - 1 = i + 1 /\ i + 3 - 1 = i + 2  BY <1>1
  <2> QED BY <2>2, <2>3
<1>0. s = <<"overlays", "specimens", "sync">>  OBVIOUS
<1> HIDE DEF s
<1>3. s[1] = "overlays" /\ s[2] = "specimens" /\ s[3] = "sync"  BY <1>0
<1>4. tr[i] = "overlays" /\ tr[i + 1] = "specimens" /\ tr[i + 2] = "sync"  BY <1>2, <1>3
<1> QED BY <1>4 DEF AfterSync

\* Registers.
LEMMA OverlaidSame ==
  ASSUME NEW r, NEW s, SameTexts(r, s), Overlaid(r)
  PROVE  Overlaid(s)
<1>1. DOMAIN s = DOMAIN r /\ IsRegister(s) /\ \A n \in DOMAIN r : s[n].stmt = r[n].stmt /\ s[n].tier = r[n].tier
  BY DEF SameTexts
<1>2. ASSUME NEW n \in DOMAIN s  PROVE RenderedAs(s, n) = s[n].stmt \/ Polished(s, n)
  <2>1. s[n].stmt = r[n].stmt /\ s[n].tier = r[n].tier /\ n \in DOMAIN r  BY <1>1
  <2>2. RenderedAs(r, n) = r[n].stmt \/ Polished(r, n)  BY <2>1 DEF Overlaid
  <2>3. RenderedAs(s, n) = RenderedAs(r, n)  BY <2>1 DEF RenderedAs
  <2>4. Polished(s, n) <=> Polished(r, n)  BY <2>1 DEF Polished
  <2> QED BY <2>1, <2>2, <2>3, <2>4
<1> QED BY <1>1, <1>2 DEF Overlaid

LEMMA SameRendered ==
  ASSUME NEW r, NEW s, SameTexts(r, s), NEW n \in DOMAIN s
  PROVE  n \in DOMAIN r /\ RenderedAs(s, n) = RenderedAs(r, n)
BY DEF SameTexts, RenderedAs

LEMMA SameTextsOf ==
  ASSUME NEW r, NEW s, NEW t, SameTexts(r, s), SameTexts(r, t)
  PROVE  SameTexts(s, t)
BY DEF SameTexts

LEMMA OverlaidBy ==
  ASSUME NEW d, IsRegister(d.register)
  PROVE  Overlaid(OverlaidTable(d))
<1> DEFINE r == d.register
           t == OverlaidTable(d)
<1>1. DOMAIN t = DOMAIN r
      /\ \A n \in DOMAIN r : t[n] = IF n \in DOMAIN Overlays THEN Merged(r[n], Overlays[n]) ELSE r[n]
  BY DEF OverlaidTable
<1>2. IsRegister(t)  BY OverlaidIsTable
<1>3. \A n \in DOMAIN r : DOMAIN r[n] = {"stmt", "tier", "status", "spec"}  BY DEF IsRegister, IsTable
<1> HIDE DEF r, t
<1>4. ASSUME NEW n \in DOMAIN t  PROVE RenderedAs(t, n) = t[n].stmt \/ Polished(t, n)
  <2>1. n \in DOMAIN r  BY <1>1
  <2>2. CASE n \notin DOMAIN Overlays  BY <2>2 DEF RenderedAs
  <2>3. CASE n \in DOMAIN Overlays
    <3> DEFINE o == Overlays[n]
               m == Merged(r[n], o)
    <3>1. t[n] = m  BY <1>1, <2>1, <2>3
    <3>2. /\ r[n].tier = "polished" => m.tier = "polished"
          /\ r[n].tier # "polished" => m.stmt = IF o.stmt = None THEN r[n].stmt ELSE o.stmt
      BY <1>3, <2>1, MergedRow
    <3> HIDE DEF m, o
    <3>3. CASE r[n].tier = "polished"  BY <3>1, <3>2, <3>3, <2>3 DEF Polished
    <3>4. CASE r[n].tier # "polished"
      <4>1. t[n].stmt = IF o.stmt = None THEN r[n].stmt ELSE o.stmt  BY <3>1, <3>2, <3>4
      <4>2. RenderedAs(t, n) = IF o.stmt # None THEN o.stmt ELSE t[n].stmt  BY <2>3 DEF RenderedAs, o
      <4> QED BY <4>1, <4>2
    <3> QED BY <3>3, <3>4
  <2> QED BY <2>2, <2>3
<1>5. Overlaid(t)  BY <1>2, <1>4 DEF Overlaid
<1> QED BY <1>5 DEF t

\* The specimens, one by one.
LEMMA RenderingPlan ==
  ASSUME NEW d, IsRegister(d.register)
  PROVE  Rendering(d, Specimens(d, 0))
<1> DEFINE w == Specimens(d, 0)
           chosen == FirstOf(DOMAIN d.register, 0)
           r == d.register
<1>1. PICK n \in Nat : SpecimensSteps(d, w, chosen, n)  BY SpecimensPlan
<1>2. chosen = DOMAIN r  BY FirstOfFacts
<1> HIDE DEF w, chosen
<1>0. n \in Nat  BY <1>1
<1>3. /\ DOMAIN w = 1..(n + 2)
      /\ \A i \in 1..n : w[i].op = "sheet" /\ w[i].on \in chosen /\ w[i].what = Rendered(d, w[i].on)
      /\ \A x \in chosen : \E i \in 1..n : w[i].on = x
      /\ w[n + 1].op = "register" /\ w[n + 1].what = Linked(d, chosen)
      /\ w[n + 2].op = "relink"
  BY <1>1 DEF SpecimensSteps
<1>4. /\ \A i \in DOMAIN w : i \in 1..n \/ i = n + 1 \/ i = n + 2
      /\ \A i \in 1..n : i \in DOMAIN w
      /\ n + 1 \in DOMAIN w
  <2>1. n \in Nat  BY <1>0
  <2>2. \A i \in 1..(n + 2) : i \in 1..n \/ i = n + 1 \/ i = n + 2  BY <2>1, LastTwo
  <2>3. \A i \in 1..n : i \in 1..(n + 2)  BY <2>1, FirstSteps
  <2>4. n + 1 \in 1..(n + 2)  BY <2>1
  <2> QED BY <2>2, <2>3, <2>4, <1>3
<1>5. SameTexts(r, Linked(d, chosen)) /\ AllLinked(Linked(d, chosen))
  <2> DEFINE t == Linked(d, chosen)
  <2>1. /\ IsRegister(t) /\ DOMAIN t = DOMAIN r
        /\ \A x \in DOMAIN r :
             /\ t[x].stmt = r[x].stmt /\ t[x].tier = r[x].tier
             /\ x \in chosen => t[x].spec = TRUE
             /\ x \notin chosen => t[x].spec = r[x].spec
    BY LinkedTable
  <2> HIDE DEF t
  <2>2. SameTexts(r, t)  BY <2>1 DEF SameTexts
  <2>3. AllLinked(t)  BY <2>1, <1>2 DEF AllLinked
  <2> QED BY <2>2, <2>3 DEF t
<1>6. \A x : Rendered(d, x) = RenderedAs(r, x)  BY DEF Rendered, RenderedAs
<1> HIDE DEF r
<1>7. \A x \in DOMAIN r : ToDo(w, "sheet", x)  BY <1>2, <1>3, <1>4 DEF ToDo
<1>8. \A i \in DOMAIN w : w[i].op = "sheet" => w[i].what = RenderedAs(r, w[i].on) /\ w[i].on \in DOMAIN r
  BY <1>2, <1>3, <1>4, <1>6
<1>9. \E i \in DOMAIN w : w[i].op = "register"  BY <1>3, <1>4
<1>10. \A i \in DOMAIN w : w[i].op = "register" => w[i].what = Linked(d, chosen)  BY <1>3, <1>4
<1>11. \A i \in DOMAIN w : w[i].op = "register" => SameTexts(r, w[i].what) /\ AllLinked(w[i].what)
  BY <1>5, <1>10
<1>12. Rendering(d, w)  BY <1>7, <1>8, <1>9, <1>11 DEF Rendering, r
<1> QED BY <1>12 DEF w

\* What holds of every write holds of those that are left.
LEMMA RenderingTail ==
  ASSUME NEW d, NEW w, IsSeq(w), w # <<>>, Rendering(d, w), NEW e, IsRegister(e.register),
         SameTexts(d.register, e.register),
         \A n \in DOMAIN e.register :
           \/ SheetSays(e.sheets, n, RenderedAs(e.register, n))
           \/ n \in DOMAIN d.register /\ ToDo(w, "sheet", n) /\ (w[1].op # "sheet" \/ w[1].on # n),
         w[1].op # "register" => e.register = d.register,
         w[1].op = "register" => AllLinked(e.register)
  PROVE  Rendering(e, Tail(w))
<1> DEFINE v == Tail(w)
           r == d.register
           t == e.register
<1>1. \A i \in DOMAIN v : i + 1 \in DOMAIN w /\ v[i] = w[i + 1]  BY TailFacts
<1>2. ASSUME NEW n \in DOMAIN t  PROVE ToDo(v, "sheet", n) \/ SheetSays(e.sheets, n, RenderedAs(t, n))
  <2>1. CASE ToDo(w, "sheet", n) /\ (w[1].op # "sheet" \/ w[1].on # n)  BY <2>1, ToDoTail
  <2> QED BY <2>1
<1>3. \A i \in DOMAIN w : i # 1 => i - 1 \in DOMAIN v /\ v[i - 1] = w[i]  BY TailFacts
<1> HIDE DEF v
<1>4. ASSUME NEW i \in DOMAIN v, v[i].op = "sheet"  PROVE v[i].what = RenderedAs(t, v[i].on) /\ v[i].on \in DOMAIN t
  <2>1. i + 1 \in DOMAIN w /\ v[i] = w[i + 1]  BY <1>1
  <2>2. v[i].what = RenderedAs(r, v[i].on) /\ v[i].on \in DOMAIN r  BY <2>1, <1>4 DEF Rendering
  <2>3. v[i].on \in DOMAIN t  BY <2>2 DEF SameTexts
  <2>4. RenderedAs(t, v[i].on) = RenderedAs(r, v[i].on)  BY <2>3, SameRendered
  <2> QED BY <2>2, <2>3, <2>4
<1>5. ASSUME NEW i \in DOMAIN v, v[i].op = "register"  PROVE SameTexts(t, v[i].what) /\ AllLinked(v[i].what)
  <2>1. i + 1 \in DOMAIN w /\ v[i] = w[i + 1]  BY <1>1
  <2>2. SameTexts(r, v[i].what) /\ AllLinked(v[i].what)  BY <2>1, <1>5 DEF Rendering
  <2> QED BY <2>2, SameTextsOf
<1>6. (\E i \in DOMAIN v : v[i].op = "register") \/ AllLinked(t)
  <2>1. CASE w[1].op = "register"  BY <2>1
  <2>2. CASE w[1].op # "register"
    <3>1. CASE AllLinked(r)  BY <3>1, <2>2
    <3>2. CASE \E i \in DOMAIN w : w[i].op = "register"
      <4>1. PICK i \in DOMAIN w : w[i].op = "register"  BY <3>2
      <4>2. i - 1 \in DOMAIN v /\ v[i - 1] = w[i]  BY <4>1, <2>2, <1>3
      <4> QED BY <4>1, <4>2
    <3> QED BY <3>1, <3>2 DEF Rendering
  <2> QED BY <2>1, <2>2
<1>7. Rendering(e, v)  BY <1>2, <1>4, <1>5, <1>6 DEF Rendering
<1> QED BY <1>7 DEF v

LEMMA SameTextsSelf ==
  ASSUME NEW r, IsRegister(r)
  PROVE  SameTexts(r, r)
BY DEF SameTexts

LEMMA RenderingStep ==
  ASSUME NEW d, NEW w, HasFiles(d), ErdosFiles(d), IsSeq(w), w # <<>>, Rendering(d, w),
         w[1].op \in {"sheet", "register", "relink"}
  PROVE  Rendering(Done(d, w[1]), Tail(w)) /\ SameTexts(d.register, Done(d, w[1]).register)
<1> DEFINE e == Done(d, w[1])
           u == w[1]
           r == d.register
<1>1. 1 \in DOMAIN w  BY TailFacts
<1>2. IsRegister(r) /\ \A n \in DOMAIN r : ToDo(w, "sheet", n) \/ SheetSays(d.sheets, n, RenderedAs(r, n))
  BY DEF Rendering
<1>3. SameTexts(r, r)  BY <1>2, SameTextsSelf
<1>4. CASE u.op = "sheet"
  <2>1. /\ e.register = r
        /\ DOMAIN e.sheets = {u.on} \cup DOMAIN d.sheets
        /\ e.sheets[u.on].head = u.what
        /\ \A m \in DOMAIN d.sheets : m # u.on => e.sheets[m] = d.sheets[m]
    BY <1>4, DoneSheet
  <2>2. u.what = RenderedAs(r, u.on)  BY <1>1, <1>4 DEF Rendering
  <2> HIDE DEF e, u
  <2>3. ASSUME NEW n \in DOMAIN r
        PROVE  SheetSays(e.sheets, n, RenderedAs(r, n)) \/ (ToDo(w, "sheet", n) /\ u.on # n)
    <3>1. CASE n = u.on  BY <3>1, <2>1, <2>2 DEF SheetSays
    <3>2. CASE n # u.on /\ SheetSays(d.sheets, n, RenderedAs(r, n))  BY <3>2, <2>1 DEF SheetSays
    <3> QED BY <3>1, <3>2, <1>2
  <2>4. /\ IsRegister(e.register) /\ SameTexts(r, e.register)
        /\ \A n \in DOMAIN e.register :
             \/ SheetSays(e.sheets, n, RenderedAs(e.register, n))
             \/ n \in DOMAIN r /\ ToDo(w, "sheet", n) /\ (u.op # "sheet" \/ u.on # n)
        /\ (u.op # "register" => e.register = r)
        /\ (u.op = "register" => AllLinked(e.register))
    BY <1>2, <1>3, <1>4, <2>1, <2>3
  <2>5. Rendering(e, Tail(w))  BY <2>4, RenderingTail DEF u, r
  <2> QED BY <2>4, <2>5 DEF e, u
<1>5. CASE u.op = "relink"
  <2>1. e.register = r /\ e.sheets = d.sheets  BY <1>5, DoneRelink
  <2> HIDE DEF e, u
  <2>4. /\ IsRegister(e.register) /\ SameTexts(r, e.register)
        /\ \A n \in DOMAIN e.register :
             \/ SheetSays(e.sheets, n, RenderedAs(e.register, n))
             \/ n \in DOMAIN r /\ ToDo(w, "sheet", n) /\ (u.op # "sheet" \/ u.on # n)
        /\ (u.op # "register" => e.register = r)
        /\ (u.op = "register" => AllLinked(e.register))
    BY <1>2, <1>3, <1>5, <2>1
  <2>5. Rendering(e, Tail(w))  BY <2>4, RenderingTail DEF u, r
  <2> QED BY <2>4, <2>5 DEF e, u
<1>6. CASE u.op = "register"
  <2>1. e.register = u.what /\ e.sheets = d.sheets  BY <1>6, DoneRegister
  <2>2. SameTexts(r, u.what) /\ AllLinked(u.what)  BY <1>1, <1>6 DEF Rendering
  <2> HIDE DEF e, u
  <2>3. IsRegister(e.register) /\ SameTexts(r, e.register) /\ AllLinked(e.register)
    BY <2>1, <2>2 DEF SameTexts
  <2>4. ASSUME NEW n \in DOMAIN e.register
        PROVE  \/ SheetSays(e.sheets, n, RenderedAs(e.register, n))
               \/ n \in DOMAIN r /\ ToDo(w, "sheet", n)
    <3>1. n \in DOMAIN r /\ RenderedAs(e.register, n) = RenderedAs(r, n)  BY <2>3, SameRendered
    <3> QED BY <3>1, <1>2, <2>1
  <2>5. /\ IsRegister(e.register) /\ SameTexts(r, e.register)
        /\ \A n \in DOMAIN e.register :
             \/ SheetSays(e.sheets, n, RenderedAs(e.register, n))
             \/ n \in DOMAIN r /\ ToDo(w, "sheet", n) /\ (u.op # "sheet" \/ u.on # n)
        /\ (u.op # "register" => e.register = r)
        /\ (u.op = "register" => AllLinked(e.register))
    BY <1>6, <2>3, <2>4
  <2>6. Rendering(e, Tail(w))  BY <2>5, RenderingTail DEF u, r
  <2> QED BY <2>3, <2>6 DEF e, u
<1> QED BY <1>4, <1>5, <1>6

\* A write of a tool of the corpus leaves the specimens of the register alone,
\* or puts the statement of the catalog, with doubled backslashes, at their head.
LEMMA AllSheetsKept ==
  ASSUME NEW d, NEW e, NEW c, NEW c2, NEW doubled, AllSheets(d, c, doubled), e.register = d.register,
         DOMAIN d.sheets \subseteq DOMAIN e.sheets,
         \A n \in DOMAIN d.register :
           \/ <<"sheets", n>> \in c2
           \/ e.sheets[n].head \in Heads(d.register[n].stmt, doubled)
           \/ e.sheets[n] = d.sheets[n] /\ (<<"sheets", n>> \in c => <<"sheets", n>> \in c2)
  PROVE  AllSheets(e, c2, doubled)
<1> DEFINE r == d.register
<1>1. IsRegister(r) /\ AllLinked(r) /\ \A n \in DOMAIN r : HasSheet(d, n, c, doubled)  BY DEF AllSheets
<1>2. ASSUME NEW n \in DOMAIN r  PROVE HasSheet(e, n, c2, doubled)
  <2>1. /\ n \in DOMAIN d.sheets
        /\ d.sheets[n].head \in Heads(r[n].stmt, doubled) \/ <<"sheets", n>> \in c \/ Polished(r, n)
    BY <1>1 DEF HasSheet
  <2>2. n \in DOMAIN e.sheets  BY <2>1
  <2>3. e.sheets[n].head \in Heads(r[n].stmt, doubled) \/ <<"sheets", n>> \in c2 \/ Polished(r, n)  BY <2>1
  <2> QED BY <2>2, <2>3 DEF HasSheet
<1> QED BY <1>1, <1>2 DEF AllSheets

\* What a write takes from the files that are cut.
CutBy(u) == IF IsWhole(u) THEN {FileOf(u)} ELSE {}

LEMMA SheetNotCut ==
  ASSUME NEW u, u.op \in CorpusOps \cup {"heading", "catalog"}
  PROVE  \A n : <<"sheets", n>> \notin CutBy(u)
<1>1. CASE u.op \in {"manifest", "rewrite"}
  <2>1. FileOf(u) = <<"manifests", u.on>> \/ FileOf(u) = <<"specimens", u.on>>
    BY <1>1 DEF FileOf
  <2>2. \A n : <<"sheets", n>> # <<"manifests", u.on>> /\ <<"sheets", n>> # <<"specimens", u.on>>  OBVIOUS
  <2> QED BY <2>1, <2>2 DEF CutBy
<1>2. CASE u.op = "catalog"
  <2>1. FileOf(u) = <<"catalog">>  BY <1>2 DEF FileOf
  <2>2. \A n : <<"sheets", n>> # <<"catalog">>  OBVIOUS
  <2> QED BY <2>1, <2>2 DEF CutBy
<1>3. CASE u.op \notin {"manifest", "rewrite", "catalog"}
  <2>1. ~IsWhole(u)  BY <1>3 DEF IsWhole, CorpusOps
  <2> QED BY <2>1 DEF CutBy
<1> QED BY <1>1, <1>2, <1>3

\* What a specimen may say before de-stub-catalog.py, it may say after it.
LEMMA AllSheetsDoubled ==
  ASSUME NEW d, NEW c, AllSheets(d, c, FALSE)
  PROVE  AllSheets(d, c, TRUE)
BY DEF AllSheets, HasSheet, Heads

LEMMA EntriesFacts ==
  ASSUME NEW r
  PROVE  DOMAIN EntriesOf(r) = DOMAIN r /\ \A n \in DOMAIN r : EntriesOf(r)[n] = Entry(r[n])
BY DEF EntriesOf

LEMMA CorpusStep ==
  ASSUME NEW d, NEW u, HasFiles(d), ErdosFiles(d), WriteFits(d, u), NEW c, NEW doubled \in BOOLEAN,
         Settling(d, c, doubled), u.op \in CorpusOps \cup {"heading"}, u.op = "heading" => doubled
  PROVE  Settling(Done(d, u), c \ CutBy(u), doubled)
<1> DEFINE e == Done(d, u)
           r == d.register
           c2 == c \ CutBy(u)
<1>1. AllSheets(d, c, doubled) /\ d.catalog = EntriesOf(r)  BY DEF Settling
<1>2. \A n : <<"sheets", n>> \in c => <<"sheets", n>> \in c2  BY SheetNotCut
<1> HIDE DEF c2
<1>3. CASE u.op \in CorpusOps
  <2>1. SameErdos(d, e)  BY <1>3, DoneSameErdos
  <2> HIDE DEF e
  <2>2. e.register = r /\ e.catalog = d.catalog /\ e.sheets = d.sheets  BY <2>1 DEF SameErdos
  <2>3. AllSheets(e, c2, doubled)  BY <1>1, <1>2, <2>2, AllSheetsKept
  <2> QED BY <1>1, <2>2, <2>3 DEF Settling, e, c2
<1>4. CASE u.op = "heading"
  <2>1. /\ e.register = r /\ e.catalog = d.catalog
        /\ DOMAIN e.sheets = DOMAIN d.sheets
        /\ \A m \in DOMAIN d.sheets :
             \/ e.sheets[m] = d.sheets[m]
             \/ m \in DOMAIN d.catalog /\ d.sheets[m].head # None /\ e.sheets[m].head = InHeader(d.catalog[m].stmt)
    BY <1>4, DoneHeading
  <2> HIDE DEF e
  <2>2. ASSUME NEW n \in DOMAIN r
        PROVE  e.sheets[n].head \in Heads(r[n].stmt, doubled) \/ e.sheets[n] = d.sheets[n]
    <3>1. n \in DOMAIN d.sheets  BY <1>1 DEF AllSheets, HasSheet
    <3>2. d.catalog[n] = Entry(r[n])  BY <1>1, EntriesFacts
    <3>3. d.catalog[n].stmt = r[n].stmt  BY <3>2, EntryFields
    <3>4. InHeader(r[n].stmt) \in Heads(r[n].stmt, doubled)  BY <1>4 DEF Heads
    <3> QED BY <2>1, <3>1, <3>3, <3>4
  <2>3. DOMAIN d.sheets \subseteq DOMAIN e.sheets  BY <2>1
  <2>4. AllSheets(e, c2, doubled)  BY <1>1, <1>2, <2>1, <2>2, <2>3, AllSheetsKept
  <2> QED BY <1>1, <2>1, <2>4 DEF Settling, e, c2
<1> QED BY <1>3, <1>4

LEMMA CorpusKilled ==
  ASSUME NEW d, NEW u, HasFiles(d), ErdosFiles(d), WriteFits(d, u), NEW c, NEW doubled \in BOOLEAN,
         Settling(d, c, doubled), u.op \in CorpusOps \cup {"heading"}, u.op # "append"
  PROVE  Settling(Emptied(d, u), c \cup {FileOf(u)}, doubled)
<1> DEFINE e == Emptied(d, u)
           r == d.register
           c2 == c \cup {FileOf(u)}
<1>1. AllSheets(d, c, doubled) /\ d.catalog = EntriesOf(r)  BY DEF Settling
<1>2. \A n : <<"sheets", n>> \in c => <<"sheets", n>> \in c2  OBVIOUS
<1>3. FileOf(u) \in c2  OBVIOUS
<1> HIDE DEF c2
<1>4. CASE u.op \in CorpusOps
  <2>1. SameErdos(d, e)  BY <1>4, EmptiedSameErdos
  <2> HIDE DEF e
  <2>2. e.register = r /\ e.catalog = d.catalog /\ e.sheets = d.sheets  BY <2>1 DEF SameErdos
  <2>3. AllSheets(e, c2, doubled)  BY <1>1, <1>2, <2>2, AllSheetsKept
  <2> QED BY <1>1, <2>2, <2>3 DEF Settling, e, c2
<1>5. CASE u.op = "heading"
  <2>1. /\ e.register = r /\ e.catalog = d.catalog
        /\ DOMAIN e.sheets = {u.on} \cup DOMAIN d.sheets
        /\ \A m \in DOMAIN d.sheets : m # u.on => e.sheets[m] = d.sheets[m]
    BY <1>5, EmptiedSheet
  <2> HIDE DEF e
  <2>2. <<"sheets", u.on>> \in c2
    <3>1. FileOf(u) = <<"sheets", u.on>>  BY <1>5 DEF FileOf
    <3> QED BY <3>1, <1>3
  <2>3. ASSUME NEW n \in DOMAIN r
        PROVE  <<"sheets", n>> \in c2 \/ e.sheets[n] = d.sheets[n]
    <3>1. n \in DOMAIN d.sheets  BY <1>1 DEF AllSheets, HasSheet
    <3> QED BY <2>1, <2>2, <3>1
  <2>4. DOMAIN d.sheets \subseteq DOMAIN e.sheets  BY <2>1
  <2>5. AllSheets(e, c2, doubled)  BY <1>1, <1>2, <2>1, <2>3, <2>4, AllSheetsKept
  <2> QED BY <1>1, <2>1, <2>5 DEF Settling, e, c2
<1> QED BY <1>4, <1>5

LEMMA CorpusToolOps ==
  ASSUME NEW d, NEW tool \in CorpusTools, NEW w, Planning(d, tool, w), w # <<>>
  PROVE  w[1].op \in CorpusOps \cup {"heading"} /\ (w[1].op = "heading" => tool = "de-stub-catalog")
<1>1. OpsOf(tool) \subseteq CorpusOps \cup {"heading"} /\ ("heading" \in OpsOf(tool) => tool = "de-stub-catalog")
  BY DEF OpsOf, CorpusTools, CorpusOps
<1>2. IsSeq(w) /\ \A i \in DOMAIN w : w[i].op \in OpsOf(tool)  BY DEF Planning
<1> QED BY <1>1, <1>2, TailFacts

\* The last write of a tool that has one write.
LEMMA LastWrite ==
  ASSUME NEW w, IsSeq(w), w # <<>>, Len(w) = 1
  PROVE  Tail(w) = <<>>
<1> DEFINE v == Tail(w)
<1>1. Len(v) = Len(w) - 1 /\ IsSeq(v)  BY TailFacts
<1> HIDE DEF v
<1>2. v \in Seq(ToSet(v)) /\ Len(v) = 0  BY <1>1, SeqFacts
<1>3. v = <<>>  BY <1>2
<1> QED BY <1>3 DEF v

LEMMA OpsOfErdos ==
  /\ OpsOf("overlays") = {"register"} /\ OpsOf("sync") = {"catalog"}
  /\ OpsOf("specimens") = {"sheet", "register", "relink"}
<1>1. OpsOf("overlays") = {"register"}  BY DEF OpsOf
<1>2. OpsOf("sync") = {"catalog"}  BY DEF OpsOf
<1>3. OpsOf("specimens") = {"sheet", "register", "relink"}  BY DEF OpsOf
<1> QED BY <1>1, <1>2, <1>3

LEMMA OverlaysWrite ==
  ASSUME NEW d, NEW w, HasFiles(d), Planning(d, "overlays", w), w # <<>>, OverlaysDone(d, w)
  PROVE  OverlaysDone(Done(d, w[1]), Tail(w))
<1> DEFINE e == Done(d, w[1])
           v == Tail(w)
           u == w[1]
<1>1. IsSeq(w) /\ \A i \in DOMAIN w : w[i].op \in OpsOf("overlays")  BY DEF Planning
<1>2. u.op = "register"  BY <1>1, OpsOfErdos, TailFacts
<1>3. Len(w) = 1 /\ Overlaid(u.what)  BY DEF OverlaysDone
<1>4. v = <<>>  BY <1>1, <1>3, LastWrite
<1>5. e.register = u.what  BY <1>2, DoneRegister
<1> HIDE DEF e, v, u
<1>6. OverlaysDone(e, v)  BY <1>3, <1>4, <1>5 DEF OverlaysDone
<1> QED BY <1>6 DEF e, v, u

LEMMA SyncWrite ==
  ASSUME NEW d, NEW w, HasFiles(d), Planning(d, "sync", w), w # <<>>, SyncDone(d, w)
  PROVE  /\ SyncDone(Done(d, w[1]), Tail(w))
         /\ \A c : AllSheets(d, c, FALSE) => AllSheets(Done(d, w[1]), c \ CutBy(w[1]), FALSE)
<1> DEFINE e == Done(d, w[1])
           v == Tail(w)
           u == w[1]
<1>1. IsSeq(w) /\ \A i \in DOMAIN w : w[i].op \in OpsOf("sync")  BY DEF Planning
<1>2. u.op = "catalog"  BY <1>1, OpsOfErdos, TailFacts
<1>3. Len(w) = 1 /\ u.what = EntriesOf(d.register)  BY DEF SyncDone
<1>4. v = <<>>  BY <1>1, <1>3, LastWrite
<1>5. e.register = d.register /\ e.catalog = u.what /\ e.sheets = d.sheets  BY <1>2, DoneCatalog
<1>6. \A n : <<"sheets", n>> \notin CutBy(u)  BY <1>2, SheetNotCut
<1> HIDE DEF e, v, u
<1>7. SyncDone(e, v)  BY <1>3, <1>4, <1>5 DEF SyncDone
<1>8. ASSUME NEW c, AllSheets(d, c, FALSE)  PROVE AllSheets(e, c \ CutBy(u), FALSE)
  <2> DEFINE c2 == c \ CutBy(u)
  <2>1. \A n : <<"sheets", n>> \in c => <<"sheets", n>> \in c2  BY <1>6
  <2> HIDE DEF c2
  <2>2. AllSheets(e, c2, FALSE)  BY <1>5, <1>8, <2>1, AllSheetsKept
  <2> QED BY <2>2 DEF c2
<1> QED BY <1>7, <1>8 DEF e, v, u

LEMMA ToolKinds ==
  /\ None \notin CorpusTools /\ None \notin {"overlays", "specimens", "sync"}
  /\ \A tool \in CorpusTools : tool \notin {"overlays", "specimens", "sync"}
<1>1. None \notin CorpusTools \cup ErdosTools  BY NoneAssumption
<1>2. {"overlays", "specimens", "sync"} \subseteq ErdosTools  BY DEF ErdosTools
<1>3. \A tool \in CorpusTools : tool \notin {"overlays", "specimens", "sync"}  BY DEF CorpusTools
<1> QED BY <1>1, <1>2, <1>3

\* A write of a tool that runs.
LEMMA PhasesWrite ==
  ASSUME NEW d, NEW tool, tool # None, NEW w, NEW tr, NEW c, HasFiles(d), CorpusFiles(d), ErdosFiles(d),
         Planning(d, tool, w), w # <<>>, Phases(d, tool, w, tr, c)
  PROVE  Phases(Done(d, w[1]), tool, Tail(w), tr, c \ CutBy(w[1]))
<1> DEFINE e == Done(d, w[1])
           v == Tail(w)
           c2 == c \ CutBy(w[1])
<1>1. tool = "overlays" => OverlaysDone(e, v)
  <2> SUFFICES ASSUME tool = "overlays"  PROVE OverlaysDone(e, v)  OBVIOUS
  <2>1. OverlaysDone(d, w)  BY DEF Phases
  <2> QED BY <2>1, OverlaysWrite
<1>2. tool = "specimens" => Rendering(e, v) /\ SameTexts(d.register, e.register)
  <2> SUFFICES ASSUME tool = "specimens"  PROVE Rendering(e, v) /\ SameTexts(d.register, e.register)  OBVIOUS
  <2>1. Rendering(d, w)  BY DEF Phases
  <2>2. IsSeq(w) /\ \A i \in DOMAIN w : w[i].op \in OpsOf("specimens")  BY DEF Planning
  <2>3. w[1].op \in {"sheet", "register", "relink"}  BY <2>2, OpsOfErdos, TailFacts
  <2> QED BY <2>1, <2>2, <2>3, RenderingStep
<1>3. tool = "sync" => SyncDone(e, v) /\ (AllSheets(d, c, FALSE) => AllSheets(e, c2, FALSE))
  <2> SUFFICES ASSUME tool = "sync"  PROVE SyncDone(e, v) /\ (AllSheets(d, c, FALSE) => AllSheets(e, c2, FALSE))  OBVIOUS
  <2>1. SyncDone(d, w)  BY DEF Phases
  <2> QED BY <2>1, SyncWrite
<1>4. ASSUME NEW doubled \in BOOLEAN, tool \in IF doubled THEN CorpusTools ELSE Plain, Settling(d, c, doubled)
      PROVE  Settling(e, c2, doubled)
  <2>1. tool \in CorpusTools /\ (tool = "de-stub-catalog" => doubled)  BY <1>4 DEF Plain
  <2>2. w[1].op \in CorpusOps \cup {"heading"} /\ (w[1].op = "heading" => doubled)  BY <2>1, CorpusToolOps
  <2>3. WriteFits(d, w[1])  BY PlanningStep
  <2> QED BY <1>4, <2>2, <2>3, CorpusStep
<1> HIDE DEF e, v, c2
<1>5. tool \in {None, "specimens"} /\ AfterOverlays(tr) => Overlaid(e.register)
  <2> SUFFICES ASSUME tool = "specimens", AfterOverlays(tr)  PROVE Overlaid(e.register)  OBVIOUS
  <2>1. Overlaid(d.register)  BY DEF Phases
  <2> QED BY <1>2, <2>1, OverlaidSame
<1>6. tool \in {None, "sync"} /\ AfterSpecimens(tr) => AllSheets(e, c2, FALSE)
  <2> SUFFICES ASSUME tool = "sync", AfterSpecimens(tr)  PROVE AllSheets(e, c2, FALSE)  OBVIOUS
  <2>1. AllSheets(d, c, FALSE)  BY DEF Phases
  <2> QED BY <1>3, <2>1
<1>7. tool \in Plain \cup {None} /\ AfterSync(tr, Plain) => Settling(e, c2, FALSE)
  <2> SUFFICES ASSUME tool \in Plain, AfterSync(tr, Plain)  PROVE Settling(e, c2, FALSE)  OBVIOUS
  <2>1. Settling(d, c, FALSE)  BY DEF Phases
  <2> QED BY <1>4, <2>1
<1>8. tool \in CorpusTools \cup {None} /\ AfterSync(tr, Killable) => Settling(e, c2, TRUE)
  <2> SUFFICES ASSUME tool \in CorpusTools, AfterSync(tr, Killable)  PROVE Settling(e, c2, TRUE)  OBVIOUS
  <2>1. Settling(d, c, TRUE)  BY DEF Phases
  <2> QED BY <1>4, <2>1
<1>9. Phases(e, tool, v, tr, c2)  BY <1>1, <1>2, <1>3, <1>5, <1>6, <1>7, <1>8 DEF Phases
<1> QED BY <1>9 DEF e, v, c2

\* A tool has ended: the next phase begins.
LEMMA PhasesEnd ==
  ASSUME NEW d, NEW tool \in AllTools, NEW tr \in Seq(Trails), NEW c, NEW v, Phases(d, tool, <<>>, tr, c)
  PROVE  Phases(d, None, v, Append(tr, tool), c)
<1> DEFINE a == Append(tr, tool)
           w == <<>>
<1>0. tool \in Trails  BY ToolNames
<1>1. AfterOverlays(a) => tool = "overlays"  BY <1>0, AppendOverlays
<1>2. AfterSpecimens(a) => tool = "specimens" /\ AfterOverlays(tr)  BY <1>0, AppendSpecimens
<1>3. \A tools : AfterSync(a, tools) =>
        (tool = "sync" /\ AfterSpecimens(tr)) \/ (tool \in tools /\ AfterSync(tr, tools))
  BY <1>0, AppendSync
<1>4. tool # "killed"  BY DEF AllTools, CorpusTools, ErdosTools
<1>5. w = <<>> /\ DOMAIN w = {}  OBVIOUS
<1>6. Phases(d, tool, w, tr, c)  OBVIOUS
<1> HIDE DEF a, w
<1>7. AfterOverlays(a) => Overlaid(d.register)
  <2> SUFFICES ASSUME tool = "overlays"  PROVE Overlaid(d.register)  BY <1>1
  <2>1. OverlaysDone(d, w)  BY <1>6 DEF Phases
  <2> QED BY <2>1, <1>5 DEF OverlaysDone
<1>8. AfterSpecimens(a) => AllSheets(d, c, FALSE)
  <2> SUFFICES ASSUME tool = "specimens", AfterOverlays(tr)  PROVE AllSheets(d, c, FALSE)  BY <1>2
  <2> DEFINE r == d.register
  <2>1. Overlaid(r) /\ Rendering(d, w)  BY <1>6 DEF Phases
  <2>2. IsRegister(r) /\ AllLinked(r)  BY <2>1, <1>5 DEF Rendering
  <2>3. ASSUME NEW n \in DOMAIN r  PROVE HasSheet(d, n, c, FALSE)
    <3>1. SheetSays(d.sheets, n, RenderedAs(r, n))  BY <2>1, <1>5 DEF Rendering, ToDo
    <3>2. RenderedAs(r, n) = r[n].stmt \/ Polished(r, n)  BY <2>1 DEF Overlaid
    <3> QED BY <3>1, <3>2 DEF HasSheet, SheetSays, Heads
  <2> QED BY <2>2, <2>3 DEF AllSheets
<1>9. ASSUME tool = "sync", AfterSpecimens(tr)
      PROVE  Settling(d, c, FALSE) /\ Settling(d, c, TRUE)
  <2>1. AllSheets(d, c, FALSE) /\ SyncDone(d, w)  BY <1>6, <1>9 DEF Phases
  <2>2. AllSheets(d, c, TRUE)  BY <2>1, AllSheetsDoubled
  <2> QED BY <2>1, <2>2, <1>5 DEF SyncDone, Settling
<1>10. AfterSync(a, Plain) => Settling(d, c, FALSE)
  <2>1. tool \in Plain /\ AfterSync(tr, Plain) => Settling(d, c, FALSE)  BY <1>6 DEF Phases
  <2> QED BY <1>3, <1>9, <2>1
<1>11. AfterSync(a, Killable) => Settling(d, c, TRUE)
  <2>1. tool \in CorpusTools /\ AfterSync(tr, Killable) => Settling(d, c, TRUE)  BY <1>6 DEF Phases
  <2>2. tool \in Killable => tool \in CorpusTools  BY <1>4 DEF Killable
  <2> QED BY <1>3, <1>9, <2>1, <2>2
<1>12. Phases(d, None, v, a, c)  BY <1>7, <1>8, <1>10, <1>11, ToolKinds DEF Phases
<1> QED BY <1>12 DEF a

LEMMA KilledNames ==
  ASSUME NEW tool
  PROVE  /\ Killed(tool) \in Trails /\ Killed(tool) \notin {"overlays", "specimens", "sync"}
         /\ Killed(tool) \in Killable => tool \in CorpusTools
         /\ Killed(tool) \notin Plain
BY DEF Killed, Trails, CorpusTools, Plain, Killable

\* A tool was killed: what a tool of the corpus left stays in order.
LEMMA PhasesKill ==
  ASSUME NEW d, NEW tool, NEW w, NEW tr \in Seq(Trails), NEW c, HasFiles(d), CorpusFiles(d), ErdosFiles(d),
         Planning(d, tool, w), w # <<>>, Phases(d, tool, w, tr, c), NEW e, NEW c2, NEW v,
         \/ e = d /\ c2 = c
         \/ w[1].op # "append" /\ e = Emptied(d, w[1]) /\ c2 = c \cup {FileOf(w[1])}
  PROVE  Phases(e, None, v, Append(tr, Killed(tool)), c2)
<1> DEFINE a == Append(tr, Killed(tool))
<1>1. AfterOverlays(a) => Killed(tool) = "overlays"  BY KilledNames, AppendOverlays
<1>2. AfterSpecimens(a) => Killed(tool) = "specimens"  BY KilledNames, AppendSpecimens
<1>3. \A tools : AfterSync(a, tools) => Killed(tool) = "sync" \/ (Killed(tool) \in tools /\ AfterSync(tr, tools))
  BY KilledNames, AppendSync
<1> HIDE DEF a
<1>4. ~AfterOverlays(a) /\ ~AfterSpecimens(a)  BY <1>1, <1>2, KilledNames
<1>5. ~AfterSync(a, Plain) /\ (AfterSync(a, Killable) => tool \in CorpusTools /\ AfterSync(tr, Killable))
  BY <1>3, KilledNames
<1>6. AfterSync(a, Killable) => Settling(e, c2, TRUE)
  <2> SUFFICES ASSUME tool \in CorpusTools, AfterSync(tr, Killable)  PROVE Settling(e, c2, TRUE)  BY <1>5
  <2>1. Settling(d, c, TRUE)  BY DEF Phases
  <2>2. CASE w[1].op # "append" /\ e = Emptied(d, w[1]) /\ c2 = c \cup {FileOf(w[1])}
    <3>1. w[1].op \in CorpusOps \cup {"heading"}  BY CorpusToolOps
    <3>2. WriteFits(d, w[1])  BY PlanningStep
    <3>3. Settling(Emptied(d, w[1]), c \cup {FileOf(w[1])}, TRUE)  BY <2>1, <2>2, <3>1, <3>2, CorpusKilled
    <3> QED BY <2>2, <3>3
  <2> QED BY <2>1, <2>2
<1>7. Phases(e, None, v, a, c2)  BY <1>4, <1>5, <1>6, ToolKinds DEF Phases
<1> QED BY <1>7 DEF a

\* A tool starts: the plan continues the phase that ended.
LEMMA OverlaysPlan ==
  ASSUME NEW d, IsRegister(d.register)
  PROVE  OverlaysDone(d, ApplyOverlays(d))
<1> DEFINE t == OverlaidTable(d)
           w == <<Write("register", None, t)>>
<1>1. ApplyOverlays(d) = w  BY RegisterPlans
<1>2. Overlaid(t)  BY OverlaidBy
<1> HIDE DEF t
<1>3. Len(w) = 1 /\ w # <<>> /\ 1 \in DOMAIN w /\ \A i \in DOMAIN w : w[i].what = t  BY OneWrite
<1> HIDE DEF w
<1>4. OverlaysDone(d, w)  BY <1>2, <1>3 DEF OverlaysDone
<1> QED BY <1>1, <1>4

LEMMA SyncPlan ==
  ASSUME NEW d, IsRegister(d.register)
  PROVE  SyncDone(d, Sync(d, 0, FALSE))
<1> DEFINE t == EntriesOf(d.register)
           w == <<Write("catalog", "catalog", t)>>
<1>1. Sync(d, 0, FALSE) = <<Write("catalog", "catalog", Synced(d, 0, FALSE))>>  BY RegisterPlans
<1>2. Synced(d, 0, FALSE) = t
  <2>1. FirstOf(DOMAIN d.register, 0) = DOMAIN d.register  BY FirstOfFacts
  <2> QED BY <2>1 DEF Synced, Batch, EntriesOf
<1> HIDE DEF t
<1>3. Len(w) = 1 /\ w # <<>> /\ 1 \in DOMAIN w /\ \A i \in DOMAIN w : w[i].what = t
  <2> DEFINE u == Write("catalog", "catalog", t)
  <2>1. u.what = t  BY DEF Write
  <2> HIDE DEF u
  <2>2. Len(<<u>>) = 1 /\ DOMAIN <<u>> = 1..1 /\ (\A i \in DOMAIN <<u>> : <<u>>[i] = u) /\ <<u>> # <<>>
    BY OneFacts
  <2> QED BY <2>1, <2>2 DEF u
<1>4. Sync(d, 0, FALSE) = w  BY <1>1, <1>2
<1> HIDE DEF w
<1>5. SyncDone(d, w)  BY <1>3 DEF SyncDone, t
<1> QED BY <1>4, <1>5

LEMMA PhasesStart ==
  ASSUME NEW d, NEW w, NEW tr, NEW c, NEW tool \in AllTools, NEW v, Phases(d, None, v, tr, c),
         tool = "overlays" => OverlaysDone(d, w),
         tool = "specimens" => Rendering(d, w),
         tool = "sync" => SyncDone(d, w)
  PROVE  Phases(d, tool, w, tr, c)
<1>1. None # tool  BY ToolNames
<1>2. AfterOverlays(tr) => Overlaid(d.register)  BY DEF Phases
<1>3. AfterSpecimens(tr) => AllSheets(d, c, FALSE)  BY DEF Phases
<1>4. (AfterSync(tr, Plain) => Settling(d, c, FALSE)) /\ (AfterSync(tr, Killable) => Settling(d, c, TRUE))
  BY DEF Phases
<1> QED BY <1>2, <1>3, <1>4 DEF Phases

-----------------------------------------------------------------------------
(* Phased is inductive: after each phase the files are as the next one      *)
(* expects them, and a plan makes true what its tool promises.              *)

Phased == Phases(db, job.tool, job.writes, trail, cut)

LEMMA PhasedInit ==
  ASSUME DbInit
  PROVE  Phased
<1>1. trail = <<>> /\ job = Idle  BY DEF DbInit
<1>2. job.tool = None  BY <1>1, IdleFacts
<1>3. Len(trail) = 0 /\ DOMAIN trail = {}  BY <1>1
<1>4. ~AfterOverlays(trail) /\ ~AfterSpecimens(trail) /\ ~AfterSync(trail, Plain) /\ ~AfterSync(trail, Killable)
  BY <1>3 DEF AfterOverlays, AfterSpecimens, AfterSync
<1> QED BY <1>2, <1>4, ToolKinds DEF Phased, Phases

LEMMA PhasedStart ==
  ASSUME Phased, NEW tool \in AllTools, NEW w, Start(tool, w),
         tool = "overlays" => OverlaysDone(db, w),
         tool = "specimens" => Rendering(db, w),
         tool = "sync" => SyncDone(db, w)
  PROVE  Phased'
<1>1. db' = db /\ trail' = trail /\ cut' = cut /\ job = Idle /\ job' = [tool |-> tool, writes |-> w]
  BY DEF Start
<1>2. job'.tool = tool /\ job'.writes = w  BY <1>1
<1>3. job.tool = None  BY <1>1, IdleFacts
<1>4. Phases(db, None, job.writes, trail, cut)  BY <1>3 DEF Phased
<1>5. Phases(db, tool, w, trail, cut)  BY <1>4, PhasesStart
<1>6. Phases(db', job'.tool, job'.writes, trail', cut')  BY <1>1, <1>2, <1>5
<1> QED BY <1>6 DEF Phased

LEMMA PhasedNext ==
  ASSUME Corpus, Phased, [DbNext]_dbVars
  PROVE  Phased'
<1>0. /\ HasFiles(db) /\ CorpusFiles(db) /\ ErdosFiles(db) /\ Planning(db, job.tool, job.writes)
      /\ trail \in Seq(Trails)
  BY DEF Corpus, Jobs
<1>00. Phases(db, job.tool, job.writes, trail, cut)  BY DEF Phased
<1>1. CASE StartCorpusTool
  <2>1. PICK tool \in CorpusTools : \E w : Start(tool, w) /\ Planning(db, tool, w)  BY <1>1, CorpusStarted
  <2>2. PICK w : Start(tool, w)  BY <2>1
  <2>3. tool \in AllTools  BY <2>1, ToolNames
  <2>4. tool \notin {"overlays", "specimens", "sync"}  BY <2>1, ToolKinds
  <2> QED BY <2>2, <2>3, <2>4, PhasedStart
<1>2. CASE StartErdosTool
  <2>1. IsRegister(db.register)  BY <1>0, <1>2 DEF StartErdosTool, ErdosFiles
  <2>2. OverlaysDone(db, ApplyOverlays(db))  BY <2>1, OverlaysPlan
  <2>3. Rendering(db, Specimens(db, 0))  BY <2>1, RenderingPlan
  <2>4. SyncDone(db, Sync(db, 0, FALSE))  BY <2>1, SyncPlan
  <2>5. \A tool \in ErdosTools : tool \in AllTools  BY ToolNames
  <2>6. \A tool \in ErdosTools : \A w :
          /\ Start(tool, w)
          /\ tool = "overlays" => OverlaysDone(db, w)
          /\ tool = "specimens" => Rendering(db, w)
          /\ tool = "sync" => SyncDone(db, w)
          => Phased'
    BY <2>5, PhasedStart
  <2>7. \A tool \in ErdosTools \ {"overlays", "specimens", "sync"} : \A w : Start(tool, w) => Phased'
    BY <2>6
  <2>8. {"fetch", "tier1", "specimens --limit", "sync --limit", "sync --merge"}
          \subseteq ErdosTools \ {"overlays", "specimens", "sync"}
        /\ {"overlays", "specimens", "sync"} \subseteq ErdosTools
    BY DEF ErdosTools
  <2>9. CASE \E skip \in BOOLEAN, found \in Finds : Start("fetch", Fetch(db, skip, found))
    BY <2>7, <2>8, <2>9
  <2>10. CASE Start("tier1", Tier1(db))  BY <2>7, <2>8, <2>10
  <2>11. CASE Start("overlays", ApplyOverlays(db))
    <3>1. "overlays" \in AllTools  BY <2>5, <2>8
    <3> QED BY <2>2, <2>11, <3>1, PhasedStart
  <2>12. CASE Start("specimens", Specimens(db, 0))
    <3>1. "specimens" \in AllTools  BY <2>5, <2>8
    <3> QED BY <2>3, <2>12, <3>1, PhasedStart
  <2>13. CASE Start("specimens --limit", Specimens(db, 1))  BY <2>7, <2>8, <2>13
  <2>14. CASE Start("sync", Sync(db, 0, FALSE))
    <3>1. "sync" \in AllTools  BY <2>5, <2>8
    <3> QED BY <2>4, <2>14, <3>1, PhasedStart
  <2>15. CASE Start("sync --limit", Sync(db, 1, FALSE))  BY <2>7, <2>8, <2>15
  <2>16. CASE \E limit \in {0, 1} : Start("sync --merge", Sync(db, limit, TRUE))  BY <2>7, <2>8, <2>16
  <2> QED BY <1>2, <2>9, <2>10, <2>11, <2>12, <2>13, <2>14, <2>15, <2>16 DEF StartErdosTool
<1>3. CASE WriteOne
  <2>1. /\ job.writes # <<>> /\ job.tool \in AllTools /\ db' = Done(db, job.writes[1]) /\ trail' = trail
        /\ job'.tool = job.tool /\ job'.writes = Tail(job.writes)
        /\ cut' = cut \ (IF IsWhole(job.writes[1]) THEN {FileOf(job.writes[1])} ELSE {})
    BY <1>3, WriteJob
  <2>2. cut' = cut \ CutBy(job.writes[1])  BY <2>1 DEF CutBy
  <2>3. job.tool # None  BY <2>1, ToolNames
  <2> DEFINE e == Done(db, job.writes[1])
             c == cut \ CutBy(job.writes[1])
  <2>4. Phases(e, job.tool, Tail(job.writes), trail, c)  BY <1>0, <1>00, <2>1, <2>3, PhasesWrite
  <2>5. db' = e /\ cut' = c  BY <2>1, <2>2
  <2> HIDE DEF e, c
  <2>6. Phases(db', job'.tool, job'.writes, trail', cut')  BY <2>1, <2>4, <2>5
  <2> QED BY <2>6 DEF Phased
<1>4. CASE End
  <2>1. job # Idle /\ job.writes = <<>> /\ trail' = Append(trail, job.tool) /\ job' = Idle /\ db' = db /\ cut' = cut
    BY <1>4 DEF End
  <2>2. job.tool \in AllTools  BY <2>1, JobOfTool
  <2>3. job'.tool = None  BY <2>1, IdleFacts
  <2>4. Phases(db, job.tool, <<>>, trail, cut)  BY <1>00, <2>1
  <2>5. Phases(db, None, job'.writes, Append(trail, job.tool), cut)  BY <1>0, <2>2, <2>4, PhasesEnd
  <2>6. Phases(db', job'.tool, job'.writes, trail', cut')  BY <2>1, <2>3, <2>5
  <2> QED BY <2>6 DEF Phased
<1>5. CASE Kill
  <2>1. /\ job.writes # <<>> /\ trail' = Append(trail, Killed(job.tool)) /\ job' = Idle
        /\ \/ db' = db /\ cut' = cut
           \/ /\ job.writes[1].op # "append"
              /\ db' = Emptied(db, job.writes[1]) /\ cut' = cut \cup {FileOf(job.writes[1])}
    BY <1>5, KillJob
  <2>2. job'.tool = None  BY <2>1, IdleFacts
  <2>3. Phases(db', None, job'.writes, Append(trail, Killed(job.tool)), cut')
    BY <1>0, <1>00, <2>1, PhasesKill
  <2>4. Phases(db', job'.tool, job'.writes, trail', cut')  BY <2>1, <2>2, <2>3
  <2> QED BY <2>4 DEF Phased
<1>6. CASE UNCHANGED dbVars
  <2>1. db' = db /\ job' = job /\ trail' = trail /\ cut' = cut  BY <1>6 DEF dbVars
  <2>2. Phases(db', job'.tool, job'.writes, trail', cut')  BY <1>00, <2>1
  <2> QED BY <2>2 DEF Phased
<1> QED BY <1>1, <1>2, <1>3, <1>4, <1>5, <1>6 DEF DbNext

LEMMA PhasedAlways == DbSpec => []Phased
<1>1. DbInit => Phased  BY PhasedInit
<1>2. Corpus /\ Phased /\ [DbNext]_dbVars => Phased'  BY PhasedNext
<1> QED BY <1>1, <1>2, CorpusAlways, PTL DEF DbSpec

LEMMA PhasedSettled ==
  ASSUME Corpus, Phased
  PROVE  /\ Aligned(CorpusTools \ {"de-stub-catalog"}) => Settling(db, cut, FALSE)
         /\ Aligned(CorpusTools \cup {"killed"}) => Settling(db, cut, TRUE)
<1>1. trail \in Seq(Trails) /\ Phases(db, job.tool, job.writes, trail, cut)  BY DEF Corpus, Jobs, Phased
<1>2. job.tool \in Killable \cup {None} => job.tool \in CorpusTools \cup {None}
  <2>1. job.tool # None => job.tool \in AllTools  BY DEF Corpus, Jobs
  <2>2. "killed" \notin AllTools  BY DEF AllTools, CorpusTools, ErdosTools
  <2> QED BY <2>1, <2>2 DEF Killable
<1>3. \A tools : Aligned(tools) => job.tool \in tools \cup {None} /\ AfterSync(trail, tools)
  BY <1>1, AlignedTrail DEF Aligned
<1>4. Aligned(Plain) => Settling(db, cut, FALSE)  BY <1>1, <1>3 DEF Phases
<1>5. Aligned(Killable) => Settling(db, cut, TRUE)  BY <1>1, <1>2, <1>3 DEF Phases
<1> QED BY <1>4, <1>5 DEF Plain, Killable

LEMMA SettledAgrees ==
  ASSUME NEW doubled \in BOOLEAN, Settling(db, cut, doubled), NEW n \in DOMAIN db.register
  PROVE  Agreed(n, Heads(db.register[n].stmt, doubled))
<1>1. AllSheets(db, cut, doubled) /\ db.catalog = EntriesOf(db.register)  BY DEF Settling
<1>2. HasSheet(db, n, cut, doubled) /\ db.register[n].spec = TRUE  BY <1>1 DEF AllSheets, AllLinked
<1>3. n \in DOMAIN db.catalog /\ db.catalog[n] = Entry(db.register[n])  BY <1>1, EntriesFacts
<1>4. db.catalog[n].spec = TRUE  BY <1>2, <1>3, EntryFields
<1>5. \/ db.sheets[n].head \in Heads(db.register[n].stmt, doubled)
      \/ <<"sheets", n>> \in cut
      \/ db.register[n].tier = "polished" /\ n \in DOMAIN Overlays
  BY <1>2 DEF HasSheet, Polished
<1> QED BY <1>3, <1>4, <1>5 DEF Agreed

\* Whatever tools are run, and wherever they are killed: the specimen that the
\* register names is there, and the one that the catalog names unless
\* de-stub-erdos-specimens.py was run with --limit.  After overlays, specimens and
\* sync, the register, the catalog and the specimens state every problem alike,
\* but for polished rows with an overlay and specimens that a kill left empty:
\* as long as none of the tools of the corpus that then run is de-stub-catalog.py
\* or is killed, and after those too, but for the backslashes that
\* de-stub-catalog.py doubles at the head of a specimen.
THEOREM ErdosTablesAgree == DbSpec => []ErdosAgrees
<1>1. Corpus /\ Links /\ Phased => ErdosAgrees
  <2> SUFFICES ASSUME Corpus, Links, Phased  PROVE ErdosAgrees  OBVIOUS
  <2>1. SpecimensFound  BY LinksSound
  <2>2. ASSUME Aligned(CorpusTools \ {"de-stub-catalog"}), NEW n \in DOMAIN db.register
        PROVE  Agreed(n, {db.register[n].stmt})
    <3>1. Agreed(n, Heads(db.register[n].stmt, FALSE))  BY <2>2, PhasedSettled, SettledAgrees
    <3>2. Heads(db.register[n].stmt, FALSE) = {db.register[n].stmt}  BY DEF Heads
    <3> QED BY <3>1, <3>2
  <2>3. ASSUME Aligned(CorpusTools \cup {"killed"}), NEW n \in DOMAIN db.register
        PROVE  Agreed(n, {db.register[n].stmt, InHeader(db.register[n].stmt)})
    <3>1. Agreed(n, Heads(db.register[n].stmt, TRUE))  BY <2>3, PhasedSettled, SettledAgrees
    <3>2. Heads(db.register[n].stmt, TRUE) = {db.register[n].stmt, InHeader(db.register[n].stmt)}  BY DEF Heads
    <3> QED BY <3>1, <3>2
  <2> QED BY <2>1, <2>2, <2>3 DEF ErdosAgrees
<1> QED BY <1>1, CorpusAlways, LinksAlways, PhasedAlways, PTL
=============================================================================
