----------------------------- MODULE CorpusText -----------------------------
(* The entries of the basic corpus of the proof database: which are        *)
(* planned, how a placeholder statement is replaced by a concrete one, and *)
(* which definitions a specimen gets.                                       *)
(*                                                                          *)
(* An identifier "D-LM-BC-IND-006" is <<"D-LM", "IND", 6>>.  A statement   *)
(* is <<form, of, n>>: texts the tools treat alike have one form, and       *)
(* wording is left out.  The forms are                                      *)
(*   plain, stub, made   a text of physics, its placeholder, the text that  *)
(*                       replaces the placeholder                           *)
(*   variant, case       "... (variant n)." and "... (case n)."             *)
(*   pool                the n-th concrete text of a family                 *)
(*   old                 a text that only earlier plans had                 *)
(*   modeling, concrete  a "(modeling stub)" of another field, and what it  *)
(*                       becomes.                                           *)
EXTENDS Integers, Sequences, FiniteSets

Prefix(id) == id[1]
Family(id) == id[2]
EntryIndex(id) == id[3]
IsAxiom(id) == Prefix(id) \in {"P-AX", "ST-AX", "D-AX", "GT-AX", "CHEM-AX"}

FieldOf(id) ==
  CASE Prefix(id) \in {"P-AX", "P-LM"} -> "physics"
    [] Prefix(id) \in {"ST-AX", "ST-LM"} -> "statistics"
    [] Prefix(id) \in {"D-AX", "D-LM"} -> "discrete"
    [] Prefix(id) \in {"GT-AX", "GT-LM"} -> "graph"
    [] OTHER -> "chemistry"

Tranche(n) == IF n <= 10 THEN 1 ELSE IF n <= 20 THEN 2 ELSE 3

---------------------------------------------------------------------------
(* The plan: fifty entries of each of five fields, as their tables say.     *)

PhysicsFamily(n) == <<"MEC", "EM", "TH", "WV", "EX">>[((n - 1) \div 10) + 1]
PhysicsAxioms == {1, 2, 3, 7, 11, 12, 13, 14, 19, 21, 22, 23, 24, 30}
PhysicsStubs == {14, 17, 18, 19, 20, 24, 29, 34, 39, 46, 49, 50}
PhysicsPlan ==
  {[id |-> <<IF n \in PhysicsAxioms THEN "P-AX" ELSE "P-LM", PhysicsFamily(n), n>>,
    stmt |-> <<IF n \in PhysicsStubs THEN "stub" ELSE "plain", "P", n>>] : n \in 1..50}

StatsFamily(n) ==
  <<"PR", "EX", "VR", "CH", "CLT", "BN", "COV", "MGF", "BER", "GAU">>[((n - 1) % 10) + 1]
StatsStatement(n) ==
  IF n = 1 THEN <<"plain", "axioms", 1>>
  ELSE CASE StatsFamily(n) = "PR" -> <<"variant", "consequence", n>>
         [] StatsFamily(n) = "GAU" -> <<"stub", "GAU", n>>
         [] OTHER -> <<"case", StatsFamily(n), n>>
StatsPlan ==
  {[id |-> <<IF StatsFamily(n) \in {"PR", "EX"} THEN "ST-AX" ELSE "ST-LM", StatsFamily(n), n>>,
    stmt |-> StatsStatement(n)] : n \in 1..50}

DiscreteFamily(n) == <<"IND", "CMB", "NT", "REC", "LOG">>[((n - 1) % 5) + 1]
DiscretePlan ==
  {[id |-> <<IF DiscreteFamily(n) = "LOG" THEN "D-AX" ELSE "D-LM", DiscreteFamily(n), n>>,
    stmt |-> <<"variant", DiscreteFamily(n), n>>] : n \in 1..50}

GraphFamily(n) == <<"HS", "TR", "CON", "COL", "GR">>[((n - 1) % 5) + 1]
GraphPlan ==
  {[id |-> <<IF GraphFamily(n) = "GR" THEN "GT-AX" ELSE "GT-LM", GraphFamily(n), n>>,
    stmt |-> <<"variant", GraphFamily(n), n>>] : n \in 1..50}

ChemistryFamily(n) == <<"IG", "RX", "EQ", "TH", "AX">>[((n - 1) % 5) + 1]
ChemistryPlan ==
  {[id |-> <<IF ChemistryFamily(n) = "AX" THEN "CHEM-AX" ELSE "CHEM-LM", ChemistryFamily(n), n>>,
    stmt |-> <<"case", ChemistryFamily(n), n>>] : n \in 1..50}

---------------------------------------------------------------------------
(* The lookup of a concrete statement.                                      *)

IsVariant(stmt) == stmt[1] = "variant" \/ (stmt[1] = "old" /\ stmt[2] = "kolmogorov")

PhysicsStubMap == [n \in PhysicsStubs |-> <<"made", "P", n>>]
NormalPdf == <<"plain", "pdf", 0>>
KolmogorovAxioms == <<"plain", "axioms", 1>>

(* Every family has ten texts.                                              *)
PoolSize == 10
Pool(family, slot) == <<"pool", family, slot % PoolSize>>
FamilySlot(id) == (EntryIndex(id) - 1) \div 5
KolmogorovConsequence(id) == Pool("PR", FamilySlot(id))

FromStubMap(stmt) == IF stmt[2] = "GAU" THEN NormalPdf ELSE PhysicsStubMap[stmt[3]]

FromFamily(id, stmt) ==
  IF stmt[1] = "old" THEN IF EntryIndex(id) = 1 THEN KolmogorovAxioms ELSE KolmogorovConsequence(id)
  ELSE IF FieldOf(id) \in {"discrete", "graph"} THEN Pool(Family(id), FamilySlot(id))
  ELSE IF stmt[2] = "consequence" THEN KolmogorovConsequence(id)
  ELSE Pool(stmt[2], FamilySlot(id))

GeneralStubMap(stmt) == <<"concrete", stmt[2], stmt[3]>>

(* The statement the lookup puts in the place of stmt, which is stmt itself *)
(* when the lookup leaves it alone.                                          *)
Destubbed(id, stmt) ==
  CASE stmt[1] = "stub" -> FromStubMap(stmt)
    [] IsVariant(stmt) -> FromFamily(id, stmt)
    [] stmt[1] = "modeling" -> GeneralStubMap(stmt)
    [] OTHER -> stmt

RawPlan == PhysicsPlan \cup StatsPlan \cup DiscretePlan \cup GraphPlan \cup ChemistryPlan
Plan == {[id |-> r.id, stmt |-> Destubbed(r.id, r.stmt)] : r \in RawPlan}

(* What enrich-basic-corpus-specimens.py --patch-catalog writes for it.     *)
Patched(stmt) ==
  CASE stmt[1] = "old" /\ stmt[2] = "kolmogorov" ->
         IF stmt[3] = 1 THEN KolmogorovAxioms ELSE <<"variant", "consequence", stmt[3]>>
    [] stmt[1] = "old" /\ stmt[2] = "bayes" -> <<"case", "BN", stmt[3]>>
    [] stmt[1] = "old" /\ stmt[2] = "equilibrium" -> <<"case", "EQ", stmt[3]>>
    [] stmt \in {<<"old", "gas", 24>>, <<"stub", "P", 24>>} -> <<"made", "P", 24>>
    [] OTHER -> stmt

---------------------------------------------------------------------------
(* The definitions of a specimen, by the name of the first one.             *)

Mentions(word, stmt) ==
  CASE word = "Bernoulli" -> stmt[2] = "BER" \/ (stmt[2] = "P" /\ stmt[3] = 34)
    [] word = "Kinetic energy" -> stmt[2] = "P" /\ stmt[3] = 6
    [] word = "Ohm" -> stmt[2] = "P" /\ stmt[3] = 17
    [] word = "PV" -> stmt[2] = "P" /\ stmt[3] = 28
    [] word = "F = m a" -> stmt[2] = "P" /\ stmt[3] = 2
    [] OTHER -> FALSE

StatsAxiomBody(id) == IF Family(id) = "PR" THEN "kolmogorov_mass_normalized" ELSE "expectation_linear"

StatsLemmaBody ==
  [BN |-> "bayes_posterior", VR |-> "variance_from_moments", COV |-> "covariance",
   CH |-> "chebyshev_bound", CLT |-> "clt_standardized_sum", BER |-> "bernoulli_variance",
   MGF |-> "mgf_at_zero", GAU |-> "normal_density_scale"]

PhysicsBody(id, stmt) ==
  IF IsAxiom(id) THEN IF Mentions("F = m a", stmt) THEN "newton_second" ELSE "axiom_witness"
  ELSE CASE Mentions("Kinetic energy", stmt) -> "kinetic_energy"
         [] Mentions("Ohm", stmt) -> "ohm_law"
         [] Mentions("PV", stmt) -> "ideal_gas_pressure"
         [] OTHER -> "witness"

GraphBody ==
  [GR |-> "simple_graph_symmetric", HS |-> "handshaking_sum", TR |-> "tree_edge_count",
   CON |-> "connected_edge_lower_bound", COL |-> "chromatic_upper"]

ChemistryBody ==
  [EQ |-> "equilibrium_constant", IG |-> "ideal_gas_pv", RX |-> "first_order_rate",
   TH |-> "gibbs_free_energy", AX |-> "axiom_witness"]

DiscreteBody ==
  [LOG |-> "axiom_witness", IND |-> "induction_step", CMB |-> "binomial_symmetry",
   NT |-> "gcd_divides", REC |-> "witness"]

(* The tests are made in this order, so that a statement of physics that    *)
(* mentions Bernoulli gets the definition of the distribution.              *)
EnrichedBody(id, stmt) ==
  IF Prefix(id) = "ST-AX" THEN StatsAxiomBody(id)
  ELSE IF Prefix(id) = "ST-LM" THEN StatsLemmaBody[Family(id)]
  ELSE IF Mentions("Bernoulli", stmt) THEN StatsLemmaBody.BER
  ELSE CASE FieldOf(id) = "physics" -> PhysicsBody(id, stmt)
         [] FieldOf(id) = "graph" -> GraphBody[Family(id)]
         [] FieldOf(id) = "chemistry" -> ChemistryBody[Family(id)]
         [] OTHER -> DiscreteBody[Family(id)]

(* What bootstrap-basic-corpus.py writes: a lemma has nothing but main.     *)
BootstrapBody(id) == IF IsAxiom(id) THEN "proof_db" ELSE "main"

(* stub-audit.py: a specimen with no definition beside main.                *)
HasNamedDef(body) == body \notin {"main", "empty"}
===========================================================================
