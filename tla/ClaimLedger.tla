----------------------------- MODULE ClaimLedger -----------------------------
(* The ledger of research claims (scripts/research-audit): agents append     *)
(* claims and reviews to two files; claim-to-li-specimen.py reads the claims, *)
(* raises the status of those it has evidence for and writes the file anew;  *)
(* compare-claims.py and export-audit-ui.py read claims, then reviews, and   *)
(* write a report and the bundle of the audit page.  All may run at once.    *)
EXTENDS Integers, Sequences, FiniteSets, SequencesExt

CONSTANTS
  Unwritten,    \* no value
  Statuses,     \* what rows give as their status: no tool compares it with schema.toml
  Literature,   \* claims that listed literature proves (LITERATURE_OK)
  Specimened,   \* claims with a specimen (SPECIMEN_MAP)
  FirstClaims,  \* the claims that bootstrap-e52-claims.py writes
  FirstReviews, \* and its reviews
  NewClaims,    \* claims that agents append
  NewReviews,   \* reviews that agents append
  MaxSteps      \* bound: tools that start

Claims == [id: Nat, status: Statuses, cites: BOOLEAN]
ASSUME ClaimsAssumption ==
  /\ FirstClaims \in Seq(Claims) /\ NewClaims \subseteq Claims
  /\ {"li_open", "literature_proved"} \subseteq Statuses

VARIABLES
  ledger,     \* the files: claims, reviews, specimens, report, bundle
  converter,  \* claim-to-li-specimen.py: [at, rows, next, updated, writes]
  reader,     \* compare-claims.py or export-audit-ui.py: [at, claims]
  started,    \* tools that started
  originals,  \* claims as they were appended or bootstrapped
  kept,       \* appended claims that must still be there
  raced,      \* claims appended while a converter had read the file
  raised,     \* claims as they were raised
  stale       \* what claims or reviews changed under: [report, reader]

clVars == <<ledger, converter, reader, started, originals, kept, raced, raised, stale>>
Touched == [report |-> TRUE, reader |-> TRUE]

NoConverter == [at |-> "idle", rows |-> <<>>, next |-> 0, updated |-> 0, writes |-> FALSE]
NoReader == [at |-> "idle", claims |-> <<>>]
Grounded == {"li_proved", "literature_proved"}
LiStatuses == {"li_proved", "li_open"}

CLInit ==
  /\ \E boot \in BOOLEAN :
       /\ ledger = [claims |-> IF boot THEN FirstClaims ELSE <<>>,
                    reviews |-> IF boot THEN FirstReviews ELSE <<>>,
                    specimens |-> {}, report |-> Unwritten, bundle |-> Unwritten]
       /\ originals = IF boot THEN ToSet(FirstClaims) ELSE {}
  /\ converter = NoConverter /\ reader = NoReader
  /\ started = 0 /\ kept = {} /\ raced = {} /\ raised = {} /\ stale = Touched

Begins == started < MaxSteps /\ started' = started + 1

(* append-claim.py opens the file to append, and does not look whether it    *)
(* has the claim.                                                             *)
Appended(rows, row) == Append(rows, row)
AppendClaim ==
  /\ Begins
  /\ \E c \in NewClaims :
       /\ ledger' = [ledger EXCEPT !.claims = Appended(@, c)]
       /\ originals' = originals \cup {c}
       /\ kept' = kept \cup {c}
       /\ raced' = IF converter.at \in {"claim", "compile"} THEN raced \cup {c} ELSE raced
  /\ stale' = Touched
  /\ UNCHANGED <<converter, reader, raised>>
AppendReview ==
  /\ Begins
  /\ \E r \in NewReviews : ledger' = [ledger EXCEPT !.reviews = Append(@, r)]
  /\ stale' = Touched
  /\ UNCHANGED <<converter, reader, originals, kept, raced, raised>>

(* bootstrap-e52-claims.py writes both files anew, one after the other, and  *)
(* may be killed between them.                                                *)
BootstrapLedger ==
  /\ Begins
  /\ \E reviews \in {ledger.reviews, FirstReviews} :
       ledger' = [ledger EXCEPT !.claims = FirstClaims, !.reviews = reviews]
  /\ originals' = originals \cup ToSet(FirstClaims)
  /\ kept' = {} /\ raised' = {} /\ stale' = Touched
  /\ UNCHANGED <<converter, reader, raced>>

---------------------------------------------------------------------------
(* claim-to-li-specimen.py                                                   *)

StartConverter ==
  /\ converter.at = "idle"
  /\ Begins
  /\ \E writes \in BOOLEAN :
       converter' = IF ledger.claims = <<>> THEN converter
                    ELSE [at |-> "claim", rows |-> ledger.claims, next |-> 1, updated |-> 0, writes |-> writes]
  /\ raced' = {}
  /\ UNCHANGED <<ledger, reader, originals, kept, raised, stale>>

Claim == converter.rows[converter.next]
ByLiterature(c) == c.id \in Literature /\ c.status = "heuristic" /\ c.cites
BySpecimen(c) == c.id \in Specimened /\ c.status \in {"heuristic", "model_consensus"}
Raised(c, status) ==
  converter' = [converter EXCEPT !.at = "claim", !.next = @ + 1, !.updated = @ + 1,
                                 !.rows[converter.next] = [c EXCEPT !.status = status]]
PassOver == converter' = [converter EXCEPT !.at = "claim", !.next = @ + 1]

(* The specimen is only written when it is not there, and also by --dry-run. *)
LookAt ==
  /\ converter.at = "claim"
  /\ converter.next \in DOMAIN converter.rows
  /\ \/ ByLiterature(Claim) /\ Raised(Claim, "literature_proved") /\ UNCHANGED ledger
     \/ /\ ~ ByLiterature(Claim) /\ BySpecimen(Claim)
        /\ ledger' = [ledger EXCEPT !.specimens = @ \cup {Claim.id}]
        /\ converter' = [converter EXCEPT !.at = "compile"]
     \/ ~ ByLiterature(Claim) /\ ~ BySpecimen(Claim) /\ PassOver /\ UNCHANGED ledger
  /\ UNCHANGED <<reader, started, originals, kept, raced, raised, stale>>

(* Without the compiler the specimen counts as compiled.                     *)
CompiledIsProved == "li_proved"   \* a plausible bug
AfterCompile == "li_open"
Compile ==
  /\ converter.at = "compile"
  /\ Raised(Claim, AfterCompile) \/ PassOver
  /\ UNCHANGED <<ledger, reader, started, originals, kept, raced, raised, stale>>

(* The claims that were appended since it read the file are gone.            *)
Writes == converter.updated > 0 /\ converter.writes
Rewritten == converter.rows
WriteClaims ==
  /\ converter.at = "claim"
  /\ converter.next \notin DOMAIN converter.rows
  /\ IF Writes
     THEN /\ ledger' = [ledger EXCEPT !.claims = Rewritten]
          /\ kept' = kept \ raced
          /\ raised' = raised \cup (ToSet(converter.rows) \ originals)
          /\ stale' = Touched
     ELSE UNCHANGED <<ledger, kept, raised, stale>>
  /\ converter' = NoConverter
  /\ UNCHANGED <<reader, started, originals, raced>>

(* A kill while it writes leaves the file empty.                             *)
KillConverter ==
  /\ converter.at # "idle"
  /\ \/ UNCHANGED <<ledger, kept, raised, stale>>
     \/ /\ converter.next \notin DOMAIN converter.rows /\ Writes
        /\ ledger' = [ledger EXCEPT !.claims = <<>>]
        /\ kept' = {} /\ raised' = {} /\ stale' = Touched
  /\ converter' = NoConverter
  /\ UNCHANGED <<reader, started, originals, raced>>

---------------------------------------------------------------------------
(* The readers.                                                              *)

StatusIn(claims, id) ==
  LET at == {i \in DOMAIN claims : claims[i].id = id}
  IN  IF at = {} THEN "heuristic" ELSE claims[CHOOSE i \in at : \A j \in at : j <= i].status

(* compare-claims.py flags the claims that a reviewer calls proved and that  *)
(* neither Li nor the literature proves.  --check flags them and still       *)
(* succeeds.                                                                  *)
Flags(claims, reviews) ==
  {r.claim : r \in {s \in ToSet(reviews) : s.verdict = "proved" /\ StatusIn(claims, s.claim) \notin Grounded}}

StartReader ==
  /\ reader.at = "idle"
  /\ ledger.claims # <<>>
  /\ Begins
  /\ \E tool \in {"compare", "export"} : reader' = [at |-> tool, claims |-> ledger.claims]
  /\ stale' = [stale EXCEPT !.reader = FALSE]
  /\ UNCHANGED <<ledger, converter, originals, kept, raced, raised>>

EndReader ==
  /\ \/ /\ reader.at = "compare"
        /\ ledger' = [ledger EXCEPT !.report = Flags(reader.claims, ledger.reviews)]
        /\ stale' = [stale EXCEPT !.report = stale.reader]
     \/ /\ reader.at = "export"
        /\ ledger' = [ledger EXCEPT !.bundle = [claims |-> reader.claims, reviews |-> ledger.reviews,
                                               report |-> ledger.report,
                                               exact |-> ~ stale.report /\ ~ stale.reader]]
        /\ UNCHANGED stale
  /\ reader' = NoReader
  /\ UNCHANGED <<converter, started, originals, kept, raced, raised>>

(* check-reviews.py and check-li-verify.py.                                   *)
MinReviewers == 2
Reviewers(id) == {r.model : r \in {s \in ToSet(ledger.reviews) : s.claim = id}}
ReviewsOk == \A c \in ToSet(ledger.claims) : Cardinality(Reviewers(c.id)) >= MinReviewers
LiVerifyOk == \E c \in ToSet(ledger.claims) : c.status \in LiStatuses

CLNext ==
  \/ AppendClaim \/ AppendReview \/ BootstrapLedger \/ StartConverter \/ LookAt \/ Compile
  \/ WriteClaims \/ KillConverter \/ StartReader \/ EndReader

CLSpec == CLInit /\ [][CLNext]_clVars

---------------------------------------------------------------------------
(* A claim is in the ledger with the status it was given, or one that there  *)
(* is evidence for: literature that it cites, or a specimen that is there.   *)
Supported(c) ==
  \E o \in originals :
    /\ [o EXCEPT !.status = c.status] = c
    /\ \/ c.status = o.status
       \/ c.status = "literature_proved" /\ o.status = "heuristic" /\ o.id \in Literature /\ o.cites
       \/ c.status = "li_open" /\ o.status \in {"heuristic", "model_consensus"}
            /\ o.id \in ledger.specimens

(* A claim that was appended stays, unless it was appended while             *)
(* claim-to-li-specimen.py had read the file, the file was bootstrapped, or  *)
(* a kill emptied it.                                                         *)
Stays(c) == \E i \in DOMAIN ledger.claims : [c EXCEPT !.status = ledger.claims[i].status] = ledger.claims[i]

(* The audit page flags what a reviewer calls proved and nothing proves,     *)
(* when neither claims nor reviews changed since the report was begun.       *)
Flagged(bundle) ==
  \A r \in ToSet(bundle.reviews) :
    (r.verdict = "proved" /\ r.claim \notin bundle.report) => StatusIn(bundle.claims, r.claim) \in Grounded

(* The ledger of claims through any interleaving of its tools: the above,    *)
(* and what claim-to-li-specimen.py raised stays raised, with the same       *)
(* exceptions.                                                                *)
LedgerKept ==
  /\ \A c \in ToSet(ledger.claims) : Supported(c)
  /\ \A c \in kept : Stays(c)
  /\ raised \subseteq ToSet(ledger.claims)
  /\ (ledger.bundle # Unwritten /\ ledger.bundle.exact) => Flagged(ledger.bundle)
===========================================================================
