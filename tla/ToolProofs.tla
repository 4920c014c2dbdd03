----------------------------- MODULE ToolProofs -----------------------------
(***************************************************************************)
(* Tools that keep books: the claim ledger, the lemma report and the gap   *)
(* pipeline, for every set of claims, every list of entries and any number *)
(* of tools, builds, runners and kills; and the scripts that patch the     *)
(* studio, for every text of the library and any number of runs and kills. *)
(*                                                                         *)
(* Of the ledger, Ledger is inductive: what holds of the file holds of the *)
(* copies that claim-to-li-specimen.py rewrites and that the readers have, *)
(* as far as nothing was appended since they were taken. Of the report,    *)
(* Rebuild is: what AutoVC.lean holds while the tool builds and counts. Of *)
(* the pipeline, Inv is; and of the patches, Patching (the last part).     *)
(***************************************************************************)
EXTENDS GapSwarm, ClaimLedger, RebuildLemmas, StudioPatches, FiniteSetTheorems, SequenceTheorems, TLAPS

-----------------------------------------------------------------------------
(* The claims.                                                             *)

\* Statuses aside, d is the claim c.
SameClaim(c, d) == [c EXCEPT !.status = d.status] = d

SupportedBy(c, origins, specimens) ==
  \E o \in origins :
    /\ SameClaim(o, c)
    /\ \/ c.status = o.status
       \/ c.status = "literature_proved" /\ o.status = "heuristic" /\ o.id \in Literature /\ o.cites
       \/ c.status = "li_open" /\ o.status \in {"heuristic", "model_consensus"}
            /\ o.id \in specimens

AllSupported(rows, origins, specimens) ==
  \A i \in DOMAIN rows : SupportedBy(rows[i], origins, specimens)

Has(rows, c) == \E i \in DOMAIN rows : SameClaim(c, rows[i])
Keeps(rows, claims) == \A c \in claims : Has(rows, c)

Ledgers ==
  /\ DOMAIN ledger = {"claims", "reviews", "specimens", "report", "bundle"}
  /\ ledger.claims \in Seq(Claims)
  /\ originals \subseteq Claims /\ kept \subseteq Claims /\ raised \subseteq Claims
  /\ DOMAIN stale = {"report", "reader"}

Sources ==
  /\ AllSupported(ledger.claims, originals, ledger.specimens)
  /\ Keeps(ledger.claims, kept)
  /\ raised \subseteq ToSet(ledger.claims)
  /\ \A c \in raised : c.status \in {"literature_proved", "li_open"}

\* The copy that claim-to-li-specimen.py works on.
Converting ==
  /\ converter.at \in {"idle", "claim", "compile"}
  /\ converter.at # "idle" =>
       /\ DOMAIN converter = {"at", "rows", "next", "updated", "writes"}
       /\ converter.rows \in Seq(Claims) /\ converter.next \in Nat
       /\ AllSupported(converter.rows, originals, ledger.specimens)
       /\ Keeps(converter.rows, kept \ raced)
       /\ raised \subseteq ToSet(converter.rows)
  /\ converter.at = "compile" =>
       /\ converter.next \in DOMAIN converter.rows
       /\ BySpecimen(Claim) /\ Claim.id \in ledger.specimens

\* The copy of the readers, and the files they wrote.
Copying ==
  /\ reader.at # "idle" /\ ~stale.reader => reader.claims = ledger.claims
  /\ ~stale.report => ledger.report = Flags(ledger.claims, ledger.reviews)
  /\ (ledger.bundle # Unwritten /\ ledger.bundle.exact) => Flagged(ledger.bundle)

Ledger == Ledgers /\ Sources /\ Converting /\ Copying

LEMMA LedgerImplies == Ledger => LedgerKept
<1> SUFFICES ASSUME Ledger PROVE LedgerKept
  OBVIOUS
<1>1. ASSUME NEW c \in ToSet(ledger.claims) PROVE Supported(c)
  <2>1. PICK i \in DOMAIN ledger.claims : c = ledger.claims[i]
    BY <1>1 DEF ToSet
  <2>2. SupportedBy(c, originals, ledger.specimens)
    BY <2>1 DEF Ledger, Sources, AllSupported
  <2> QED BY <2>2 DEF SupportedBy, Supported, SameClaim
<1>2. ASSUME NEW c \in kept PROVE Stays(c)
  BY <1>2 DEF Ledger, Sources, Keeps, Has, SameClaim, Stays
<1> QED BY <1>1, <1>2 DEF Ledger, Sources, Copying, LedgerKept

-----------------------------------------------------------------------------
(* What is supported and kept when sets and rows grow or change.           *)

LEMMA SupportGrows ==
  ASSUME NEW rows, NEW o1, NEW o2, NEW s1, NEW s2, o1 \subseteq o2, s1 \subseteq s2,
         AllSupported(rows, o1, s1)
  PROVE  AllSupported(rows, o2, s2)
BY DEF AllSupported, SupportedBy

LEMMA OriginalsSupported ==
  ASSUME NEW c \in Claims, NEW origins, c \in origins, NEW specimens
  PROVE  SupportedBy(c, origins, specimens)
<1>1. SameClaim(c, c)
  BY DEF SameClaim, Claims
<1> QED BY <1>1 DEF SupportedBy

LEMMA SameClaimItself ==
  ASSUME NEW c \in Claims PROVE SameClaim(c, c)
BY DEF SameClaim, Claims

LEMMA AppendedRows ==
  ASSUME NEW rows \in Seq(Claims), NEW c \in Claims
  PROVE  LET more == Append(rows, c)
         IN /\ more \in Seq(Claims)
            /\ DOMAIN more = DOMAIN rows \cup {Len(rows) + 1}
            /\ \A i \in DOMAIN rows : more[i] = rows[i]
            /\ more[Len(rows) + 1] = c
OBVIOUS

\* Raising the status of one row.
LEMMA RaisedRows ==
  ASSUME NEW rows \in Seq(Claims), NEW n \in DOMAIN rows, NEW status \in Statuses
  PROVE  LET next == [rows EXCEPT ![n] = [rows[n] EXCEPT !.status = status]]
         IN /\ next \in Seq(Claims) /\ DOMAIN next = DOMAIN rows
            /\ \A i \in DOMAIN rows : i # n => next[i] = rows[i]
            /\ next[n] = [rows[n] EXCEPT !.status = status]
<1>1. rows[n] \in Claims
  OBVIOUS
<1>2. [rows[n] EXCEPT !.status = status] \in Claims
  BY <1>1 DEF Claims
<1> QED BY <1>2

\* c is still there when rows[n] was given another status.
LEMMA RaisedKeeps ==
  ASSUME NEW rows \in Seq(Claims), NEW n \in DOMAIN rows, NEW status \in Statuses,
         NEW c \in Claims, Has(rows, c)
  PROVE  Has([rows EXCEPT ![n] = [rows[n] EXCEPT !.status = status]], c)
<1> DEFINE next == [rows EXCEPT ![n] = [rows[n] EXCEPT !.status = status]]
<1>1. PICK i \in DOMAIN rows : SameClaim(c, rows[i])
  BY DEF Has
<1>2. /\ DOMAIN next = DOMAIN rows /\ (i # n => next[i] = rows[i])
      /\ next[n] = [rows[n] EXCEPT !.status = status]
  BY RaisedRows
<1>3. rows[n] \in Claims
  OBVIOUS
<1>4. SameClaim(c, next[i])
  <2>1. CASE i # n
    BY <1>1, <1>2, <2>1
  <2>2. CASE i = n
    <3>1. c.id = rows[n].id /\ c.cites = rows[n].cites
      BY <1>1, <1>3, <2>2 DEF SameClaim, Claims
    <3> QED BY <1>2, <1>3, <2>2, <3>1 DEF SameClaim, Claims
  <2> QED BY <2>1, <2>2
<1> HIDE DEF next
<1>5. Has(next, c)
  BY <1>2, <1>4 DEF Has
<1> QED BY <1>5 DEF next

\* A row that was not raised before is the claim it was appended as.
LEMMA RaisedSupported ==
  ASSUME NEW c \in Claims, NEW origins \in SUBSET Claims, NEW specimens,
         SupportedBy(c, origins, specimens), NEW status,
         \/ status = "literature_proved" /\ c.status = "heuristic" /\ c.id \in Literature /\ c.cites
         \/ status = "li_open" /\ c.status \in {"heuristic", "model_consensus"}
              /\ c.id \in specimens
  PROVE  SupportedBy([c EXCEPT !.status = status], origins, specimens)
<1>1. PICK o \in origins : SameClaim(o, c) /\ c.status = o.status
  BY DEF SupportedBy
<1>2. o.id = c.id /\ o.cites = c.cites /\ o \in Claims
  BY <1>1 DEF SameClaim, Claims
<1>3. [c EXCEPT !.status = status].status = status
  BY DEF Claims
<1>4. SameClaim(o, [c EXCEPT !.status = status])
  BY <1>2, <1>3 DEF SameClaim, Claims
<1> QED BY <1>1, <1>2, <1>3, <1>4 DEF SupportedBy

\* What was raised before is not raised again.
LEMMA RaisedOnce ==
  ASSUME NEW rows \in Seq(Claims), NEW n \in DOMAIN rows, NEW status \in Statuses,
         rows[n].status \in {"heuristic", "model_consensus"},
         NEW before, before \subseteq ToSet(rows),
         \A c \in before : c.status \in {"literature_proved", "li_open"}
  PROVE  before \subseteq ToSet([rows EXCEPT ![n] = [rows[n] EXCEPT !.status = status]])
<1> DEFINE next == [rows EXCEPT ![n] = [rows[n] EXCEPT !.status = status]]
<1>1. ASSUME NEW c \in before PROVE c \in ToSet(next)
  <2>1. PICK i \in DOMAIN rows : c = rows[i]
    BY <1>1 DEF ToSet
  <2>2. i # n
    BY <1>1, <2>1
  <2>3. next[i] = c /\ i \in DOMAIN next
    BY <2>1, <2>2, RaisedRows
  <2> HIDE DEF next
  <2> QED BY <2>3 DEF ToSet
<1> QED BY <1>1

-----------------------------------------------------------------------------
(* The tools of the ledger.                                                *)

LEMMA InitLedger == CLInit => Ledger
<1> SUFFICES ASSUME CLInit PROVE Ledger
  OBVIOUS
<1>1. PICK boot \in BOOLEAN :
        /\ ledger = [claims |-> IF boot THEN FirstClaims ELSE <<>>,
                     reviews |-> IF boot THEN FirstReviews ELSE <<>>,
                     specimens |-> {}, report |-> Unwritten, bundle |-> Unwritten]
        /\ originals = IF boot THEN ToSet(FirstClaims) ELSE {}
  BY DEF CLInit
<1>2. /\ converter = NoConverter /\ reader = NoReader
      /\ kept = {} /\ raised = {} /\ stale = Touched
  BY DEF CLInit
<1>3. ledger.claims \in Seq(Claims) /\ originals \subseteq Claims
  BY <1>1, ClaimsAssumption DEF ToSet
<1>4. Ledgers
  BY <1>1, <1>2, <1>3 DEF Ledgers, Touched
<1>5. AllSupported(ledger.claims, originals, ledger.specimens)
  <2>1. ASSUME NEW i \in DOMAIN ledger.claims
        PROVE  ledger.claims[i] \in Claims /\ ledger.claims[i] \in originals
    BY <1>1, <1>3 DEF ToSet
  <2> QED BY <2>1, OriginalsSupported DEF AllSupported
<1>6. Sources
  BY <1>2, <1>5 DEF Sources, Keeps
<1>7. Converting
  BY <1>2 DEF Converting, NoConverter
<1>8. Copying
  BY <1>1, <1>2 DEF Copying, NoReader, Touched
<1> QED BY <1>4, <1>6, <1>7, <1>8 DEF Ledger

LEMMA TouchedStale ==
  ASSUME stale' = Touched PROVE stale'.report /\ stale'.reader
BY DEF Touched

\* A row at the end changes nothing of what holds of the others.
LEMMA AppendClaimLedger == ASSUME Ledger, AppendClaim PROVE Ledger'
<1>1. PICK c \in NewClaims :
        /\ ledger' = [ledger EXCEPT !.claims = Append(@, c)]
        /\ originals' = originals \cup {c}
        /\ kept' = kept \cup {c}
        /\ raced' = IF converter.at \in {"claim", "compile"} THEN raced \cup {c} ELSE raced
  BY DEF AppendClaim, Appended
<1>2. stale' = Touched /\ UNCHANGED <<converter, reader, raised>>
  BY DEF AppendClaim
<1>3. Ledgers /\ Sources /\ Converting /\ Copying /\ c \in Claims
  BY <1>1, ClaimsAssumption DEF Ledger
<1> DEFINE rows == ledger.claims
           more == Append(ledger.claims, c)
<1>4. /\ ledger'.claims = more /\ DOMAIN ledger' = DOMAIN ledger
      /\ UNCHANGED <<ledger.specimens, ledger.bundle>>
  BY <1>1, <1>3 DEF Ledgers
<1>5. /\ more \in Seq(Claims) /\ DOMAIN more = DOMAIN rows \cup {Len(rows) + 1}
      /\ \A i \in DOMAIN rows : more[i] = rows[i]
      /\ more[Len(rows) + 1] = c
  BY <1>3, AppendedRows DEF Ledgers
<1>6. Ledgers'
  BY <1>1, <1>2, <1>3, <1>4, <1>5 DEF Ledgers, Touched
<1> HIDE DEF more
<1>7. AllSupported(more, originals', ledger'.specimens)
  <2>1. AllSupported(rows, originals', ledger'.specimens)
    BY <1>1, <1>3, <1>4, SupportGrows DEF Sources
  <2>2. SupportedBy(c, originals', ledger'.specimens)
    BY <1>1, <1>3, OriginalsSupported
  <2> QED BY <1>5, <2>1, <2>2 DEF AllSupported
<1>8. Keeps(more, kept')
  BY <1>1, <1>3, <1>5, SameClaimItself DEF Sources, Keeps, Has
<1>9. raised' \subseteq ToSet(more)
  BY <1>2, <1>3, <1>5 DEF Sources, ToSet
<1>10. Sources'
  BY <1>2, <1>3, <1>4, <1>7, <1>8, <1>9 DEF Sources
<1>11. Converting'
  <2>1. AllSupported(converter.rows, originals, ledger.specimens)
          => AllSupported(converter.rows, originals', ledger'.specimens)
    BY <1>1, <1>4, SupportGrows
  <2>2. converter.at # "idle" => kept' \ raced' \subseteq kept \ raced
    BY <1>1, <1>3 DEF Converting
  <2>3. BySpecimen(Claim)' = BySpecimen(Claim) /\ Claim' = Claim
    BY <1>2 DEF BySpecimen, Claim
  <2> QED BY <1>2, <1>3, <1>4, <2>1, <2>2, <2>3 DEF Converting, Keeps
<1>12. Copying'
  BY <1>2, <1>3, <1>4, TouchedStale DEF Copying
<1> QED BY <1>6, <1>10, <1>11, <1>12 DEF Ledger

LEMMA AppendReviewLedger == ASSUME Ledger, AppendReview PROVE Ledger'
<1>1. PICK r \in NewReviews : ledger' = [ledger EXCEPT !.reviews = Append(@, r)]
  BY DEF AppendReview
<1>2. stale' = Touched /\ UNCHANGED <<converter, reader, originals, kept, raced, raised>>
  BY DEF AppendReview
<1>3. /\ DOMAIN ledger' = DOMAIN ledger
      /\ UNCHANGED <<ledger.claims, ledger.specimens, ledger.bundle>>
  BY <1>1 DEF Ledger, Ledgers
<1>4. Ledgers' /\ Sources'
  BY <1>2, <1>3 DEF Ledger, Ledgers, Sources, Touched
<1>5. Converting'
  BY <1>2, <1>3 DEF Ledger, Converting, BySpecimen, Claim
<1>6. Copying'
  BY <1>2, <1>3, TouchedStale DEF Ledger, Copying
<1> QED BY <1>4, <1>5, <1>6 DEF Ledger

LEMMA BootstrapKeepsLedger == ASSUME Ledger, BootstrapLedger PROVE Ledger'
<1>1. PICK reviews : ledger' = [ledger EXCEPT !.claims = FirstClaims, !.reviews = reviews]
  BY DEF BootstrapLedger
<1>2. /\ originals' = originals \cup ToSet(FirstClaims)
      /\ kept' = {} /\ raised' = {} /\ stale' = Touched
      /\ UNCHANGED <<converter, reader, raced>>
  BY DEF BootstrapLedger
<1>3. /\ DOMAIN ledger' = DOMAIN ledger /\ ledger'.claims = FirstClaims
      /\ UNCHANGED <<ledger.specimens, ledger.bundle>>
  BY <1>1 DEF Ledger, Ledgers
<1>4. \A i \in DOMAIN FirstClaims : FirstClaims[i] \in Claims /\ FirstClaims[i] \in originals'
  BY <1>2, ClaimsAssumption DEF ToSet
<1>5. Ledgers'
  BY <1>2, <1>3, <1>4, ClaimsAssumption DEF Ledger, Ledgers, Touched, ToSet
<1>6. Sources'
  BY <1>2, <1>3, <1>4, OriginalsSupported DEF Sources, AllSupported, Keeps
<1>7. Converting'
  <2>1. AllSupported(converter.rows, originals, ledger.specimens)
          => AllSupported(converter.rows, originals', ledger'.specimens)
    BY <1>2, <1>3, SupportGrows
  <2> QED BY <1>2, <1>3, <2>1 DEF Ledger, Converting, BySpecimen, Claim, Keeps
<1>8. Copying'
  BY <1>2, <1>3, TouchedStale DEF Ledger, Copying
<1> QED BY <1>5, <1>6, <1>7, <1>8 DEF Ledger

\* Steps that change neither the files nor what is known of them.
LEMMA FilesSame ==
  ASSUME Ledger, UNCHANGED <<ledger, originals, kept, raised>>,
         DOMAIN stale' = {"report", "reader"}
  PROVE  Ledgers' /\ Sources'
BY DEF Ledger, Ledgers, Sources

LEMMA StartConverterLedger == ASSUME Ledger, StartConverter PROVE Ledger'
<1>1. UNCHANGED <<ledger, reader, originals, kept, raised, stale>> /\ raced' = {}
  BY DEF StartConverter
<1>2. Ledgers' /\ Sources' /\ Copying'
  BY <1>1, FilesSame DEF Ledger, Ledgers, Copying
<1>3. PICK writes \in BOOLEAN :
        converter' = IF ledger.claims = <<>> THEN converter
                     ELSE [at |-> "claim", rows |-> ledger.claims, next |-> 1, updated |-> 0,
                           writes |-> writes]
  BY DEF StartConverter
<1>4. CASE ledger.claims = <<>>
  <2>1. converter'.at = "idle"
    BY <1>3, <1>4 DEF StartConverter
  <2>2. Converting'
    BY <2>1 DEF Converting
  <2> QED BY <1>2, <2>2 DEF Ledger
<1>5. CASE ledger.claims # <<>>
  <2>1. /\ DOMAIN converter' = {"at", "rows", "next", "updated", "writes"}
        /\ converter'.at = "claim" /\ converter'.rows = ledger.claims /\ converter'.next = 1
    BY <1>3, <1>5
  <2>2. kept' \ raced' = kept
    BY <1>1
  <2> QED BY <1>1, <1>2, <2>1, <2>2 DEF Ledger, Ledgers, Sources, Converting
<1> QED BY <1>4, <1>5

\* The converter has raised a claim for which there is evidence.
LEMMA RaisedConverting ==
  ASSUME Ledger, converter.at # "idle", converter.next \in DOMAIN converter.rows,
         NEW status \in Statuses, Raised(Claim, status),
         UNCHANGED <<ledger, originals, kept, raced, raised>>,
         \/ status = "literature_proved" /\ ByLiterature(Claim)
         \/ status = "li_open" /\ BySpecimen(Claim) /\ Claim.id \in ledger.specimens
  PROVE  Converting'
<1> DEFINE rows == converter.rows
           n    == converter.next
           next == [rows EXCEPT ![n] = [rows[n] EXCEPT !.status = status]]
<1>1. /\ rows \in Seq(Claims) /\ n \in Nat /\ AllSupported(rows, originals, ledger.specimens)
      /\ Keeps(rows, kept \ raced) /\ raised \subseteq ToSet(rows)
      /\ DOMAIN converter = {"at", "rows", "next", "updated", "writes"}
  BY DEF Ledger, Converting
<1>2. /\ converter'.at = "claim" /\ converter'.next = n + 1 /\ converter'.rows = next
      /\ DOMAIN converter' = DOMAIN converter
  BY <1>1 DEF Raised, Claim
<1>3. rows[n] \in Claims /\ rows[n].status \in {"heuristic", "model_consensus"}
  BY <1>1 DEF ByLiterature, BySpecimen, Claim
<1>4. /\ next \in Seq(Claims) /\ DOMAIN next = DOMAIN rows
      /\ \A i \in DOMAIN rows : i # n => next[i] = rows[i]
      /\ next[n] = [rows[n] EXCEPT !.status = status]
  BY <1>1, RaisedRows
<1>5. AllSupported(next, originals, ledger.specimens)
  <2>1. SupportedBy(rows[n], originals, ledger.specimens) /\ originals \in SUBSET Claims
    BY <1>1 DEF AllSupported, Ledger, Ledgers
  <2>2. SupportedBy(next[n], originals, ledger.specimens)
    BY <1>3, <1>4, <2>1, RaisedSupported DEF ByLiterature, BySpecimen, Claim
  <2> QED BY <1>1, <1>4, <2>2 DEF AllSupported
<1>6. Keeps(next, kept \ raced)
  <2>1. \A c \in kept \ raced : c \in Claims
    BY DEF Ledger, Ledgers
  <2> QED BY <1>1, <2>1, RaisedKeeps DEF Keeps
<1>7. raised \subseteq ToSet(next)
  BY <1>1, <1>3, RaisedOnce DEF Ledger, Sources
<1> HIDE DEF next
<1> QED BY <1>1, <1>2, <1>4, <1>5, <1>6, <1>7 DEF Converting

LEMMA PassOverConverting ==
  ASSUME Ledger, converter.at # "idle", PassOver,
         UNCHANGED <<ledger, originals, kept, raced, raised>>
  PROVE  Converting'
<1>1. /\ converter'.at = "claim" /\ converter'.next = converter.next + 1
      /\ converter'.rows = converter.rows /\ DOMAIN converter' = DOMAIN converter
  BY DEF PassOver, Ledger, Converting
<1>2. converter'.next \in Nat
  BY <1>1 DEF Ledger, Converting
<1>3. /\ DOMAIN converter' = {"at", "rows", "next", "updated", "writes"}
      /\ converter'.rows \in Seq(Claims)
      /\ AllSupported(converter'.rows, originals', ledger'.specimens)
      /\ Keeps(converter'.rows, kept' \ raced')
      /\ raised' \subseteq ToSet(converter'.rows)
  BY <1>1 DEF Ledger, Converting
<1> QED BY <1>1, <1>2, <1>3 DEF Converting

LEMMA LookAtLedger == ASSUME Ledger, LookAt PROVE Ledger'
<1>1. /\ converter.at = "claim" /\ converter.next \in DOMAIN converter.rows
      /\ UNCHANGED <<reader, originals, kept, raced, raised, stale>>
  BY DEF LookAt
<1>2. CASE UNCHANGED ledger
  <2>1. Ledgers' /\ Sources' /\ Copying'
    BY <1>1, <1>2, FilesSame DEF Ledger, Ledgers, Copying
  <2>2. \/ ByLiterature(Claim) /\ Raised(Claim, "literature_proved")
        \/ PassOver
        \/ ledger' = [ledger EXCEPT !.specimens = @ \cup {Claim.id}] /\ BySpecimen(Claim)
             /\ converter' = [converter EXCEPT !.at = "compile"]
    BY DEF LookAt
  <2>3. CASE ByLiterature(Claim) /\ Raised(Claim, "literature_proved")
    <3>1. converter.at # "idle" /\ UNCHANGED <<ledger, originals, kept, raced, raised>>
      BY <1>1, <1>2
    <3>2. "literature_proved" \in Statuses
      BY ClaimsAssumption
    <3>3. Converting'
      BY <1>1, <2>3, <3>1, <3>2, RaisedConverting
    <3> QED BY <2>1, <3>3 DEF Ledger
  <2>4. CASE PassOver
    BY <1>1, <1>2, <2>1, <2>4, PassOverConverting DEF Ledger
  <2>5. CASE /\ ledger' = [ledger EXCEPT !.specimens = @ \cup {Claim.id}] /\ BySpecimen(Claim)
             /\ converter' = [converter EXCEPT !.at = "compile"]
    <3>1. Claim.id \in ledger.specimens
      BY <1>2, <2>5 DEF Ledger, Ledgers
    <3>2. /\ converter'.at = "compile" /\ converter'.next = converter.next
          /\ converter'.rows = converter.rows /\ DOMAIN converter' = DOMAIN converter
      BY <1>1, <2>5 DEF Ledger, Converting
    <3> QED BY <1>1, <1>2, <2>1, <2>5, <3>1, <3>2 DEF Ledger, Converting, BySpecimen, Claim
  <2> QED BY <2>2, <2>3, <2>4, <2>5
<1>3. CASE ledger' # ledger
  <2>1. /\ ledger' = [ledger EXCEPT !.specimens = @ \cup {Claim.id}] /\ BySpecimen(Claim)
        /\ converter' = [converter EXCEPT !.at = "compile"]
    BY <1>3 DEF LookAt
  <2>2. /\ ledger'.specimens = ledger.specimens \cup {Claim.id} /\ DOMAIN ledger' = DOMAIN ledger
        /\ UNCHANGED <<ledger.claims, ledger.reviews, ledger.report, ledger.bundle>>
    BY <2>1 DEF Ledger, Ledgers
  <2>3. Ledgers' /\ Copying'
    BY <1>1, <2>2 DEF Ledger, Ledgers, Copying
  <2>4. Sources'
    BY <1>1, <2>2, SupportGrows DEF Ledger, Sources
  <2>5. /\ converter'.at = "compile" /\ converter'.next = converter.next
        /\ converter'.rows = converter.rows /\ DOMAIN converter' = DOMAIN converter
    BY <1>1, <2>1 DEF Ledger, Converting
  <2>6. Converting'
    <3>1. AllSupported(converter.rows, originals, ledger'.specimens)
      BY <1>1, <2>2, SupportGrows DEF Ledger, Converting
    <3>2. Claim' = Claim /\ BySpecimen(Claim)' = BySpecimen(Claim)
      BY <2>5 DEF Claim, BySpecimen
    <3> QED BY <1>1, <2>1, <2>2, <2>5, <3>1, <3>2 DEF Ledger, Converting
  <2> QED BY <2>3, <2>4, <2>6 DEF Ledger
<1> QED BY <1>2, <1>3

LEMMA CompileLedger == ASSUME Ledger, Compile PROVE Ledger'
<1>1. /\ converter.at = "compile"
      /\ UNCHANGED <<ledger, reader, originals, kept, raced, raised, stale>>
      /\ Raised(Claim, "li_open") \/ PassOver
  BY DEF Compile, AfterCompile
<1>2. Ledgers' /\ Sources' /\ Copying'
  BY <1>1, FilesSame DEF Ledger, Ledgers, Copying
<1>3. /\ converter.at # "idle" /\ UNCHANGED <<ledger, originals, kept, raced, raised>>
      /\ converter.next \in DOMAIN converter.rows /\ "li_open" \in Statuses
  BY <1>1, ClaimsAssumption DEF Ledger, Converting
<1>4. BySpecimen(Claim) /\ Claim.id \in ledger.specimens
  BY <1>1 DEF Ledger, Converting
<1>5. CASE Raised(Claim, "li_open")
  <2>1. Converting'
    BY <1>3, <1>4, <1>5, RaisedConverting
  <2> QED BY <1>2, <2>1 DEF Ledger
<1>6. CASE PassOver
  <2>1. Converting'
    BY <1>3, <1>6, PassOverConverting
  <2> QED BY <1>2, <2>1 DEF Ledger
<1> QED BY <1>1, <1>5, <1>6

LEMMA WriteClaimsLedger == ASSUME Ledger, WriteClaims PROVE Ledger'
<1>1. /\ converter.at = "claim" /\ converter' = NoConverter
      /\ UNCHANGED <<reader, originals, raced>>
  BY DEF WriteClaims
<1>2. Converting'
  BY <1>1 DEF Converting, NoConverter
<1>3. CASE ~Writes
  <2>1. UNCHANGED <<ledger, kept, raised, stale>>
    BY <1>3 DEF WriteClaims
  <2> QED BY <1>1, <1>2, <2>1, FilesSame DEF Ledger, Ledgers, Copying
<1>4. CASE Writes
  <2>1. /\ ledger' = [ledger EXCEPT !.claims = converter.rows]
        /\ kept' = kept \ raced
        /\ raised' = raised \cup (ToSet(converter.rows) \ originals)
        /\ stale' = Touched
    BY <1>4 DEF WriteClaims, Rewritten
  <2>2. /\ ledger'.claims = converter.rows /\ DOMAIN ledger' = DOMAIN ledger
        /\ UNCHANGED <<ledger.specimens, ledger.bundle>>
    BY <2>1 DEF Ledger, Ledgers
  <2>3. /\ converter.rows \in Seq(Claims)
        /\ AllSupported(converter.rows, originals, ledger.specimens)
        /\ Keeps(converter.rows, kept \ raced)
        /\ raised \subseteq ToSet(converter.rows)
    BY <1>1 DEF Ledger, Converting
  <2>4. ToSet(converter.rows) \subseteq Claims
    BY <2>3 DEF ToSet
  <2>5. Ledgers'
    BY <1>1, <2>1, <2>2, <2>3, <2>4 DEF Ledger, Ledgers, Touched
  <2>6. \A c \in raised' : c.status \in {"literature_proved", "li_open"}
    <3>1. ASSUME NEW c \in ToSet(converter.rows), c \notin originals
          PROVE  c.status \in {"literature_proved", "li_open"}
      <4>1. SupportedBy(c, originals, ledger.specimens)
        BY <2>3 DEF ToSet, AllSupported
      <4>2. ASSUME NEW o \in originals, SameClaim(o, c), c.status = o.status PROVE FALSE
        <5>1. o \in Claims /\ c \in Claims
          BY <2>4 DEF Ledger, Ledgers
        <5>2. o = c
          BY <4>2, <5>1 DEF SameClaim, Claims
        <5> QED BY <3>1, <5>2
      <4> QED BY <4>1, <4>2 DEF SupportedBy
    <3> QED BY <2>1, <3>1 DEF Ledger, Sources
  <2>7. Sources'
    BY <1>1, <2>1, <2>2, <2>3, <2>6 DEF Sources
  <2>8. Copying'
    BY <1>1, <2>1, <2>2, TouchedStale DEF Ledger, Copying
  <2> QED BY <1>2, <2>5, <2>7, <2>8 DEF Ledger
<1> QED BY <1>3, <1>4

LEMMA KillConverterLedger == ASSUME Ledger, KillConverter PROVE Ledger'
<1>1. converter' = NoConverter /\ UNCHANGED <<reader, originals, raced>>
  BY DEF KillConverter
<1>2. Converting'
  BY <1>1 DEF Converting, NoConverter
<1>3. CASE UNCHANGED <<ledger, kept, raised, stale>>
  BY <1>1, <1>2, <1>3, FilesSame DEF Ledger, Ledgers, Copying
<1>4. CASE /\ ledger' = [ledger EXCEPT !.claims = <<>>]
           /\ kept' = {} /\ raised' = {} /\ stale' = Touched
  <2>1. /\ ledger'.claims = <<>> /\ DOMAIN ledger' = DOMAIN ledger
        /\ UNCHANGED <<ledger.specimens, ledger.bundle>>
    BY <1>4 DEF Ledger, Ledgers
  <2>2. Ledgers'
    BY <1>1, <1>4, <2>1 DEF Ledger, Ledgers, Touched
  <2>3. Sources'
    BY <1>4, <2>1 DEF Sources, AllSupported, Keeps
  <2>4. Copying'
    BY <1>1, <1>4, <2>1, TouchedStale DEF Ledger, Copying
  <2> QED BY <1>2, <2>2, <2>3, <2>4 DEF Ledger
<1> QED BY <1>3, <1>4 DEF KillConverter

LEMMA StartReaderLedger == ASSUME Ledger, StartReader PROVE Ledger'
<1>1. UNCHANGED <<ledger, converter, originals, kept, raced, raised>>
  BY DEF StartReader
<1>2. PICK tool \in {"compare", "export"} : reader' = [at |-> tool, claims |-> ledger.claims]
  BY DEF StartReader
<1>3. stale' = [stale EXCEPT !.reader = FALSE]
  BY DEF StartReader
<1>4. DOMAIN stale' = {"report", "reader"} /\ stale'.report = stale.report
  BY <1>3 DEF Ledger, Ledgers
<1>5. Ledgers' /\ Sources'
  BY <1>1, <1>4, FilesSame
<1>6. Converting'
  BY <1>1 DEF Ledger, Converting, BySpecimen, Claim
<1>7. Copying'
  BY <1>1, <1>2, <1>4 DEF Ledger, Copying
<1> QED BY <1>5, <1>6, <1>7 DEF Ledger

\* A bundle whose report is of its own claims and reviews flags them all.
LEMMA OwnReportFlags ==
  ASSUME NEW bundle, bundle.report = Flags(bundle.claims, bundle.reviews)
  PROVE  Flagged(bundle)
BY DEF Flagged, Flags

LEMMA EndReaderLedger == ASSUME Ledger, EndReader PROVE Ledger'
<1>1. reader' = NoReader /\ UNCHANGED <<converter, originals, kept, raced, raised>>
  BY DEF EndReader
<1>2. reader'.at = "idle"
  BY <1>1 DEF NoReader
<1>3. CASE /\ reader.at = "compare"
           /\ ledger' = [ledger EXCEPT !.report = Flags(reader.claims, ledger.reviews)]
           /\ stale' = [stale EXCEPT !.report = stale.reader]
  <2>1. /\ DOMAIN ledger' = DOMAIN ledger /\ ledger'.report = Flags(reader.claims, ledger.reviews)
        /\ UNCHANGED <<ledger.claims, ledger.reviews, ledger.specimens, ledger.bundle>>
    BY <1>3 DEF Ledger, Ledgers
  <2>2. DOMAIN stale' = DOMAIN stale /\ stale'.report = stale.reader
    BY <1>3 DEF Ledger, Ledgers
  <2>3. Ledgers' /\ Sources'
    BY <1>1, <2>1, <2>2 DEF Ledger, Ledgers, Sources
  <2>4. Converting'
    BY <1>1, <2>1 DEF Ledger, Converting, BySpecimen, Claim
  <2>5. Copying'
    BY <1>2, <1>3, <2>1, <2>2 DEF Ledger, Copying
  <2> QED BY <2>3, <2>4, <2>5 DEF Ledger
<1>4. CASE /\ reader.at = "export"
           /\ ledger' = [ledger EXCEPT !.bundle = [claims |-> reader.claims, reviews |-> ledger.reviews,
                                                 report |-> ledger.report,
                                                 exact |-> ~ stale.report /\ ~ stale.reader]]
           /\ UNCHANGED stale
  <2>1. /\ DOMAIN ledger' = DOMAIN ledger
        /\ ledger'.bundle = [claims |-> reader.claims, reviews |-> ledger.reviews,
                             report |-> ledger.report, exact |-> ~ stale.report /\ ~ stale.reader]
        /\ UNCHANGED <<ledger.claims, ledger.reviews, ledger.specimens, ledger.report>>
    BY <1>4 DEF Ledger, Ledgers
  <2>2. Ledgers' /\ Sources'
    BY <1>1, <1>4, <2>1 DEF Ledger, Ledgers, Sources
  <2>3. Converting'
    BY <1>1, <2>1 DEF Ledger, Converting, BySpecimen, Claim
  <2>4. ledger'.bundle.exact => Flagged(ledger'.bundle)
    <3> DEFINE fresh == ~stale.report /\ ~stale.reader
    <3>1. ledger'.bundle.exact = fresh
      <4>1. ledger'.bundle = [claims |-> reader.claims, reviews |-> ledger.reviews,
                              report |-> ledger.report, exact |-> fresh]
        BY <2>1
      <4> HIDE DEF fresh
      <4> QED BY <4>1
    <3>2. ASSUME fresh PROVE Flagged(ledger'.bundle)
      <4>1. reader.claims = ledger.claims /\ ledger.report = Flags(ledger.claims, ledger.reviews)
        BY <1>4, <3>2 DEF Ledger, Copying
      <4>2. ledger'.bundle.report = Flags(ledger'.bundle.claims, ledger'.bundle.reviews)
        BY <2>1, <4>1
      <4> QED BY <4>2, OwnReportFlags
    <3> HIDE DEF fresh
    <3> QED BY <3>1, <3>2, Zenon
  <2>5. Flagged(ledger.bundle)' = Flagged(ledger'.bundle)
    BY DEF Flagged
  <2>6. Copying'
    BY <1>2, <1>4, <2>1, <2>4 DEF Ledger, Copying, Flagged
  <2> QED BY <2>2, <2>3, <2>6 DEF Ledger
<1> QED BY <1>3, <1>4 DEF EndReader

\* Every claim in the ledger has the status it was given or one there is evidence for;
\* appended and raised claims stay but for the races the code admits; and the audit page
\* flags every review that calls proved what nothing proves (append-claim.py,
\* claim-to-li-specimen.py, compare-claims.py and export-audit-ui.py, run at once).
THEOREM LedgerIsKept == CLSpec => []LedgerKept
<1>1. Ledger /\ [CLNext]_clVars => Ledger'
  <2> SUFFICES ASSUME Ledger, [CLNext]_clVars PROVE Ledger'
    OBVIOUS
  <2>1. CASE UNCHANGED clVars
    BY <2>1 DEF clVars, Ledger, Ledgers, Sources, Converting, Copying, BySpecimen, Claim
  <2> QED BY <2>1, AppendClaimLedger, AppendReviewLedger, BootstrapKeepsLedger,
             StartConverterLedger, LookAtLedger, CompileLedger, WriteClaimsLedger,
             KillConverterLedger, StartReaderLedger, EndReaderLedger DEF CLNext
<1> QED BY <1>1, InitLedger, LedgerImplies, PTL DEF CLSpec

-----------------------------------------------------------------------------
(* The lemma report.                                                       *)

Places == Cardinality(LemmaPlaces)

LEMMA PlacesCounted == Places \in Nat /\ DOMAIN Lemmas = 1 .. Places
<1>1. IsFiniteSet(LemmaPlaces)
  BY EntriesAssumption, FS_Subset DEF LemmaPlaces
<1>2. Places \in Nat
  BY <1>1, FS_CardinalityType DEF Places
<1> QED BY <1>2 DEF Lemmas, Places

\* rows are the rows of the first n lemmas.
Covers(rows, n) ==
  /\ rows = [i \in 1 .. n |-> rows[i]]
  /\ \A i \in 1 .. n : rows[i].id = Lemmas[i].id

Outcome(status, open, g) ==
  /\ status = "proved" => g = 0
  /\ status = "open" => open \in {-1, g}
  /\ status = "build_failed" => g = Fails

Working ==
  /\ DOMAIN worker = {"at", "next", "rows", "builds"}
  /\ worker.next \in 1 .. (Places + 1)
  /\ Covers(worker.rows, worker.next - 1)
  /\ OwnBuild(worker.rows)
  /\ reports.page.run < runs

\* What AutoVC.lean holds from the removal of the goals until they are counted.
Building ==
  /\ worker.at \in {"building", "counting"} => worker.next \in DOMAIN Lemmas
  /\ worker.at = "building" /\ worker.next \notin disturbed => autovc = Absent
  /\ worker.at = "counting" /\ worker.next \notin disturbed =>
       autovc = Absent \/ autovc.open = goals[Current.spec]

Reported ==
  /\ DOMAIN reports = {"json", "page"}
  /\ runs \in Nat /\ reports.json.run \in 0 .. runs /\ reports.page.run \in 0 .. reports.json.run
  /\ reports.page # NoReport => reports.page.run # 0
  /\ reports.page.run = reports.json.run => reports.page = reports.json
  /\ reports.page # NoReport => Covers(reports.page.rows, Places)

Rebuild ==
  /\ worker.at \in {"resting", "row", "building", "counting", "page"}
  /\ worker.at # "resting" => Working
  /\ Building
  /\ Reported
  /\ worker.at = "page" => worker.next = Places + 1 /\ reports.json = Report

LEMMA RebuildImplies == Rebuild => ReportFresh
<1> SUFFICES ASSUME Rebuild PROVE ReportFresh
  OBVIOUS
<1>1. ASSUME reports.page # NoReport PROVE reports.json # NoReport
  BY <1>1 DEF Rebuild, Reported, NoReport
<1>2. ASSUME reports.page # NoReport
      PROVE  [i \in DOMAIN reports.page.rows |-> reports.page.rows[i].id]
               = [i \in DOMAIN Lemmas |-> Lemmas[i].id]
  <2>1. Covers(reports.page.rows, Places)
    BY <1>2 DEF Rebuild, Reported
  <2>2. DOMAIN reports.page.rows = 1 .. Places
    BY <2>1 DEF Covers
  <2> QED BY <2>1, <2>2, PlacesCounted DEF Covers
<1>3. reports.page.run <= reports.json.run
  BY DEF Rebuild, Reported
<1>4. SameReport
  BY <1>1, <1>2, <1>3 DEF SameReport, Rebuild, Reported
<1> QED BY <1>4 DEF ReportFresh, Rebuild, Working

LEMMA AppendedCovers ==
  ASSUME NEW n \in 1 .. Places, NEW rows, Covers(rows, n - 1), NEW row, row.id = Lemmas[n].id
  PROVE  /\ Covers(Append(rows, row), n)
         /\ DOMAIN rows = 1 .. (n - 1) /\ DOMAIN Append(rows, row) = 1 .. n
         /\ \A i \in 1 .. (n - 1) : Append(rows, row)[i] = rows[i]
         /\ Append(rows, row)[n] = row
<1> DEFINE S == {rows[i] : i \in 1 .. (n - 1)} \cup {row}
           more == Append(rows, row)
<1>1. n \in Nat /\ n - 1 \in Nat
  BY PlacesCounted
<1>2. rows = [i \in 1 .. (n - 1) |-> rows[i]]
  BY DEF Covers
<1>3. rows \in [1 .. (n - 1) -> S]
  BY <1>2
<1>4. rows \in Seq(S) /\ Len(rows) = n - 1
  <2> HIDE DEF S
  <2> QED BY <1>1, <1>3
<1>5. /\ more \in Seq(S) /\ Len(more) = n /\ more[n] = row
      /\ \A i \in 1 .. (n - 1) : more[i] = rows[i]
  <2>1. row \in S
    OBVIOUS
  <2> HIDE DEF S
  <2> QED BY <1>1, <1>4, <2>1
<1>6. DOMAIN more = 1 .. n /\ more = [i \in 1 .. n |-> more[i]]
  <2> HIDE DEF S, more
  <2> QED BY <1>1, <1>5
<1>7. ASSUME NEW i \in 1 .. n PROVE more[i].id = Lemmas[i].id
  <2>1. CASE i = n
    BY <1>5, <2>1
  <2>2. CASE i # n
    <3>1. i \in 1 .. (n - 1)
      BY <1>1, <2>2
    <3> QED BY <1>5, <3>1 DEF Covers
  <2> QED BY <2>1, <2>2
<1>8. DOMAIN rows = 1 .. (n - 1)
  BY <1>2
<1> HIDE DEF more
<1>9. Covers(more, n)
  BY <1>6, <1>7 DEF Covers
<1> QED BY <1>5, <1>6, <1>8, <1>9 DEF more

LEMMA InitRebuild == RLInit => Rebuild
<1> SUFFICES ASSUME RLInit PROVE Rebuild
  OBVIOUS
<1>1. /\ worker = Resting /\ runs = 0
      /\ reports = [json |-> NoReport, page |-> NoReport]
  BY DEF RLInit
<1>2. worker.at = "resting"
  BY <1>1 DEF Resting
<1>3. /\ DOMAIN reports = {"json", "page"} /\ reports.json = NoReport /\ reports.page = NoReport
      /\ NoReport.run = 0
  BY <1>1 DEF NoReport
<1>4. Reported
  BY <1>1, <1>3 DEF Reported
<1>5. Building
  BY <1>2 DEF Building
<1> QED BY <1>2, <1>4, <1>5 DEF Rebuild

\* A run that ends, or is killed, leaves the files.
LEMMA RestsRebuild ==
  ASSUME Reported', worker' = Resting PROVE Rebuild'
<1>1. worker'.at = "resting"
  BY DEF Resting
<1> QED BY <1>1 DEF Rebuild, Building

LEMMA StartReportRebuild == ASSUME Rebuild, StartReport PROVE Rebuild'
<1>1. PICK builds \in BOOLEAN :
        worker' = [at |-> "row", next |-> 1, rows |-> <<>>, builds |-> builds]
  BY DEF StartReport
<1>2. runs' = runs + 1 /\ UNCHANGED reports
  BY DEF StartReport
<1>3. Reported'
  BY <1>2 DEF Rebuild, Reported
<1>4. /\ DOMAIN worker' = {"at", "next", "rows", "builds"}
      /\ worker'.at = "row" /\ worker'.next = 1 /\ worker'.rows = <<>>
  BY <1>1
<1>5. Covers(worker'.rows, worker'.next - 1)
  BY <1>4 DEF Covers
<1>6. OwnBuild(worker.rows)'
  BY <1>4 DEF OwnBuild
<1>7. reports'.page.run < runs'
  BY <1>2 DEF Rebuild, Reported
<1>8. worker'.next \in 1 .. (Places + 1)
  BY <1>4, PlacesCounted
<1>9. Working'
  BY <1>4, <1>5, <1>6, <1>7, <1>8 DEF Working, Covers, Lemmas, Places
<1> QED BY <1>3, <1>4, <1>9 DEF Rebuild, Building

\* A row is completed with an outcome that the build of its own specimen had.
LEMMA CompleteRebuild ==
  ASSUME Rebuild, worker.at \in {"row", "building", "counting"}, worker.next \in DOMAIN Lemmas,
         NEW status, NEW open, Complete(status, open),
         UNCHANGED <<goals, disturbed, reports, runs>>,
         worker.next \notin disturbed => Outcome(status, open, goals[Current.spec])
  PROVE  Rebuild'
<1> DEFINE n == worker.next
           row == [id |-> Current.id, catalog |-> Current.catalog, spec |-> Current.spec,
                   status |-> status, open |-> open]
           more == Append(worker.rows, row)
<1>1. /\ DOMAIN worker = {"at", "next", "rows", "builds"}
      /\ Covers(worker.rows, n - 1) /\ OwnBuild(worker.rows) /\ reports.page.run < runs
  BY DEF Rebuild, Working
<1>2. n \in 1 .. Places
  BY PlacesCounted
<1>3. /\ DOMAIN worker' = DOMAIN worker /\ worker'.at = "row" /\ worker'.next = n + 1
      /\ worker'.rows = more
  BY <1>1 DEF Complete
<1>4. /\ row.id = Lemmas[n].id /\ row.spec = Current.spec
      /\ row.status = status /\ row.open = open
  BY DEF Current
<1> HIDE DEF row
<1>5. /\ Covers(more, n) /\ DOMAIN worker.rows = 1 .. (n - 1) /\ DOMAIN more = 1 .. n
      /\ \A i \in 1 .. (n - 1) : more[i] = worker.rows[i]
      /\ more[n] = row
  BY <1>1, <1>2, <1>4, AppendedCovers
<1> HIDE DEF more
<1>6. ASSUME NEW i \in 1 .. n, i \notin disturbed
      PROVE  Outcome(more[i].status, more[i].open, goals[more[i].spec])
  <2>1. CASE i = n
    BY <1>4, <1>5, <1>6, <2>1
  <2>2. CASE i # n
    <3>1. i \in 1 .. (n - 1)
      BY <1>2, <2>2, PlacesCounted
    <3>2. Outcome(worker.rows[i].status, worker.rows[i].open, goals[worker.rows[i].spec])
      BY <1>1, <1>5, <1>6, <3>1 DEF OwnBuild, Outcome
    <3> QED BY <1>5, <3>1, <3>2
  <2> QED BY <2>1, <2>2
<1>7. OwnBuild(worker.rows)'
  BY <1>3, <1>5, <1>6 DEF OwnBuild, Outcome
<1>8. n + 1 \in 1 .. (Places + 1) /\ (n + 1) - 1 = n
  BY <1>2, PlacesCounted
<1>9. Working'
  BY <1>1, <1>3, <1>5, <1>7, <1>8 DEF Working, Covers, Lemmas, Places
<1>10. Reported'
  BY DEF Rebuild, Reported
<1> QED BY <1>3, <1>9, <1>10 DEF Rebuild, Building

LEMMA SkipRowRebuild == ASSUME Rebuild, SkipRow PROVE Rebuild'
<1> DEFINE status == Unbuilt(Current)
<1>1. status \in {"axiomatic", "skipped"}
  BY DEF Unbuilt
<1>2. Outcome(status, Absent, goals[Current.spec])
  BY <1>1 DEF Outcome
<1>3. /\ worker.at = "row" /\ worker.next \in DOMAIN Lemmas /\ Complete(status, Absent)
      /\ UNCHANGED <<goals, disturbed, reports, runs>>
  BY DEF SkipRow
<1> HIDE DEF status
<1> QED BY <1>2, <1>3, CompleteRebuild

\* The tool goes on with the row that it is at.
LEMMA SameRowRebuild ==
  ASSUME Rebuild, worker.at \in {"row", "building"}, NEW at \in {"building", "counting"},
         worker' = [worker EXCEPT !.at = at], UNCHANGED <<goals, disturbed, reports, runs>>
  PROVE  /\ worker'.at = at /\ worker'.next = worker.next /\ Current' = Current
         /\ Working' /\ Reported'
<1>1. /\ DOMAIN worker' = DOMAIN worker /\ worker'.at = at /\ worker'.next = worker.next
      /\ worker'.rows = worker.rows
  BY DEF Rebuild, Working
<1>2. Current' = Current
  BY <1>1 DEF Current, Lemmas
<1>3. Working'
  BY <1>1 DEF Rebuild, Working, OwnBuild, Covers
<1>4. Reported'
  BY DEF Rebuild, Reported
<1> QED BY <1>1, <1>2, <1>3, <1>4

LEMMA UnlinkRebuild == ASSUME Rebuild, Unlink PROVE Rebuild'
<1>1. /\ worker.at = "row" /\ worker.next \in DOMAIN Lemmas /\ autovc' = Absent
      /\ worker' = [worker EXCEPT !.at = "building"]
      /\ UNCHANGED <<goals, disturbed, reports, runs>>
  BY DEF Unlink, Cleared
<1>2. /\ worker'.at = "building" /\ worker'.next = worker.next
      /\ Working' /\ Reported'
  BY <1>1, SameRowRebuild
<1>3. Building'
  BY <1>1, <1>2 DEF Building
<1> QED BY <1>2, <1>3 DEF Rebuild

LEMMA BuildRebuild == ASSUME Rebuild, Build PROVE Rebuild'
<1>1. /\ worker.at = "building" /\ worker.next \in DOMAIN Lemmas
      /\ UNCHANGED <<goals, disturbed, reports, runs>>
  BY DEF Build, Rebuild, Building
<1>2. CASE goals[Current.spec] = Fails
  <2>1. Complete("build_failed", Absent)
    BY <1>2 DEF Build
  <2>2. Outcome("build_failed", Absent, goals[Current.spec])
    BY <1>2 DEF Outcome
  <2> QED BY <1>1, <2>1, <2>2, CompleteRebuild
<1>3. CASE goals[Current.spec] # Fails
  <2>1. worker' = [worker EXCEPT !.at = "counting"]
    BY <1>3 DEF Build
  <2>2. /\ worker'.at = "counting" /\ worker'.next = worker.next /\ Current' = Current
        /\ Working' /\ Reported'
    BY <1>1, <2>1, SameRowRebuild
  <2>3. PICK left \in Left(Current.spec) : autovc' = IF left = Absent THEN autovc ELSE left
    BY DEF Build
  <2>4. left = Absent \/ left.open = goals[Current.spec]
    BY <2>3 DEF Left
  <2>5. worker.next \notin disturbed => autovc = Absent
    BY <1>1 DEF Rebuild, Building
  <2>6. worker.next \notin disturbed => autovc' = Absent \/ autovc'.open = goals[Current.spec]
    BY <2>3, <2>4, <2>5
  <2>7. Building'
    BY <1>1, <2>2, <2>6 DEF Building
  <2> QED BY <2>2, <2>7 DEF Rebuild
<1> QED BY <1>2, <1>3

LEMMA CountRebuild == ASSUME Rebuild, Count PROVE Rebuild'
<1> DEFINE status == StatusOf(OpenGoals)
<1>1. /\ worker.at = "counting" /\ worker.next \in DOMAIN Lemmas /\ Complete(status, OpenGoals)
      /\ UNCHANGED <<goals, disturbed, reports, runs>>
  BY DEF Count, Rebuild, Building
<1>2. ASSUME worker.next \notin disturbed PROVE OpenGoals \in {-1, goals[Current.spec]}
  BY <1>1, <1>2 DEF Rebuild, Building, OpenGoals
<1>3. status \in {"proved", "open"} /\ (status = "proved" => OpenGoals = 0)
  BY DEF StatusOf
<1> HIDE DEF status
<1>4. worker.next \notin disturbed => Outcome(status, OpenGoals, goals[Current.spec])
  BY <1>2, <1>3 DEF Outcome
<1> QED BY <1>1, <1>4, CompleteRebuild

LEMMA WriteJsonRebuild == ASSUME Rebuild, WriteJson PROVE Rebuild'
<1>1. /\ worker.at = "row" /\ worker.next \notin DOMAIN Lemmas
      /\ reports' = [reports EXCEPT !.json = Report]
      /\ worker' = [worker EXCEPT !.at = "page"]
      /\ UNCHANGED <<goals, disturbed, runs>>
  BY DEF WriteJson
<1>2. /\ DOMAIN worker = {"at", "next", "rows", "builds"} /\ DOMAIN reports = {"json", "page"}
      /\ runs \in Nat /\ reports.page.run \in Nat /\ reports.page.run < runs
      /\ worker.next \in 1 .. (Places + 1)
  BY <1>1 DEF Rebuild, Working, Reported
<1>3. worker.next = Places + 1
  BY <1>1, <1>2, PlacesCounted
<1>4. /\ DOMAIN worker' = DOMAIN worker /\ worker'.at = "page" /\ worker'.next = worker.next
      /\ worker'.rows = worker.rows
  BY <1>1, <1>2
<1>5. /\ DOMAIN reports' = DOMAIN reports /\ reports'.json = Report
      /\ reports'.page = reports.page /\ Report.run = runs
  BY <1>1, <1>2 DEF Report
<1>6. Report' = Report
  BY <1>1, <1>4 DEF Report, Mismatch
<1>7. Working'
  BY <1>1, <1>4, <1>5 DEF Rebuild, Working, OwnBuild, Covers
<1>8. /\ reports'.json.run = runs /\ reports'.page.run \in 0 .. runs
      /\ reports'.page.run # reports'.json.run
  BY <1>2, <1>5
<1>9. Reported'
  BY <1>1, <1>2, <1>5, <1>8 DEF Rebuild, Reported, Covers
<1> QED BY <1>3, <1>4, <1>5, <1>6, <1>7, <1>9 DEF Rebuild, Building

LEMMA WritePageRebuild == ASSUME Rebuild, WritePage PROVE Rebuild'
<1>1. /\ worker.at = "page" /\ reports' = [reports EXCEPT !.page = Report]
      /\ worker' = Resting /\ UNCHANGED runs
  BY DEF WritePage
<1>2. /\ DOMAIN reports = {"json", "page"} /\ reports.json = Report
      /\ runs \in Nat /\ reports.page.run \in Nat /\ reports.page.run < runs
      /\ Covers(worker.rows, worker.next - 1) /\ worker.next = Places + 1
  BY <1>1 DEF Rebuild, Working, Reported
<1>3. /\ DOMAIN reports' = DOMAIN reports /\ reports'.json = Report /\ reports'.page = Report
      /\ Report.run = runs /\ Report.rows = worker.rows
  BY <1>1, <1>2 DEF Report
<1>4. runs # 0
  BY <1>2
<1>5. Covers(worker.rows, Places)
  <2>1. worker.next - 1 = Places
    BY <1>2, PlacesCounted
  <2> QED BY <1>2, <2>1
<1>6. Reported'
  <2>1. reports'.json.run \in 0 .. runs' /\ reports'.page.run \in 0 .. reports'.json.run
    BY <1>1, <1>2, <1>3
  <2>2. Covers(reports'.page.rows, Places)
    BY <1>3, <1>5
  <2>3. reports'.page.run # 0 /\ reports'.page = reports'.json
    BY <1>3, <1>4
  <2>4. runs' \in Nat /\ DOMAIN reports' = {"json", "page"}
    BY <1>1, <1>2, <1>3
  <2> QED BY <2>1, <2>2, <2>3, <2>4 DEF Reported, Covers, Places, Lemmas
<1> QED BY <1>1, <1>6, RestsRebuild

LEMMA KillReportRebuild == ASSUME Rebuild, KillReport PROVE Rebuild'
<1>1. worker' = Resting /\ UNCHANGED <<reports, runs>>
  BY DEF KillReport
<1>2. Reported'
  BY <1>1 DEF Rebuild, Reported
<1> QED BY <1>1, <1>2, RestsRebuild

\* What somebody else builds disturbs the entry that is being built.
LEMMA OtherBuildRebuild == ASSUME Rebuild, OtherBuild PROVE Rebuild'
<1>1. /\ UNCHANGED <<goals, worker, reports, runs>>
      /\ disturbed' = IF worker.at \in {"building", "counting"} THEN disturbed \cup {worker.next}
                      ELSE disturbed
  BY DEF OtherBuild
<1>2. Reported'
  BY <1>1 DEF Rebuild, Reported
<1>3. Building'
  BY <1>1 DEF Rebuild, Building
<1>4. disturbed \subseteq disturbed'
  BY <1>1
<1>5. worker.at # "resting" => Working'
  BY <1>1, <1>4 DEF Rebuild, Working, OwnBuild
<1>6. Report' = Report
  BY <1>1 DEF Report, Mismatch
<1> QED BY <1>1, <1>2, <1>3, <1>5, <1>6 DEF Rebuild

LEMMA EditSpecimenRebuild == ASSUME Rebuild, EditSpecimen PROVE Rebuild'
<1>1. worker.at = "resting" /\ UNCHANGED <<worker, reports, runs>>
  BY DEF EditSpecimen
<1>2. Reported'
  BY <1>1 DEF Rebuild, Reported
<1> QED BY <1>1, <1>2 DEF Rebuild, Building

\* A row of the report tells what the build of its own specimen left, unless somebody else
\* built meanwhile, and the page and the JSON of a run agree and have every lemma in its
\* order (rebuild_lemmas.py, killed and run again at any point).
THEOREM ReportIsFresh == RLSpec => []ReportFresh
<1>1. Rebuild /\ [RLNext]_rlVars => Rebuild'
  <2> SUFFICES ASSUME Rebuild, [RLNext]_rlVars PROVE Rebuild'
    OBVIOUS
  <2>1. CASE UNCHANGED rlVars
    BY <2>1 DEF rlVars, Rebuild, Working, Building, Reported, OwnBuild, Current, Report, Mismatch
  <2> QED BY <2>1, StartReportRebuild, SkipRowRebuild, UnlinkRebuild, BuildRebuild, CountRebuild,
             WriteJsonRebuild, WritePageRebuild, KillReportRebuild, OtherBuildRebuild,
             EditSpecimenRebuild DEF RLNext
<1> QED BY <1>1, InitRebuild, RebuildImplies, PTL DEF RLSpec

-----------------------------------------------------------------------------
(***************************************************************************)
(* The properties of the gap pipeline, for all runners, todos, prefixes    *)
(* and interleavings.  None of them is inductive: what holds of the rows   *)
(* in registry.yaml while they are applied has to hold of the rows that an *)
(* ingest keeps in memory before it saves them (Ingested, Saved), and that *)
(* needs the snapshot and the runners' states to be typed (Files).  That a *)
(* backlog written back whole reopens nothing needs that what a snapshot   *)
(* has as completed is done for good and no runner works on it again       *)
(* (Past), so that it is in the backlog what it was when that was read     *)
(* (Held).                                                                 *)
(***************************************************************************)

Marks == [GapRows -> {"absent", "open", "closed"}]
Sets  == [Names -> SUBSET Todos]

(* Todos that are there, in a plan or with a runner, have no more prefixes *)
(* than the files had to begin with.                                       *)
Short(p) == \A r \in Names : \A t \in Todos : p[r][t] # "absent" => t[1] <= Depth

Plans ==
  /\ plan \in [Names -> [Todos -> Status]] /\ copy \in [Names -> [Todos -> Status]]
  /\ Short(plan) /\ Short(copy)
  /\ done \in Sets
  /\ working \in [Names -> Todos \cup {NoTodo}]
  /\ \A r \in Names : working[r][1] <= Depth
  /\ \A r \in Names : r \in shared => copy[r] = plan[r]

Snapshots ==
  /\ snapper \in [n : Nat, plans : Sets, states : Sets]
  /\ snap \in [pending : Sets, completed : Sets]

Past ==
  \A r \in Names :
    /\ working[r] # NoTodo => working[r] \notin done[r]
    /\ snapper.states[r] \subseteq done[r] /\ snap.completed[r] \subseteq done[r]
    /\ seen[r] \subseteq done[r]

Files ==
  /\ registry \in Marks /\ mem \in Marks /\ queue \subseteq GapRows /\ seen \in Sets
  /\ stage \in {"idle", "ingested", "saved", "failed", "applying"}
  /\ cleaned \in BOOLEAN /\ torn \in {"none", "registry", "backlog"}

(* One open row at most for a runner's todo, and none that is completed.   *)
Unique(reg) ==
  \A g, h \in OpenDebts(reg) : g.runner = h.runner /\ g.raw[2] = h.raw[2] => g = h
Settled(reg) ==
  \A g \in OpenDebts(reg) : \A t \in seen[g.runner] :
    t[2] = g.raw[2] => t[1] \notin {0, g.raw[1]}

Ingested ==
  stage = "ingested" =>
    /\ Unique(mem) /\ Settled(mem)
    /\ \A g \in GapRows : registry[g] = "closed" => mem[g] = "closed"
Saved ==
  /\ cleaned => Unique(registry)
  /\ stage = "idle" => seen = NotSeen
  /\ stage \in {"saved", "failed", "applying"} => Settled(registry)
Applied ==
  /\ stage = "applying" => queue \subseteq OpenRows(registry)
  /\ held # {} => stage = "applying"

Backlog == [runner : Names, text : [Todos -> Status]]
Unspoiled(h) ==
  /\ \A t \in Todos : h.text[t] # "absent" => t[1] <= Depth
  /\ \A t \in seen[h.runner] :
       t[2] \notin Extra /\ h.text[t] = "pending" => copy[h.runner][t] = "pending"
Held == held \subseteq Backlog /\ \A h \in held : Unspoiled(h)

Inv == Plans /\ Snapshots /\ Past /\ Files /\ Ingested /\ Saved /\ Applied /\ Held

-----------------------------------------------------------------------------
(* Todos and rows. *)

LEMMA RowFields ==
  ASSUME NEW g \in GapRows
  PROVE  /\ g.runner \in Names
         /\ g.kind = "plan_debt" => g.raw \in Raw
         /\ g.kind = "competitor_feature" => g.raw \in {0} \X Extra
         /\ g.kind \in {"plan_debt", "competitor_feature"}
  BY RunnersAssumption DEF GapRows

\* The id of a row without its prefixes is a todo, and a short one.
LEMMA RowTodo ==
  ASSUME NEW g \in GapRows
  PROVE  Normalized(g.raw) \in Todos /\ Normalized(g.raw)[1] <= Depth
<1>1. 0 \in 0 .. Depth + 1 /\ 0 <= Depth
  BY DepthAssumption
<1>2. CASE g.kind = "plan_debt"
  <2>1. g.raw[2] \in Ids
    BY <1>2, RowFields DEF Raw
  <2> QED BY <1>1, <2>1 DEF Normalized, Todos
<1>3. CASE g.kind = "competitor_feature"
  <2>1. g.raw[2] \in Extra
    BY <1>3, RowFields
  <2> QED BY <1>1, <2>1 DEF Normalized, Todos
<1> QED BY <1>2, <1>3, RowFields

LEMMA RawTodo ==
  ASSUME NEW t \in Raw PROVE t \in Todos /\ t[1] <= Depth
<1>1. t \in (0 .. Depth) \X Ids
  BY DEF Raw
<1>2. t[1] \in 0 .. Depth /\ t[2] \in Ids /\ t = <<t[1], t[2]>>
  BY <1>1
<1>3. t[1] \in 0 .. Depth + 1
  BY <1>2, DepthAssumption
<1> QED BY <1>2, <1>3, DepthAssumption DEF Todos

LEMMA WrittenPlans ==
  ASSUME Plans, NEW p \in [Names -> [Todos -> Status]], Short(p), Written(p)
  PROVE  /\ copy' \in [Names -> [Todos -> Status]] /\ Short(copy')
         /\ \A r \in Names : r \in shared => copy'[r] = p[r]
  BY DEF Plans, Written, Short

(* Setting a short todo of one plan. *)
LEMMA SetTodo ==
  ASSUME NEW p \in [Names -> [Todos -> Status]], Short(p), NEW r \in Names,
         NEW t \in Todos, t[1] <= Depth, NEW s \in Status
  PROVE  /\ [p EXCEPT ![r][t] = s] \in [Names -> [Todos -> Status]]
         /\ Short([p EXCEPT ![r][t] = s])
  BY DEF Short

-----------------------------------------------------------------------------
(* What a step leaves alone. *)

LEMMA PipelineAlone ==
  ASSUME Inv, UNCHANGED pipeline
  PROVE  Files' /\ Ingested' /\ Saved' /\ Applied' /\ seen' = seen /\ held' = held
<1>1. /\ registry' = registry /\ stage' = stage /\ mem' = mem /\ queue' = queue
      /\ held' = held /\ seen' = seen /\ cleaned' = cleaned /\ torn' = torn
  BY DEF pipeline
<1> QED BY <1>1 DEF Inv, Files, Ingested, Saved, Applied, Unique, Settled, OpenDebts, OpenRows

LEMMA RunnersAlone ==
  ASSUME Inv, UNCHANGED runners PROVE Plans'
<1>1. /\ shared' = shared /\ plan' = plan /\ copy' = copy /\ done' = done
      /\ working' = working
  BY DEF runners
<1> QED BY <1>1 DEF Inv, Plans, Short

LEMMA SnapshotAlone ==
  ASSUME Inv, UNCHANGED snapshot PROVE Snapshots'
  BY DEF Inv, snapshot, Snapshots

\* The pipeline does not touch what the runners know, nor do they and the snapshot
\* anything of its own: the past grows with done, and a backlog that was read still
\* fits if the copies were not changed where a snapshot had a todo as completed.
LEMMA PastAlone ==
  ASSUME Inv, UNCHANGED <<done, working>>, UNCHANGED snapshot,
         seen' = seen \/ seen' = NotSeen \/ seen' = snap.completed
  PROVE  Past'
<1>1. snapper' = snapper /\ snap' = snap /\ done' = done /\ working' = working
  BY DEF snapshot
<1>2. \A r \in Names : seen'[r] \subseteq done[r]
  BY DEF Inv, Past, NotSeen
<1> QED BY <1>1, <1>2 DEF Inv, Past

LEMMA HeldAlone ==
  ASSUME Inv, seen' = seen, held' = held,
         \A r \in Names : \A t \in seen[r] : copy[r][t] = "pending" => copy'[r][t] = "pending"
  PROVE  Held'
<1> SUFFICES ASSUME NEW h \in held PROVE Unspoiled(h)'
  BY DEF Inv, Held
<1>1. h.runner \in Names /\ Unspoiled(h)
  BY DEF Inv, Held, Backlog
<1>2. \A t \in Todos : h.text[t] # "absent" => t[1] <= Depth
  BY <1>1 DEF Unspoiled
<1>3. ASSUME NEW t \in seen[h.runner], t[2] \notin Extra, h.text[t] = "pending"
      PROVE  copy'[h.runner][t] = "pending"
  <2>1. copy[h.runner][t] = "pending"
    BY <1>1, <1>3 DEF Unspoiled
  <2> QED BY <1>1, <2>1
<1> QED BY <1>2, <1>3 DEF Unspoiled

\* What a step of a runner, of a research loop or of the snapshot has to show.
LEMMA RunnersStep ==
  ASSUME Inv, UNCHANGED pipeline, Plans', Snapshots', Past',
         \A r \in Names : \A t \in seen[r] : copy[r][t] = "pending" => copy'[r][t] = "pending"
  PROVE  Inv'
<1>1. Files' /\ Ingested' /\ Saved' /\ Applied' /\ seen' = seen /\ held' = held
  BY PipelineAlone
<1>2. Held'
  BY <1>1, HeldAlone
<1> QED BY <1>1, <1>2 DEF Inv

\* A plan of a runner that is written keeps the pending todos that are done elsewhere.
LEMMA WrittenKeeps ==
  ASSUME Inv, NEW p, Written(p),
         \A r \in Names : \A t \in seen[r] : plan[r][t] = "pending" => p[r][t] = "pending"
  PROVE  \A r \in Names : \A t \in seen[r] : copy[r][t] = "pending" => copy'[r][t] = "pending"
<1> SUFFICES ASSUME NEW r \in Names, NEW t \in seen[r], copy[r][t] = "pending"
             PROVE  copy'[r][t] = "pending"
  OBVIOUS
<1>1. copy'[r] = IF r \in shared THEN p[r] ELSE copy[r]
  BY DEF Written
<1>2. CASE r \in shared
  <2>1. plan[r][t] = "pending"
    BY <1>2 DEF Inv, Plans
  <2> QED BY <1>1, <1>2, <2>1
<1> QED BY <1>1, <1>2

\* The todo a runner works on is none that a snapshot had as completed.
LEMMA WorkingUnseen ==
  ASSUME Inv, NEW r \in Names, working[r] # NoTodo, NEW q \in Names, NEW t \in seen[q],
         plan[q][t] = "pending"
  PROVE  [plan EXCEPT ![r][working[r]] = "completed"][q][t] = "pending"
<1>1. plan \in [Names -> [Todos -> Status]] /\ t \in Todos
  BY DEF Inv, Plans, Files, Sets
<1>2. q = r => t # working[r]
  BY DEF Inv, Past
<1> QED BY <1>1, <1>2

-----------------------------------------------------------------------------
LEMMA InitInv == GSInit => Inv
<1> SUFFICES ASSUME GSInit PROVE Inv
  OBVIOUS
<1>1. Plans
  <2>1. PICK n \in 0..Depth :
          plan = [r \in Names |-> [t \in Todos |-> IF t \in (0..n) \X Ids THEN "pending" ELSE "absent"]]
    BY DEF GSInit
  <2>2. plan \in [Names -> [Todos -> Status]] /\ Short(plan)
    <3>1. \A t : t \in (0..n) \X Ids => t[1] <= Depth
      BY <2>1, DepthAssumption
    <3> QED BY <2>1, <3>1 DEF Short, Status
  <2>3. NoTodo[1] <= Depth
    BY DepthAssumption DEF NoTodo
  <2> QED BY <2>2, <2>3 DEF GSInit, Plans, Sets
<1>2. Snapshots
  BY DEF GSInit, Snapshots, NoReads, Sets
<1>3. Files
  BY DEF GSInit, Files, Marks, Sets, NoRows, NotSeen
<1>4. Ingested /\ Saved /\ Applied /\ Held
  BY DEF GSInit, Ingested, Saved, Applied, Held
<1>5. Past
  BY DEF GSInit, Past, NoReads, NotSeen
<1> QED BY <1>1, <1>2, <1>3, <1>4, <1>5 DEF Inv

-----------------------------------------------------------------------------
(* The runners' steps. *)

LEMMA PickInv == ASSUME Inv, NEW r \in Names, Pick(r) PROVE Inv'
<1>1. PICK t \in Todos \ done[r] : plan[r][t] = "pending" /\ working' = [working EXCEPT ![r] = t]
  BY DEF Pick
<1>2. plan' = plan /\ copy' = copy /\ done' = done /\ shared' = shared /\ UNCHANGED snapshot
      /\ UNCHANGED pipeline
  BY DEF Pick
<1>3. Plans'
  <2>1. t[1] <= Depth
    BY <1>1 DEF Inv, Plans, Short
  <2> QED BY <1>1, <1>2, <2>1 DEF Inv, Plans, Short
<1>4. Past'
  BY <1>1, <1>2 DEF Inv, Plans, Past, snapshot, pipeline
<1> QED BY <1>2, <1>3, <1>4, SnapshotAlone, RunnersStep

\* The runner's todo is a todo of the plan and a short one.
LEMMA WorkingTodo ==
  ASSUME Inv, NEW r \in Names, working[r] # NoTodo
  PROVE  working[r] \in Todos /\ working[r][1] <= Depth
  BY DEF Inv, Plans

LEMMA AgentMarksInv == ASSUME Inv, NEW r \in Names, AgentMarks(r) PROVE Inv'
<1>1. /\ working[r] # NoTodo /\ plan' = [plan EXCEPT ![r][working[r]] = "completed"]
      /\ Written(plan') /\ UNCHANGED <<shared, done, working>> /\ UNCHANGED snapshot
      /\ UNCHANGED pipeline
  BY DEF AgentMarks
<1>2. working[r] \in Todos /\ working[r][1] <= Depth
  BY <1>1, WorkingTodo
<1>3. plan' \in [Names -> [Todos -> Status]] /\ Short(plan')
  <2>1. "completed" \in Status /\ plan \in [Names -> [Todos -> Status]] /\ Short(plan)
    BY DEF Inv, Plans, Status
  <2> QED BY <1>1, <1>2, <2>1, SetTodo
<1>4. /\ copy' \in [Names -> [Todos -> Status]] /\ Short(copy')
      /\ \A q \in Names : q \in shared => copy'[q] = plan'[q]
  BY <1>1, <1>3, WrittenPlans DEF Inv
<1>5. Plans'
  BY <1>1, <1>3, <1>4 DEF Inv, Plans
<1>6. Past'
  BY <1>1, PastAlone DEF pipeline
<1>7. \A q \in Names : \A t \in seen[q] : copy[q][t] = "pending" => copy'[q][t] = "pending"
  <2>1. \A q \in Names : \A t \in seen[q] : plan[q][t] = "pending" => plan'[q][t] = "pending"
    BY <1>1, WorkingUnseen
  <2> QED BY <1>1, <2>1, WrittenKeeps
<1> QED BY <1>1, <1>5, <1>6, <1>7, SnapshotAlone, RunnersStep

LEMMA GivesUpInv == ASSUME Inv, NEW r \in Names, GivesUp(r) PROVE Inv'
<1>1. /\ working' = [working EXCEPT ![r] = NoTodo] /\ UNCHANGED <<shared, plan, copy, done>>
      /\ UNCHANGED snapshot /\ UNCHANGED pipeline
  BY DEF GivesUp
<1>2. Plans'
  <2>1. NoTodo[1] <= Depth
    BY DepthAssumption DEF NoTodo
  <2> QED BY <1>1, <2>1 DEF Inv, Plans, Short
<1>3. Past'
  BY <1>1 DEF Inv, Plans, Past, snapshot, pipeline
<1> QED BY <1>1, <1>2, <1>3, SnapshotAlone, RunnersStep

LEMMA CompletesInv == ASSUME Inv, NEW r \in Names, Completes(r) PROVE Inv'
<1>1. /\ working[r] # NoTodo /\ done' = [done EXCEPT ![r] = @ \cup {working[r]}]
      /\ working' = [working EXCEPT ![r] = NoTodo] /\ Written(plan') /\ shared' = shared
      /\ UNCHANGED snapshot /\ UNCHANGED pipeline
  BY DEF Completes
<1>2. plan' = plan \/ plan' = [plan EXCEPT ![r][working[r]] = "completed"]
  BY DEF Completes
<1>3. working[r] \in Todos /\ working[r][1] <= Depth
  BY <1>1, WorkingTodo
<1>4. plan' \in [Names -> [Todos -> Status]] /\ Short(plan')
  <2>1. plan \in [Names -> [Todos -> Status]] /\ Short(plan) /\ "completed" \in Status
    BY DEF Inv, Plans, Status
  <2>2. CASE plan' = plan
    BY <2>1, <2>2
  <2>3. CASE plan' = [plan EXCEPT ![r][working[r]] = "completed"]
    BY <1>3, <2>1, <2>3, SetTodo
  <2> QED BY <1>2, <2>2, <2>3
<1>5. /\ copy' \in [Names -> [Todos -> Status]] /\ Short(copy')
      /\ \A q \in Names : q \in shared => copy'[q] = plan'[q]
  BY <1>1, <1>4, WrittenPlans DEF Inv
<1>6. done' \in Sets
  BY <1>1, <1>3 DEF Inv, Plans, Sets
<1>7. working' \in [Names -> Todos \cup {NoTodo}] /\ \A q \in Names : working'[q][1] <= Depth
  <2>1. NoTodo[1] <= Depth
    BY DepthAssumption DEF NoTodo
  <2> QED BY <1>1, <2>1 DEF Inv, Plans
<1>8. Plans'
  BY <1>1, <1>4, <1>5, <1>6, <1>7 DEF Inv, Plans
<1>9. Past'
  <2>1. \A q \in Names : done[q] \subseteq done'[q]
    BY <1>1 DEF Inv, Plans, Sets
  <2>2. ASSUME NEW q \in Names, working'[q] # NoTodo PROVE working'[q] \notin done'[q]
    <3>1. q # r /\ working'[q] = working[q] /\ done'[q] = done[q]
      BY <1>1, <2>2 DEF Inv, Plans, Sets
    <3> QED BY <2>2, <3>1 DEF Inv, Past
  <2>3. snapper' = snapper /\ snap' = snap /\ seen' = seen
    BY <1>1 DEF snapshot, pipeline
  <2>4. ASSUME NEW q \in Names
        PROVE  /\ snapper.states[q] \subseteq done'[q] /\ snap.completed[q] \subseteq done'[q]
               /\ seen[q] \subseteq done'[q]
    BY <2>1 DEF Inv, Past
  <2> QED BY <2>2, <2>3, <2>4 DEF Past
<1>10. \A q \in Names : \A t \in seen[q] : copy[q][t] = "pending" => copy'[q][t] = "pending"
  <2>1. CASE plan' = plan
    BY <1>1, <2>1, WrittenKeeps
  <2>2. CASE plan' = [plan EXCEPT ![r][working[r]] = "completed"]
    <3>1. \A q \in Names : \A t \in seen[q] : plan[q][t] = "pending" => plan'[q][t] = "pending"
      BY <1>1, <2>2, WorkingUnseen
    <3> QED BY <1>1, <3>1, WrittenKeeps
  <2> QED BY <1>2, <2>1, <2>2
<1> QED BY <1>1, <1>8, <1>9, <1>10, SnapshotAlone, RunnersStep

LEMMA HandOverInv ==
  ASSUME Inv, NEW r \in Names, NEW t \in Todos, HandOver(r, t) PROVE Inv'
<1>1. /\ t[1] = 0 /\ plan' = [plan EXCEPT ![r][t] = "pending"] /\ Written(plan')
      /\ UNCHANGED <<shared, done, working>> /\ UNCHANGED snapshot /\ UNCHANGED pipeline
  BY DEF HandOver
<1>2. plan' \in [Names -> [Todos -> Status]] /\ Short(plan')
  <2>1. t[1] <= Depth /\ "pending" \in Status
    BY <1>1, DepthAssumption DEF Status
  <2> QED BY <1>1, <2>1, SetTodo DEF Inv, Plans
<1>3. /\ copy' \in [Names -> [Todos -> Status]] /\ Short(copy')
      /\ \A q \in Names : q \in shared => copy'[q] = plan'[q]
  BY <1>1, <1>2, WrittenPlans DEF Inv
<1>4. Plans'
  BY <1>1, <1>2, <1>3 DEF Inv, Plans
<1>5. Past'
  BY <1>1, PastAlone DEF pipeline
<1>6. \A q \in Names : \A u \in seen[q] : copy[q][u] = "pending" => copy'[q][u] = "pending"
  <2>1. \A q \in Names : \A u \in seen[q] : plan[q][u] = "pending" => plan'[q][u] = "pending"
    BY <1>1 DEF Inv, Plans, Files, Sets
  <2> QED BY <1>1, <2>1, WrittenKeeps
<1> QED BY <1>1, <1>4, <1>5, <1>6, SnapshotAlone, RunnersStep

-----------------------------------------------------------------------------
(* The snapshot's steps. *)

LEMMA ReadPlanInv == ASSUME Inv, NEW r \in Names, ReadPlan(r) PROVE Inv'
<1>1. UNCHANGED pipeline /\ UNCHANGED runners /\ snap' = snap /\ snapper'.states = snapper.states
  BY DEF ReadPlan
<1>2. Snapshots'
  <2>1. PendingIn(r) \in SUBSET Todos
    BY DEF PendingIn
  <2> QED BY <2>1 DEF ReadPlan, Inv, Snapshots, Sets
<1>3. Past'
  BY <1>1 DEF Inv, Past, runners, pipeline
<1>4. copy' = copy
  BY <1>1 DEF runners
<1> QED BY <1>1, <1>2, <1>3, <1>4, RunnersAlone, RunnersStep

LEMMA ReadStateInv == ASSUME Inv, NEW r \in Names, ReadState(r) PROVE Inv'
<1> DEFINE read == [n |-> snapper.n + 1, plans |-> snapper.plans,
                    states |-> [snapper.states EXCEPT ![r] = done[r]]]
<1>1. UNCHANGED pipeline /\ UNCHANGED runners
  BY DEF ReadState
<1>2. read \in [n : Nat, plans : Sets, states : Sets]
  <2>1. done[r] \in SUBSET Todos
    BY DEF Inv, Plans, Sets
  <2> QED BY <2>1 DEF Inv, Snapshots, Sets
<1>3. NoReads \in [n : Nat, plans : Sets, states : Sets]
  BY DEF NoReads, Sets
<1>4. \/ snap' = [pending |-> read.plans, completed |-> read.states] /\ snapper' = NoReads
      \/ snapper' = read /\ snap' = snap
  BY DEF ReadState
<1>5. \A q \in Names : read.states[q] \subseteq done[q] /\ NoReads.states[q] \subseteq done[q]
  BY DEF Inv, Past, Snapshots, Sets, NoReads
<1> HIDE DEF read
<1>6. Snapshots'
  BY <1>2, <1>3, <1>4 DEF Inv, Snapshots
<1>7. Past'
  <2>1. done' = done /\ working' = working /\ seen' = seen
    BY <1>1 DEF runners, pipeline
  <2>2. \A q \in Names : snapper'.states[q] \subseteq done[q] /\ snap'.completed[q] \subseteq done[q]
    BY <1>4, <1>5 DEF Inv, Past
  <2> QED BY <2>1, <2>2 DEF Inv, Past
<1>8. copy' = copy
  BY <1>1 DEF runners
<1> QED BY <1>1, <1>6, <1>7, <1>8, RunnersAlone, RunnersStep

-----------------------------------------------------------------------------
(* swarm-gap-ingest. *)

\* What the three steps of an ingest make of a registry.
LEMMA PlanPendingMarks ==
  ASSUME NEW reg \in Marks, NEW s
  PROVE  /\ PlanPending(reg, s) \in Marks
         /\ \A g \in GapRows : reg[g] = "closed" => PlanPending(reg, s)[g] = "closed"
  BY DEF Marks, PlanPending

LEMMA ReconcileMarks ==
  ASSUME NEW reg \in Marks, NEW s
  PROVE  /\ Reconcile(reg, s) \in Marks
         /\ \A g \in GapRows : reg[g] = "closed" => Reconcile(reg, s)[g] = "closed"
         /\ \A g \in OpenDebts(Reconcile(reg, s)) : ~ CompletedIn(g, s)
  BY DEF Marks, Reconcile, OpenDebts

LEMMA CompetitorMarks ==
  ASSUME NEW reg \in Marks, NEW listed \in SUBSET {g \in GapRows : g.kind = "competitor_feature"}
  PROVE  /\ CompetitorRows(reg, listed) \in Marks
         /\ \A g \in GapRows : reg[g] = "closed" => CompetitorRows(reg, listed)[g] = "closed"
         /\ OpenDebts(CompetitorRows(reg, listed)) = OpenDebts(reg)
<1>1. CompetitorRows(reg, listed) \in Marks
      /\ \A g \in GapRows : reg[g] = "closed" => CompetitorRows(reg, listed)[g] = "closed"
  BY DEF Marks, CompetitorRows
<1>2. ASSUME NEW g \in GapRows, g.kind = "plan_debt"
      PROVE  CompetitorRows(reg, listed)[g] = reg[g]
  BY <1>2 DEF CompetitorRows
<1> QED BY <1>1, <1>2 DEF OpenDebts

LEMMA DedupeMarks ==
  ASSUME NEW reg \in Marks, NEW deduped \in Dedupes(reg)
  PROVE  /\ deduped \in Marks /\ OpenDebts(deduped) \subseteq OpenDebts(reg)
         /\ \A g \in GapRows : reg[g] = "closed" => deduped[g] = "closed"
         /\ Unique(deduped)
<1>1. PICK fits \in SUBSET OpenDebts(reg) :
        /\ \A g, h \in fits : Key(g) = Key(h) => g = h
        /\ deduped = [g \in GapRows |-> IF g \in OpenDebts(reg) \ fits THEN "closed" ELSE reg[g]]
  BY DEF Dedupes
<1>2. /\ deduped \in Marks
      /\ \A g \in GapRows : reg[g] = "closed" => deduped[g] = "closed"
  BY <1>1 DEF Marks
<1>3. OpenDebts(deduped) \subseteq fits
  <2> SUFFICES ASSUME NEW g \in OpenDebts(deduped) PROVE g \in fits
    OBVIOUS
  <2>1. g \in GapRows /\ deduped[g] = "open" /\ g.kind = "plan_debt"
    BY DEF OpenDebts
  <2>2. g \notin OpenDebts(reg) \ fits /\ reg[g] = "open"
    BY <1>1, <2>1
  <2> QED BY <2>1, <2>2 DEF OpenDebts
<1>4. Unique(deduped)
  <2> SUFFICES ASSUME NEW g \in OpenDebts(deduped), NEW h \in OpenDebts(deduped),
                      g.runner = h.runner, g.raw[2] = h.raw[2]
               PROVE  g = h
    BY DEF Unique
  <2>1. Key(g) = Key(h)
    BY DEF Key, Normalized
  <2> QED BY <1>1, <1>3, <2>1
<1> QED BY <1>1, <1>2, <1>3, <1>4

\* A row that the completed ids of s do not close stands for no todo in them.
LEMMA NotCompleted ==
  ASSUME NEW g \in GapRows, g.kind = "plan_debt", NEW s, s.completed \in Sets, ~ CompletedIn(g, s),
         NEW t \in s.completed[g.runner], t[2] = g.raw[2]
  PROVE  t[1] \notin {0, g.raw[1]}
<1>1. t \in Todos /\ t = <<t[1], t[2]>>
  BY RowFields DEF Sets, Todos
<1>2. g.raw = <<g.raw[1], g.raw[2]>>
  BY RowFields DEF Raw
<1>3. t # g.raw /\ t # <<0, g.raw[2]>>
  BY DEF CompletedIn, Normalized
<1> QED BY <1>1, <1>2, <1>3

LEMMA IngestInv == ASSUME Inv, Ingest PROVE Inv'
<1> DEFINE pending == PlanPending(registry, snap)
           reconciled == Reconcile(pending, snap)
<1>1. PICK listed \in SUBSET {g \in GapRows : g.kind = "competitor_feature"},
           deduped \in Dedupes(reconciled) : mem' = CompetitorRows(deduped, listed)
  BY DEF Ingest
<1>2. /\ stage = "idle" /\ seen' = snap.completed /\ stage' = "ingested" /\ registry' = registry
      /\ queue' = queue /\ held' = held /\ cleaned' = cleaned /\ torn' = torn
      /\ UNCHANGED runners /\ UNCHANGED snapshot
  BY DEF Ingest
<1>3. pending \in Marks /\ \A g \in GapRows : registry[g] = "closed" => pending[g] = "closed"
  BY PlanPendingMarks DEF Inv, Files
<1> HIDE DEF pending
<1>4. /\ reconciled \in Marks
      /\ \A g \in GapRows : registry[g] = "closed" => reconciled[g] = "closed"
      /\ \A g \in OpenDebts(reconciled) : ~ CompletedIn(g, snap)
  BY <1>3, ReconcileMarks
<1> HIDE DEF reconciled
<1>5. /\ deduped \in Marks /\ Unique(deduped)
      /\ \A g \in GapRows : registry[g] = "closed" => deduped[g] = "closed"
      /\ \A g \in OpenDebts(deduped) : ~ CompletedIn(g, snap)
  BY <1>4, DedupeMarks
<1>6. /\ mem' \in Marks /\ OpenDebts(mem') = OpenDebts(deduped)
      /\ \A g \in GapRows : registry[g] = "closed" => mem'[g] = "closed"
  BY <1>1, <1>5, CompetitorMarks
<1>7. snap.completed \in Sets
  BY DEF Inv, Snapshots
<1>8. Files'
  BY <1>2, <1>6, <1>7 DEF Inv, Files
<1>9. Ingested'
  <2>1. Unique(mem)'
    BY <1>5, <1>6 DEF Unique, OpenDebts
  <2>2. Settled(mem)'
    <3> SUFFICES ASSUME NEW g \in OpenDebts(mem'), NEW t \in snap.completed[g.runner],
                        t[2] = g.raw[2]
                 PROVE  t[1] \notin {0, g.raw[1]}
      BY <1>2 DEF Settled, OpenDebts
    <3>1. g \in GapRows /\ g.kind = "plan_debt" /\ ~ CompletedIn(g, snap)
      BY <1>5, <1>6 DEF OpenDebts
    <3> QED BY <1>7, <3>1, NotCompleted
  <2> QED BY <1>2, <1>6, <2>1, <2>2 DEF Ingested
<1>10. Saved' /\ Applied' /\ Held'
  BY <1>2 DEF Inv, Saved, Applied, Held, Unique, OpenDebts
<1>11. Past'
  BY <1>2, PastAlone DEF runners
<1> QED BY <1>2, <1>8, <1>9, <1>10, <1>11, RunnersAlone, SnapshotAlone DEF Inv

LEMMA IngestFailsInv == ASSUME Inv, IngestFails PROVE Inv'
<1>1. /\ stage = "idle" /\ stage' = "failed" /\ registry' = registry /\ mem' = mem
      /\ queue' = queue /\ held' = held /\ seen' = seen /\ cleaned' = cleaned /\ torn' = torn
      /\ UNCHANGED runners /\ UNCHANGED snapshot
  BY DEF IngestFails
<1>2. Files' /\ Ingested' /\ Applied' /\ Held'
  BY <1>1 DEF Inv, Files, Ingested, Applied, Held
<1>3. Saved'
  <2>1. Settled(registry)
    BY <1>1, RowFields DEF Inv, Saved, NotSeen, Settled, OpenDebts
  <2> QED BY <1>1, <2>1 DEF Inv, Saved, Unique, Settled, OpenDebts
<1>4. Past'
  BY <1>1, PastAlone DEF runners
<1> QED BY <1>1, <1>2, <1>3, <1>4, RunnersAlone, SnapshotAlone DEF Inv

LEMMA SaveRegistryInv == ASSUME Inv, SaveRegistry PROVE Inv'
<1>1. /\ stage = "ingested" /\ registry' = mem /\ mem' = NoRows /\ stage' = "saved"
      /\ queue' = queue /\ held' = held /\ seen' = seen /\ cleaned' = TRUE /\ torn' = torn
      /\ UNCHANGED runners /\ UNCHANGED snapshot
  BY DEF SaveRegistry
<1>2. Files'
  BY <1>1 DEF Inv, Files, NoRows, Marks
<1>3. Saved'
  BY <1>1 DEF Inv, Ingested, Saved, Unique, Settled, OpenDebts
<1>4. Ingested' /\ Applied' /\ Held'
  BY <1>1 DEF Inv, Ingested, Applied, Held
<1>5. Past'
  BY <1>1, PastAlone DEF runners
<1> QED BY <1>1, <1>2, <1>3, <1>4, <1>5, RunnersAlone, SnapshotAlone DEF Inv

\* What a cut-off write leaves of rows that are unique and settled is so, too.
LEMMA TearRegistryInv == ASSUME Inv, TearRegistry PROVE Inv'
<1>1. /\ stage = "ingested" /\ mem' = NoRows /\ torn' = "registry" /\ cleaned' = TRUE
      /\ queue' = queue /\ held' = held /\ UNCHANGED runners /\ UNCHANGED snapshot
  BY DEF TearRegistry
<1>2. PICK left \in SUBSET {g \in GapRows : mem[g] # "absent"} :
        registry' = [g \in GapRows |-> IF g \in left THEN mem[g] ELSE "absent"]
  BY DEF TearRegistry
<1>3. \/ stage' = "failed" /\ seen' = seen
      \/ stage' = "idle" /\ seen' = NotSeen
  BY DEF TearRegistry
<1>4. Files'
  <2>1. registry' \in Marks
    BY <1>2 DEF Inv, Files, Marks
  <2>2. seen' \in Sets
    BY <1>3 DEF Inv, Files, NotSeen, Sets
  <2> QED BY <1>1, <1>3, <2>1, <2>2 DEF Inv, Files, NoRows, Marks
<1>5. OpenDebts(registry') \subseteq OpenDebts(mem)
  BY <1>2 DEF OpenDebts
<1>6. Saved'
  <2>1. Unique(mem) /\ Settled(mem)
    BY <1>1 DEF Inv, Ingested
  <2>2. Unique(registry)'
    BY <1>5, <2>1 DEF Unique, OpenDebts
  <2>3. CASE stage' = "failed" /\ seen' = seen
    <3>1. Settled(registry)'
      BY <1>5, <2>1, <2>3 DEF Settled, OpenDebts
    <3> QED BY <2>2, <2>3, <3>1 DEF Saved
  <2>4. CASE stage' = "idle" /\ seen' = NotSeen
    BY <2>2, <2>4 DEF Saved, NotSeen
  <2> QED BY <1>3, <2>3, <2>4
<1>7. Ingested' /\ Applied' /\ Held'
  BY <1>1, <1>3 DEF Inv, Ingested, Applied, Held
<1>8. Past'
  BY <1>1, <1>3, PastAlone DEF runners
<1> QED BY <1>1, <1>4, <1>6, <1>7, <1>8, RunnersAlone, SnapshotAlone DEF Inv

-----------------------------------------------------------------------------
(* swarm-gap-apply-actions and the observer's agent. *)

LEMMA LoadOpenRowsInv == ASSUME Inv, LoadOpenRows PROVE Inv'
<1>1. /\ stage \in {"saved", "failed"} /\ queue' = OpenRows(registry) /\ stage' = "applying"
      /\ registry' = registry /\ mem' = mem /\ held' = held /\ seen' = seen
      /\ cleaned' = cleaned /\ torn' = torn /\ UNCHANGED runners /\ UNCHANGED snapshot
  BY DEF LoadOpenRows
<1>2. Files'
  BY <1>1 DEF Inv, Files, OpenRows
<1>3. Ingested' /\ Saved' /\ Applied' /\ Held'
  BY <1>1 DEF Inv, Ingested, Saved, Applied, Held, Unique, Settled, OpenDebts, OpenRows
<1>4. Past'
  BY <1>1, PastAlone DEF runners
<1> QED BY <1>1, <1>2, <1>3, <1>4, RunnersAlone, SnapshotAlone DEF Inv

\* The todo an open row is made into is none that its snapshot had as completed.
LEMMA AppliedTodo ==
  ASSUME Inv, stage = "applying", NEW g \in queue
  PROVE  /\ g \in GapRows
         /\ \A t \in seen[g.runner] : t[2] \notin Extra => t # TodoOf(g)
<1>1. g \in GapRows /\ registry[g] = "open"
  BY DEF Inv, Applied, OpenRows
<1>2. ASSUME NEW t \in seen[g.runner], t[2] \notin Extra, t = TodoOf(g) PROVE FALSE
  <2>1. t[1] = 0 /\ t[2] = g.raw[2]
    BY <1>2 DEF TodoOf, Normalized
  <2>2. g.kind = "plan_debt"
    <3>1. g.kind = "competitor_feature" => g.raw[2] \in Extra
      BY <1>1, RowFields
    <3> QED BY <1>1, <1>2, <2>1, <3>1, RowFields
  <2>3. g \in OpenDebts(registry) /\ Settled(registry)
    BY <1>1, <2>2 DEF Inv, Saved, OpenDebts
  <2> QED BY <2>1, <2>3 DEF Settled
<1> QED BY <1>1, <1>2

LEMMA ReadBacklogInv == ASSUME Inv, NEW g \in GapRows, ReadBacklog(g) PROVE Inv'
<1> DEFINE text == [copy[g.runner] EXCEPT ![TodoOf(g)] = "pending"]
           read == [runner |-> g.runner, text |-> text]
<1>1. /\ stage = "applying" /\ g \in queue /\ held = {} /\ queue' = queue \ {g}
      /\ registry' = registry /\ stage' = stage /\ mem' = mem /\ seen' = seen
      /\ cleaned' = cleaned /\ torn' = torn /\ UNCHANGED runners /\ UNCHANGED snapshot
  BY DEF ReadBacklog
<1>2. held' = {read} \/ held' = {}
  BY DEF ReadBacklog
<1>3. copy' = copy
  BY <1>1 DEF runners
<1>4. /\ TodoOf(g) \in Todos /\ TodoOf(g)[1] <= Depth
      /\ "pending" \in Status /\ g.runner \in Names
  BY RowTodo, RowFields DEF TodoOf, Status
<1>5. copy[g.runner] \in [Todos -> Status] /\ \A t \in Todos : copy[g.runner][t] # "absent" => t[1] <= Depth
  BY <1>4 DEF Inv, Plans, Short
<1>6. text \in [Todos -> Status] /\ \A t \in Todos : text[t] # "absent" => t[1] <= Depth
  BY <1>4, <1>5
<1>7. ASSUME NEW t \in seen[g.runner], t[2] \notin Extra, text[t] = "pending"
      PROVE  copy[g.runner][t] = "pending"
  <2>1. t # TodoOf(g) /\ t \in Todos
    BY <1>1, <1>4, <1>7, AppliedTodo DEF Inv, Files, Sets
  <2> QED BY <1>5, <1>7, <2>1
<1> HIDE DEF text
<1>8. read \in Backlog /\ read.runner = g.runner /\ read.text = text
  BY <1>4, <1>6 DEF Backlog
<1> HIDE DEF read
<1>9. ASSUME NEW h \in held' PROVE h \in Backlog /\ Unspoiled(h)'
  <2>1. h = read
    BY <1>2, <1>9
  <2>2. h.runner = g.runner /\ h.text = text
    BY <1>8, <2>1
  <2>3. Unspoiled(h)'
    BY <1>1, <1>3, <1>6, <1>7, <2>2 DEF Unspoiled
  <2> QED BY <1>8, <2>1, <2>3
<1>10. Held'
  BY <1>9 DEF Held
<1>11. Files' /\ Ingested' /\ Saved' /\ Applied'
  BY <1>1 DEF Inv, Files, Ingested, Saved, Applied, Unique, Settled, OpenDebts, OpenRows
<1>12. Past'
  BY <1>1, PastAlone DEF runners
<1> QED BY <1>1, <1>10, <1>11, <1>12, RunnersAlone, SnapshotAlone DEF Inv

\* A backlog that is written, all of it or what a kill leaves, is a typed one.
LEMMA LeavesPlans ==
  ASSUME Inv, NEW r \in Names, NEW text \in [Todos -> Status],
         \A t \in Todos : text[t] # "absent" => t[1] <= Depth, Leaves(r, text)
  PROVE  Plans'
<1>1. /\ copy' = [copy EXCEPT ![r] = text] /\ shared' = shared /\ done' = done
      /\ working' = working
  BY DEF Leaves
<1>2. plan' = IF r \in shared THEN [plan EXCEPT ![r] = text] ELSE plan
  BY DEF Leaves
<1>3. copy' \in [Names -> [Todos -> Status]] /\ Short(copy')
  BY <1>1 DEF Inv, Plans, Short
<1>4. plan' \in [Names -> [Todos -> Status]] /\ Short(plan')
  BY <1>2 DEF Inv, Plans, Short
<1>5. \A q \in Names : q \in shared => copy'[q] = plan'[q]
  BY <1>1, <1>2 DEF Inv, Plans
<1> QED BY <1>1, <1>3, <1>4, <1>5 DEF Inv, Plans

LEMMA WriteBacklogInv == ASSUME Inv, WriteBacklog PROVE Inv'
<1>1. PICK h \in held : Leaves(h.runner, h.text)
  BY DEF WriteBacklog
<1>2. /\ held' = {} /\ registry' = registry /\ stage' = stage /\ mem' = mem
      /\ queue' = queue /\ seen' = seen /\ cleaned' = cleaned /\ torn' = torn
      /\ UNCHANGED snapshot
  BY DEF WriteBacklog
<1>3. h \in Backlog /\ Unspoiled(h)
  BY <1>1 DEF Inv, Held
<1>4. Plans'
  BY <1>1, <1>3, LeavesPlans DEF Backlog, Unspoiled
<1>5. Files' /\ Ingested' /\ Saved' /\ Applied' /\ Held'
  BY <1>2 DEF Inv, Files, Ingested, Saved, Applied, Held, Unique, Settled, OpenDebts, OpenRows
<1>6. Past'
  BY <1>1, <1>2, PastAlone DEF Leaves
<1> QED BY <1>2, <1>4, <1>5, <1>6, SnapshotAlone DEF Inv

\* What a process that ended, or was killed, leaves of its own.
LEMMA StoppedFiles ==
  ASSUME Inv, Stopped, torn' \in {"none", "registry", "backlog"}
  PROVE  /\ Files' /\ Ingested' /\ Saved' /\ Applied' /\ Held'
         /\ seen' = NotSeen /\ UNCHANGED snapshot
<1>1. /\ stage' = "idle" /\ mem' = NoRows /\ queue' = {} /\ held' = {} /\ seen' = NotSeen
      /\ registry' = registry /\ cleaned' = cleaned /\ UNCHANGED snapshot
  BY DEF Stopped
<1>2. Files'
  BY <1>1 DEF Inv, Files, NoRows, Marks, NotSeen, Sets
<1>3. Ingested' /\ Saved' /\ Applied' /\ Held'
  BY <1>1 DEF Inv, Ingested, Saved, Applied, Held, Unique, OpenDebts
<1> QED BY <1>1, <1>2, <1>3

LEMMA EndApplyInv == ASSUME Inv, EndApply PROVE Inv'
<1>1. Stopped /\ torn' = torn /\ UNCHANGED runners
  BY DEF EndApply
<1>2. Files' /\ Ingested' /\ Saved' /\ Applied' /\ Held' /\ seen' = NotSeen /\ UNCHANGED snapshot
  BY <1>1, StoppedFiles DEF Inv, Files
<1>3. Past'
  BY <1>1, <1>2, PastAlone DEF runners
<1> QED BY <1>1, <1>2, <1>3, RunnersAlone, SnapshotAlone DEF Inv

LEMMA TearBacklogInv == ASSUME Inv, TearBacklog PROVE Inv'
<1>1. PICK h \in held, left \in SUBSET Todos :
        Leaves(h.runner, [t \in Todos |-> IF t \in left THEN h.text[t] ELSE "absent"])
  BY DEF TearBacklog
<1> DEFINE text == [t \in Todos |-> IF t \in left THEN h.text[t] ELSE "absent"]
<1>2. h \in Backlog /\ Unspoiled(h)
  BY <1>1 DEF Inv, Held
<1>3. /\ h.runner \in Names /\ text \in [Todos -> Status]
      /\ \A t \in Todos : text[t] # "absent" => t[1] <= Depth
  BY <1>2 DEF Backlog, Unspoiled, Status
<1>4. Leaves(h.runner, text)
  BY <1>1
<1> HIDE DEF text
<1>5. Plans'
  BY <1>3, <1>4, LeavesPlans
<1>6. Files' /\ Ingested' /\ Saved' /\ Applied' /\ Held' /\ seen' = NotSeen /\ UNCHANGED snapshot
  BY StoppedFiles DEF TearBacklog
<1>7. Past'
  BY <1>4, <1>6, PastAlone DEF Leaves
<1> QED BY <1>5, <1>6, <1>7, SnapshotAlone DEF Inv

LEMMA AgentClosesInv == ASSUME Inv, NEW g \in GapRows, AgentCloses(g) PROVE Inv'
<1>1. /\ stage = "idle" /\ registry' = [registry EXCEPT ![g] = "closed"]
      /\ stage' = stage /\ mem' = mem /\ queue' = queue /\ held' = held /\ seen' = seen
      /\ cleaned' = cleaned /\ torn' = torn /\ UNCHANGED runners /\ UNCHANGED snapshot
  BY DEF AgentCloses
<1>2. OpenDebts(registry') \subseteq OpenDebts(registry)
  BY <1>1 DEF Inv, Files, Marks, OpenDebts
<1>3. Files' /\ Ingested' /\ Applied' /\ Held'
  BY <1>1 DEF Inv, Files, Ingested, Applied, Held, Marks
<1>4. Saved'
  <2>1. cleaned => Unique(registry)'
    BY <1>2 DEF Inv, Saved, Unique, OpenDebts
  <2> QED BY <1>1, <2>1 DEF Inv, Saved
<1>5. Past'
  BY <1>1, PastAlone DEF runners
<1> QED BY <1>1, <1>3, <1>4, <1>5, RunnersAlone, SnapshotAlone DEF Inv

-----------------------------------------------------------------------------
(* Together. *)

LEMMA NextInv == Inv /\ [GSNext]_gsVars => Inv'
<1> SUFFICES ASSUME Inv, [GSNext]_gsVars PROVE Inv'
  OBVIOUS
<1>1. CASE UNCHANGED gsVars
  <2>1. UNCHANGED pipeline /\ UNCHANGED runners /\ UNCHANGED snapshot
    BY <1>1 DEF gsVars, pipeline, runners, snapshot
  <2>2. seen' = seen /\ copy' = copy /\ UNCHANGED <<done, working>>
    BY <2>1 DEF runners, pipeline
  <2>3. Past'
    BY <2>1, <2>2, PastAlone
  <2> QED BY <2>1, <2>2, <2>3, RunnersAlone, SnapshotAlone, RunnersStep
<1>2. ASSUME NEW r \in Names, Pick(r) PROVE Inv'
  BY <1>2, PickInv
<1>3. ASSUME NEW r \in Names, AgentMarks(r) PROVE Inv'
  BY <1>3, AgentMarksInv
<1>4. ASSUME NEW r \in Names, GivesUp(r) PROVE Inv'
  BY <1>4, GivesUpInv
<1>5. ASSUME NEW r \in Names, Completes(r) PROVE Inv'
  BY <1>5, CompletesInv
<1>6. ASSUME NEW r \in Names, ReadPlan(r) PROVE Inv'
  BY <1>6, ReadPlanInv
<1>7. ASSUME NEW r \in Names, ReadState(r) PROVE Inv'
  BY <1>7, ReadStateInv
<1>8. ASSUME NEW r \in Names, NEW t \in Todos, HandOver(r, t) PROVE Inv'
  BY <1>8, HandOverInv
<1>9. ASSUME NEW g \in GapRows, ReadBacklog(g) PROVE Inv'
  BY <1>9, ReadBacklogInv
<1>10. ASSUME NEW g \in GapRows, AgentCloses(g) PROVE Inv'
  BY <1>10, AgentClosesInv
<1> QED BY <1>1, <1>2, <1>3, <1>4, <1>5, <1>6, <1>7, <1>8, <1>9, <1>10, IngestInv,
        IngestFailsInv, SaveRegistryInv, TearRegistryInv, LoadOpenRowsInv, WriteBacklogInv,
        TearBacklogInv, EndApplyInv DEF GSNext

\* The registry, the plans and the snapshot at any time: what an ingest has in memory is
\* what it may save, what is applied is what was saved, and a backlog that is read has
\* pending of the completed todos only those that are still pending in the file.
THEOREM PipelineInv == GSSpec => []Inv
<1>1. GSInit => Inv
  BY InitInv
<1>2. Inv /\ [GSNext]_gsVars => Inv'
  BY NextInv
<1> QED BY <1>1, <1>2, PTL DEF GSSpec

\* No todo and no row ever gets one mirror prefix more (swarm-gap-ingest's
\* normalisation of ids), and all files have their types.
THEOREM FilesTyped == GSSpec => []TypeOK
<1>1. Inv => TypeOK
  BY DEF Inv, Plans, Files, Held, Backlog, Unspoiled, Sets, Marks, Short, TypeOK
<1> QED BY <1>1, PipelineInv, PTL

\* From the first ingest that writes on, one row at most is open for a runner's todo.
THEOREM RowsUnique == GSSpec => []OneOpenRow
<1>1. Inv => OneOpenRow
  BY DEF Inv, Saved, Unique, OneOpenRow
<1> QED BY <1>1, PipelineInv, PTL

\* None of the rows that are applied is for a todo the snapshot had completed.
THEOREM RowsReconciled == GSSpec => []Reconciled
<1>1. Inv => Reconciled
  BY DEF Inv, Saved, Settled, Reconciled
<1> QED BY <1>1, PipelineInv, PTL

LEMMA ClosedStep ==
  ASSUME Inv, [GSNext]_gsVars, NEW g \in GapRows, registry[g] = "closed", torn' # "registry"
  PROVE  registry'[g] = "closed"
<1>1. CASE SaveRegistry
  BY <1>1 DEF SaveRegistry, Inv, Ingested
<1>2. CASE TearRegistry
  BY <1>2 DEF TearRegistry
<1>3. ASSUME NEW h \in GapRows, AgentCloses(h) PROVE registry'[g] = "closed"
  BY <1>3 DEF AgentCloses, Inv, Files, Marks
<1>4. CASE registry' = registry
  BY <1>4
<1> QED BY <1>1, <1>2, <1>3, <1>4 DEF GSNext, gsVars, pipeline, Pick, AgentMarks, GivesUp, Completes,
        ReadPlan, ReadState, HandOver, Ingest, IngestFails, LoadOpenRows, ReadBacklog,
        WriteBacklog, TearBacklog, EndApply, Stopped

\* A closed row stays closed, however old the snapshot is that is ingested.
THEOREM ClosedForGood == GSSpec => ClosedStaysClosed
<1>1. Inv /\ [GSNext]_gsVars =>
        \A g \in GapRows : registry[g] = "closed" /\ torn' # "registry" => registry'[g] = "closed"
  BY ClosedStep
<1> QED BY <1>1, PipelineInv, PTL DEF GSSpec, ClosedStaysClosed

\* A backlog is written: what was read of it reopens nothing its snapshot had completed.
LEMMA LeavesStep ==
  ASSUME Inv, NEW h \in held, NEW text, Leaves(h.runner, text),
         \A t \in Todos : text[t] = "pending" => h.text[t] = "pending",
         NEW r \in Names, NEW t \in seen[r], t[2] \notin Extra, copy'[r][t] = "pending"
  PROVE  copy[r][t] = "pending"
<1>1. h.runner \in Names /\ Unspoiled(h)
  BY DEF Inv, Held, Backlog
<1>2. t \in Todos /\ copy' = [copy EXCEPT ![h.runner] = text] /\ DOMAIN copy = Names
  BY DEF Inv, Files, Sets, Plans, Leaves
<1>3. CASE r = h.runner
  <2>1. h.text[t] = "pending"
    BY <1>1, <1>2, <1>3
  <2> QED BY <1>1, <1>3, <2>1 DEF Unspoiled
<1>4. CASE r # h.runner
  BY <1>2, <1>4
<1> QED BY <1>3, <1>4

LEMMA PendingStep ==
  ASSUME Inv, [GSNext]_gsVars, NEW r \in Names, NEW t \in Todos, t[2] \notin Extra,
         copy[r][t] # "pending", copy'[r][t] = "pending"
  PROVE  t \notin seen[r] \/ held' = held
<1>1. CASE WriteBacklog
  <2>1. PICK h \in held : Leaves(h.runner, h.text)
    BY <1>1 DEF WriteBacklog
  <2> QED BY <2>1, LeavesStep
<1>2. CASE TearBacklog
  <2>1. PICK h \in held, left \in SUBSET Todos :
          Leaves(h.runner, [u \in Todos |-> IF u \in left THEN h.text[u] ELSE "absent"])
    BY <1>2 DEF TearBacklog
  <2> DEFINE text == [u \in Todos |-> IF u \in left THEN h.text[u] ELSE "absent"]
  <2>2. \A u \in Todos : text[u] = "pending" => h.text[u] = "pending"
    OBVIOUS
  <2>3. Leaves(h.runner, text)
    BY <2>1
  <2> HIDE DEF text
  <2> QED BY <2>2, <2>3, LeavesStep
<1>3. CASE EndApply \/ \E g \in GapRows : ReadBacklog(g)
  <2>1. copy' = copy
    BY <1>3 DEF EndApply, ReadBacklog, runners
  <2> QED BY <2>1
<1>4. CASE held' = held
  BY <1>4
<1> QED BY <1>1, <1>2, <1>3, <1>4 DEF GSNext, gsVars, pipeline, Pick, AgentMarks, GivesUp, Completes,
        ReadPlan, ReadState, HandOver, Ingest, IngestFails, SaveRegistry, TearRegistry,
        LoadOpenRows, AgentCloses

\* The pipeline sets no todo to pending that its snapshot had completed, although others
\* write to the backlog between its reading and its writing.
THEOREM NothingReopened == GSSpec => NotReopened
<1>1. Inv /\ [GSNext]_gsVars =>
        \A r \in Names : \A t \in Todos :
          /\ t[2] \notin Extra
          /\ copy[r][t] # "pending" /\ copy'[r][t] = "pending"
          => t \notin seen[r] \/ held' = held
  BY PendingStep
<1> QED BY <1>1, PipelineInv, PTL DEF GSSpec, NotReopened


-----------------------------------------------------------------------------
(* Lists of edits.                                                         *)

\* A set of numbers has a least one: what an induction needs.
LEMMA LeastNumber ==
  ASSUME NEW S \in SUBSET Nat, S # {}
  PROVE  \E n \in S : \A k \in S : n <= k
<1> DEFINE less == {p \in Nat \X Nat : p[1] < p[2]}
<1>1. IsWellFoundedOn(less, Nat)  BY NatLessThanWellFounded DEF OpToRel
<1>2. PICK n \in S : \A k \in S : ~(<<k, n>> \in less)  BY <1>1, WFMin
<1>3. ASSUME NEW k \in S, k < n  PROVE FALSE
  <2>1. <<k, n>> \in Nat \X Nat /\ <<k, n>>[1] < <<k, n>>[2]  BY <1>3
  <2> QED BY <1>2, <2>1
<1> QED BY <1>3

\* Induction up to n, over a set of numbers.
LEMMA FromZero ==
  ASSUME NEW n \in Nat, NEW S, 0 \in S, \A k \in 1..n : k - 1 \in S => k \in S
  PROVE  \A k \in 0..n : k \in S
<1> DEFINE W == {k \in 0..n : k \notin S}
<1>1. ASSUME W # {}  PROVE FALSE
  <2>1. W \in SUBSET Nat  OBVIOUS
  <2>2. PICK m \in W : \A k \in W : m <= k  BY <1>1, <2>1, LeastNumber
  <2>3. m \in 1..n /\ m - 1 \in 0..n /\ ~(m <= m - 1)  BY <2>2
  <2>4. m - 1 \in S  BY <2>2, <2>3
  <2> QED BY <2>2, <2>3, <2>4
<1> QED BY <1>1

\* Max of a set of indices is one of them and bounds them.
LEMMA MaxFacts ==
  ASSUME NEW n \in Nat, NEW s \in SUBSET (1..n), s # {}
  PROVE  Max(s) \in s /\ \A y \in s : y <= Max(s)
<1> DEFINE U == {m \in Nat : \A y \in s : y <= m}
<1>1. n \in U /\ U \in SUBSET Nat  OBVIOUS
<1>2. PICK m \in U : \A k \in U : m <= k  BY <1>1, LeastNumber
<1>3. m \in s
  <2>1. SUFFICES ASSUME m \notin s  PROVE FALSE  OBVIOUS
  <2>2. \A y \in s : y \in Nat /\ y > 0 /\ y <= m /\ y # m  BY <1>2, <2>1
  <2>3. m \in Nat /\ m > 0
    <3>1. m \in Nat  BY <1>2
    <3>2. PICK y \in s : TRUE  OBVIOUS
    <3>3. y \in Nat /\ y > 0 /\ y <= m  BY <2>2
    <3> QED BY <3>1, <3>3
  <2>4. m - 1 \in U  BY <2>2, <2>3
  <2> QED BY <1>2, <2>3, <2>4
<1>4. \E x \in s : \A y \in s : x >= y  BY <1>2, <1>3
<1>5. Max(s) \in s /\ \A y \in s : Max(s) >= y  BY <1>4 DEF Max
<1> QED BY <1>5

Folding(g, text, edits) ==
  g = [s \in SUBSET DOMAIN edits |-> IF s = {} THEN text ELSE Edited(g[s \ {Max(s)}], edits[Max(s)])]

\* With folds over the list from its last edit down: the fold is a function on
\* sets of indices.
LEMMA WithFolds ==
  ASSUME NEW text, NEW edits
  PROVE  With(text, edits) = (CHOOSE g : Folding(g, text, edits))[DOMAIN edits]
BY DEF With, FoldLeft, MapThenFoldSet, Folding

\* The same for the first edits.
FoldingTo(g, text, edits, m) ==
  g = [s \in SUBSET (1..m) |-> IF s = {} THEN text ELSE Edited(g[s \ {Max(s)}], edits[Max(s)])]

LEMMA FoldingStarts ==
  ASSUME NEW text, NEW edits
  PROVE  \E g : FoldingTo(g, text, edits, 0)
<1> DEFINE g == [s \in SUBSET (1..0) |-> text]
<1>1. 1..0 = {}  OBVIOUS
<1>2. \A s \in SUBSET (1..0) : s = {}  BY <1>1
<1>3. g = [s \in SUBSET (1..0) |-> IF s = {} THEN text ELSE Edited(g[s \ {Max(s)}], edits[Max(s)])]  BY <1>2
<1> HIDE DEF g
<1>4. FoldingTo(g, text, edits, 0)  BY <1>3 DEF FoldingTo
<1> QED BY <1>4

LEMMA FoldingGoesOn ==
  ASSUME NEW text, NEW edits, NEW m \in Nat, m > 0, NEW f, FoldingTo(f, text, edits, m - 1)
  PROVE  \E g : FoldingTo(g, text, edits, m)
<1> DEFINE A == 1..(m - 1)
           B == 1..m
           g == [s \in SUBSET B |-> IF s \in SUBSET A THEN f[s] ELSE Edited(f[s \ {m}], edits[m])]
<1>1. A \subseteq B /\ {} \in SUBSET A /\ B \ {m} = A /\ m \in B  OBVIOUS
<1>2. f = [s \in SUBSET A |-> IF s = {} THEN text ELSE Edited(f[s \ {Max(s)}], edits[Max(s)])]  BY DEF FoldingTo
<1>3. \A s \in SUBSET A : g[s] = f[s]
  <2>1. \A s \in SUBSET A : s \in SUBSET B  BY <1>1
  <2> QED BY <2>1
<1>4. \A s \in SUBSET B : s \notin SUBSET A => g[s] = Edited(f[s \ {m}], edits[m])  OBVIOUS
<1>5. \A s \in SUBSET B : s # {} => Max(s) \in s /\ \A y \in s : y <= Max(s)  BY MaxFacts
<1>50. \A y \in B : y <= m  OBVIOUS
<1>500. \A y \in B : y <= m /\ m <= y => y = m  OBVIOUS
<1>9. DOMAIN g = SUBSET B  OBVIOUS
<1>10. g = [s \in SUBSET B |-> g[s]]  OBVIOUS
<1> HIDE DEF g, A, B
<1>6. ASSUME NEW s \in SUBSET B
      PROVE  g[s] = IF s = {} THEN text ELSE Edited(g[s \ {Max(s)}], edits[Max(s)])
  <2>1. CASE s = {}
    <3>1. s \in SUBSET A  BY <2>1, <1>1
    <3>2. f[s] = text  BY <3>1, <1>2, <2>1
    <3> QED BY <3>1, <3>2, <2>1, <1>3
  <2>2. CASE s # {} /\ s \in SUBSET A
    <3>1. f[s] = Edited(f[s \ {Max(s)}], edits[Max(s)])  BY <2>2, <1>2
    <3>2. s \ {Max(s)} \in SUBSET A  BY <2>2
    <3> QED BY <3>1, <3>2, <2>2, <1>3
  <2>3. CASE s \notin SUBSET A
    <3>1. m \in s  BY <2>3, <1>1
    <3>2. Max(s) = m  BY <3>1, <1>5, <1>50, <1>500
    <3>3. s \ {m} \in SUBSET A  BY <1>1
    <3>4. g[s \ {m}] = f[s \ {m}]  BY <3>3, <1>3
    <3> QED BY <2>3, <3>1, <3>2, <3>4, <1>4
  <2> QED BY <2>1, <2>2, <2>3
<1>7. g = [s \in SUBSET B |-> IF s = {} THEN text ELSE Edited(g[s \ {Max(s)}], edits[Max(s)])]  BY <1>6, <1>9, <1>10
<1>8. FoldingTo(g, text, edits, m)  BY <1>7 DEF FoldingTo, B
<1> QED BY <1>8

LEMMA FoldingExists ==
  ASSUME NEW text, NEW edits, NEW n \in Nat, DOMAIN edits = 1..n
  PROVE  \E g : Folding(g, text, edits)
<1> DEFINE S == {k \in Nat : \E g : FoldingTo(g, text, edits, k)}
<1>1. 0 \in S  BY FoldingStarts
<1>2. ASSUME NEW k \in 1..n, k - 1 \in S  PROVE k \in S
  <2>1. PICK f : FoldingTo(f, text, edits, k - 1)  BY <1>2
  <2>2. k \in Nat /\ k > 0  OBVIOUS
  <2> QED BY <2>1, <2>2, FoldingGoesOn
<1> HIDE DEF S
<1>3. \A k \in 0..n : k \in S  BY <1>1, <1>2, FromZero
<1>4. n \in S  BY <1>3
<1>5. PICK g : FoldingTo(g, text, edits, n)  BY <1>4 DEF S
<1> QED BY <1>5 DEF FoldingTo, Folding

\* A list of edits makes them one after the other.
Making(h, text, edits, n) ==
  h[0] = text /\ \A k \in 1..n : h[k] = Edited(h[k - 1], edits[k])

LEMMA WithMakes ==
  ASSUME NEW text, NEW edits, NEW n \in Nat, DOMAIN edits = 1..n
  PROVE  \E h : Making(h, text, edits, n) /\ h[n] = With(text, edits)
<1> DEFINE g == CHOOSE g : Folding(g, text, edits)
<1>1. With(text, edits) = g[1..n]  BY WithFolds
<1>2. Folding(g, text, edits)  BY FoldingExists
<1> HIDE DEF g
<1>3. g = [s \in SUBSET (1..n) |-> IF s = {} THEN text ELSE Edited(g[s \ {Max(s)}], edits[Max(s)])]
  BY <1>2 DEF Folding
<1> DEFINE h == [k \in 0..n |-> g[1..k]]
<1>4. h[0] = text
  <2>1. 1..0 = {} /\ {} \in SUBSET (1..n)  OBVIOUS
  <2>2. g[{}] = text  BY <1>3, <2>1
  <2> QED BY <2>1, <2>2
<1>5. ASSUME NEW k \in 1..n  PROVE h[k] = Edited(h[k - 1], edits[k])
  <2>1. k \in Nat /\ 1..k \in SUBSET (1..n) /\ 1..k # {} /\ k \in 1..k  OBVIOUS
  <2>2. Max(1..k) \in 1..k /\ \A y \in 1..k : y <= Max(1..k)  BY <2>1, MaxFacts
  <2>3. Max(1..k) = k  BY <2>1, <2>2
  <2>4. (1..k) \ {k} = 1..(k - 1)  OBVIOUS
  <2>5. g[1..k] = Edited(g[1..(k - 1)], edits[k])  BY <1>3, <2>1, <2>3, <2>4
  <2>6. k \in 0..n /\ k - 1 \in 0..n  OBVIOUS
  <2> QED BY <2>5, <2>6
<1>6. h[n] = g[1..n]  OBVIOUS
<1> HIDE DEF h
<1>7. Making(h, text, edits, n)  BY <1>4, <1>5 DEF Making
<1> QED BY <1>1, <1>6, <1>7

-----------------------------------------------------------------------------
(* One edit, and a list of them.                                           *)

IsEdit(e) == e.drops \subseteq {e.at} /\ Nothing \notin e.gains
Applies(text, e) == e.unless \notin text.has /\ e.at \in text.has

\* The same text with other passages.
LEMMA TextWith ==
  ASSUME NEW t, IsText(t), NEW has, Nothing \notin has, NEW u, u = [t EXCEPT !.has = has]
  PROVE  IsText(u) /\ u.has = has /\ u.shell = t.shell /\ u.painters = t.painters /\ u.version = t.version
<1>1. u = Text(has, t.shell, t.painters, t.version)  BY DEF IsText, Text
<1> QED BY <1>1 DEF IsText, Text

LEMMA EditedText ==
  ASSUME NEW t, IsText(t), NEW e, IsEdit(e), NEW u, u = Edited(t, e)
  PROVE  /\ IsText(u) /\ u.shell = t.shell /\ u.painters = t.painters /\ u.version = t.version
         /\ Applies(t, e) => u.has = (t.has \ e.drops) \cup e.gains
         /\ ~Applies(t, e) => u = t
<1> DEFINE h == (t.has \ e.drops) \cup e.gains
<1>2. Nothing \notin h  BY DEF IsEdit, IsText
<1>3. CASE Applies(t, e)
  <2>1. u = [t EXCEPT !.has = h]  BY <1>3 DEF Edited, Applies
  <2>2. IsText(u) /\ u.has = h /\ u.shell = t.shell /\ u.painters = t.painters /\ u.version = t.version
    BY <1>2, <2>1, TextWith
  <2> QED BY <2>2, <1>3
<1>4. CASE ~Applies(t, e)
  <2>1. u = t  BY <1>4 DEF Edited, Applies
  <2> QED BY <2>1, <1>4
<1> QED BY <1>3, <1>4

\* A list of n edits, and the text after each of them.
Steps(h, t, edits, n) ==
  /\ n \in Nat /\ DOMAIN edits = 1..n /\ \A i \in 1..n : IsEdit(edits[i])
  /\ Making(h, t, edits, n) /\ IsText(t)
IsList(edits) == \E n \in Nat : DOMAIN edits = 1..n /\ \A i \in 1..n : IsEdit(edits[i])

\* Every list of edits has such texts, and the last is what With makes.
LEMMA StepsThere ==
  ASSUME NEW t, IsText(t), NEW edits, IsList(edits)
  PROVE  \E n \in Nat : \E h : Steps(h, t, edits, n) /\ h[n] = With(t, edits)
<1>1. PICK n \in Nat : DOMAIN edits = 1..n /\ \A i \in 1..n : IsEdit(edits[i])  BY DEF IsList
<1>2. PICK h : Making(h, t, edits, n) /\ h[n] = With(t, edits)  BY <1>1, WithMakes
<1> QED BY <1>1, <1>2 DEF Steps

\* All of them are texts, with the shell and the numbers of the first.
LEMMA StepsTexts ==
  ASSUME NEW t, NEW edits, NEW h, NEW n, Steps(h, t, edits, n)
  PROVE  \A k \in 0..n : IsText(h[k]) /\ h[k].shell = t.shell /\ h[k].painters = t.painters
                                      /\ h[k].version = t.version
<1> DEFINE S == {k \in 0..n : IsText(h[k]) /\ h[k].shell = t.shell /\ h[k].painters = t.painters
                                           /\ h[k].version = t.version}
<1>0. n \in Nat  BY DEF Steps
<1>1. 0 \in S  BY <1>0 DEF Steps, Making
<1>2. ASSUME NEW k \in 1..n, k - 1 \in S  PROVE k \in S
  <2>1. k \in 0..n  BY <1>0
  <2>2. IsEdit(edits[k]) /\ h[k] = Edited(h[k - 1], edits[k])  BY DEF Steps, Making
  <2>3. IsText(h[k - 1])  BY <1>2
  <2>4. IsText(h[k]) /\ h[k].shell = h[k - 1].shell /\ h[k].painters = h[k - 1].painters
        /\ h[k].version = h[k - 1].version
    BY <2>2, <2>3, EditedText
  <2> QED BY <1>2, <2>1, <2>4
<1> HIDE DEF S
<1>3. \A k \in 0..n : k \in S  BY <1>0, <1>1, <1>2, FromZero
<1> QED BY <1>3 DEF S

\* What one step does to one passage.
LEMMA StepFacts ==
  ASSUME NEW t, NEW edits, NEW h, NEW n, Steps(h, t, edits, n), NEW k \in 1..n
  PROVE  /\ k \in DOMAIN edits
         /\ Applies(h[k - 1], edits[k]) => h[k].has = (h[k - 1].has \ edits[k].drops) \cup edits[k].gains
         /\ ~Applies(h[k - 1], edits[k]) => h[k] = h[k - 1]
<1>0. n \in Nat /\ k - 1 \in 0..n  BY DEF Steps
<1>1. IsEdit(edits[k]) /\ h[k] = Edited(h[k - 1], edits[k]) /\ k \in DOMAIN edits  BY DEF Steps, Making
<1>2. IsText(h[k - 1])  BY <1>0, StepsTexts
<1> QED BY <1>1, <1>2, EditedText

\* A passage that no edit takes away stays; none is taken for good that the edit
\* gives back.
LEMMA StepsKeep ==
  ASSUME NEW t, NEW edits, NEW h, NEW n, Steps(h, t, edits, n), NEW x,
         \A e \in ToSet(edits) : x \notin e.drops \ e.gains
  PROVE  \A k \in 0..n : \A j \in 0..k : x \in h[j].has => x \in h[k].has
<1>0. n \in Nat  BY DEF Steps
<1>1. ASSUME NEW k \in 1..n, x \in h[k - 1].has  PROVE x \in h[k].has
  <2>1. edits[k] \in ToSet(edits)  BY StepFacts DEF ToSet
  <2> QED BY <1>1, <2>1, StepFacts
<1>2. ASSUME NEW j \in 0..n, x \in h[j].has  PROVE \A k \in 0..n : j <= k => x \in h[k].has
  <2> DEFINE S == {k \in 0..n : j <= k => x \in h[k].has}
  <2>1. 0 \in S
    <3>1. 0 \in 0..n /\ (j <= 0 => j = 0)  BY <1>0
    <3> QED BY <3>1, <1>2
  <2>2. ASSUME NEW k \in 1..n, k - 1 \in S  PROVE k \in S
    <3>1. k \in 0..n /\ (j <= k => j = k \/ j <= k - 1)  BY <1>0
    <3> QED BY <3>1, <1>1, <1>2, <2>2
  <2> HIDE DEF S
  <2>3. \A k \in 0..n : k \in S  BY <1>0, <2>1, <2>2, FromZero
  <2> QED BY <2>3 DEF S
<1>3. \A k \in 0..n : \A j \in 0..k : j \in 0..n /\ j <= k  BY <1>0
<1> QED BY <1>2, <1>3

\* A passage that no edit adds, unless it was there, does not come.
LEMMA StepsBring ==
  ASSUME NEW t, NEW edits, NEW h, NEW n, Steps(h, t, edits, n), NEW x,
         \A e \in ToSet(edits) : x \notin e.gains \ {e.at}
  PROVE  \A k \in 0..n : \A j \in 0..k : x \in h[k].has => x \in h[j].has
<1>0. n \in Nat  BY DEF Steps
<1>1. ASSUME NEW k \in 1..n, x \in h[k].has  PROVE x \in h[k - 1].has
  <2>1. edits[k] \in ToSet(edits)  BY StepFacts DEF ToSet
  <2>2. CASE Applies(h[k - 1], edits[k])
    <3>1. x \in h[k - 1].has \/ x = edits[k].at  BY <1>1, <2>1, <2>2, StepFacts
    <3> QED BY <3>1, <2>2 DEF Applies
  <2>3. CASE ~Applies(h[k - 1], edits[k])  BY <1>1, <2>3, StepFacts
  <2> QED BY <2>2, <2>3
<1>2. ASSUME NEW j \in 0..n, x \notin h[j].has  PROVE \A k \in 0..n : j <= k => x \notin h[k].has
  <2> DEFINE S == {k \in 0..n : j <= k => x \notin h[k].has}
  <2>1. 0 \in S
    <3>1. 0 \in 0..n /\ (j <= 0 => j = 0)  BY <1>0
    <3> QED BY <3>1, <1>2
  <2>2. ASSUME NEW k \in 1..n, k - 1 \in S  PROVE k \in S
    <3>1. k \in 0..n /\ (j <= k => j = k \/ j <= k - 1)  BY <1>0
    <3> QED BY <3>1, <1>1, <1>2, <2>2
  <2> HIDE DEF S
  <2>3. \A k \in 0..n : k \in S  BY <1>0, <2>1, <2>2, FromZero
  <2> QED BY <2>3 DEF S
<1>3. \A k \in 0..n : \A j \in 0..k : j \in 0..n /\ j <= k  BY <1>0
<1> QED BY <1>2, <1>3

-----------------------------------------------------------------------------
(* A list whose edits leave one another alone.  What its edits take away for *)
(* good is in Lost, what they add in Brought.                              *)

Settles(edits, Lost, Brought) ==
  /\ IsList(edits)
  /\ \A e \in ToSet(edits) :
       /\ e.drops \ e.gains \subseteq Lost /\ e.gains \ {e.at} \subseteq Brought
       /\ (e.unless = Nothing \/ e.unless \notin Lost) /\ e.at \notin Brought /\ e.gains \cap Lost = {}

\* The edit would change nothing.
Idle(text, e) ==
  \/ e.unless \in text.has \/ e.at \notin text.has
  \/ e.gains \subseteq text.has /\ e.drops \cap text.has \subseteq e.gains

\* Then it changes nothing; and after an edit the edit is idle, which no other
\* of such a list undoes.
LEMMA IdleChangesNothing ==
  ASSUME NEW t, IsText(t), NEW e, IsEdit(e), Idle(t, e)
  PROVE  Edited(t, e) = t
<1>1. CASE Applies(t, e)
  <2>1. e.gains \subseteq t.has /\ e.drops \cap t.has \subseteq e.gains  BY <1>1 DEF Applies, Idle
  <2>2. (t.has \ e.drops) \cup e.gains = t.has  BY <2>1
  <2>3. Edited(t, e) = [t EXCEPT !.has = t.has]  BY <1>1, <2>2 DEF Applies, Edited
  <2> QED BY <2>3 DEF IsText, Text
<1>2. CASE ~Applies(t, e)  BY <1>2, EditedText
<1> QED BY <1>1, <1>2

LEMMA EditLeavesIdle ==
  ASSUME NEW t, IsText(t), NEW e, IsEdit(e)
  PROVE  Idle(Edited(t, e), e)
<1>1. CASE Applies(t, e)
  <2>1. Edited(t, e).has = (t.has \ e.drops) \cup e.gains  BY <1>1, EditedText
  <2> QED BY <2>1 DEF Idle
<1>2. CASE ~Applies(t, e)
  <2>1. Edited(t, e) = t  BY <1>2, EditedText
  <2> QED BY <2>1, <1>2 DEF Idle, Applies
<1> QED BY <1>1, <1>2

LEMMA OthersLeaveIdle ==
  ASSUME NEW t, IsText(t), NEW edits, NEW Lost, NEW Brought, Settles(edits, Lost, Brought),
         NEW e \in ToSet(edits), NEW f \in ToSet(edits), IsEdit(f), IsEdit(e), Idle(t, e)
  PROVE  Idle(Edited(t, f), e)
<1>1. CASE ~Applies(t, f)  BY <1>1, EditedText
<1>2. CASE Applies(t, f)
  <2> DEFINE u == Edited(t, f)
  <2>1. u.has = (t.has \ f.drops) \cup f.gains  BY <1>2, EditedText
  <2>2. /\ f.drops \ f.gains \subseteq Lost /\ f.gains \ {f.at} \subseteq Brought
        /\ (e.unless = Nothing \/ e.unless \notin Lost) /\ e.at \notin Brought /\ e.gains \cap Lost = {}
    BY DEF Settles
  <2>3. f.at \in t.has  BY <1>2 DEF Applies
  <2>4. e.drops \subseteq {e.at}  BY DEF IsEdit
  <2> HIDE DEF u
  <2>5. e.unless \in t.has => e.unless \in u.has  BY <2>1, <2>2 DEF IsText
  <2>6. e.at \notin t.has => e.at \notin u.has  BY <2>1, <2>2, <2>3
  <2>7. e.gains \subseteq t.has => e.gains \subseteq u.has  BY <2>1, <2>2
  <2>8. e.drops \cap t.has \subseteq e.gains => e.drops \cap u.has \subseteq e.gains  BY <2>1, <2>2, <2>3, <2>4
  <2>9. Idle(u, e)  BY <2>5, <2>6, <2>7, <2>8 DEF Idle
  <2> QED BY <2>9 DEF u
<1> QED BY <1>1, <1>2

\* After its last edit every edit of the list is idle.
LEMMA StepsIdle ==
  ASSUME NEW t, NEW edits, NEW h, NEW n, Steps(h, t, edits, n),
         NEW Lost, NEW Brought, Settles(edits, Lost, Brought)
  PROVE  \A e \in ToSet(edits) : Idle(h[n], e)
<1>0. n \in Nat /\ DOMAIN edits = 1..n /\ \A i \in 1..n : IsEdit(edits[i]) /\ edits[i] \in ToSet(edits)
  BY DEF Steps, ToSet
<1>1. ASSUME NEW i \in 1..n  PROVE \A k \in 0..n : i <= k => Idle(h[k], edits[i])
  <2> DEFINE S == {k \in 0..n : i <= k => Idle(h[k], edits[i])}
  <2>1. 0 \in S  BY <1>0
  <2>2. ASSUME NEW k \in 1..n, k - 1 \in S  PROVE k \in S
    <3>1. k \in 0..n /\ k - 1 \in 0..n /\ (i <= k => i = k \/ i <= k - 1)  BY <1>0
    <3>2. IsText(h[k - 1])  BY <3>1, StepsTexts
    <3>3. h[k] = Edited(h[k - 1], edits[k])  BY DEF Steps, Making
    <3>4. CASE i = k
      <4>1. Idle(h[k], edits[i])  BY <3>2, <3>3, <3>4, <1>0, EditLeavesIdle
      <4> QED BY <4>1, <3>1
    <3>5. CASE i <= k - 1
      <4>1. Idle(h[k - 1], edits[i])  BY <3>5, <2>2
      <4>2. Idle(h[k], edits[i])  BY <4>1, <3>2, <3>3, <1>0, OthersLeaveIdle
      <4> QED BY <4>2, <3>1
    <3>6. CASE ~(i <= k)  BY <3>6, <3>1
    <3> QED BY <3>1, <3>4, <3>5, <3>6
  <2> HIDE DEF S
  <2>3. \A k \in 0..n : k \in S  BY <1>0, <2>1, <2>2, FromZero
  <2> QED BY <2>3 DEF S
<1>2. ASSUME NEW e \in ToSet(edits)  PROVE Idle(h[n], e)
  <2>1. PICK i \in 1..n : e = edits[i]  BY <1>0 DEF ToSet
  <2>2. n \in 0..n /\ i <= n  BY <1>0
  <2> QED BY <2>1, <2>2, <1>1
<1> QED BY <1>2

\* A list of idle edits changes nothing.
LEMMA AllIdle ==
  ASSUME NEW t, IsText(t), NEW edits, IsList(edits), \A e \in ToSet(edits) : Idle(t, e)
  PROVE  With(t, edits) = t
<1>1. PICK n \in Nat : \E h : Steps(h, t, edits, n) /\ h[n] = With(t, edits)  BY StepsThere
<1>2. PICK h : Steps(h, t, edits, n) /\ h[n] = With(t, edits)  BY <1>1
<1> DEFINE S == {k \in 0..n : h[k] = t}
<1>3. 0 \in S  BY <1>2 DEF Steps, Making
<1>4. ASSUME NEW k \in 1..n, k - 1 \in S  PROVE k \in S
  <2>1. k \in 0..n  OBVIOUS
  <2>2. h[k] = Edited(h[k - 1], edits[k]) /\ IsEdit(edits[k]) /\ edits[k] \in ToSet(edits)
    BY <1>2 DEF Steps, Making, ToSet
  <2>3. h[k] = t  BY <2>2, <1>4, IdleChangesNothing
  <2> QED BY <2>1, <2>3
<1> HIDE DEF S
<1>5. \A k \in 0..n : k \in S  BY <1>3, <1>4, FromZero
<1>6. n \in 0..n  OBVIOUS
<1> QED BY <1>2, <1>5, <1>6 DEF S

\* What such a list makes of a text.
LEMMA WithSettles ==
  ASSUME NEW t, IsText(t), NEW edits, NEW Lost, NEW Brought, Settles(edits, Lost, Brought),
         NEW w, w = With(t, edits)
  PROVE  /\ IsText(w) /\ w.shell = t.shell /\ w.painters = t.painters /\ w.version = t.version
         /\ t.has \ Lost \subseteq w.has /\ w.has \subseteq t.has \cup Brought
         /\ \A e \in ToSet(edits) : Idle(w, e)
         /\ With(w, edits) = w
<1>0. IsList(edits)  BY DEF Settles
<1>1. PICK n \in Nat : \E h : Steps(h, t, edits, n) /\ h[n] = With(t, edits)  BY <1>0, StepsThere
<1>2. PICK h : Steps(h, t, edits, n) /\ h[n] = With(t, edits)  BY <1>1
<1>3. n \in 0..n /\ 0 \in 0..n  OBVIOUS
<1>4. IsText(w) /\ w.shell = t.shell /\ w.painters = t.painters /\ w.version = t.version
  BY <1>2, <1>3, StepsTexts
<1>5. h[0] = t  BY <1>2 DEF Steps, Making
<1>6. ASSUME NEW x \in t.has \ Lost  PROVE x \in w.has
  <2>1. \A e \in ToSet(edits) : x \notin e.drops \ e.gains  BY DEF Settles
  <2> QED BY <2>1, <1>2, <1>3, <1>5, StepsKeep
<1>7. ASSUME NEW x \in w.has, x \notin Brought  PROVE x \in t.has
  <2>1. \A e \in ToSet(edits) : x \notin e.gains \ {e.at}  BY <1>7 DEF Settles
  <2> QED BY <2>1, <1>2, <1>3, <1>5, StepsBring
<1>8. \A e \in ToSet(edits) : Idle(w, e)  BY <1>2, StepsIdle
<1>9. With(w, edits) = w  BY <1>0, <1>4, <1>8, AllIdle
<1> QED BY <1>4, <1>6, <1>7, <1>8, <1>9

\* An edit whose passage is there brings what it adds.
LEMMA WithTakes ==
  ASSUME NEW t, IsText(t), NEW edits, NEW Lost, NEW Brought, Settles(edits, Lost, Brought),
         NEW w, w = With(t, edits), NEW e \in ToSet(edits), e.at \in t.has, e.unless \notin w.has,
         \A f \in ToSet(edits) : e.at \in f.drops \ f.gains => e.gains \subseteq f.gains
  PROVE  e.gains \subseteq w.has
<1>0. IsList(edits)  BY DEF Settles
<1>1. PICK n \in Nat : \E h : Steps(h, t, edits, n) /\ h[n] = With(t, edits)  BY <1>0, StepsThere
<1>2. PICK h : Steps(h, t, edits, n) /\ h[n] = With(t, edits)  BY <1>1
<1> DEFINE S == {k \in 0..n : e.at \in h[k].has \/ e.gains \subseteq h[k].has}
<1>3. 0 \in S  BY <1>2 DEF Steps, Making
<1>4. ASSUME NEW k \in 1..n, k - 1 \in S  PROVE k \in S
  <2>1. k \in 0..n  OBVIOUS
  <2>2. edits[k] \in ToSet(edits)  BY <1>2, StepFacts DEF ToSet
  <2>3. e.gains \cap Lost = {} /\ edits[k].drops \ edits[k].gains \subseteq Lost  BY <2>2 DEF Settles
  <2>4. CASE Applies(h[k - 1], edits[k])
    <3>1. h[k].has = (h[k - 1].has \ edits[k].drops) \cup edits[k].gains  BY <1>2, <2>4, StepFacts
    <3>2. e.gains \subseteq h[k - 1].has => e.gains \subseteq h[k].has  BY <3>1, <2>3
    <3>3. e.at \in h[k - 1].has => e.at \in h[k].has \/ e.gains \subseteq h[k].has
      BY <3>1, <2>2
    <3> QED BY <3>2, <3>3, <2>1, <1>4
  <2>5. CASE ~Applies(h[k - 1], edits[k])
    <3>1. h[k] = h[k - 1]  BY <1>2, <2>5, StepFacts
    <3> QED BY <3>1, <2>1, <1>4
  <2> QED BY <2>4, <2>5
<1> HIDE DEF S
<1>5. \A k \in 0..n : k \in S  BY <1>3, <1>4, FromZero
<1>6. n \in 0..n  OBVIOUS
<1>7. e.at \in w.has \/ e.gains \subseteq w.has  BY <1>2, <1>5, <1>6 DEF S
<1>8. Idle(w, e)  BY WithSettles
<1> QED BY <1>7, <1>8 DEF Idle

\* What is new in the text comes from an edit whose passage was there.
LEMMA WithSource ==
  ASSUME NEW t, IsText(t), NEW edits, NEW Lost, NEW Brought, Settles(edits, Lost, Brought),
         NEW x \in With(t, edits).has, x \notin t.has
  PROVE  \E e \in ToSet(edits) : x \in e.gains /\ e.at \in t.has
<1>0. IsList(edits)  BY DEF Settles
<1>1. PICK n \in Nat : \E h : Steps(h, t, edits, n) /\ h[n] = With(t, edits)  BY <1>0, StepsThere
<1>2. PICK h : Steps(h, t, edits, n) /\ h[n] = With(t, edits)  BY <1>1
<1> SUFFICES ASSUME \A e \in ToSet(edits) : x \in e.gains => e.at \notin t.has  PROVE FALSE
  OBVIOUS
<1> DEFINE S == {k \in 0..n : x \notin h[k].has}
<1>h. h[0] = t /\ 0 \in 0..n  BY <1>2 DEF Steps, Making
<1>3. 0 \in S  BY <1>h
<1>4. ASSUME NEW k \in 1..n, k - 1 \in S  PROVE k \in S
  <2>1. k \in 0..n /\ k - 1 \in 0..n /\ 0 \in 0..(k - 1)  OBVIOUS
  <2>2. edits[k] \in ToSet(edits)  BY <1>2, StepFacts DEF ToSet
  <2>3. CASE Applies(h[k - 1], edits[k]) /\ x \in edits[k].gains
    <3>1. edits[k].at \in h[k - 1].has  BY <2>3 DEF Applies
    <3>2. \A f \in ToSet(edits) : edits[k].at \notin f.gains \ {f.at}  BY <2>2 DEF Settles
    <3>3. edits[k].at \in h[0].has  BY <3>1, <3>2, <2>1, <1>2, StepsBring
    <3> QED BY <3>3, <1>h, <2>2, <2>3
  <2>4. CASE Applies(h[k - 1], edits[k]) /\ x \notin edits[k].gains
    <3>1. h[k].has = (h[k - 1].has \ edits[k].drops) \cup edits[k].gains  BY <1>2, <2>4, StepFacts
    <3> QED BY <3>1, <2>1, <2>4, <1>4
  <2>5. CASE ~Applies(h[k - 1], edits[k])
    <3>1. h[k] = h[k - 1]  BY <1>2, <2>5, StepFacts
    <3> QED BY <3>1, <2>1, <1>4
  <2> QED BY <2>3, <2>4, <2>5
<1> HIDE DEF S
<1>5. \A k \in 0..n : k \in S  BY <1>3, <1>4, FromZero
<1>6. n \in 0..n  OBVIOUS
<1> QED BY <1>2, <1>5, <1>6 DEF S

-----------------------------------------------------------------------------
(* The lists of the scripts.                                               *)

\* A list of two lists has the edits of both.
LEMMA Joined ==
  ASSUME NEW S, NEW a \in Seq(S), NEW b \in Seq(S)
  PROVE  a \o b \in Seq(S) /\ ToSet(a \o b) = ToSet(a) \cup ToSet(b)
<1>1. a \o b \in Seq(S)  BY ConcatProperties
<1> DEFINE m == Len(a)
           n == Len(b)
<1>2. m \in Nat /\ n \in Nat /\ DOMAIN a = 1..m /\ DOMAIN b = 1..n  BY LenProperties
<1>3. Len(a \o b) = m + n /\ DOMAIN (a \o b) = 1..(m + n)  BY <1>1, ConcatProperties, LenProperties
<1>4. \A i \in 1..(m + n) : (a \o b)[i] = IF i <= m THEN a[i] ELSE b[i - m]
  BY ConcatProperties
<1> HIDE DEF m, n
<1>5. ASSUME NEW e \in ToSet(a \o b)  PROVE e \in ToSet(a) \cup ToSet(b)
  <2>1. PICK i \in 1..(m + n) : e = (a \o b)[i]  BY <1>3 DEF ToSet
  <2>2. CASE i <= m
    <3>1. i \in 1..m  BY <2>2
    <3> QED BY <3>1, <2>1, <2>2, <1>2, <1>4 DEF ToSet
  <2>3. CASE ~(i <= m)
    <3>1. i - m \in 1..n  BY <2>3, <1>2
    <3> QED BY <3>1, <2>1, <2>3, <1>2, <1>4 DEF ToSet
  <2> QED BY <2>2, <2>3
<1>6. ASSUME NEW e \in ToSet(a)  PROVE e \in ToSet(a \o b)
  <2>1. PICK i \in 1..m : e = a[i]  BY <1>2 DEF ToSet
  <2>2. i \in 1..(m + n) /\ i <= m  BY <1>2
  <2> QED BY <2>1, <2>2, <1>3, <1>4 DEF ToSet
<1>7. ASSUME NEW e \in ToSet(b)  PROVE e \in ToSet(a \o b)
  <2>1. PICK i \in 1..n : e = b[i]  BY <1>2 DEF ToSet
  <2> DEFINE j == i + m
  <2>2. j \in 1..(m + n) /\ ~(j <= m) /\ j - m = i  BY <1>2
  <2> HIDE DEF j
  <2>3. (a \o b)[j] = e  BY <2>1, <2>2, <1>4
  <2> QED BY <2>2, <2>3, <1>3 DEF ToSet
<1> QED BY <1>1, <1>5, <1>6, <1>7

\* An edit of such a list.
Fits(e, Lost, Brought) ==
  /\ Nothing \notin e.gains /\ e.drops \subseteq {e.at}
  /\ e.drops \ e.gains \subseteq Lost /\ e.gains \ {e.at} \subseteq Brought
  /\ (e.unless = Nothing \/ e.unless \notin Lost) /\ e.at \notin Brought /\ e.gains \cap Lost = {}

\* A list whose edits all fit leaves them alone.
LEMMA SettlesWhen ==
  ASSUME NEW S, NEW edits \in Seq(S), NEW Lost, NEW Brought, \A e \in ToSet(edits) : Fits(e, Lost, Brought)
  PROVE  Settles(edits, Lost, Brought)
<1>1. Len(edits) \in Nat /\ DOMAIN edits = 1..Len(edits)  BY LenProperties
<1>2. ASSUME NEW i \in 1..Len(edits)  PROVE IsEdit(edits[i])
  <2>1. edits[i] \in ToSet(edits)  BY <1>1 DEF ToSet
  <2>2. Fits(edits[i], Lost, Brought)  BY <2>1
  <2> QED BY <2>2 DEF IsEdit, Fits
<1> QED BY <1>1, <1>2 DEF Settles, IsList, Fits

\* The edits of short lists.
LEMMA SetOf1 ==
  ASSUME NEW S, NEW a \in S  PROVE <<a>> \in Seq(S) /\ ToSet(<<a>>) = {a}
BY DEF ToSet
LEMMA SetOf2 ==
  ASSUME NEW S, NEW a \in S, NEW b \in S  PROVE <<a, b>> \in Seq(S) /\ ToSet(<<a, b>>) = {a, b}
BY DEF ToSet
LEMMA SetOf3 ==
  ASSUME NEW S, NEW a \in S, NEW b \in S, NEW c \in S
  PROVE  <<a, b, c>> \in Seq(S) /\ ToSet(<<a, b, c>>) = {a, b, c}
BY DEF ToSet
LEMMA SetOf4 ==
  ASSUME NEW S, NEW a \in S, NEW b \in S, NEW c \in S, NEW d \in S
  PROVE  <<a, b, c, d>> \in Seq(S) /\ ToSet(<<a, b, c, d>>) = {a, b, c, d}
BY DEF ToSet

\* A replacement fits, and an insertion does, when its passages are where they
\* should be.
LEMMA SwapFits ==
  ASSUME NEW S, \A e \in S : Nothing \notin e.gains, NEW old, NEW new, Swap(old, new) \in S, NEW Lost, NEW Brought,
         old \in Lost \cup new, new \ {old} \subseteq Brought, old \notin Brought, new \cap Lost = {}
  PROVE  Fits(Swap(old, new), Lost, Brought)
<1>1. Nothing \notin Swap(old, new).gains  OBVIOUS
<1> QED BY <1>1 DEF Swap, Fits

LEMMA InsertFits ==
  ASSUME NEW S, \A e \in S : Nothing \notin e.gains, NEW marker, NEW place, NEW new,
         Insert(marker, place, new) \in S, NEW Lost, NEW Brought,
         marker = Nothing \/ marker \notin Lost,
         new \ {place} \subseteq Brought, place \notin Brought, new \cap Lost = {}
  PROVE  Fits(Insert(marker, place, new), Lost, Brought)
<1>1. Nothing \notin Insert(marker, place, new).gains  OBVIOUS
<1> QED BY <1>1 DEF Insert, Fits

Ux07Set == {Swap("field_rows", {"rows_140"}), Swap("inspector_type", {"empty_type"}),
            Swap("shell_fields", {"empty_helpers"}), Swap("compose_shell", {"viewport_empty"}),
            Swap("agent_args", {"agent_scene"}),
            Swap("inspector_cmds", {"inspector_empty_cmds", "empty_cmds", "other_fours"}),
            Swap("agent_cmds", {"agent_cmds_context"}), Swap("chrome_count_2", {"chrome_count_3"}),
            Swap("frame_args", {"frame_args_3"})}
Ux07Lost == {"field_rows", "inspector_type", "shell_fields", "compose_shell", "agent_args",
             "inspector_cmds", "agent_cmds", "chrome_count_2", "frame_args"}
Ux07Brought == {"rows_140", "empty_type", "empty_helpers", "viewport_empty", "agent_scene",
                "inspector_empty_cmds", "empty_cmds", "other_fours", "agent_cmds_context", "chrome_count_3",
                "frame_args_3"}

\* The edits of apply-ux07-li-studio.py leave one another alone.
LEMMA Ux07Settles ==
  ToSet(Ux07Edits) = Ux07Set /\ Settles(Ux07Edits, Ux07Lost, Ux07Brought)
<1>p1. /\ Ux07Constants \in Seq(Ux07Set)
      /\ ToSet(Ux07Constants) = {Swap("field_rows", {"rows_140"}), Swap("inspector_type", {"empty_type"}),
                                 Swap("shell_fields", {"empty_helpers"})}
  BY SetOf3 DEF Ux07Constants, Ux07Set
<1>p2. /\ Ux07Compose \in Seq(Ux07Set)
      /\ ToSet(Ux07Compose) = {Swap("compose_shell", {"viewport_empty"}),
                               Swap("agent_args", {"agent_scene"})}
  BY SetOf2 DEF Ux07Compose, Ux07Set
<1>p3. /\ Ux07Paint \in Seq(Ux07Set)
      /\ ToSet(Ux07Paint) = {Swap("inspector_cmds", {"inspector_empty_cmds", "empty_cmds", "other_fours"}),
                             Swap("agent_cmds", {"agent_cmds_context"}),
                             Swap("chrome_count_2", {"chrome_count_3"}),
                             Swap("frame_args", {"frame_args_3"})}
  <2>1. Swap("inspector_cmds", {"inspector_empty_cmds", "empty_cmds", "other_fours"}) \in Ux07Set  BY DEF Ux07Set
  <2>2. Swap("agent_cmds", {"agent_cmds_context"}) \in Ux07Set  BY DEF Ux07Set
  <2>3. Swap("chrome_count_2", {"chrome_count_3"}) \in Ux07Set  BY DEF Ux07Set
  <2>4. Swap("frame_args", {"frame_args_3"}) \in Ux07Set  BY DEF Ux07Set
  <2> QED BY <2>1, <2>2, <2>3, <2>4, SetOf4 DEF Ux07Paint
<1> DEFINE j2 == Ux07Constants \o Ux07Compose
           j3 == j2 \o Ux07Paint
<1>e. Ux07Edits = j3  BY DEF Ux07Edits
<1> HIDE DEF j2, j3
<1>j2. j2 \in Seq(Ux07Set) /\ ToSet(j2) = ToSet(Ux07Constants) \cup ToSet(Ux07Compose)
  BY <1>p1, <1>p2, Joined DEF j2
<1>j3. j3 \in Seq(Ux07Set) /\ ToSet(j3) = ToSet(j2) \cup ToSet(Ux07Paint)
  BY <1>j2, <1>p3, Joined DEF j3
<1>s. Ux07Edits \in Seq(Ux07Set) /\ ToSet(Ux07Edits) = Ux07Set
  BY <1>p1, <1>p2, <1>j2, <1>p3, <1>j3, <1>e DEF Ux07Set
<1>n. \A e \in Ux07Set : Nothing \notin e.gains
  BY <1>s, NothingAssumption DEF Passages, ScriptEdits
<1>1. Fits(Swap("field_rows", {"rows_140"}), Ux07Lost, Ux07Brought)
  <2>1. Swap("field_rows", {"rows_140"}) \in Ux07Set  BY DEF Ux07Set
  <2> QED BY <2>1, <1>n, SwapFits DEF Ux07Lost, Ux07Brought
<1>2. Fits(Swap("inspector_type", {"empty_type"}), Ux07Lost, Ux07Brought)
  <2>1. Swap("inspector_type", {"empty_type"}) \in Ux07Set  BY DEF Ux07Set
  <2> QED BY <2>1, <1>n, SwapFits DEF Ux07Lost, Ux07Brought
<1>3. Fits(Swap("shell_fields", {"empty_helpers"}), Ux07Lost, Ux07Brought)
  <2>1. Swap("shell_fields", {"empty_helpers"}) \in Ux07Set  BY DEF Ux07Set
  <2> QED BY <2>1, <1>n, SwapFits DEF Ux07Lost, Ux07Brought
<1>4. Fits(Swap("compose_shell", {"viewport_empty"}), Ux07Lost, Ux07Brought)
  <2>1. Swap("compose_shell", {"viewport_empty"}) \in Ux07Set  BY DEF Ux07Set
  <2> QED BY <2>1, <1>n, SwapFits DEF Ux07Lost, Ux07Brought
<1>5. Fits(Swap("agent_args", {"agent_scene"}), Ux07Lost, Ux07Brought)
  <2>1. Swap("agent_args", {"agent_scene"}) \in Ux07Set  BY DEF Ux07Set
  <2> QED BY <2>1, <1>n, SwapFits DEF Ux07Lost, Ux07Brought
<1>6. Fits(Swap("inspector_cmds", {"inspector_empty_cmds", "empty_cmds", "other_fours"}), Ux07Lost, Ux07Brought)
  <2>1. Swap("inspector_cmds", {"inspector_empty_cmds", "empty_cmds", "other_fours"}) \in Ux07Set  BY DEF Ux07Set
  <2> QED BY <2>1, <1>n, SwapFits DEF Ux07Lost, Ux07Brought
<1>7. Fits(Swap("agent_cmds", {"agent_cmds_context"}), Ux07Lost, Ux07Brought)
  <2>1. Swap("agent_cmds", {"agent_cmds_context"}) \in Ux07Set  BY DEF Ux07Set
  <2> QED BY <2>1, <1>n, SwapFits DEF Ux07Lost, Ux07Brought
<1>8. Fits(Swap("chrome_count_2", {"chrome_count_3"}), Ux07Lost, Ux07Brought)
  <2>1. Swap("chrome_count_2", {"chrome_count_3"}) \in Ux07Set  BY DEF Ux07Set
  <2> QED BY <2>1, <1>n, SwapFits DEF Ux07Lost, Ux07Brought
<1>9. Fits(Swap("frame_args", {"frame_args_3"}), Ux07Lost, Ux07Brought)
  <2>1. Swap("frame_args", {"frame_args_3"}) \in Ux07Set  BY DEF Ux07Set
  <2> QED BY <2>1, <1>n, SwapFits DEF Ux07Lost, Ux07Brought
<1>f. \A e \in Ux07Set : Fits(e, Ux07Lost, Ux07Brought)
  BY <1>1, <1>2, <1>3, <1>4, <1>5, <1>6, <1>7, <1>8, <1>9 DEF Ux07Set
<1> QED BY <1>s, <1>f, SettlesWhen

FinishSet == {Insert("compose_shell_palette", "compose_shell_agent", {"compose_shell_palette"}),
              Insert("shell_config", "shell_chrome_of_agent", {"shell_config"}),
              Swap("chrome_count_3", {"chrome_count_profile"})}
FinishLost == {"chrome_count_3"}
FinishBrought == {"compose_shell_palette", "shell_config", "chrome_count_profile"}

\* Those of finish-ux04-ux07.py.
LEMMA FinishSettles ==
  ToSet(FinishEdits) = FinishSet /\ Settles(FinishEdits, FinishLost, FinishBrought)
<1>p1. /\ FinishEdits \in Seq(FinishSet)
      /\ ToSet(FinishEdits) = {
                               Insert("compose_shell_palette", "compose_shell_agent", {"compose_shell_palette"}),
                               Insert("shell_config", "shell_chrome_of_agent", {"shell_config"}),
                               Swap("chrome_count_3", {"chrome_count_profile"})}
  BY SetOf3 DEF FinishEdits, FinishSet
<1>s. FinishEdits \in Seq(FinishSet) /\ ToSet(FinishEdits) = FinishSet
  BY <1>p1 DEF FinishSet
<1>n. \A e \in FinishSet : Nothing \notin e.gains
  BY <1>s, NothingAssumption DEF Passages, ScriptEdits
<1>1. Fits(Insert("compose_shell_palette", "compose_shell_agent", {"compose_shell_palette"}), FinishLost, FinishBrought)
  <2>1. Insert("compose_shell_palette", "compose_shell_agent", {"compose_shell_palette"}) \in FinishSet  BY DEF FinishSet
  <2> QED BY <2>1, <1>n, InsertFits DEF FinishLost, FinishBrought
<1>2. Fits(Insert("shell_config", "shell_chrome_of_agent", {"shell_config"}), FinishLost, FinishBrought)
  <2>1. Insert("shell_config", "shell_chrome_of_agent", {"shell_config"}) \in FinishSet  BY DEF FinishSet
  <2> QED BY <2>1, <1>n, InsertFits DEF FinishLost, FinishBrought
<1>3. Fits(Swap("chrome_count_3", {"chrome_count_profile"}), FinishLost, FinishBrought)
  <2>1. Swap("chrome_count_3", {"chrome_count_profile"}) \in FinishSet  BY DEF FinishSet
  <2> QED BY <2>1, <1>n, SwapFits DEF FinishLost, FinishBrought
<1>f. \A e \in FinishSet : Fits(e, FinishLost, FinishBrought)
  BY <1>1, <1>2, <1>3 DEF FinishSet
<1> QED BY <1>s, <1>f, SettlesWhen

Ux08Set == {Insert(Nothing, "profile_extern", {"error_externs"}),
            Swap("rows_140", {"err_gpu", "error_wrappers"}), Insert(Nothing, "empty_type", {"error_type"}),
            Insert(Nothing, "empty_helpers", {"error_field"}),
            Insert(Nothing, "empty_shell", {"error_composed"}),
            Swap("chrome_count_context", {"chrome_count_error"})}
Ux08Lost == {"rows_140", "chrome_count_context"}
Ux08Brought == {"error_externs", "err_gpu", "error_wrappers", "error_type", "error_field", "error_composed",
                "chrome_count_error"}

\* Those of apply-ux08-viewport-error.py.
LEMMA Ux08Settles ==
  ToSet(Ux08Edits) = Ux08Set /\ Settles(Ux08Edits, Ux08Lost, Ux08Brought)
<1>p1. /\ Ux08Errors \in Seq(Ux08Set)
      /\ ToSet(Ux08Errors) = {Insert(Nothing, "profile_extern", {"error_externs"}),
                              Swap("rows_140", {"err_gpu", "error_wrappers"}),
                              Insert(Nothing, "empty_type", {"error_type"})}
  BY SetOf3 DEF Ux08Errors, Ux08Set
<1>p2. /\ Ux08Compose \in Seq(Ux08Set)
      /\ ToSet(Ux08Compose) = {Insert(Nothing, "empty_helpers", {"error_field"}),
                               Insert(Nothing, "empty_shell", {"error_composed"})}
  BY SetOf2 DEF Ux08Compose, Ux08Set
<1>p3. /\ Ux08Counts \in Seq(Ux08Set)
      /\ ToSet(Ux08Counts) = {Swap("chrome_count_context", {"chrome_count_error"})}
  BY SetOf1 DEF Ux08Counts, Ux08Set
<1> DEFINE j2 == Ux08Errors \o Ux08Compose
           j3 == j2 \o Ux08Counts
<1>e. Ux08Edits = j3  BY DEF Ux08Edits
<1> HIDE DEF j2, j3
<1>j2. j2 \in Seq(Ux08Set) /\ ToSet(j2) = ToSet(Ux08Errors) \cup ToSet(Ux08Compose)
  BY <1>p1, <1>p2, Joined DEF j2
<1>j3. j3 \in Seq(Ux08Set) /\ ToSet(j3) = ToSet(j2) \cup ToSet(Ux08Counts)
  BY <1>j2, <1>p3, Joined DEF j3
<1>s. Ux08Edits \in Seq(Ux08Set) /\ ToSet(Ux08Edits) = Ux08Set
  BY <1>p1, <1>p2, <1>j2, <1>p3, <1>j3, <1>e DEF Ux08Set
<1>n. \A e \in Ux08Set : Nothing \notin e.gains
  BY <1>s, NothingAssumption DEF Passages, ScriptEdits
<1>1. Fits(Insert(Nothing, "profile_extern", {"error_externs"}), Ux08Lost, Ux08Brought)
  <2>1. Insert(Nothing, "profile_extern", {"error_externs"}) \in Ux08Set  BY DEF Ux08Set
  <2> QED BY <2>1, <1>n, InsertFits DEF Ux08Lost, Ux08Brought
<1>2. Fits(Swap("rows_140", {"err_gpu", "error_wrappers"}), Ux08Lost, Ux08Brought)
  <2>1. Swap("rows_140", {"err_gpu", "error_wrappers"}) \in Ux08Set  BY DEF Ux08Set
  <2> QED BY <2>1, <1>n, SwapFits DEF Ux08Lost, Ux08Brought
<1>3. Fits(Insert(Nothing, "empty_type", {"error_type"}), Ux08Lost, Ux08Brought)
  <2>1. Insert(Nothing, "empty_type", {"error_type"}) \in Ux08Set  BY DEF Ux08Set
  <2> QED BY <2>1, <1>n, InsertFits DEF Ux08Lost, Ux08Brought
<1>4. Fits(Insert(Nothing, "empty_helpers", {"error_field"}), Ux08Lost, Ux08Brought)
  <2>1. Insert(Nothing, "empty_helpers", {"error_field"}) \in Ux08Set  BY DEF Ux08Set
  <2> QED BY <2>1, <1>n, InsertFits DEF Ux08Lost, Ux08Brought
<1>5. Fits(Insert(Nothing, "empty_shell", {"error_composed"}), Ux08Lost, Ux08Brought)
  <2>1. Insert(Nothing, "empty_shell", {"error_composed"}) \in Ux08Set  BY DEF Ux08Set
  <2> QED BY <2>1, <1>n, InsertFits DEF Ux08Lost, Ux08Brought
<1>6. Fits(Swap("chrome_count_context", {"chrome_count_error"}), Ux08Lost, Ux08Brought)
  <2>1. Swap("chrome_count_context", {"chrome_count_error"}) \in Ux08Set  BY DEF Ux08Set
  <2> QED BY <2>1, <1>n, SwapFits DEF Ux08Lost, Ux08Brought
<1>f. \A e \in Ux08Set : Fits(e, Ux08Lost, Ux08Brought)
  BY <1>1, <1>2, <1>3, <1>4, <1>5, <1>6 DEF Ux08Set
<1> QED BY <1>s, <1>f, SettlesWhen

FixSet == {Swap("error_externs", {"error_externs_specified"}),
           Swap("profile_extern", {"profile_extern_raises"}),
           Insert("timeline_externs", "profile_extern", {"timeline_externs"}),
           Insert("timeline_wrappers", "timeline_tick", {"timeline_wrappers"}),
           Swap("profile_wrappers", {"profile_wrappers_raise"}),
           Swap("error_wrappers", {"error_wrappers_raise"}), Swap("chip_of_rect", {"chip_of_floats"}),
           Swap("agent_locals", {"agent_copies"}), Swap("slot_locals", {"slot_copies"}),
           Swap("layout_fields", {"layout_copies"})}
FixLost == {"error_externs", "profile_extern", "profile_wrappers", "error_wrappers", "chip_of_rect",
            "agent_locals", "slot_locals", "layout_fields"}
FixBrought == {"error_externs_specified", "profile_extern_raises", "timeline_externs", "timeline_wrappers",
               "profile_wrappers_raise", "error_wrappers_raise", "chip_of_floats", "agent_copies",
               "slot_copies", "layout_copies"}

\* Those of fix-studio-lib-check.py.
LEMMA FixSettles ==
  ToSet(FixEdits) = FixSet /\ Settles(FixEdits, FixLost, FixBrought)
<1>p1. /\ FixExterns \in Seq(FixSet)
      /\ ToSet(FixExterns) = {Swap("error_externs", {"error_externs_specified"}),
                              Swap("profile_extern", {"profile_extern_raises"})}
  BY SetOf2 DEF FixExterns, FixSet
<1>p2. /\ FixTimeline \in Seq(FixSet)
      /\ ToSet(FixTimeline) = {Insert("timeline_externs", "profile_extern", {"timeline_externs"}),
                               Insert("timeline_wrappers", "timeline_tick", {"timeline_wrappers"})}
  BY SetOf2 DEF FixTimeline, FixSet
<1>p3. /\ FixEffects \in Seq(FixSet)
      /\ ToSet(FixEffects) = {Swap("profile_wrappers", {"profile_wrappers_raise"}),
                              Swap("error_wrappers", {"error_wrappers_raise"})}
  BY SetOf2 DEF FixEffects, FixSet
<1>p4. /\ FixProfile \in Seq(FixSet)
      /\ ToSet(FixProfile) = {Swap("chip_of_rect", {"chip_of_floats"})}
  BY SetOf1 DEF FixProfile, FixSet
<1>p5. /\ FixAgent \in Seq(FixSet)
      /\ ToSet(FixAgent) = {Swap("agent_locals", {"agent_copies"})}
  BY SetOf1 DEF FixAgent, FixSet
<1>p6. /\ FixSlots \in Seq(FixSet)
      /\ ToSet(FixSlots) = {Swap("slot_locals", {"slot_copies"})}
  BY SetOf1 DEF FixSlots, FixSet
<1>p7. /\ FixLayout \in Seq(FixSet)
      /\ ToSet(FixLayout) = {Swap("layout_fields", {"layout_copies"})}
  BY SetOf1 DEF FixLayout, FixSet
<1> DEFINE j2 == FixExterns \o FixTimeline
           j3 == j2 \o FixEffects
           j4 == j3 \o FixProfile
           j5 == j4 \o FixAgent
           j6 == j5 \o FixSlots
           j7 == j6 \o FixLayout
<1>e. FixEdits = j7  BY DEF FixEdits
<1> HIDE DEF j2, j3, j4, j5, j6, j7
<1>j2. j2 \in Seq(FixSet) /\ ToSet(j2) = ToSet(FixExterns) \cup ToSet(FixTimeline)
  BY <1>p1, <1>p2, Joined DEF j2
<1>j3. j3 \in Seq(FixSet) /\ ToSet(j3) = ToSet(j2) \cup ToSet(FixEffects)
  BY <1>j2, <1>p3, Joined DEF j3
<1>j4. j4 \in Seq(FixSet) /\ ToSet(j4) = ToSet(j3) \cup ToSet(FixProfile)
  BY <1>j3, <1>p4, Joined DEF j4
<1>j5. j5 \in Seq(FixSet) /\ ToSet(j5) = ToSet(j4) \cup ToSet(FixAgent)
  BY <1>j4, <1>p5, Joined DEF j5
<1>j6. j6 \in Seq(FixSet) /\ ToSet(j6) = ToSet(j5) \cup ToSet(FixSlots)
  BY <1>j5, <1>p6, Joined DEF j6
<1>j7. j7 \in Seq(FixSet) /\ ToSet(j7) = ToSet(j6) \cup ToSet(FixLayout)
  BY <1>j6, <1>p7, Joined DEF j7
<1>s. FixEdits \in Seq(FixSet) /\ ToSet(FixEdits) = FixSet
  BY <1>p1, <1>p2, <1>j2, <1>p3, <1>j3, <1>p4, <1>j4, <1>p5, <1>j5, <1>p6, <1>j6, <1>p7, <1>j7, <1>e DEF FixSet
<1>n. \A e \in FixSet : Nothing \notin e.gains
  BY <1>s, NothingAssumption DEF Passages, ScriptEdits
<1>1. Fits(Swap("error_externs", {"error_externs_specified"}), FixLost, FixBrought)
  <2>1. Swap("error_externs", {"error_externs_specified"}) \in FixSet  BY DEF FixSet
  <2> QED BY <2>1, <1>n, SwapFits DEF FixLost, FixBrought
<1>2. Fits(Swap("profile_extern", {"profile_extern_raises"}), FixLost, FixBrought)
  <2>1. Swap("profile_extern", {"profile_extern_raises"}) \in FixSet  BY DEF FixSet
  <2> QED BY <2>1, <1>n, SwapFits DEF FixLost, FixBrought
<1>3. Fits(Insert("timeline_externs", "profile_extern", {"timeline_externs"}), FixLost, FixBrought)
  <2>1. Insert("timeline_externs", "profile_extern", {"timeline_externs"}) \in FixSet  BY DEF FixSet
  <2> QED BY <2>1, <1>n, InsertFits DEF FixLost, FixBrought
<1>4. Fits(Insert("timeline_wrappers", "timeline_tick", {"timeline_wrappers"}), FixLost, FixBrought)
  <2>1. Insert("timeline_wrappers", "timeline_tick", {"timeline_wrappers"}) \in FixSet  BY DEF FixSet
  <2> QED BY <2>1, <1>n, InsertFits DEF FixLost, FixBrought
<1>5. Fits(Swap("profile_wrappers", {"profile_wrappers_raise"}), FixLost, FixBrought)
  <2>1. Swap("profile_wrappers", {"profile_wrappers_raise"}) \in FixSet  BY DEF FixSet
  <2> QED BY <2>1, <1>n, SwapFits DEF FixLost, FixBrought
<1>6. Fits(Swap("error_wrappers", {"error_wrappers_raise"}), FixLost, FixBrought)
  <2>1. Swap("error_wrappers", {"error_wrappers_raise"}) \in FixSet  BY DEF FixSet
  <2> QED BY <2>1, <1>n, SwapFits DEF FixLost, FixBrought
<1>7. Fits(Swap("chip_of_rect", {"chip_of_floats"}), FixLost, FixBrought)
  <2>1. Swap("chip_of_rect", {"chip_of_floats"}) \in FixSet  BY DEF FixSet
  <2> QED BY <2>1, <1>n, SwapFits DEF FixLost, FixBrought
<1>8. Fits(Swap("agent_locals", {"agent_copies"}), FixLost, FixBrought)
  <2>1. Swap("agent_locals", {"agent_copies"}) \in FixSet  BY DEF FixSet
  <2> QED BY <2>1, <1>n, SwapFits DEF FixLost, FixBrought
<1>9. Fits(Swap("slot_locals", {"slot_copies"}), FixLost, FixBrought)
  <2>1. Swap("slot_locals", {"slot_copies"}) \in FixSet  BY DEF FixSet
  <2> QED BY <2>1, <1>n, SwapFits DEF FixLost, FixBrought
<1>10. Fits(Swap("layout_fields", {"layout_copies"}), FixLost, FixBrought)
  <2>1. Swap("layout_fields", {"layout_copies"}) \in FixSet  BY DEF FixSet
  <2> QED BY <2>1, <1>n, SwapFits DEF FixLost, FixBrought
<1>f. \A e \in FixSet : Fits(e, FixLost, FixBrought)
  BY <1>1, <1>2, <1>3, <1>4, <1>5, <1>6, <1>7, <1>8, <1>9, <1>10 DEF FixSet
<1> QED BY <1>s, <1>f, SettlesWhen

InvokeSet == {Insert("send_button", "retry_hint", {"send_button"}),
              Swap("tool_request_field", {"invoke_fields"}), InvokeFunctions,
              Swap("agent_copies", {"agent_copies", "agent_bound_9"}),
              Insert("invoke_counted", "agent_copies", {"invoke_counted", "counts_invoke"}),
              Swap("agent_composed", {"invoke_composed"}),
              Insert("invoke_painted", "agent_paint", {"invoke_painted", "paints_invoke"}),
              Insert("invoke_checked", "agent_check", {"invoke_checked"})}
InvokeLost == {"tool_request_field", "agent_composed"}
InvokeBrought == {"send_button", "invoke_fields", "invoke_visible", "invoke_counted", "invoke_painted",
                  "agent_bound_9", "counts_invoke", "invoke_composed", "paints_invoke", "invoke_checked"}

\* Those of patch-studio-agent-invoke-ux11.py.
LEMMA InvokeSettles ==
  ToSet(InvokeEdits) = InvokeSet /\ Settles(InvokeEdits, InvokeLost, InvokeBrought)
<1>p1. /\ InvokeEdits \in Seq(InvokeSet)
      /\ ToSet(InvokeEdits) = {Insert("send_button", "retry_hint", {"send_button"}),
                               Swap("tool_request_field", {"invoke_fields"}), InvokeFunctions,
                               Swap("agent_copies", {"agent_copies", "agent_bound_9"}),
                               Insert("invoke_counted", "agent_copies", {"invoke_counted", "counts_invoke"}),
                               Swap("agent_composed", {"invoke_composed"}),
                               Insert("invoke_painted", "agent_paint", {"invoke_painted", "paints_invoke"}),
                               Insert("invoke_checked", "agent_check", {"invoke_checked"})}
  <2> DEFINE e1 == Insert("send_button", "retry_hint", {"send_button"})
             e2 == Swap("tool_request_field", {"invoke_fields"})
             e3 == InvokeFunctions
             e4 == Swap("agent_copies", {"agent_copies", "agent_bound_9"})
             e5 == Insert("invoke_counted", "agent_copies", {"invoke_counted", "counts_invoke"})
             e6 == Swap("agent_composed", {"invoke_composed"})
             e7 == Insert("invoke_painted", "agent_paint", {"invoke_painted", "paints_invoke"})
             e8 == Insert("invoke_checked", "agent_check", {"invoke_checked"})
  <2>1. e1 \in InvokeSet  BY DEF InvokeSet
  <2>2. e2 \in InvokeSet  BY DEF InvokeSet
  <2>3. e3 \in InvokeSet  BY DEF InvokeSet
  <2>4. e4 \in InvokeSet  BY DEF InvokeSet
  <2>5. e5 \in InvokeSet  BY DEF InvokeSet
  <2>6. e6 \in InvokeSet  BY DEF InvokeSet
  <2>7. e7 \in InvokeSet  BY DEF InvokeSet
  <2>8. e8 \in InvokeSet  BY DEF InvokeSet
  <2>9. InvokeEdits = <<e1, e2, e3, e4, e5, e6, e7, e8>>  BY DEF InvokeEdits
  <2> HIDE DEF e1, e2, e3, e4, e5, e6, e7, e8
  <2>10. InvokeEdits \in Seq(InvokeSet) /\ ToSet(InvokeEdits) = {e1, e2, e3, e4, e5, e6, e7, e8}
    BY <2>1, <2>2, <2>3, <2>4, <2>5, <2>6, <2>7, <2>8, <2>9 DEF ToSet
  <2> QED BY <2>10 DEF e1, e2, e3, e4, e5, e6, e7, e8
<1>s. InvokeEdits \in Seq(InvokeSet) /\ ToSet(InvokeEdits) = InvokeSet
  BY <1>p1 DEF InvokeSet
<1>n. \A e \in InvokeSet : Nothing \notin e.gains
  BY <1>s, NothingAssumption DEF Passages, ScriptEdits
<1>1. Fits(Insert("send_button", "retry_hint", {"send_button"}), InvokeLost, InvokeBrought)
  <2>1. Insert("send_button", "retry_hint", {"send_button"}) \in InvokeSet  BY DEF InvokeSet
  <2> QED BY <2>1, <1>n, InsertFits DEF InvokeLost, InvokeBrought
<1>2. Fits(Swap("tool_request_field", {"invoke_fields"}), InvokeLost, InvokeBrought)
  <2>1. Swap("tool_request_field", {"invoke_fields"}) \in InvokeSet  BY DEF InvokeSet
  <2> QED BY <2>1, <1>n, SwapFits DEF InvokeLost, InvokeBrought
<1>3. Fits(InvokeFunctions, InvokeLost, InvokeBrought)
  <2>1. InvokeFunctions \in InvokeSet  BY DEF InvokeSet
  <2> QED BY <2>1, <1>n, InsertFits DEF InvokeLost, InvokeBrought, InvokeFunctions
<1>4. Fits(Swap("agent_copies", {"agent_copies", "agent_bound_9"}), InvokeLost, InvokeBrought)
  <2>1. Swap("agent_copies", {"agent_copies", "agent_bound_9"}) \in InvokeSet  BY DEF InvokeSet
  <2> QED BY <2>1, <1>n, SwapFits DEF InvokeLost, InvokeBrought
<1>5. Fits(Insert("invoke_counted", "agent_copies", {"invoke_counted", "counts_invoke"}), InvokeLost, InvokeBrought)
  <2>1. Insert("invoke_counted", "agent_copies", {"invoke_counted", "counts_invoke"}) \in InvokeSet  BY DEF InvokeSet
  <2> QED BY <2>1, <1>n, InsertFits DEF InvokeLost, InvokeBrought
<1>6. Fits(Swap("agent_composed", {"invoke_composed"}), InvokeLost, InvokeBrought)
  <2>1. Swap("agent_composed", {"invoke_composed"}) \in InvokeSet  BY DEF InvokeSet
  <2> QED BY <2>1, <1>n, SwapFits DEF InvokeLost, InvokeBrought
<1>7. Fits(Insert("invoke_painted", "agent_paint", {"invoke_painted", "paints_invoke"}), InvokeLost, InvokeBrought)
  <2>1. Insert("invoke_painted", "agent_paint", {"invoke_painted", "paints_invoke"}) \in InvokeSet  BY DEF InvokeSet
  <2> QED BY <2>1, <1>n, InsertFits DEF InvokeLost, InvokeBrought
<1>8. Fits(Insert("invoke_checked", "agent_check", {"invoke_checked"}), InvokeLost, InvokeBrought)
  <2>1. Insert("invoke_checked", "agent_check", {"invoke_checked"}) \in InvokeSet  BY DEF InvokeSet
  <2> QED BY <2>1, <1>n, InsertFits DEF InvokeLost, InvokeBrought
<1>f. \A e \in InvokeSet : Fits(e, InvokeLost, InvokeBrought)
  BY <1>1, <1>2, <1>3, <1>4, <1>5, <1>6, <1>7, <1>8 DEF InvokeSet
<1> QED BY <1>s, <1>f, SettlesWhen

-----------------------------------------------------------------------------
(* What each script makes of a text.                                       *)

LEMMA TextMade ==
  ASSUME NEW has, Nothing \notin has, NEW shell, NEW painters \in Nat, NEW version,
         NEW u, u = Text(has, shell, painters, version)
  PROVE  IsText(u) /\ u.has = has /\ u.shell = shell /\ u.painters = painters /\ u.version = version
BY DEF IsText, Text

\* An idle replacement has no passage left to replace.
LEMMA SwapGone ==
  ASSUME NEW w, IsText(w), NEW old, NEW new, old \notin new, Idle(w, Swap(old, new))
  PROVE  old \notin w.has
BY DEF IsText, Idle, Swap

\* apply-ux07: what it writes has both of its marks, so that a second run gives
\* up; it shows no errors yet and paints the viewport once.
LEMMA Ux07Makes ==
  ASSUME NEW t, IsText(t), Staged(t), NEW u, u = Ux07(t), u # Nothing
  PROVE  /\ IsText(u) /\ Staged(u) /\ Ux07(u) = u /\ "field_rows" \notin u.has
         /\ u = t \/ ("err_gpu" \notin u.has /\ u.painters = 1)
         /\ u.version = t.version
<1>1. CASE {"viewport_empty", "inspector_empty_cmds"} \subseteq t.has
  <2>1. u = t  BY <1>1 DEF Ux07
  <2>2. "field_rows" \notin t.has  BY <1>1 DEF Staged
  <2> QED BY <2>1, <2>2
<1>2. CASE ~({"viewport_empty", "inspector_empty_cmds"} \subseteq t.has)
  <2>1. {"field_rows", "compose_shell"} \subseteq t.has /\ u = Ux07PaintShell(With(t, Ux07Edits))
    BY <1>2 DEF Ux07
  <2>2. /\ {"inspector_cmds", "profile_extern"} \subseteq t.has
        /\ {"viewport_empty", "rows_140", "err_gpu"} \cap t.has = {}
        /\ t.shell = "05" /\ t.painters = 0
    BY <2>1 DEF Staged
  <2> DEFINE w == With(t, Ux07Edits)
  <2>3. Settles(Ux07Edits, Ux07Lost, Ux07Brought) /\ ToSet(Ux07Edits) = Ux07Set  BY Ux07Settles
  <2>4. /\ IsText(w) /\ w.shell = "05" /\ w.painters = 0 /\ w.version = t.version
        /\ t.has \ Ux07Lost \subseteq w.has /\ w.has \subseteq t.has \cup Ux07Brought
        /\ \A e \in Ux07Set : Idle(w, e)
    BY <2>2, <2>3, WithSettles
  <2>5. "viewport_empty" \in w.has
    <3> DEFINE e == Swap("compose_shell", {"viewport_empty"})
    <3>1. e \in ToSet(Ux07Edits)  BY <2>3 DEF Ux07Set
    <3>2. e.at = "compose_shell" /\ e.unless = Nothing /\ e.gains = {"viewport_empty"}  BY DEF Swap
    <3>3. \A f \in Ux07Set : "compose_shell" \in f.drops \ f.gains => "viewport_empty" \in f.gains
      BY DEF Ux07Set, Swap
    <3>4. Nothing \notin w.has  BY <2>4 DEF IsText
    <3> HIDE DEF e, w
    <3>5. \A f \in ToSet(Ux07Edits) : e.at \in f.drops \ f.gains => e.gains \subseteq f.gains
      BY <3>2, <3>3, <2>3
    <3>6. e.gains \subseteq w.has  BY <3>1, <3>2, <3>4, <3>5, <2>1, <2>3, WithTakes DEF w
    <3> QED BY <3>2, <3>6
  <2>6. "inspector_empty_cmds" \in w.has
    <3> DEFINE e == Swap("inspector_cmds", {"inspector_empty_cmds", "empty_cmds", "other_fours"})
    <3>1. e \in ToSet(Ux07Edits)  BY <2>3 DEF Ux07Set
    <3>2. e.at = "inspector_cmds" /\ e.unless = Nothing
          /\ e.gains = {"inspector_empty_cmds", "empty_cmds", "other_fours"}  BY DEF Swap
    <3>3. \A f \in Ux07Set : "inspector_cmds" \in f.drops \ f.gains
                             => {"inspector_empty_cmds", "empty_cmds", "other_fours"} \subseteq f.gains
      BY DEF Ux07Set, Swap
    <3>4. Nothing \notin w.has  BY <2>4 DEF IsText
    <3> HIDE DEF e, w
    <3>5. \A f \in ToSet(Ux07Edits) : e.at \in f.drops \ f.gains => e.gains \subseteq f.gains
      BY <3>2, <3>3, <2>3
    <3>6. e.gains \subseteq w.has  BY <3>1, <3>2, <3>4, <3>5, <2>2, <2>3, WithTakes DEF w
    <3> QED BY <3>2, <3>6
  <2>7. "field_rows" \notin w.has
    <3>1. Swap("field_rows", {"rows_140"}) \in Ux07Set /\ "field_rows" \notin {"rows_140"}  BY DEF Ux07Set
    <3> QED BY <3>1, <2>4, SwapGone
  <2>8. "profile_extern" \in w.has /\ "err_gpu" \notin w.has  BY <2>2, <2>4 DEF Ux07Lost, Ux07Brought
  <2>9. u = [w EXCEPT !.shell = "07", !.painters = 1]  BY <2>1, <2>4 DEF Ux07PaintShell
  <2> HIDE DEF w
  <2>10. u = Text(w.has, "07", 1, w.version) /\ Nothing \notin w.has  BY <2>4, <2>9 DEF IsText, Text
  <2>11. IsText(u) /\ u.has = w.has /\ u.shell = "07" /\ u.painters = 1 /\ u.version = w.version  BY <2>10, TextMade
  <2>12. Staged(u)  BY <2>7, <2>8, <2>11 DEF Staged
  <2>13. Ux07(u) = u  BY <2>5, <2>6, <2>11 DEF Ux07
  <2> QED BY <2>4, <2>7, <2>8, <2>11, <2>12, <2>13
<1> QED BY <1>1, <1>2

\* finish: a text of the stage that comes after ux07.
LEMMA FinishMakes ==
  ASSUME NEW t, IsText(t), Staged(t), NEW u, u = Finish(t), u # Nothing
  PROVE  IsText(u) /\ Staged(u) /\ u.version = 4
<1> DEFINE begun == IF {"viewport_empty", "inspector_empty_cmds"} \subseteq t.has THEN t ELSE Ux07(t)
<1>1. begun # Nothing /\ u = [FinishPaintShell(With(begun, FinishEdits)) EXCEPT !.version = 4]  BY DEF Finish
<1>2. IsText(begun) /\ Staged(begun) /\ "field_rows" \notin begun.has
  <2>1. CASE {"viewport_empty", "inspector_empty_cmds"} \subseteq t.has  BY <2>1 DEF Staged
  <2>2. CASE ~({"viewport_empty", "inspector_empty_cmds"} \subseteq t.has)
    <3>1. begun = Ux07(t)  BY <2>2
    <3> QED BY <3>1, <1>1, Ux07Makes
  <2> QED BY <2>1, <2>2
<1> HIDE DEF begun
<1> DEFINE w == With(begun, FinishEdits)
<1>3. /\ IsText(w) /\ w.shell = begun.shell
      /\ begun.has \ FinishLost \subseteq w.has /\ w.has \subseteq begun.has \cup FinishBrought
  BY <1>2, FinishSettles, WithSettles
<1>4. u = [FinishPaintShell(w) EXCEPT !.version = 4]  BY <1>1
<1> HIDE DEF w
<1>5. \A x \in {"field_rows", "rows_140", "err_gpu", "profile_extern", "error_externs", "error_externs_specified",
               "error_overlay"} : x \in w.has <=> x \in begun.has
  BY <1>3 DEF FinishLost, FinishBrought
<1>6. Nothing \notin w.has /\ w.painters \in Nat /\ w = Text(w.has, w.shell, w.painters, w.version)  BY <1>3 DEF IsText
<1>7. CASE w.shell = "none"
  <2>1. u = Text(w.has, "none", w.painters, 4)  BY <1>4, <1>6, <1>7 DEF FinishPaintShell, Text
  <2>2. IsText(u) /\ u.has = w.has /\ u.shell = "none" /\ u.version = 4  BY <2>1, <1>6, TextMade
  <2>3. "rows_140" \notin begun.has  BY <1>2, <1>3, <1>7 DEF Staged
  <2>4. Staged(u)  BY <2>2, <2>3, <1>2, <1>5 DEF Staged, ErrorsDeclared
  <2> QED BY <2>2, <2>4
<1>8. CASE w.shell # "none"
  <2>1. u = Text(w.has, "07", w.painters + 1, 4)  BY <1>4, <1>6, <1>8 DEF FinishPaintShell, Text
  <2>2. IsText(u) /\ u.has = w.has /\ u.shell = "07" /\ u.version = 4  BY <2>1, <1>6, TextMade
  <2>4. Staged(u)  BY <2>2, <1>2, <1>5 DEF Staged, ErrorsDeclared
  <2> QED BY <2>2, <2>4
<1> QED BY <1>7, <1>8

\* apply-ux08: what it writes has its mark; what the errors call is declared,
\* and they are shown unless it came upon the shell that ux07 paints.
LEMMA Ux08Makes ==
  ASSUME NEW t, IsText(t), Staged(t), NEW u, u = Ux08(t), u # Nothing
  PROVE  /\ IsText(u) /\ Staged(u) /\ Ux08(u) = u
         /\ u = t \/ t.shell = "07" \/ ErrorsShown(u)
         /\ u.version = t.version \/ u.version = 5
<1> DEFINE w == With(t, Ux08Edits)
           painted == Ux08Paint(w)
           patched == Ux08PaintShell(painted)
           whole == [patched EXCEPT !.has = @ \cup {"error_overlay"}]
<1>0. CASE "err_gpu" \in t.has
  <2>1. u = t  BY <1>0 DEF Ux08
  <2> QED BY <2>1
<1>1. CASE "err_gpu" \notin t.has
  <2>1. "err_gpu" \in patched.has /\ u = Ux08Version(whole)  BY <1>1 DEF Ux08
  <2>2. Settles(Ux08Edits, Ux08Lost, Ux08Brought) /\ ToSet(Ux08Edits) = Ux08Set  BY Ux08Settles
  <2>3. /\ IsText(w) /\ w.shell = t.shell /\ w.version = t.version
        /\ t.has \ Ux08Lost \subseteq w.has /\ w.has \subseteq t.has \cup Ux08Brought
        /\ \A e \in Ux08Set : Idle(w, e)
    BY <2>2, WithSettles
  <2>4. Nothing \notin w.has /\ w.painters \in Nat /\ w = Text(w.has, w.shell, w.painters, w.version)
    BY <2>3 DEF IsText
  <2>5. Nothing \notin {"paint_error"} /\ Nothing \notin {"error_overlay"}  BY NothingAssumption DEF Passages
  <2>w. w = With(t, Ux08Edits)  OBVIOUS
  <2> HIDE DEF w
  <2>6. /\ IsText(painted) /\ painted.shell = w.shell /\ painted.version = w.version
        /\ w.has \subseteq painted.has /\ painted.has \subseteq w.has \cup {"paint_error"}
        /\ "empty_cmds" \in w.has => "paint_error" \in painted.has
    <3>1. CASE "empty_cmds" \notin w.has
      <4>1. painted = w  BY <3>1 DEF Ux08Paint
      <4> QED BY <4>1, <3>1, <2>3
    <3>2. CASE "empty_cmds" \in w.has
      <4>1. painted = Text(w.has \cup {"paint_error"}, w.shell, w.painters + 1, w.version)
        BY <3>2, <2>4 DEF Ux08Paint, Text
      <4>2. Nothing \notin w.has \cup {"paint_error"} /\ w.painters + 1 \in Nat  BY <2>4, <2>5
      <4>3. /\ IsText(painted) /\ painted.has = w.has \cup {"paint_error"} /\ painted.shell = w.shell
            /\ painted.version = w.version
        BY <4>1, <4>2, TextMade
      <4> QED BY <4>3
    <3> QED BY <3>1, <3>2
  <2> HIDE DEF painted
  <2>7. /\ IsText(patched) /\ patched.has = painted.has /\ patched.version = painted.version
        /\ patched.shell = IF w.shell = "head" THEN "08" ELSE w.shell
    <3>1. painted = Text(painted.has, painted.shell, painted.painters, painted.version)
          /\ Nothing \notin painted.has /\ painted.painters \in Nat  BY <2>6 DEF IsText
    <3>2. patched = Text(painted.has, IF w.shell = "head" THEN "08" ELSE w.shell, painted.painters, painted.version)
      BY <3>1, <2>6 DEF Ux08PaintShell, Text
    <3> QED BY <3>1, <3>2, TextMade
  <2> HIDE DEF patched
  <2>8. /\ IsText(whole) /\ whole.has = patched.has \cup {"error_overlay"} /\ whole.shell = patched.shell
        /\ whole.version = patched.version
    <3>1. patched = Text(patched.has, patched.shell, patched.painters, patched.version)
          /\ Nothing \notin patched.has /\ patched.painters \in Nat  BY <2>7 DEF IsText
    <3>2. whole = Text(patched.has \cup {"error_overlay"}, patched.shell, patched.painters, patched.version)
      BY <3>1 DEF Text
    <3>3. Nothing \notin patched.has \cup {"error_overlay"}  BY <3>1, <2>5
    <3> QED BY <3>1, <3>2, <3>3, TextMade
  <2> HIDE DEF whole
  <2>9. /\ IsText(u) /\ u.shell = whole.shell /\ (u.version = whole.version \/ u.version = 5)
        /\ whole.has \ {"other_fours"} \subseteq u.has /\ u.has \subseteq whole.has \cup {"other_fives"}
    <3> DEFINE v == Edited(whole, Ux08Fives)
    <3>1. Nothing \notin Ux08Fives.gains
      <4>1. Ux08Fives \in ScriptEdits  BY DEF ScriptEdits
      <4>2. Ux08Fives.gains \subseteq Passages  BY <4>1 DEF Passages
      <4> QED BY <4>2, NothingAssumption
    <3>2. Ux08Fives.drops = {"other_fours"} /\ Ux08Fives.at = "other_fours" /\ Ux08Fives.gains = {"other_fives"}
      BY DEF Ux08Fives, Swap
    <3>3. IsEdit(Ux08Fives)  BY <3>1, <3>2 DEF IsEdit
    <3>4. /\ IsText(v) /\ v.shell = whole.shell /\ v.version = whole.version
          /\ v.has = (whole.has \ {"other_fours"}) \cup {"other_fives"} \/ v = whole
      BY <2>8, <3>2, <3>3, EditedText
    <3>5. u = [v EXCEPT !.version = IF @ = 4 THEN 5 ELSE @]  BY <2>1 DEF Ux08Version
    <3> HIDE DEF v
    <3>6. v = Text(v.has, v.shell, v.painters, v.version) /\ Nothing \notin v.has /\ v.painters \in Nat
      BY <3>4 DEF IsText
    <3>7. u = Text(v.has, v.shell, v.painters, IF v.version = 4 THEN 5 ELSE v.version)  BY <3>5, <3>6 DEF Text
    <3>8. /\ IsText(u) /\ u.has = v.has /\ u.shell = v.shell
          /\ u.version = IF v.version = 4 THEN 5 ELSE v.version
      BY <3>6, <3>7, TextMade
    <3> QED BY <3>4, <3>8
  <2>10. "rows_140" \in t.has
    <3>1. "err_gpu" \in w.has  BY <2>1, <2>6, <2>7
    <3>2. PICK e \in Ux08Set : "err_gpu" \in e.gains /\ e.at \in t.has  BY <3>1, <1>1, <2>w, <2>2, WithSource
    <3> QED BY <3>2 DEF Ux08Set, Swap, Insert
  <2>11. "profile_extern" \in t.has /\ "field_rows" \notin t.has
         /\ \/ t.shell = "07"
            \/ t.shell = "head" /\ {"empty_shell", "empty_cmds", "chrome_count_context"} \subseteq t.has
    BY <2>10 DEF Staged
  <2>12. Nothing \notin w.has  BY <2>4
  <2>13. "error_externs" \in w.has
    <3> DEFINE e == Insert(Nothing, "profile_extern", {"error_externs"})
    <3>1. e \in ToSet(Ux08Edits)  BY <2>2 DEF Ux08Set
    <3>2. e.at = "profile_extern" /\ e.unless = Nothing /\ e.gains = {"error_externs"}  BY DEF Insert
    <3>3. \A f \in Ux08Set : "profile_extern" \notin f.drops \ f.gains  BY DEF Ux08Set, Swap, Insert
    <3> HIDE DEF e
    <3>4. \A f \in ToSet(Ux08Edits) : e.at \in f.drops \ f.gains => e.gains \subseteq f.gains  BY <3>2, <3>3, <2>2
    <3>5. e.gains \subseteq w.has  BY <3>1, <3>2, <3>4, <2>w, <2>2, <2>11, <2>12, WithTakes
    <3> QED BY <3>2, <3>5
  <2>14. "rows_140" \notin w.has
    <3>1. Swap("rows_140", {"err_gpu", "error_wrappers"}) \in Ux08Set
          /\ "rows_140" \notin {"err_gpu", "error_wrappers"}  BY DEF Ux08Set
    <3> QED BY <3>1, <2>3, SwapGone
  <2>15. "field_rows" \notin w.has  BY <2>3, <2>11 DEF Ux08Brought
  <2>16. {"error_externs", "error_overlay", "err_gpu"} \subseteq u.has
         /\ {"rows_140", "field_rows"} \cap u.has = {}
    BY <2>1, <2>6, <2>7, <2>8, <2>9, <2>13, <2>14, <2>15
  <2>17. Staged(u)  BY <2>16 DEF Staged, ErrorsDeclared
  <2>18. Ux08(u) = u  BY <2>16 DEF Ux08
  <2>19. ASSUME t.shell # "07"  PROVE ErrorsShown(u)
    <3>1. t.shell = "head" /\ {"empty_shell", "empty_cmds", "chrome_count_context"} \subseteq t.has  BY <2>11, <2>19
    <3>2. "empty_cmds" \in w.has  BY <3>1, <2>3 DEF Ux08Lost
    <3>3. "error_composed" \in w.has
      <4> DEFINE e == Insert(Nothing, "empty_shell", {"error_composed"})
      <4>1. e \in ToSet(Ux08Edits)  BY <2>2 DEF Ux08Set
      <4>2. e.at = "empty_shell" /\ e.unless = Nothing /\ e.gains = {"error_composed"}  BY DEF Insert
      <4>3. \A f \in Ux08Set : "empty_shell" \notin f.drops \ f.gains  BY DEF Ux08Set, Swap, Insert
      <4> HIDE DEF e
      <4>4. \A f \in ToSet(Ux08Edits) : e.at \in f.drops \ f.gains => e.gains \subseteq f.gains  BY <4>2, <4>3, <2>2
      <4>5. e.gains \subseteq w.has  BY <4>1, <4>2, <4>4, <2>w, <2>2, <3>1, <2>12, WithTakes
      <4> QED BY <4>2, <4>5
    <3>4. "chrome_count_error" \in w.has
      <4> DEFINE e == Swap("chrome_count_context", {"chrome_count_error"})
      <4>1. e \in ToSet(Ux08Edits)  BY <2>2 DEF Ux08Set
      <4>2. e.at = "chrome_count_context" /\ e.unless = Nothing /\ e.gains = {"chrome_count_error"}  BY DEF Swap
      <4>3. \A f \in Ux08Set : "chrome_count_context" \in f.drops \ f.gains => "chrome_count_error" \in f.gains
        BY DEF Ux08Set, Swap, Insert
      <4> HIDE DEF e
      <4>4. \A f \in ToSet(Ux08Edits) : e.at \in f.drops \ f.gains => e.gains \subseteq f.gains  BY <4>2, <4>3, <2>2
      <4>5. e.gains \subseteq w.has  BY <4>1, <4>2, <4>4, <2>w, <2>2, <3>1, <2>12, WithTakes
      <4> QED BY <4>2, <4>5
    <3>5. u.shell = "08"  BY <3>1, <2>3, <2>7, <2>8, <2>9
    <3>6. {"error_composed", "paint_error", "chrome_count_error"} \subseteq u.has
      BY <3>2, <3>3, <3>4, <2>6, <2>7, <2>8, <2>9
    <3> QED BY <3>5, <3>6 DEF ErrorsShown
  <2>20. u.version = t.version \/ u.version = 5  BY <2>3, <2>6, <2>7, <2>8, <2>9
  <2> QED BY <2>9, <2>17, <2>18, <2>19, <2>20
<1> QED BY <1>0, <1>1

\* fix-studio-lib-check: it writes only a text with errors, keeps them declared
\* and shown, and takes away one copy of a definition at most.
LEMMA FixMakes ==
  ASSUME NEW t, IsText(t), Staged(t), NEW u, u = Fix(t), u # Nothing
  PROVE  /\ IsText(u) /\ Staged(u) /\ "err_gpu" \in t.has
         /\ ErrorsShown(t) => ErrorsShown(u)
         /\ u.painters <= t.painters /\ u.version = t.version
         /\ t.painters <= 2 => Fix(u) = u
<1> DEFINE w == With(t, FixEdits)
<1>1. u = SecondPainter(w) /\ "err_gpu" \in u.has  BY DEF Fix
<1>2. Settles(FixEdits, FixLost, FixBrought) /\ ToSet(FixEdits) = FixSet  BY FixSettles
<1>3. /\ IsText(w) /\ w.shell = t.shell /\ w.painters = t.painters /\ w.version = t.version
      /\ t.has \ FixLost \subseteq w.has /\ w.has \subseteq t.has \cup FixBrought
      /\ \A e \in FixSet : Idle(w, e)
  BY <1>2, WithSettles
<1>w. w = With(t, FixEdits)  OBVIOUS
<1> HIDE DEF w
<1>4. Nothing \notin w.has /\ w.painters \in Nat /\ w = Text(w.has, w.shell, w.painters, w.version)
  BY <1>3 DEF IsText
<1>5. /\ IsText(u) /\ u.has = w.has /\ u.shell = w.shell /\ u.version = w.version
      /\ u.painters \in Nat /\ u.painters <= w.painters /\ (w.painters <= 2 => u.painters <= 1)
  <2>1. CASE w.painters > 1
    <3>1. u = Text(w.has, w.shell, w.painters - 1, w.version)  BY <1>1, <1>4, <2>1 DEF SecondPainter, Text
    <3>2. w.painters - 1 \in Nat /\ w.painters - 1 <= w.painters /\ (w.painters <= 2 => w.painters - 1 <= 1)
      BY <1>4, <2>1
    <3>3. /\ IsText(u) /\ u.has = w.has /\ u.shell = w.shell /\ u.painters = w.painters - 1
          /\ u.version = w.version
      BY <3>1, <3>2, <1>4, TextMade
    <3> QED BY <3>2, <3>3
  <2>2. CASE ~(w.painters > 1)
    <3>1. u = w  BY <1>1, <2>2 DEF SecondPainter
    <3> QED BY <3>1, <1>3, <1>4, <2>2
  <2> QED BY <2>1, <2>2
<1>6. "err_gpu" \in t.has  BY <1>1, <1>3, <1>5 DEF FixBrought
<1>7. {"field_rows", "rows_140"} \cap t.has = {} /\ ErrorsDeclared(t)  BY <1>6 DEF Staged
<1>8. {"field_rows", "rows_140"} \cap u.has = {}  BY <1>3, <1>5, <1>7 DEF FixBrought
<1>9. {"error_externs", "error_externs_specified"} \cap u.has # {}
  <2>1. CASE "error_externs_specified" \in t.has
    <3>1. "error_externs_specified" \in u.has  BY <2>1, <1>3, <1>5 DEF FixLost
    <3> QED BY <3>1
  <2>2. CASE "error_externs" \in t.has
    <3> DEFINE e == Swap("error_externs", {"error_externs_specified"})
    <3>1. e \in ToSet(FixEdits)  BY <1>2 DEF FixSet
    <3>2. e.at = "error_externs" /\ e.unless = Nothing /\ e.gains = {"error_externs_specified"}  BY DEF Swap
    <3>3. \A f \in FixSet : "error_externs" \in f.drops \ f.gains => "error_externs_specified" \in f.gains
      BY DEF FixSet, Swap, Insert
    <3> HIDE DEF e
    <3>4. \A f \in ToSet(FixEdits) : e.at \in f.drops \ f.gains => e.gains \subseteq f.gains  BY <3>2, <3>3, <1>2
    <3>5. e.gains \subseteq w.has  BY <3>1, <3>2, <3>4, <1>w, <1>2, <2>2, <1>4, WithTakes
    <3> QED BY <3>2, <3>5, <1>5
  <2> QED BY <2>1, <2>2, <1>7 DEF ErrorsDeclared
<1>10. "error_overlay" \in u.has  BY <1>3, <1>5, <1>7 DEF FixLost, ErrorsDeclared
<1>11. Staged(u)  BY <1>8, <1>9, <1>10 DEF Staged, ErrorsDeclared
<1>12. ErrorsShown(t) => ErrorsShown(u)  BY <1>3, <1>5 DEF ErrorsShown, FixLost
<1>13. ASSUME t.painters <= 2  PROVE Fix(u) = u
  <2>1. \A e \in ToSet(FixEdits) : Idle(u, e)  BY <1>2, <1>3, <1>5 DEF Idle
  <2>2. With(u, FixEdits) = u  BY <2>1, <1>2, <1>5, AllIdle DEF Settles
  <2>3. u.painters <= 1  BY <1>3, <1>5, <1>13
  <2>4. SecondPainter(u) = u  BY <2>3, <1>5 DEF SecondPainter
  <2> QED BY <2>2, <2>4, <1>1 DEF Fix
<1> QED BY <1>3, <1>5, <1>6, <1>11, <1>12, <1>13

\* The agent's invoke: its edits are idle after it, and it touches nothing that
\* the other scripts look for.
LEMMA InvokeMakes ==
  ASSUME NEW t, IsText(t), Staged(t), NEW u, u = Invoke(t)
  PROVE  /\ IsText(u) /\ Staged(u) /\ Invoke(u) = u
         /\ u.painters = t.painters /\ u.shell = t.shell /\ (u.version = t.version \/ u.version = 7)
         /\ \A x \in {"err_gpu", "error_composed", "paint_error", "chrome_count_error"} : x \in u.has <=> x \in t.has
<1> DEFINE s == [t EXCEPT !.version = IF @ = 6 THEN 7 ELSE @]
<1>1. IsText(s) /\ s.has = t.has /\ s.shell = t.shell /\ s.painters = t.painters
      /\ s.version # 6 /\ (s.version = t.version \/ s.version = 7)
  <2>1. t = Text(t.has, t.shell, t.painters, t.version) /\ Nothing \notin t.has /\ t.painters \in Nat  BY DEF IsText
  <2>2. s = Text(t.has, t.shell, t.painters, IF t.version = 6 THEN 7 ELSE t.version)  BY <2>1 DEF Text
  <2> HIDE DEF s
  <2>3. /\ IsText(s) /\ s.has = t.has /\ s.shell = t.shell /\ s.painters = t.painters
        /\ s.version = IF t.version = 6 THEN 7 ELSE t.version
    BY <2>1, <2>2, TextMade
  <2> QED BY <2>3
<1>2. u = With(s, InvokeEdits)  BY DEF Invoke
<1> HIDE DEF s
<1>3. /\ IsText(u) /\ u.shell = s.shell /\ u.painters = s.painters /\ u.version = s.version
      /\ s.has \ InvokeLost \subseteq u.has /\ u.has \subseteq s.has \cup InvokeBrought
      /\ With(u, InvokeEdits) = u
  BY <1>1, <1>2, InvokeSettles, WithSettles
<1>4. \A x \in {"field_rows", "rows_140", "err_gpu", "profile_extern", "error_externs", "error_externs_specified",
               "error_overlay", "compose_shell", "inspector_cmds", "viewport_empty", "empty_shell", "empty_cmds",
               "chrome_count_context", "error_composed", "paint_error", "chrome_count_error"} : x \in u.has <=> x \in t.has
  BY <1>1, <1>3 DEF InvokeLost, InvokeBrought
<1>5. Staged(u)  BY <1>1, <1>3, <1>4 DEF Staged, ErrorsDeclared
<1>6. [u EXCEPT !.version = IF @ = 6 THEN 7 ELSE @] = u
  <2>1. [u EXCEPT !.version = IF @ = 6 THEN 7 ELSE @] = [u EXCEPT !.version = u.version]  BY <1>1, <1>3
  <2>2. u = Text(u.has, u.shell, u.painters, u.version)  BY <1>3 DEF IsText
  <2> QED BY <2>1, <2>2 DEF Text
<1>7. Invoke(u) = u  BY <1>3, <1>6 DEF Invoke
<1> QED BY <1>1, <1>3, <1>4, <1>5, <1>7

\* apply-ux10-ux11: its marks are there after it, the helper is set where its
\* place is, and it touches nothing that the other scripts look for.
LEMMA Ux10Makes ==
  ASSUME NEW t, IsText(t), Staged(t), NEW u, u = Ux10(t), u # Nothing
  PROVE  /\ IsText(u) /\ Staged(u) /\ Ux10(u) = u
         /\ u.painters = t.painters /\ u.shell = t.shell /\ u.version = 5
         /\ \A x \in {"err_gpu", "error_composed", "paint_error", "chrome_count_error"} : x \in u.has <=> x \in t.has
<1> DEFINE stated == IF "loading_state" \in t.has THEN t ELSE [t EXCEPT !.has = @ \cup LoadingHelpers]
           v == Edited(stated, LoadingInit)
<1>1. u = [v EXCEPT !.has = @ \cup {"compose_loading", "loading_frame"}, !.version = 5]  BY DEF Ux10
<1>2. t = Text(t.has, t.shell, t.painters, t.version) /\ Nothing \notin t.has /\ t.painters \in Nat  BY DEF IsText
<1>p. t.painters \in Nat  BY <1>2
<1>3. Nothing \notin LoadingHelpers /\ Nothing \notin {"compose_loading", "loading_frame"}  BY NothingAssumption DEF Passages
<1>4. /\ IsText(stated) /\ stated.shell = t.shell /\ stated.painters = t.painters
      /\ t.has \subseteq stated.has /\ stated.has \subseteq t.has \cup LoadingHelpers /\ "loading_state" \in stated.has
  <2>1. CASE "loading_state" \in t.has
    <3>1. stated = t  BY <2>1
    <3> QED BY <3>1, <2>1
  <2>2. CASE "loading_state" \notin t.has
    <3>1. stated = Text(t.has \cup LoadingHelpers, t.shell, t.painters, t.version)  BY <2>2, <1>2 DEF Text
    <3>2. Nothing \notin t.has \cup LoadingHelpers  BY <1>2, <1>3
    <3> HIDE DEF stated
    <3>3. IsText(stated) /\ stated.has = t.has \cup LoadingHelpers /\ stated.shell = t.shell /\ stated.painters = t.painters
      BY <3>1, <3>2, <1>p, TextMade
    <3>4. "loading_state" \in LoadingHelpers  BY DEF LoadingHelpers
    <3> QED BY <3>3, <3>4
  <2> QED BY <2>1, <2>2
<1>5. IsEdit(LoadingInit) /\ LoadingInit.drops = {} /\ LoadingInit.gains = {"loading_init"}
      /\ LoadingInit.at = "panel_state" /\ LoadingInit.unless = "loading_init"
  <2>1. LoadingInit.drops = {} /\ LoadingInit.gains = {"loading_init"}
        /\ LoadingInit.at = "panel_state" /\ LoadingInit.unless = "loading_init"
    BY DEF LoadingInit, Insert
  <2>2. LoadingInit \in ScriptEdits  BY DEF ScriptEdits
  <2>3. LoadingInit.gains \subseteq Passages  BY <2>2 DEF Passages
  <2> QED BY <2>1, <2>3, NothingAssumption DEF IsEdit
<1> HIDE DEF stated
<1>6. /\ IsText(v) /\ v.shell = t.shell /\ v.painters = t.painters
      /\ stated.has \subseteq v.has /\ v.has \subseteq stated.has \cup {"loading_init"}
      /\ "loading_init" \in v.has \/ "panel_state" \notin v.has
  <2>1. CASE Applies(stated, LoadingInit)
    <3>1. v.has = stated.has \cup {"loading_init"}  BY <2>1, <1>4, <1>5, EditedText
    <3> QED BY <3>1, <1>4, <1>5, EditedText
  <2>2. CASE ~Applies(stated, LoadingInit)
    <3>1. v = stated  BY <2>2, <1>4, <1>5, EditedText
    <3> QED BY <3>1, <2>2, <1>4, <1>5 DEF Applies
  <2> QED BY <2>1, <2>2
<1> HIDE DEF v
<1>7. v = Text(v.has, v.shell, v.painters, v.version) /\ Nothing \notin v.has /\ v.painters \in Nat  BY <1>6 DEF IsText
<1> DEFINE has == v.has \cup {"compose_loading", "loading_frame"}
<1>8. u = Text(has, v.shell, v.painters, 5)  BY <1>1, <1>7 DEF Text
<1>9. Nothing \notin has  BY <1>3, <1>7
<1>10. IsText(u) /\ u.has = has /\ u.shell = t.shell /\ u.painters = t.painters /\ u.version = 5
  BY <1>6, <1>7, <1>8, <1>9, TextMade
<1>11. \A x \in {"field_rows", "rows_140", "err_gpu", "profile_extern", "error_externs", "error_externs_specified",
               "error_overlay", "compose_shell", "inspector_cmds", "viewport_empty", "empty_shell", "empty_cmds",
               "chrome_count_context", "error_composed", "paint_error", "chrome_count_error"} : x \in u.has <=> x \in t.has
  BY <1>4, <1>6, <1>10 DEF LoadingHelpers
<1>12. Staged(u)  BY <1>10, <1>11 DEF Staged, ErrorsDeclared
<1>13. "loading_state" \in u.has /\ {"compose_loading", "loading_frame"} \subseteq u.has
       /\ ("loading_init" \in u.has \/ "panel_state" \notin u.has)
  BY <1>4, <1>6, <1>10
<1>14. Edited(u, LoadingInit) = u
  <2>1. ~Applies(u, LoadingInit)  BY <1>13, <1>5 DEF Applies
  <2> QED BY <2>1, <1>5, <1>10, EditedText
<1>15. u # Empty
  <2>1. Empty.version = 0  BY DEF Empty, Text
  <2> QED BY <2>1, <1>10
<1>16. Ux10(u) = u
  <2>1. Ux10(u) = [Edited(u, LoadingInit) EXCEPT !.has = @ \cup {"compose_loading", "loading_frame"}, !.version = 5]
    BY <1>13, <1>15 DEF Ux10
  <2>2. u.has \cup {"compose_loading", "loading_frame"} = u.has  BY <1>13
  <2>3. u = Text(u.has, u.shell, u.painters, u.version)  BY <1>10 DEF IsText
  <2>4. Ux10(u) = [u EXCEPT !.has = u.has, !.version = u.version]  BY <2>1, <2>2, <1>10, <1>14
  <2>5. [u EXCEPT !.has = u.has, !.version = u.version] = u  BY <2>3 DEF Text
  <2> QED BY <2>4, <2>5
<1> QED BY <1>10, <1>11, <1>12, <1>16

-----------------------------------------------------------------------------
(* The invariant of the scripts.                                           *)

RanIn(name, launches) == \E run \in launches : run.name = name
FoundEarly == [name |-> "ux08", shell |-> "07"]

\* A text that the runs may have left.
Good(text, launches) ==
  /\ IsText(text) /\ Staged(text) /\ text.version # 0
  /\ "err_gpu" \in text.has => FoundEarly \in launches \/ RanIn("finish", launches) \/ ErrorsShown(text)
  /\ text.painters > 1 => RanIn("finish", launches) \/ RanIn("ux08", launches) \/ RanIn("build", launches)

\* Writes of such texts by the script of that name; the rebuild's may be empty.
GoodWrite(w, name, launches) ==
  \/ w.file = "ui" /\ name # "build"
  \/ w.file = "lib" /\ (Good(w.new, launches) \/ (name = "build" /\ w.new = Empty))
GoodWrites(writes, name, launches) == \E S : writes \in Seq(S) /\ \A w \in S : GoodWrite(w, name, launches)

\* Unless a write was cut off the text is good, and so is what the script that
\* runs will write; what the rebuild will write is good in any case.
Patching ==
  /\ ~broken => Good(lib, applied)
  /\ script # Nothing =>
       \E name, writes :
         /\ script = [name |-> name, writes |-> writes]
         /\ name = "build" \/ ~broken => GoodWrites(writes, name, applied)

\* More runs excuse no less.
LEMMA GoodLater ==
  ASSUME NEW t, NEW launches, NEW more, launches \subseteq more, Good(t, launches)
  PROVE  Good(t, more)
BY DEF Good, RanIn

LEMMA EmptyHasNoVersion == Empty.version = 0
BY DEF Empty, Text

\* Lists of good writes.
LEMMA WritesOf ==
  ASSUME NEW name, NEW launches, NEW S, NEW writes \in Seq(S), \A w \in S : GoodWrite(w, name, launches)
  PROVE  GoodWrites(writes, name, launches)
BY DEF GoodWrites

LEMMA NoWrites ==
  ASSUME NEW name, NEW launches  PROVE GoodWrites(<<>>, name, launches)
<1> DEFINE S == {}
<1>1. <<>> \in Seq(S) /\ \A w \in S : GoodWrite(w, name, launches)  OBVIOUS
<1> HIDE DEF S
<1> QED BY <1>1, WritesOf

LEMMA OneWrite ==
  ASSUME NEW name, NEW launches, NEW w, GoodWrite(w, name, launches)
  PROVE  GoodWrites(<<w>>, name, launches)
<1> DEFINE S == {w}
<1>1. <<w>> \in Seq(S) /\ \A x \in S : GoodWrite(x, name, launches)  OBVIOUS
<1> HIDE DEF S
<1> QED BY <1>1, WritesOf

LEMMA SeqOfMore ==
  ASSUME NEW S, NEW T, S \subseteq T, NEW s \in Seq(S)
  PROVE  s \in Seq(T)
<1>1. Len(s) \in Nat /\ s \in [1..Len(s) -> S]  BY LenProperties
<1>2. s \in [1..Len(s) -> T]  BY <1>1
<1> QED BY <1>1, <1>2

LEMMA WritesJoined ==
  ASSUME NEW name, NEW launches, NEW a, NEW b, GoodWrites(a, name, launches), GoodWrites(b, name, launches)
  PROVE  GoodWrites(a \o b, name, launches)
<1>1. PICK S : a \in Seq(S) /\ \A w \in S : GoodWrite(w, name, launches)  BY DEF GoodWrites
<1>2. PICK T : b \in Seq(T) /\ \A w \in T : GoodWrite(w, name, launches)  BY DEF GoodWrites
<1>3. a \in Seq(S \cup T) /\ b \in Seq(S \cup T)  BY <1>1, <1>2, SeqOfMore
<1>4. a \o b \in Seq(S \cup T)  BY <1>3, ConcatProperties
<1>5. \A w \in S \cup T : GoodWrite(w, name, launches)  BY <1>1, <1>2
<1> QED BY <1>4, <1>5 DEF GoodWrites

LEMMA WritesAppended ==
  ASSUME NEW name, NEW launches, NEW a, NEW w, GoodWrites(a, name, launches), GoodWrite(w, name, launches)
  PROVE  GoodWrites(Append(a, w), name, launches)
<1>1. PICK S : a \in Seq(S) /\ \A x \in S : GoodWrite(x, name, launches)  BY DEF GoodWrites
<1>2. a \in Seq(S \cup {w})  BY <1>1, SeqOfMore
<1>3. Append(a, w) \in Seq(S \cup {w})  BY <1>2, AppendProperties
<1>4. \A x \in S \cup {w} : GoodWrite(x, name, launches)  BY <1>1
<1> QED BY <1>3, <1>4 DEF GoodWrites

LEMMA UnlessWrites ==
  ASSUME NEW name, NEW launches, NEW new, new # Nothing => Good(new, launches)
  PROVE  GoodWrites(Unless(new), name, launches) /\ GoodWrites(Changed(new), name, launches)
<1>1. GoodWrites(<<>>, name, launches)  BY NoWrites
<1>2. ASSUME new # Nothing  PROVE GoodWrites(<<Rewrite("lib", new)>>, name, launches)
  <2>1. Rewrite("lib", new).file = "lib" /\ Rewrite("lib", new).new = new  BY DEF Rewrite
  <2>2. GoodWrite(Rewrite("lib", new), name, launches)  BY <2>1, <1>2 DEF GoodWrite
  <2> QED BY <2>2, OneWrite
<1>3. GoodWrites(Unless(new), name, launches)  BY <1>1, <1>2 DEF Unless
<1> QED BY <1>1, <1>3 DEF Changed

\* What is left of such writes when the first is done.
LEMMA WritesLeft ==
  ASSUME NEW name, NEW launches, NEW writes, GoodWrites(writes, name, launches), writes # <<>>
  PROVE  GoodWrite(Head(writes), name, launches) /\ GoodWrites(Tail(writes), name, launches)
<1>1. PICK S : writes \in Seq(S) /\ \A w \in S : GoodWrite(w, name, launches)  BY DEF GoodWrites
<1>2. Head(writes) \in S /\ Tail(writes) \in Seq(S)  BY <1>1, HeadTailProperties
<1> QED BY <1>1, <1>2 DEF GoodWrites

-----------------------------------------------------------------------------
\* What each script writes is good when what it finds is.

LEMMA Ux07Good ==
  ASSUME NEW launches, Good(lib, launches)
  PROVE  Ux07(lib) # Nothing => Good(Ux07(lib), launches)
<1> SUFFICES ASSUME Ux07(lib) # Nothing  PROVE Good(Ux07(lib), launches)  OBVIOUS
<1> DEFINE u == Ux07(lib)
<1>1. IsText(lib) /\ Staged(lib)  BY DEF Good
<1>2. u.version # 0 /\ IsText(u) /\ Staged(u) /\ (u = lib \/ ("err_gpu" \notin u.has /\ u.painters = 1))  BY <1>1, Ux07Makes DEF Good
<1> HIDE DEF u
<1>3. Good(u, launches)  BY <1>2 DEF Good
<1> QED BY <1>3 DEF u

LEMMA FinishGood ==
  ASSUME NEW launches, Good(lib, launches), RanIn("finish", launches)
  PROVE  Finish(lib) # Nothing => Good(Finish(lib), launches)
<1>1. IsText(lib) /\ Staged(lib)  BY DEF Good
<1>2. Finish(lib) # Nothing => IsText(Finish(lib)) /\ Staged(Finish(lib)) /\ Finish(lib).version # 0  BY <1>1, FinishMakes
<1> QED BY <1>2 DEF Good

LEMMA Ux08Good ==
  ASSUME NEW launches, Good(lib, launches), [name |-> "ux08", shell |-> lib.shell] \in launches
  PROVE  Ux08(lib) # Nothing => Good(Ux08(lib), launches)
<1> SUFFICES ASSUME Ux08(lib) # Nothing  PROVE Good(Ux08(lib), launches)  OBVIOUS
<1> DEFINE u == Ux08(lib)
<1>1. IsText(lib) /\ Staged(lib)  BY DEF Good
<1>2. u.version # 0 /\ IsText(u) /\ Staged(u) /\ (u = lib \/ lib.shell = "07" \/ ErrorsShown(u))  BY <1>1, Ux08Makes DEF Good
<1>3. RanIn("ux08", launches)
  <2>1. [name |-> "ux08", shell |-> lib.shell].name = "ux08"  OBVIOUS
  <2> QED BY <2>1 DEF RanIn
<1>4. lib.shell = "07" => FoundEarly \in launches  BY DEF FoundEarly
<1> HIDE DEF u
<1>5. Good(u, launches)  BY <1>2, <1>3, <1>4 DEF Good
<1> QED BY <1>5 DEF u

LEMMA FixGood ==
  ASSUME NEW launches, NEW t, Good(t, launches)
  PROVE  Fix(t) # Nothing => Good(Fix(t), launches)
<1> SUFFICES ASSUME Fix(t) # Nothing  PROVE Good(Fix(t), launches)  OBVIOUS
<1> DEFINE u == Fix(t)
<1>1. IsText(t) /\ Staged(t) /\ t.painters \in Nat  BY DEF Good, IsText
<1>2. /\ IsText(u) /\ Staged(u) /\ "err_gpu" \in t.has /\ (ErrorsShown(t) => ErrorsShown(u))
      /\ u.painters <= t.painters /\ u.version # 0
  BY <1>1, FixMakes DEF Good
<1> HIDE DEF u
<1>3. u.painters \in Nat  BY <1>2 DEF IsText
<1>4. u.painters > 1 => t.painters > 1  BY <1>1, <1>2, <1>3
<1>5. Good(u, launches)  BY <1>2, <1>4 DEF Good
<1> QED BY <1>5 DEF u

LEMMA Ux10Good ==
  ASSUME NEW launches, Good(lib, launches)
  PROVE  Ux10(lib) # Nothing => Good(Ux10(lib), launches)
<1> SUFFICES ASSUME Ux10(lib) # Nothing  PROVE Good(Ux10(lib), launches)  OBVIOUS
<1> DEFINE u == Ux10(lib)
<1>1. IsText(lib) /\ Staged(lib)  BY DEF Good
<1>2. /\ IsText(u) /\ Staged(u) /\ u.painters = lib.painters /\ u.shell = lib.shell /\ u.version # 0
      /\ \A x \in {"err_gpu", "error_composed", "paint_error", "chrome_count_error"} : x \in u.has <=> x \in lib.has
  BY <1>1, Ux10Makes
<1> HIDE DEF u
<1>3. ErrorsShown(lib) => ErrorsShown(u)  BY <1>2 DEF ErrorsShown
<1>4. Good(u, launches)  BY <1>2, <1>3 DEF Good
<1> QED BY <1>4 DEF u

LEMMA InvokeGood ==
  ASSUME NEW launches, Good(lib, launches)
  PROVE  Good(Invoke(lib), launches)
<1> DEFINE u == Invoke(lib)
<1>1. IsText(lib) /\ Staged(lib)  BY DEF Good
<1>2. /\ IsText(u) /\ Staged(u) /\ u.painters = lib.painters /\ u.shell = lib.shell /\ u.version # 0
      /\ \A x \in {"err_gpu", "error_composed", "paint_error", "chrome_count_error"} : x \in u.has <=> x \in lib.has
  BY <1>1, InvokeMakes DEF Good
<1> HIDE DEF u
<1>3. ErrorsShown(lib) => ErrorsShown(u)  BY <1>2 DEF ErrorsShown
<1>4. Good(u, launches)  BY <1>2, <1>3 DEF Good
<1> QED BY <1>4 DEF u

-----------------------------------------------------------------------------
\* The invariant holds first, and every step keeps it.
LEMMA PatchingInit ==
  ASSUME SPInit  PROVE Patching
<1>1. lib \in Libraries /\ script = Nothing /\ (broken <=> lib = Empty)  BY DEF SPInit
<1>2. /\ IsText(lib) /\ Staged(lib) /\ ("err_gpu" \in lib.has => ErrorsShown(lib)) /\ lib.painters <= 1
      /\ lib = Empty \/ lib.version # 0
  BY <1>1, LibrariesAssumption
<1>3. ~(lib.painters > 1)  BY <1>2 DEF IsText
<1>4. ~broken => Good(lib, applied)  BY <1>1, <1>2, <1>3 DEF Good
<1> QED BY <1>1, <1>4 DEF Patching

\* A script starts: it becomes one of the runs.
LEMMA StartKeeps ==
  ASSUME Patching, NEW name, NEW writes, Run(name, writes),
         \A launches : /\ applied \subseteq launches /\ (name = "build" \/ Good(lib, launches))
                   /\ [name |-> name, shell |-> lib.shell] \in launches /\ RanIn(name, launches)
                   => GoodWrites(writes, name, launches)
  PROVE  Patching'
<1>1. /\ script' = [name |-> name, writes |-> writes] /\ lib' = lib /\ (broken' <=> broken)
      /\ applied' = applied \cup {[name |-> name, shell |-> lib.shell]}
  <2>1. broken' <=> broken  BY DEF Run
  <2> QED BY <2>1 DEF Run
<1>2. ~broken => Good(lib, applied')  BY <1>1, GoodLater DEF Patching
<1>3. RanIn(name, applied')
  <2>1. [name |-> name, shell |-> lib.shell].name = name  OBVIOUS
  <2> QED BY <2>1, <1>1 DEF RanIn
<1>4. name = "build" \/ ~broken => GoodWrites(writes, name, applied')  BY <1>1, <1>2, <1>3
<1>5. ~broken' => Good(lib', applied')  BY <1>1, <1>2
<1>6. \E n, ws : script' = [name |-> n, writes |-> ws] /\ (n = "build" \/ ~broken' => GoodWrites(ws, n, applied'))
  BY <1>1, <1>4
<1> QED BY <1>5, <1>6 DEF Patching

LEMMA RunScriptKeeps ==
  ASSUME Patching, RunScript  PROVE Patching'
<1>1. CASE Run("ux07", Changed(Ux07(lib)))
  <2>1. ASSUME NEW launches, Good(lib, launches)  PROVE GoodWrites(Changed(Ux07(lib)), "ux07", launches)
    BY <2>1, Ux07Good, UnlessWrites
  <2> QED BY <1>1, <2>1, StartKeeps
<1>2. CASE Run("finish", FinishWrites)
  <2>1. ASSUME NEW launches, Good(lib, launches), RanIn("finish", launches)
        PROVE  GoodWrites(FinishWrites, "finish", launches)
    <3> DEFINE first == IF {"viewport_empty", "inspector_empty_cmds"} \subseteq lib.has THEN <<>> ELSE Unless(Ux07(lib))
               last == [Rewrite("lib", Finish(lib)) EXCEPT !.renames = TRUE]
    <3>1. FinishWrites = IF Finish(lib) = Nothing THEN <<>> ELSE Append(first, last)  BY DEF FinishWrites
    <3>2. GoodWrites(<<>>, "finish", launches)  BY NoWrites
    <3>3. GoodWrites(Unless(Ux07(lib)), "finish", launches)  BY <2>1, Ux07Good, UnlessWrites
    <3>4. GoodWrites(first, "finish", launches)  BY <3>2, <3>3
    <3>5. last.file = "lib" /\ last.new = Finish(lib)  BY DEF Rewrite
    <3> HIDE DEF first, last
    <3>6. ASSUME Finish(lib) # Nothing  PROVE GoodWrites(Append(first, last), "finish", launches)
      <4>1. Good(Finish(lib), launches)  BY <2>1, <3>6, FinishGood
      <4>2. GoodWrite(last, "finish", launches)  BY <4>1, <3>5 DEF GoodWrite
      <4> QED BY <4>2, <3>4, WritesAppended
    <3> QED BY <3>1, <3>2, <3>6
  <2> QED BY <1>2, <2>1, StartKeeps
<1>3. CASE Run("ux08", Changed(Ux08(lib)))
  <2>1. ASSUME NEW launches, Good(lib, launches), [name |-> "ux08", shell |-> lib.shell] \in launches
        PROVE  GoodWrites(Changed(Ux08(lib)), "ux08", launches)
    BY <2>1, Ux08Good, UnlessWrites
  <2> QED BY <1>3, <2>1, StartKeeps
<1>4. CASE Run("fix", Unless(Fix(lib)))
  <2>1. ASSUME NEW launches, Good(lib, launches)  PROVE GoodWrites(Unless(Fix(lib)), "fix", launches)
    BY <2>1, FixGood, UnlessWrites
  <2> QED BY <1>4, <2>1, StartKeeps
<1>5. CASE Run("ux10", Ux10Writes)
  <2>1. ASSUME NEW launches, Good(lib, launches)  PROVE GoodWrites(Ux10Writes, "ux10", launches)
    <3>1. GoodWrites(Unless(Ux10(lib)), "ux10", launches)  BY <2>1, Ux10Good, UnlessWrites
    <3>2. GoodWrite(Rewrite("ui", UiA11y(ui)), "ux10", launches)  BY DEF GoodWrite, Rewrite
    <3>3. GoodWrites(<<Rewrite("ui", UiA11y(ui))>>, "ux10", launches)  BY <3>2, OneWrite
    <3>4. GoodWrites(<<Rewrite("ui", UiA11y(ui))>> \o Unless(Ux10(lib)), "ux10", launches)
      BY <3>1, <3>3, WritesJoined
    <3> QED BY <3>4, NoWrites DEF Ux10Writes
  <2> QED BY <1>5, <2>1, StartKeeps
<1>6. CASE Run("invoke", Unless(Invoke(lib)))
  <2>1. ASSUME NEW launches, Good(lib, launches)  PROVE GoodWrites(Unless(Invoke(lib)), "invoke", launches)
    BY <2>1, InvokeGood, UnlessWrites
  <2> QED BY <1>6, <2>1, StartKeeps
<1>7. ASSUME NEW found \in BOOLEAN, Run("build", BuildWrites(found))  PROVE Patching'
  <2>1. ASSUME NEW launches, RanIn("build", launches)  PROVE GoodWrites(BuildWrites(found), "build", launches)
    <3>1. Good(Rebuilt, launches)  BY <2>1, LibrariesAssumption DEF Good
    <3>2. GoodWrites(Unless(Fix(Rebuilt)), "build", launches)  BY <3>1, FixGood, UnlessWrites
    <3>3. GoodWrite(Rewrite("lib", Rebuilt), "build", launches)  BY <3>1 DEF GoodWrite, Rewrite
    <3>4. GoodWrite(Rewrite("lib", Empty), "build", launches)  BY DEF GoodWrite, Rewrite
    <3>5. /\ GoodWrites(<<Rewrite("lib", Rebuilt)>>, "build", launches)
          /\ GoodWrites(<<Rewrite("lib", Empty)>>, "build", launches)
      BY <3>3, <3>4, OneWrite
    <3>6. GoodWrites(<<Rewrite("lib", Rebuilt)>> \o Unless(Fix(Rebuilt)), "build", launches)
      BY <3>2, <3>5, WritesJoined
    <3> QED BY <3>5, <3>6 DEF BuildWrites
  <2> QED BY <1>7, <2>1, StartKeeps
<1> QED BY <1>1, <1>2, <1>3, <1>4, <1>5, <1>6, <1>7 DEF RunScript

LEMMA WriteTextKeeps ==
  ASSUME Patching, WriteText  PROVE Patching'
<1>1. PICK name, writes : /\ script = [name |-> name, writes |-> writes]
                          /\ name = "build" \/ ~broken => GoodWrites(writes, name, applied)
  BY DEF Patching, WriteText
<1> DEFINE w == Head(writes)
<1>2. /\ writes # <<>> /\ Stored(w.file, w.new) /\ applied' = applied
      /\ script' = [script EXCEPT !.writes = Tail(@)]
      /\ broken' = IF name = "build" THEN w.new = Empty ELSE broken
  BY <1>1 DEF WriteText
<1>3. name = "build" \/ ~broken => GoodWrite(w, name, applied) /\ GoodWrites(Tail(writes), name, applied)
  BY <1>1, <1>2, WritesLeft
<1>4. script' = [name |-> name, writes |-> Tail(writes)]  BY <1>1, <1>2
<1>5. name = "build" => (broken' <=> w.new = Empty)  BY <1>2
<1>6. name # "build" => (broken' <=> broken)  BY <1>2
<1> HIDE DEF w
<1>7. ~broken' => Good(lib', applied')
  <2>1. SUFFICES ASSUME ~broken'  PROVE Good(lib', applied')  OBVIOUS
  <2>2. GoodWrite(w, name, applied)  BY <1>3, <1>6, <2>1
  <2>3. CASE w.file = "lib" /\ Good(w.new, applied)
    <3>1. lib' = w.new  BY <1>2, <2>3 DEF Stored
    <3> QED BY <3>1, <2>3, <1>2
  <2>4. CASE w.file = "ui" /\ name # "build"
    <3>1. lib' = lib  BY <1>2, <2>4 DEF Stored
    <3>2. Good(lib, applied)  BY <1>6, <2>1, <2>4 DEF Patching
    <3> QED BY <3>1, <3>2, <1>2
  <2>5. ~(name = "build" /\ w.new = Empty)  BY <1>5, <2>1
  <2> QED BY <2>2, <2>3, <2>4, <2>5 DEF GoodWrite
<1>8. name = "build" \/ ~broken' => GoodWrites(Tail(writes), name, applied')  BY <1>2, <1>3, <1>6
<1> QED BY <1>4, <1>7, <1>8 DEF Patching

LEMMA KillScriptKeeps ==
  ASSUME Patching, KillScript  PROVE Patching'
<1>1. script' = Nothing /\ applied' = applied  BY DEF KillScript
<1>2. broken' \/ (lib' = lib /\ (broken' <=> broken))
  <2> DEFINE w == Head(script.writes)
  <2>1. UNCHANGED <<lib, ui, broken>> \/ CutOff(w)  BY DEF KillScript
  <2> HIDE DEF w
  <2>2. CASE UNCHANGED <<lib, ui, broken>>
    <3>1. broken' <=> broken  BY <2>2
    <3> QED BY <3>1, <2>2
  <2>3. CASE w.file = "lib" /\ lib' \in PartsOf(w.new) /\ broken' = TRUE  BY <2>3
  <2>4. CASE w.file = "ui" /\ UNCHANGED <<lib, broken>>
    <3>1. broken' <=> broken  BY <2>4
    <3> QED BY <3>1, <2>4
  <2> QED BY <2>1, <2>2, <2>3, <2>4 DEF CutOff
<1>3. ~broken' => Good(lib', applied')  BY <1>1, <1>2 DEF Patching
<1> QED BY <1>1, <1>3 DEF Patching

LEMMA PatchingStep ==
  ASSUME Patching, [SPNext]_spVars  PROVE Patching'
<1>1. CASE RunScript  BY <1>1, RunScriptKeeps
<1>2. CASE WriteText  BY <1>2, WriteTextKeeps
<1>3. CASE Ends
  <2>1. script' = Nothing /\ lib' = lib /\ applied' = applied  BY <1>3 DEF Ends
  <2>2. broken' <=> broken  BY <1>3 DEF Ends
  <2> QED BY <2>1, <2>2 DEF Patching
<1>4. CASE KillScript  BY <1>4, KillScriptKeeps
<1>5. CASE UNCHANGED spVars
  <2>1. script' = script /\ lib' = lib /\ applied' = applied  BY <1>5 DEF spVars
  <2>2. broken' <=> broken  BY <1>5 DEF spVars
  <2> QED BY <2>1, <2>2 DEF Patching
<1> QED BY <1>1, <1>2, <1>3, <1>4, <1>5 DEF SPNext

LEMMA PatchingKept ==
  ASSUME Patching  PROVE LibKept
<1>1. lib = Empty => broken  BY EmptyHasNoVersion DEF Patching, Good
<1>2. ASSUME ~broken  PROVE Repeatable /\ ErrorsWhole /\ PaintedOnce
  <2>0. Good(lib, applied)  BY <1>2 DEF Patching
  <2>1. IsText(lib) /\ Staged(lib)  BY <2>0 DEF Good
  <2>2. Again(Ux07, lib)  BY <2>1, Ux07Makes DEF Again
  <2>3. Again(Ux08, lib)  BY <2>1, Ux08Makes DEF Again
  <2>4. Again(Ux10, lib)  BY <2>1, Ux10Makes DEF Again
  <2>5. Again(Invoke, lib)  BY <2>1, InvokeMakes DEF Again
  <2>6. lib.painters <= 2 => Again(Fix, lib)  BY <2>1, FixMakes DEF Again
  <2>7. ErrorsWhole  BY <2>0, <2>1 DEF Good, ErrorsWhole, Staged, RanIn, Ran, FoundEarly
  <2>8. PaintedOnce  BY <2>0 DEF Good, PaintedOnce, RanIn, Ran
  <2> QED BY <2>2, <2>3, <2>4, <2>5, <2>6, <2>7, <2>8 DEF Repeatable
<1> QED BY <1>1, <1>2 DEF LibKept

\* (LibKept) Whatever the scripts that patch li-studio's lib.li are run on, in
\* whatever order and as often as one likes, with kills between and during
\* their writes: until a write of lib.li is cut off, and again once the rebuild
\* has made the file anew, those that look for their own marks change nothing
\* the second time (apply-ux07, apply-ux08, apply-ux10-ux11, the agent's invoke,
\* fix-studio-lib-check); errors that the text shows are declared and, as long as
\* no script put an earlier shell back, shown; and a definition is there twice
\* only after finish, the patch of the errors or the rebuild.  The text is empty
\* only where it was made from what a cut-off write, or git at fault, left.
THEOREM LibraryIsKept == SPSpec => []LibKept
<1>1. SPInit => Patching  BY PatchingInit
<1>2. Patching /\ [SPNext]_spVars => Patching'  BY PatchingStep
<1>3. Patching => LibKept  BY PatchingKept
<1> QED BY <1>1, <1>2, <1>3, PTL DEF SPSpec
=============================================================================
