---------------------------- MODULE RebuildLemmas ----------------------------
(* scripts/proof-db/rebuild_lemmas.py: for each axiom and lemma of the proof *)
(* database, the specimen is built with lic, and the goals that the build   *)
(* leaves open are counted in build/generated/AutoVC.lean, a file that every *)
(* other build of the checkout writes too.  The report is written twice, as  *)
(* JSON and as a page.                                                       *)
EXTENDS Integers, Sequences, SequencesExt, FiniteSets

CONSTANTS
  Absent,      \* no value
  Entries,   \* the entries, in the order of their files: [id, kind, catalog, spec]
  Specs,     \* the specimens that entries name
  MaxOther,  \* bound: builds that somebody else runs
  MaxReports \* bound: runs of the tool

ASSUME EntriesAssumption == IsFiniteSet(DOMAIN Entries)

VARIABLES
  goals,     \* specimen -> what its build leaves open, or Fails
  autovc,    \* AutoVC.lean: Absent or [open, of]
  worker,    \* the run: [at, next, rows, builds]
  reports,   \* the two files: [json, page]
  others,    \* builds of somebody else that have ended
  disturbed, \* places of the entries during whose build somebody else built
  runs       \* runs that started

rlVars == <<goals, autovc, worker, reports, others, disturbed, runs>>

Fails == -1   \* of a build that fails

(* The axioms and lemmas, in the order of the entries.                       *)
LemmaPlaces == {i \in DOMAIN Entries : Entries[i].kind \in {"axiom", "lemma"}}
Lemmas == [n \in 1 .. Cardinality(LemmaPlaces) |->
             Entries[CHOOSE i \in LemmaPlaces : Cardinality({j \in LemmaPlaces : j <= i}) = n]]
Resting == [at |-> "resting", next |-> 0, rows |-> <<>>, builds |-> FALSE]
Current == Lemmas[worker.next]
NoReport == [run |-> 0, rows |-> <<>>, mismatch |-> 0]

RLInit ==
  /\ goals \in [Specs -> {0, 2, Fails}]
  /\ autovc \in {Absent} \cup {[open |-> goals[s], of |-> s] : s \in {t \in Specs : goals[t] # Fails}}
  /\ worker = Resting
  /\ reports = [json |-> NoReport, page |-> NoReport]
  /\ others = 0
  /\ disturbed = {}
  /\ runs = 0

(* What lic leaves: a build that goes through may still write no goals.      *)
Left(s) == IF goals[s] = Fails THEN {Absent} ELSE {Absent, [open |-> goals[s], of |-> s]}

(* The tool builds when it was not told not to and finds lic.                *)
StartReport ==
  /\ worker.at = "resting"
  /\ runs < MaxReports
  /\ \E builds \in BOOLEAN :
       worker' = [at |-> "row", next |-> 1, rows |-> <<>>, builds |-> builds]
  /\ disturbed' = {}
  /\ runs' = runs + 1
  /\ UNCHANGED <<goals, autovc, reports, others>>

Needs(entry) == entry.catalog # "axiomatic" /\ worker.builds /\ entry.spec # Absent
Unbuilt(entry) == IF entry.catalog = "axiomatic" THEN "axiomatic" ELSE "skipped"

(* The row of the entry is complete.                                         *)
Complete(status, open) ==
  worker' = [worker EXCEPT !.at = "row", !.next = @ + 1,
                           !.rows = Append(@, [id |-> Current.id, catalog |-> Current.catalog,
                                               spec |-> Current.spec,
                                               status |-> status, open |-> open])]

SkipRow ==
  /\ worker.at = "row"
  /\ worker.next \in DOMAIN Lemmas
  /\ ~ Needs(Current)
  /\ Complete(Unbuilt(Current), Absent)
  /\ UNCHANGED <<goals, autovc, reports, others, disturbed, runs>>

(* The goals of the build before are removed first.                          *)
LeftThere == autovc   \* a plausible bug: the goals stay
Cleared == Absent
Unlink ==
  /\ worker.at = "row"
  /\ worker.next \in DOMAIN Lemmas
  /\ Needs(Current)
  /\ autovc' = Cleared
  /\ worker' = [worker EXCEPT !.at = "building"]
  /\ UNCHANGED <<goals, reports, others, disturbed, runs>>

Build ==
  /\ worker.at = "building"
  /\ \E left \in Left(Current.spec) : autovc' = IF left = Absent THEN autovc ELSE left
  /\ IF goals[Current.spec] = Fails THEN Complete("build_failed", Absent)
                                      ELSE worker' = [worker EXCEPT !.at = "counting"]
  /\ UNCHANGED <<goals, reports, others, disturbed, runs>>

(* A file that is not there counts as -1 open goals, and those are not none. *)
OpenGoals == IF autovc = Absent THEN -1 ELSE autovc.open
StatusOf(n) == IF n = 0 THEN "proved" ELSE "open"
Count ==
  /\ worker.at = "counting"
  /\ Complete(StatusOf(OpenGoals), OpenGoals)
  /\ UNCHANGED <<goals, autovc, reports, others, disturbed, runs>>

(* A row that the catalog calls proved and the rebuild does not.             *)
Mismatch(row) == row.catalog = "proved" /\ row.status \notin {"proved", "skipped", "axiomatic"}
Report == [run |-> runs, rows |-> worker.rows,
           mismatch |-> Cardinality({i \in DOMAIN worker.rows : Mismatch(worker.rows[i])})]

WriteJson ==
  /\ worker.at = "row"
  /\ worker.next \notin DOMAIN Lemmas
  /\ reports' = [reports EXCEPT !.json = Report]
  /\ worker' = [worker EXCEPT !.at = "page"]
  /\ UNCHANGED <<goals, autovc, others, disturbed, runs>>

WritePage ==
  /\ worker.at = "page"
  /\ reports' = [reports EXCEPT !.page = Report]
  /\ worker' = Resting
  /\ UNCHANGED <<goals, autovc, others, disturbed, runs>>

KillReport ==
  /\ worker.at # "resting"
  /\ worker' = Resting
  /\ UNCHANGED <<goals, autovc, reports, others, disturbed, runs>>

(* Somebody else builds one of the specimens.                                *)
OtherBuild ==
  /\ others < MaxOther
  /\ \E s \in Specs : \E left \in Left(s) : autovc' = left
  /\ others' = others + 1
  /\ disturbed' = IF worker.at \in {"building", "counting"} THEN disturbed \cup {worker.next} ELSE disturbed
  /\ UNCHANGED <<goals, worker, reports, runs>>

(* Somebody edits a specimen between two runs.                               *)
EditSpecimen ==
  /\ worker.at = "resting"
  /\ \E s \in Specs, g \in {0, 2, Fails} : goals' = [goals EXCEPT ![s] = g]
  /\ UNCHANGED <<autovc, worker, reports, others, disturbed, runs>>

RLNext ==
  \/ StartReport \/ SkipRow \/ Unlink \/ Build \/ Count \/ WriteJson \/ WritePage
  \/ KillReport \/ OtherBuild \/ EditSpecimen

RLSpec == RLInit /\ [][RLNext]_rlVars

---------------------------------------------------------------------------
(* A row says proved or counts goals only of its own specimen's build, which *)
(* left just those open, whatever was built before; and a row whose build    *)
(* fails says so.  An entry during whose build somebody else built is        *)
(* exempt: AutoVC.lean is one file for all.                                  *)
OwnBuild(rows) ==
  \A i \in DOMAIN rows :
    LET row == rows[i] g == goals[row.spec]
    IN  i \notin disturbed =>
          /\ row.status = "proved" => g = 0
          /\ row.status = "open" => row.open \in {-1, g}
          /\ row.status = "build_failed" => g = Fails

(* Of the two files of a run, the page is never the newer one; and in a page *)
(* that is as new as the JSON every entry is accounted for in its order, and *)
(* the mismatches are those of its rows.                                     *)
SameReport ==
  reports.page # NoReport =>
    /\ reports.json # NoReport /\ reports.page.run <= reports.json.run
    /\ reports.page.run = reports.json.run => reports.page = reports.json
    /\ [i \in DOMAIN reports.page.rows |-> reports.page.rows[i].id] = [i \in DOMAIN Lemmas |-> Lemmas[i].id]

ReportFresh == (worker.at # "resting" => OwnBuild(worker.rows)) /\ SameReport
===========================================================================
