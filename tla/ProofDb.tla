------------------------------- MODULE ProofDb -------------------------------
(* The files of the proof database and the tools that rewrite them: the     *)
(* basic corpus (catalog entries, manifests and specimens of each field) and *)
(* the register of Erdos problems (register.json, its catalog, specimens).   *)
(*                                                                          *)
(* A tool reads what it needs when it starts and then writes one file after *)
(* the other.  It may be killed between two writes, or in the middle of one: *)
(* Path.write_text truncates the file first, so the file is then empty.      *)
(* Tools are run one at a time.                                              *)
EXTENDS CorpusText, SequencesExt, Functions

CONSTANTS
  None,         \* no value
  Planned,      \* the entries of the plan, sorted by field, tranche and id
  Corpora,      \* the catalogs the tools may find: id -> statement
  Superseded,   \* earlier entry -> the planned entry that supersedes it
  Numbers,      \* numbers of Erdos problems
  Fixes,        \* those that patch-erdos-register-tier1.py corrects
  NewRows,      \* those that it adds
  Overlays,     \* number -> [stmt, tier] of overlays.json
  Latex,        \* the statements of the register that have a backslash
  Registers,    \* the registers the tools may find
  Finds         \* sets of problems whose pages a fetch finds

VARIABLES
  db,     \* the files
  job,    \* the tool that runs: its name and the writes it has still to do
  trail,  \* the tools that were run
  cut     \* the files that a kill left empty

dbVars == <<db, job, trail, cut>>

(* A statement of a catalog: the lookup knows every placeholder of physics.  *)
IsStatement(stmt) == stmt[1] = "stub" /\ stmt[2] # "GAU" => stmt[3] \in PhysicsStubs

ASSUME PlannedAssumption == Planned \in Seq({r.id : r \in Plan})
ASSUME CorporaAssumption ==
  \A corpus \in Corpora :
    /\ DOMAIN corpus \subseteq ToSet(Planned)
    /\ \A id \in DOMAIN corpus : IsStatement(corpus[id])
ASSUME NumbersAssumption ==
  \A numbers \in {Numbers, Fixes, NewRows} : numbers \subseteq Nat /\ IsFiniteSet(numbers)

(* The numbers of a set from the least to the greatest, and the elements of  *)
(* a sequence that are in a set, in their order.                              *)
Ascending(numbers) ==
  [k \in 1..Cardinality(numbers) |->
     CHOOSE n \in numbers : Cardinality({m \in numbers : m <= n}) = k]
Kept(seq, set) ==
  LET places == Ascending({i \in DOMAIN seq : seq[i] \in set}) IN [k \in DOMAIN places |-> seq[places[k]]]

(* A table with one more row, and a table laid over another one.            *)
Put(table, key, row) == [k \in {key} \cup DOMAIN table |-> IF k = key THEN row ELSE table[k]]
Over(upper, lower) ==
  [k \in DOMAIN upper \cup DOMAIN lower |-> IF k \in DOMAIN upper THEN upper[k] ELSE lower[k]]

Fields == Kept(<<"chemistry", "discrete", "graph", "physics", "statistics">>,
               {FieldOf(id) : id \in ToSet(Planned)})
PlanStatement(id) == (CHOOSE r \in Plan : r.id = id).stmt
PlanOf(field) == [id \in {i \in ToSet(Planned) : FieldOf(i) = field} |-> PlanStatement(id)]

(* Entries of the corpus are in the catalog of their field, those that were *)
(* there before the corpus in "other".                                       *)
Catalogs == Append(Fields, "other")
RowsOf(d, field) == DOMAIN d.entries[field]
Rows(d) == UNION {RowsOf(d, f) : f \in ToSet(Fields)}
Statement(d, id) == d.entries[FieldOf(id)][id]
Ordered(ids) == Kept(Planned, ids)

(* Every step of a tool is one write.                                       *)
Write(op, on, what) == [op |-> op, on |-> on, what |-> what]
Each(op, seq) == [i \in DOMAIN seq |-> Write(op, seq[i], None)]

---------------------------------------------------------------------------
(* bootstrap-basic-corpus.py                                                 *)

WriteManifests(d) == Each("manifest", Fields)

Pending(d, tranche, limit) ==
  LET missing == Ordered({id \in ToSet(Planned) :
                            id \notin Rows(d) /\ Tranche(EntryIndex(id)) <= tranche})
  IN  IF Len(missing) <= limit THEN missing ELSE SubSeq(missing, 1, limit)
Bootstrap(d, tranche, limit) ==   \* for each entry its specimen, and then its row
  [k \in 1..2 * Len(Pending(d, tranche, limit)) |->
     Write(IF k % 2 = 1 THEN "specimen" ELSE "append", Pending(d, tranche, limit)[(k + 1) \div 2], None)]

(* dedupe-basic-corpus.py: an earlier entry goes when the catalogs of the    *)
(* corpus have the one that supersedes it.                                   *)
ToDrop(d) == {prior \in DOMAIN Superseded : Superseded[prior] \in Rows(d)}
Dedupe(d) ==
  IF ToDrop(d) \cap RowsOf(d, "other") = {} THEN <<>> ELSE <<Write("drop", "other", ToDrop(d))>>

(* destub-basic-corpus.py: the catalogs of the corpus, the manifests, and    *)
(* then the first lines of the specimens.  de-stub-catalog.py: the same, for *)
(* every catalog and the specimens of every entry.                           *)
HeadersFirst(d) ==   \* a plausible bug: the specimens before the catalogs
  Each("header", Ordered(Rows(d))) \o Each("patch", Fields) \o Each("patchPlan", Fields)
DestubBasic(d) ==
  Each("patch", Fields) \o Each("patchPlan", Fields) \o Each("header", Ordered(Rows(d)))
DestubCatalog(d) ==
  Each("patch", Catalogs) \o Each("patchPlan", Fields) \o Each("header", Ordered(Rows(d)))
    \o Each("heading", Ascending(DOMAIN d.catalog))

(* enrich-basic-corpus-specimens.py reads all entries, and then writes each  *)
(* of their specimens anew.  With --patch-catalog it corrects the catalogs   *)
(* first, which --dry-run does not prevent.                                   *)
Enrich(d) == [i \in DOMAIN Ordered(Rows(d)) |->
                Write("rewrite", Ordered(Rows(d))[i], Statement(d, Ordered(Rows(d))[i]))]
PatchCatalog(d) == Each("repatch", Fields)

(* destub-proc-specimens.py                                                  *)
DestubProc(d) ==
  Each("migrate", Ordered({id \in DOMAIN d.specimens : d.specimens[id].body = "open_witness"}))

---------------------------------------------------------------------------
(* The register of Erdos problems.                                           *)

Row(stmt, tier, status) == [stmt |-> stmt, tier |-> tier, status |-> status, spec |-> FALSE]
ASSUME RegistersAssumption ==   \* no problem has a specimen at first
  \A register \in Registers :
    /\ DOMAIN register \subseteq Nat /\ IsFiniteSet(DOMAIN register)
    /\ \A n \in DOMAIN register : register[n] = Row(register[n].stmt, register[n].tier, register[n].status)

(* erdos_fetch_register.py: a page that was found replaces the row.          *)
Todo(d, skip) == IF skip THEN Numbers \ DOMAIN d.register ELSE Numbers
Fetched(d, skip, found) ==
  Over([n \in found \cap Todo(d, skip) |-> Row(<<"page", n>>, None, "open")], d.register)
Fetch(d, skip, found) ==
  IF Todo(d, skip) = {} THEN <<>> ELSE <<Write("register", None, Fetched(d, skip, found))>>

(* patch-erdos-register-tier1.py: a correction keeps the fields of the row   *)
(* that it does not name.                                                    *)
Fixed(d, n) ==
  IF n \in DOMAIN d.register THEN [d.register[n] EXCEPT !.stmt = <<"fix", n>>, !.status = "proved"]
                             ELSE Row(<<"fix", n>>, None, "proved")
Tier1(d) ==
  <<Write("register", None, Over([n \in Fixes |-> Fixed(d, n)],
      Over(d.register, [n \in NewRows |-> Row(<<"new", n>>, None, "open")])))>>

(* erdos_apply_overlays.py leaves polished rows alone.                       *)
Merged(row, overlay) ==
  IF row.tier = "polished" THEN row
  ELSE [row EXCEPT !.tier = overlay.tier, !.stmt = IF overlay.stmt = None THEN @ ELSE overlay.stmt]
ApplyOverlays(d) ==
  <<Write("register", None, [n \in DOMAIN d.register |->
      IF n \in DOMAIN Overlays THEN Merged(d.register[n], Overlays[n]) ELSE d.register[n]])>>

(* de-stub-erdos-specimens.py: a specimen for each of the first problems,    *)
(* whose statement is the overlay's where there is one; then the register;   *)
(* then the catalog, every row of which is given the name of its specimen.   *)
FirstOf(numbers, limit) ==
  IF limit = 0 THEN numbers ELSE {n \in numbers : Cardinality({m \in numbers : m <= n}) <= limit}
Rendered(d, n) ==
  IF n \in DOMAIN Overlays /\ Overlays[n].stmt # None THEN Overlays[n].stmt ELSE d.register[n].stmt
LinkedNowhere(d, numbers) == d.register   \* a plausible bug: the register is not told
Linked(d, numbers) ==
  [n \in DOMAIN d.register |->
     IF n \in numbers THEN [d.register[n] EXCEPT !.spec = TRUE] ELSE d.register[n]]
Specimens(d, limit) ==
  LET chosen == FirstOf(DOMAIN d.register, limit)
      order  == Ascending(chosen)
  IN  [i \in DOMAIN order |-> Write("sheet", order[i], Rendered(d, order[i]))]
      \o <<Write("register", None, Linked(d, chosen)), Write("relink", "catalog", DOMAIN d.register)>>

(* erdos_sync_catalog.py: the catalog is the first rows of the register and, *)
(* with --merge, the rows it had of other problems.                          *)
Entry(row) == [stmt |-> row.stmt, status |-> row.status, spec |-> row.spec]
Sync(d, limit, merge) ==
  LET batch == [n \in FirstOf(DOMAIN d.register, limit) |-> Entry(d.register[n])]
  IN  <<Write("catalog", "catalog", IF merge THEN Over(batch, d.catalog) ELSE batch)>>

---------------------------------------------------------------------------
(* What a write does to the files.                                           *)

(* de-stub-catalog.py reads the catalog's text with a pattern and undoes the *)
(* escape of quotes only: a statement of the register that has backslashes    *)
(* gets each of them doubled when it is put at the head of its specimen.  No *)
(* statement of the plan has a backslash.                                     *)
InHeader(stmt) == IF stmt \in Latex THEN <<"doubled", stmt>> ELSE stmt
Headed(sheet, stmt) == IF sheet.head = None THEN sheet ELSE [sheet EXCEPT !.head = stmt]

Done(d, w) ==
  CASE w.op = "manifest"  -> [d EXCEPT !.manifests[w.on] = PlanOf(w.on)]
    [] w.op = "specimen"  -> IF w.on \in DOMAIN d.specimens THEN d
                             ELSE [d EXCEPT !.specimens = Put(@, w.on,
                                     [head |-> PlanStatement(w.on), body |-> BootstrapBody(w.on)])]
    [] w.op = "append"    -> [d EXCEPT !.entries[FieldOf(w.on)] = Put(@, w.on, PlanStatement(w.on))]
    [] w.op = "drop"      -> [d EXCEPT !.entries.other = Restrict(@, DOMAIN @ \ w.what)]
    [] w.op = "patch"     -> [d EXCEPT !.entries[w.on] = [id \in DOMAIN @ |-> Destubbed(id, @[id])]]
    [] w.op = "patchPlan" -> [d EXCEPT !.manifests[w.on] = [id \in DOMAIN @ |-> Destubbed(id, @[id])]]
    [] w.op = "repatch"   -> [d EXCEPT !.entries[w.on] = [id \in DOMAIN @ |-> Patched(@[id])]]
    [] w.op = "header"    -> IF w.on \in Rows(d) \cap DOMAIN d.specimens
                             THEN [d EXCEPT !.specimens[w.on] = Headed(@, Statement(d, w.on))] ELSE d
    [] w.op = "heading"   -> IF w.on \in DOMAIN d.catalog \cap DOMAIN d.sheets /\ d.catalog[w.on].spec
                             THEN [d EXCEPT !.sheets[w.on] = Headed(@, InHeader(d.catalog[w.on].stmt))] ELSE d
    [] w.op = "rewrite"   -> [d EXCEPT !.specimens = Put(@, w.on,
                                [head |-> w.what, body |-> EnrichedBody(w.on, w.what)])]
    [] w.op = "migrate"   -> [d EXCEPT !.specimens[w.on].body = "main"]
    [] w.op = "register"  -> [d EXCEPT !.register = w.what]
    [] w.op = "sheet"     -> [d EXCEPT !.sheets = Put(@, w.on, [head |-> w.what])]
    [] w.op = "relink"    -> [d EXCEPT !.catalog = [n \in DOMAIN @ |->
                                IF n \in w.what THEN [@[n] EXCEPT !.spec = TRUE] ELSE @[n]]]
    [] w.op = "catalog"   -> [d EXCEPT !.catalog = w.what]

(* The file that a write rewrites, and the files when it is left empty.      *)
FileOf(w) ==
  CASE w.op \in {"drop", "patch", "repatch"} -> <<"entries", w.on>>
    [] w.op \in {"manifest", "patchPlan"} -> <<"manifests", w.on>>
    [] w.op \in {"specimen", "header", "rewrite", "migrate"} -> <<"specimens", w.on>>
    [] w.op \in {"sheet", "heading"} -> <<"sheets", w.on>>
    [] w.op \in {"relink", "catalog"} -> <<"catalog">>
    [] w.op = "register" -> <<"register">>
Emptied(d, w) ==
  CASE w.op \in {"drop", "patch", "repatch"} -> [d EXCEPT !.entries[w.on] = <<>>]
    [] w.op \in {"manifest", "patchPlan"} -> [d EXCEPT !.manifests[w.on] = <<>>]
    [] w.op \in {"specimen", "header", "rewrite", "migrate"} ->
         [d EXCEPT !.specimens = Put(@, w.on, [head |-> None, body |-> "empty"])]
    [] w.op \in {"sheet", "heading"} -> [d EXCEPT !.sheets = Put(@, w.on, [head |-> None])]
    [] w.op \in {"relink", "catalog"} -> [d EXCEPT !.catalog = <<>>]
    [] w.op = "register" -> [d EXCEPT !.register = None]

---------------------------------------------------------------------------
(* The trail tells a kill of a tool of the corpus from that of another.      *)
CorpusTools ==
  {"write-manifests", "bootstrap", "dedupe", "destub-basic", "de-stub-catalog", "patch-catalog",
   "enrich", "destub-proc"}
Killed(tool) == IF tool \in CorpusTools THEN "killed" ELSE "killed, register"

ErdosTools ==
  {"fetch", "tier1", "overlays", "specimens", "specimens --limit", "sync", "sync --limit", "sync --merge"}
ASSUME NoneAssumption == None \notin CorpusTools \cup ErdosTools

Idle == [tool |-> None, writes |-> <<>>]

(* A corpus that was there before has a specimen for each entry, with only   *)
(* main, a witness that the compiler does not check, or definitions that     *)
(* somebody wrote.                                                            *)
DbInit ==
  /\ \E corpus \in Corpora, register \in Registers, synced \in BOOLEAN,
        body \in {"main", "open_witness", "by_hand"} :
       db = [entries   |-> [f \in ToSet(Catalogs) |->
                              IF f = "other" THEN [p \in DOMAIN Superseded |-> <<"modeling", "prior", p[3]>>]
                              ELSE Restrict(corpus, {id \in DOMAIN corpus : FieldOf(id) = f})],
             manifests |-> [f \in ToSet(Fields) |->
                              Restrict(corpus, {id \in DOMAIN corpus : FieldOf(id) = f})],
             specimens |-> [id \in DOMAIN corpus |-> [head |-> corpus[id], body |-> body]],
             register  |-> register,
             catalog   |-> IF synced THEN [n \in DOMAIN register |-> Entry(register[n])] ELSE <<>>,
             sheets    |-> <<>>]
  /\ job = Idle
  /\ trail = <<>>
  /\ cut = {}

Start(tool, writes) ==
  /\ job = Idle
  /\ job' = [tool |-> tool, writes |-> writes]
  /\ UNCHANGED <<db, trail, cut>>

StartCorpusTool ==
  \/ Start("write-manifests", WriteManifests(db))
  \/ \E tranche \in {1, 3}, limit \in {1, Len(Planned)} : Start("bootstrap", Bootstrap(db, tranche, limit))
  \/ Start("dedupe", Dedupe(db))
  \/ Start("destub-basic", DestubBasic(db))
  \/ Start("de-stub-catalog", DestubCatalog(db))
  \/ Start("patch-catalog", PatchCatalog(db))
  \/ Start("enrich", Enrich(db))
  \/ Start("destub-proc", DestubProc(db))

StartErdosTool ==
  /\ db.register # None
  /\ \/ \E skip \in BOOLEAN, found \in Finds : Start("fetch", Fetch(db, skip, found))
     \/ Start("tier1", Tier1(db))
     \/ Start("overlays", ApplyOverlays(db))
     \/ Start("specimens", Specimens(db, 0))
     \/ Start("specimens --limit", Specimens(db, 1))
     \/ Start("sync", Sync(db, 0, FALSE))
     \/ Start("sync --limit", Sync(db, 1, FALSE))
     \/ \E limit \in {0, 1} : Start("sync --merge", Sync(db, limit, TRUE))

(* Some files are only written when their text changes.                      *)
IsWhole(w) == w.op \in {"manifest", "rewrite", "register", "sheet", "catalog"}
WritesFile(w) == IsWhole(w) \/ (w.op # "append" /\ Done(db, w) # db)

WriteOne ==
  /\ job.writes # <<>>
  /\ db' = Done(db, Head(job.writes))
  /\ job' = [job EXCEPT !.writes = Tail(@)]
  /\ cut' = cut \ (IF IsWhole(Head(job.writes)) THEN {FileOf(Head(job.writes))} ELSE {})
  /\ UNCHANGED trail

End ==
  /\ job # Idle
  /\ job.writes = <<>>
  /\ trail' = Append(trail, job.tool)
  /\ job' = Idle
  /\ UNCHANGED <<db, cut>>

Kill ==
  /\ job.writes # <<>>
  /\ trail' = Append(trail, Killed(job.tool))
  /\ job' = Idle
  /\ \/ UNCHANGED <<db, cut>>
     \/ /\ WritesFile(Head(job.writes))
        /\ db' = Emptied(db, Head(job.writes))
        /\ cut' = cut \cup {FileOf(Head(job.writes))}

DbNext == StartCorpusTool \/ StartErdosTool \/ WriteOne \/ End \/ Kill
DbSpec == DbInit /\ [][DbNext]_dbVars

---------------------------------------------------------------------------
JustEnded(tools) == job = Idle /\ trail # <<>> /\ Last(trail) \in tools

(* When a tool that removes placeholders has ended, no entry of the corpus   *)
(* has a statement that the lookup would replace, and the first line of each *)
(* specimen that names its entry has the entry's statement.                  *)
Settled ==
  JustEnded({"destub-basic", "de-stub-catalog"}) =>
    \A id \in Rows(db) :
      /\ Destubbed(id, Statement(db, id)) = Statement(db, id)
      /\ db.specimens[id].head \in {None, Statement(db, id)}

(* When enrich has ended, stub-audit.py finds no specimen of the corpus that *)
(* has only main.                                                             *)
Enriched ==
  JustEnded({"enrich"}) =>
    \A id \in Rows(db) :
      HasNamedDef(db.specimens[id].body) /\ db.specimens[id].head = Statement(db, id)

(* An earlier entry is only gone when the one that supersedes it is there,   *)
(* unless a kill emptied a catalog.                                           *)
NothingLost ==
  \A prior \in DOMAIN Superseded :
    LET canonical == Superseded[prior]
    IN  \/ prior \in RowsOf(db, "other") \/ canonical \in Rows(db)
        \/ {<<"entries", "other">>, <<"entries", FieldOf(canonical)>>} \cap cut # {}

(* The corpus after any tools and kills: the three statements above, and the *)
(* specimen that an entry names is there (verify-slice of proof-db.py).      *)
CorpusSound == Settled /\ Enriched /\ NothingLost /\ Rows(db) \subseteq DOMAIN db.specimens

(* The specimen that the register names is there, and so is the one that the *)
(* catalog names, but for the rows beyond the --limit of                     *)
(* de-stub-erdos-specimens.py.                                                *)
SpecimensFound ==
  LET found == DOMAIN db.sheets
      limited == job.tool = "specimens --limit" \/ \E i \in DOMAIN trail : trail[i] = "specimens --limit"
  IN  /\ db.register # None => \A n \in DOMAIN db.register : db.register[n].spec => n \in found
      /\ limited \/ \A n \in DOMAIN db.catalog : db.catalog[n].spec => n \in found

(* After overlays, specimens and sync, none of them killed, and then no      *)
(* other tools than these, the specimen of a problem is linked and has one   *)
(* of these statements at its head, and the catalog has the register's row.  *)
(* A polished row keeps its statement, but its specimen is given that of the *)
(* overlay.                                                                   *)
Aligned(tools) ==
  /\ job.tool \in tools \cup {None}
  /\ \E i \in DOMAIN trail :
       /\ i + 2 <= Len(trail)
       /\ SubSeq(trail, i, i + 2) = <<"overlays", "specimens", "sync">>
       /\ \A j \in (i + 3)..Len(trail) : trail[j] \in tools
Agreed(n, heads) ==
  /\ n \in DOMAIN db.catalog /\ db.catalog[n] = Entry(db.register[n]) /\ db.catalog[n].spec
  /\ \/ db.sheets[n].head \in heads
     \/ <<"sheets", n>> \in cut
     \/ db.register[n].tier = "polished" /\ n \in DOMAIN Overlays

(* The register of Erdos problems, its catalog and its specimens state every *)
(* problem alike until de-stub-catalog.py is run, whatever other tools of    *)
(* the corpus are; whatever is run or killed, a specimen has the statement   *)
(* of the register or that with doubled backslashes.                          *)
ErdosAgrees ==
  /\ SpecimensFound
  /\ Aligned(CorpusTools \ {"de-stub-catalog"}) =>
       \A n \in DOMAIN db.register : Agreed(n, {db.register[n].stmt})
  /\ Aligned(CorpusTools \cup {"killed"}) =>
       \A n \in DOMAIN db.register : Agreed(n, {db.register[n].stmt, InHeader(db.register[n].stmt)})
===========================================================================
