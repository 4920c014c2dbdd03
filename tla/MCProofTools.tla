---------------------------- MODULE MCProofTools ----------------------------
(* The scripts whose behaviours are lists of reads and writes: the tools of  *)
(* the proof database, of the claim ledger and of the studio's library, and  *)
(* the gap pipeline.  Those that share no files are run apart from one       *)
(* another: part is which of them a behaviour is about.                      *)
EXTENDS ProofDb, RebuildLemmas, ClaimLedger, StudioPatches, GapSwarm, TLC

CONSTANTS CorpusRuns, ErdosRuns, StudioRuns   \* bounds: tools that are run in a behaviour

MCPlanned == <<<<"GT-LM", "HS", 1>>, <<"P-AX", "EM", 14>>, <<"ST-AX", "PR", 1>>, <<"ST-AX", "PR", 11>>>>
MCSuperseded == (<<"prior", "GT", 1>> :> <<"GT-LM", "HS", 1>>) @@ (<<"prior", "ST", 2>> :> <<"ST-AX", "PR", 1>>)
MCCorpora ==
  {<<>>,
   (<<"P-AX", "EM", 14>> :> <<"stub", "P", 14>>) @@ (<<"ST-AX", "PR", 11>> :> <<"old", "kolmogorov", 11>>),
   (<<"GT-LM", "HS", 1>> :> <<"variant", "HS", 1>>)}
MCNumbers == {3, 4, 11}
MCFixes == {4}
MCNewRows == {11}
MCOverlays == (3 :> [stmt |-> <<"overlay", 3>>, tier |-> "polished"])
                @@ (4 :> [stmt |-> None, tier |-> "curated"])
MCLatex == {<<"text", 4>>, <<"page", 3>>}
MCFinds == {{3, 11}}
MCRegisters ==
  {[n \in {3, 4} |-> Row(<<"text", n>>, IF n = 3 THEN tier ELSE None, "open")] : tier \in {None, "polished"}}

MCEntry(id, catalog, spec) == [id |-> id, kind |-> "lemma", catalog |-> catalog, spec |-> spec]
MCEntries ==
  <<MCEntry(1, "proved", "s1"), [MCEntry(2, "proved", Absent) EXCEPT !.kind = "definition"],
    MCEntry(3, "open", "s2"), [MCEntry(4, "axiomatic", "s1") EXCEPT !.kind = "axiom"], MCEntry(5, "open", Absent)>>

MCClaim(id, status, cites) == [id |-> id, status |-> status, cites |-> cites]
MCFirstClaims == <<MCClaim(2, "heuristic", TRUE), MCClaim(4, "model_consensus", FALSE)>>
MCFirstReviews == <<[claim |-> 2, model |-> "m1", verdict |-> "proved"], [claim |-> 4, model |-> "m1", verdict |-> "plausible"]>>
MCNewClaims == {MCClaim(4, "heuristic", FALSE), MCClaim(6, "model_conflict", TRUE)}
MCNewReviews == {[claim |-> 6, model |-> "m2", verdict |-> "proved"], [claim |-> 2, model |-> "m2", verdict |-> "plausible"]}

(* The texts of lib.li: the one that apply-ux07-li-studio.py quotes, the one   *)
(* that apply-ux08-viewport-error.py quotes, the one that is there today, and  *)
(* the one that a cut-off write left; and two places where a write is cut off, *)
(* after the errors are declared and after their overlay.                      *)
MCCommon ==
  {"profile_extern", "profile_wrappers", "compose_shell_agent", "shell_frame", "panel_state", "timeline_tick",
   "chip_of_rect", "agent_locals", "slot_locals", "layout_fields", "shell_chrome_of_agent", "retry_hint", "retry_hint_rect",
   "tool_request_field", "agent_composed", "agent_paint", "agent_check"}
MCShell05 ==
  Text(MCCommon \cup {"field_rows", "inspector_type", "shell_fields", "compose_shell", "agent_args", "inspector_cmds",
                      "agent_cmds", "chrome_count_2", "frame_args"}, "05", 0, 3)
MCHead(painters) ==
  Text(MCCommon \cup {"viewport_empty", "inspector_empty_cmds", "empty_cmds", "rows_140", "empty_type", "empty_helpers",
                      "empty_shell", "chrome_count_context", "other_fours"}, "head", painters, 4)
MCToday ==
  Text({"viewport_empty", "inspector_empty_cmds", "empty_cmds", "empty_type", "err_gpu", "error_externs_specified", "error_type",
        "error_overlay", "error_field", "error_composed", "paint_error", "chrome_count_error", "timeline_externs",
        "timeline_wrappers", "loading_state", "focus_ring_for_panel", "loading_init", "compose_loading", "loading_frame",
        "compose_shell_palette", "compose_shell_agent", "shell_config", "layout_fields", "send_button", "invoke_fields",
        "invoke_visible", "invoke_counted", "invoke_painted", "invoke_checked"}, "today", 1, 57)
MCLibraries == {Empty, MCShell05, MCHead(0), MCHead(1), MCToday}
MCEarly ==
  {"profile_extern", "profile_extern_raises", "timeline_externs", "error_externs", "error_externs_specified",
   "field_rows", "rows_140", "err_gpu"}
MCMiddle ==
  {"empty_type", "error_type", "inspector_type", "compose_shell", "viewport_empty", "inspector_empty_cmds", "error_overlay"}
MCCuts == {MCEarly, MCEarly \cup MCMiddle}
MCRebuilt == Ux08(MCHead(1))

(* One runner of the gap pipeline: rows and todos of different runners never *)
(* meet.  There are mirrors in its files, or there is a gap to a competitor.  *)
MCRunners == <<"sim">>
HasMirrors == \E r \in Names : \E t \in Todos : plan[r][t] = "pending" /\ t[1] > 0

VARIABLE part
vars == <<dbVars, rlVars, clVars, spVars, gsVars, part>>

(* What a part is not about has one initial state.                           *)
Init ==
  /\ part \in {"corpus", "erdos", "report", "claims", "studio", "mirrors", "competitors"}
  /\ DbInit /\ RLInit /\ CLInit /\ SPInit /\ GSInit
  /\ part # "corpus" => DOMAIN db.specimens = {}
  /\ part # "erdos" => DOMAIN db.catalog = {} /\ db.register[3].tier = None
  /\ part # "report" => goals = [s \in Specs |-> 0] /\ autovc = Absent
  /\ part # "claims" => ledger.claims = <<>>
  /\ part # "studio" => lib = Empty
  /\ part = "mirrors" <=> HasMirrors
  /\ part \notin {"mirrors", "competitors"} => shared = {}

(* The tools of the corpus; those of the register, and the one tool of the   *)
(* corpus that writes their specimens; the report; and the ledger.           *)
CorpusNext ==
  \/ Len(trail) < CorpusRuns /\ StartCorpusTool
  \/ WriteOne \/ End \/ Kill
ErdosNext ==
  \/ Len(trail) < ErdosRuns /\ (StartErdosTool \/ Start("de-stub-catalog", DestubCatalog(db)))
  \/ WriteOne \/ End \/ Kill

StudioNext ==
  \/ launched < StudioRuns /\ RunScript
  \/ WriteText \/ Ends \/ KillScript

(* Where there are mirrors the audits list no gap to a competitor.            *)
MirrorsNext ==
  /\ GSNext
  /\ \A g \in GapRows : g.kind = "competitor_feature" => mem'[g] = "absent"

Next ==
  \/ part = "corpus" /\ CorpusNext /\ UNCHANGED <<rlVars, clVars, spVars, gsVars, part>>
  \/ part = "erdos" /\ ErdosNext /\ UNCHANGED <<rlVars, clVars, spVars, gsVars, part>>
  \/ part = "report" /\ RLNext /\ UNCHANGED <<dbVars, clVars, spVars, gsVars, part>>
  \/ part = "claims" /\ CLNext /\ UNCHANGED <<dbVars, rlVars, spVars, gsVars, part>>
  \/ part = "studio" /\ StudioNext /\ UNCHANGED <<dbVars, rlVars, clVars, gsVars, part>>
  \/ part = "mirrors" /\ MirrorsNext /\ UNCHANGED <<dbVars, rlVars, clVars, spVars, part>>
  \/ part = "competitors" /\ GSNext /\ UNCHANGED <<dbVars, rlVars, clVars, spVars, part>>
Spec == Init /\ [][Next]_vars
=============================================================================
