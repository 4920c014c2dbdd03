---------------------------- MODULE StudioPatches ----------------------------
(* The scripts that patch packages/li-studio/src/lib.li: each reads the whole *)
(* text, edits it and writes it back.  An edit replaces a passage it quotes.  *)
(* When its marker is in the text already, or the passage is not, it does     *)
(* nothing and says nothing; a few scripts give up before they write.         *)
(*                                                                            *)
(* A text is what the edits tell apart of it: the passages it has, which of   *)
(* its versions studio_paint_shell_chrome is, how often it defines            *)
(* studio_paint_viewport_empty, and its version.                              *)
EXTENDS FiniteSets, SequencesExt, TLC

CONSTANTS
  Nothing,    \* no marker; no text: a script that gives up
  Libraries,  \* texts of lib.li that the scripts may find
  Cuts,       \* for each place where a write may be cut off, the passages before it
  Rebuilt     \* the text of the commit that build-studio-lib-for-check takes

VARIABLES
  lib,     \* lib.li
  ui,      \* packages/li-ui/src/lib.li: its passages
  script,  \* the script that runs: its name and the writes it has still to do
  applied, \* the scripts that were launched, each with the shell it found
  launched, \* how often one was
  broken      \* lib.li was made from what a cut-off write, or git at fault, left

spVars == <<lib, ui, script, applied, launched, broken>>

Text(has, shell, painters, version) ==
  [has |-> has, shell |-> shell, painters |-> painters, version |-> version]
Empty == Text({}, "none", 0, 0)
IsText(text) ==
  text = Text(text.has, text.shell, text.painters, text.version) /\ Nothing \notin text.has /\ text.painters \in Nat

(* The errors of the viewport: what they call is declared and their overlay  *)
(* is there; and they are composed, counted and painted by its version.      *)
ErrorsDeclared(text) ==
  {"error_externs", "error_externs_specified"} \cap text.has # {} /\ "error_overlay" \in text.has
ErrorsShown(text) ==
  text.shell \in {"08", "today"} /\ {"error_composed", "paint_error", "chrome_count_error"} \subseteq text.has

(* A text that one of the scripts was not run on yet has what it edits: the  *)
(* one for apply-ux07-li-studio.py, and the one for                          *)
(* apply-ux08-viewport-error.py, which ux07 made or which the shell of the   *)
(* repository came with.                                                     *)
Staged(text) ==
  /\ "field_rows" \in text.has =>
       /\ {"compose_shell", "inspector_cmds", "profile_extern"} \subseteq text.has
       /\ {"viewport_empty", "rows_140", "err_gpu"} \cap text.has = {}
       /\ text.shell = "05" /\ text.painters = 0
  /\ "rows_140" \in text.has =>
       /\ "profile_extern" \in text.has /\ "err_gpu" \notin text.has
       /\ \/ text.shell = "07"
          \/ text.shell = "head" /\ {"empty_shell", "empty_cmds", "chrome_count_context"} \subseteq text.has
  /\ "err_gpu" \in text.has => ErrorsDeclared(text)

ASSUME LibrariesAssumption ==
  /\ \A text \in Libraries \cup {Rebuilt} :
       /\ IsText(text) /\ Staged(text) /\ ("err_gpu" \in text.has => ErrorsShown(text))
       /\ text = Empty \/ text.version # 0
  /\ \A text \in Libraries : text.painters <= 1
  /\ Rebuilt # Empty

---------------------------------------------------------------------------
(* Edits: Swap replaces a passage, Insert keeps it and adds something.        *)
Swap(old, new) == [unless |-> Nothing, at |-> old, drops |-> {old}, gains |-> new]
Insert(marker, place, new) == [unless |-> marker, at |-> place, drops |-> {}, gains |-> new]
Edited(text, e) ==
  IF e.unless \in text.has \/ e.at \notin text.has THEN text
  ELSE [text EXCEPT !.has = (@ \ e.drops) \cup e.gains]
With(text, edits) == FoldLeft(Edited, text, edits)

(* apply-ux07-li-studio.py                                                    *)
Ux07Constants == <<Swap("field_rows", {"rows_140"}), Swap("inspector_type", {"empty_type"}), Swap("shell_fields", {"empty_helpers"})>>
Ux07Compose == <<Swap("compose_shell", {"viewport_empty"}), Swap("agent_args", {"agent_scene"})>>
Ux07Paint == <<Swap("inspector_cmds", {"inspector_empty_cmds", "empty_cmds", "other_fours"}), Swap("agent_cmds", {"agent_cmds_context"}),
               Swap("chrome_count_2", {"chrome_count_3"}), Swap("frame_args", {"frame_args_3"})>>
Ux07Edits == Ux07Constants \o Ux07Compose \o Ux07Paint
Ux07PaintShell(text) ==
  IF text.shell = "05" THEN [text EXCEPT !.shell = "07", !.painters = @ + 1] ELSE text
Ux07(text) ==
  IF {"viewport_empty", "inspector_empty_cmds"} \subseteq text.has THEN text
  ELSE IF ~ {"field_rows", "compose_shell"} \subseteq text.has THEN Nothing
  ELSE Ux07PaintShell(With(text, Ux07Edits))

(* finish-ux04-ux07.py, which runs the one above when it seems to be missing. *)
FinishEdits == <<Insert("compose_shell_palette", "compose_shell_agent", {"compose_shell_palette"}),
                 Insert("shell_config", "shell_chrome_of_agent", {"shell_config"}), Swap("chrome_count_3", {"chrome_count_profile"})>>
FinishPaintShell(text) ==
  IF text.shell = "none" THEN text ELSE [text EXCEPT !.shell = "07", !.painters = @ + 1]
Finish(text) ==
  LET begun == IF {"viewport_empty", "inspector_empty_cmds"} \subseteq text.has THEN text ELSE Ux07(text)
  IN  IF begun = Nothing THEN Nothing
      ELSE [FinishPaintShell(With(begun, FinishEdits)) EXCEPT !.version = 4]

(* apply-ux08-viewport-error.py: it puts the composition of the overlay in    *)
(* wherever it finds the place, the rest where it finds the passage.          *)
Ux08Errors == <<Insert(Nothing, "profile_extern", {"error_externs"}), Swap("rows_140", {"err_gpu", "error_wrappers"}),
                Insert(Nothing, "empty_type", {"error_type"})>>
Ux08Compose == <<Insert(Nothing, "empty_helpers", {"error_field"}), Insert(Nothing, "empty_shell", {"error_composed"})>>
Ux08Counts == <<Swap("chrome_count_context", {"chrome_count_error"})>>
Ux08Edits == Ux08Errors \o Ux08Compose \o Ux08Counts
Ux08Paint(text) ==
  IF "empty_cmds" \notin text.has THEN text
  ELSE [text EXCEPT !.has = @ \cup {"paint_error"}, !.painters = @ + 1]
Ux08PaintShell(text) == IF text.shell = "head" THEN [text EXCEPT !.shell = "08"] ELSE text
Ux08Fives == Swap("other_fours", {"other_fives"})
(* Every function that returns 4 returns 5 afterwards, the version's or not.  *)
Ux08Version(text) ==
  [Edited(text, Ux08Fives) EXCEPT !.version = IF @ = 4 THEN 5 ELSE @]
Ux08(text) ==
  LET patched == Ux08PaintShell(Ux08Paint(With(text, Ux08Edits)))
  IN  IF "err_gpu" \in text.has THEN text
      ELSE IF "err_gpu" \notin patched.has THEN Nothing
      ELSE Ux08Version([patched EXCEPT !.has = @ \cup {"error_overlay"}])

(* fix-studio-lib-check.py.  When it changes the profile's extern it takes    *)
(* away the passage at which it would have declared those of the timeline.    *)
FixExterns == <<Swap("error_externs", {"error_externs_specified"}), Swap("profile_extern", {"profile_extern_raises"})>>
FixTimeline == <<Insert("timeline_externs", "profile_extern", {"timeline_externs"}),
                 Insert("timeline_wrappers", "timeline_tick", {"timeline_wrappers"})>>
FixEffects == <<Swap("profile_wrappers", {"profile_wrappers_raise"}), Swap("error_wrappers", {"error_wrappers_raise"})>>
FixProfile == <<Swap("chip_of_rect", {"chip_of_floats"})>>
FixAgent == <<Swap("agent_locals", {"agent_copies"})>>
FixSlots == <<Swap("slot_locals", {"slot_copies"})>>
FixLayout == <<Swap("layout_fields", {"layout_copies"})>>
FixEdits == FixExterns \o FixTimeline \o FixEffects \o FixProfile \o FixAgent \o FixSlots \o FixLayout
SecondPainter(text) == IF text.painters > 1 THEN [text EXCEPT !.painters = @ - 1] ELSE text
FixUnasked(text) ==   \* a plausible bug: the text is written without the last look
  SecondPainter(With(text, FixEdits))
Fix(text) ==
  LET patched == SecondPainter(With(text, FixEdits))
  IN  IF "err_gpu" \in patched.has THEN patched ELSE Nothing

(* apply-ux10-ux11.py: li-ui first.                                           *)
UiA11y(has) ==
  IF "focus_ring" \in has THEN has ELSE IF "border_color" \in has THEN has \cup {"focus_ring"} ELSE Nothing
LoadingHelpers == {"loading_state", "focus_ring_for_panel"}
LoadingInit == Insert("loading_init", "panel_state", {"loading_init"})
Ux10(text) ==
  LET stated == IF "loading_state" \in text.has THEN text ELSE [text EXCEPT !.has = @ \cup LoadingHelpers]
      noPlace(marker, places) == marker \notin text.has /\ places \cap text.has = {}
  IN  IF text = Empty \/ noPlace("compose_loading", {"compose_shell_palette", "compose_shell_agent"})
                      \/ noPlace("loading_frame", {"shell_frame"}) THEN Nothing
      ELSE [Edited(stated, LoadingInit) EXCEPT !.has = @ \cup {"compose_loading", "loading_frame"}, !.version = 5]

(* patch-studio-agent-invoke-ux11.py.  The functions it puts in have both of  *)
(* the markers by which it decides whether the rects are counted and painted. *)
InvokeFunctions == Insert("invoke_visible", "retry_hint_rect", {"invoke_visible", "invoke_counted", "invoke_painted"})
InvokeEdits ==
  <<Insert("send_button", "retry_hint", {"send_button"}), Swap("tool_request_field", {"invoke_fields"}),
    InvokeFunctions, Swap("agent_copies", {"agent_copies", "agent_bound_9"}),
    Insert("invoke_counted", "agent_copies", {"invoke_counted", "counts_invoke"}), Swap("agent_composed", {"invoke_composed"}),
    Insert("invoke_painted", "agent_paint", {"invoke_painted", "paints_invoke"}),
    Insert("invoke_checked", "agent_check", {"invoke_checked"})>>
Invoke(text) == With([text EXCEPT !.version = IF @ = 6 THEN 7 ELSE @], InvokeEdits)

(* What the scripts put into a text.                                          *)
ScriptEdits ==
  {Ux08Fives, LoadingInit} \cup ToSet(Ux07Edits) \cup ToSet(FinishEdits) \cup ToSet(Ux08Edits)
    \cup ToSet(FixEdits) \cup ToSet(InvokeEdits)
Passages ==
  {"paint_error", "error_overlay", "compose_loading", "loading_frame"} \cup LoadingHelpers
    \cup UNION {e.gains : e \in ScriptEdits}
ASSUME NothingAssumption == Nothing \notin Passages

---------------------------------------------------------------------------
(* What a script will write, in order.  Only finish writes beside the file    *)
(* and renames.  build-studio-lib-for-check.py opens the file before git runs. *)
Rewrite(file, new) == [file |-> file, new |-> new, renames |-> FALSE]
Unless(new) == IF new = Nothing THEN <<>> ELSE <<Rewrite("lib", new)>>
Changed(new) == IF new = lib THEN <<>> ELSE Unless(new)

FinishWrites ==
  LET first == IF {"viewport_empty", "inspector_empty_cmds"} \subseteq lib.has THEN <<>> ELSE Unless(Ux07(lib))
  IN  IF Finish(lib) = Nothing THEN <<>> ELSE Append(first, [Rewrite("lib", Finish(lib)) EXCEPT !.renames = TRUE])
Ux10Writes == IF UiA11y(ui) = Nothing THEN <<>> ELSE <<Rewrite("ui", UiA11y(ui))>> \o Unless(Ux10(lib))
BuildWrites(found) ==
  IF found THEN <<Rewrite("lib", Rebuilt)>> \o Unless(Fix(Rebuilt)) ELSE <<Rewrite("lib", Empty)>>

SPInit ==
  /\ lib \in Libraries
  /\ ui = IF "loading_state" \in lib.has THEN {"focus_ring"} ELSE {"border_color"}
  /\ script = Nothing
  /\ applied = {}
  /\ launched = 0
  /\ broken = (lib = Empty)

Run(name, writes) ==
  /\ script = Nothing
  /\ script' = [name |-> name, writes |-> writes]
  /\ applied' = applied \cup {[name |-> name, shell |-> lib.shell]}
  /\ launched' = launched + 1
  /\ UNCHANGED <<lib, ui, broken>>

RunScript ==
  \/ Run("ux07", Changed(Ux07(lib)))
  \/ Run("finish", FinishWrites)
  \/ Run("ux08", Changed(Ux08(lib)))
  \/ Run("fix", Unless(Fix(lib)))
  \/ Run("ux10", Ux10Writes)
  \/ Run("invoke", Unless(Invoke(lib)))
  \/ \E found \in BOOLEAN : Run("build", BuildWrites(found))

Stored(file, new) ==
  /\ lib' = IF file = "lib" THEN new ELSE lib
  /\ ui' = IF file = "ui" THEN new ELSE ui

WriteText ==
  /\ script # Nothing
  /\ script.writes # <<>>
  /\ LET w == Head(script.writes)
     IN  /\ Stored(w.file, w.new)
         /\ broken' = IF script.name = "build" THEN w.new = Empty ELSE broken
  /\ script' = [script EXCEPT !.writes = Tail(@)]
  /\ UNCHANGED <<applied, launched>>

Ends ==
  /\ script # Nothing
  /\ script.writes = <<>>
  /\ script' = Nothing
  /\ UNCHANGED <<lib, ui, applied, launched, broken>>

(* Path.write_text truncates the file before it writes, and git shows its     *)
(* blob into the file: what a kill leaves is the part before some place.      *)
PartsOf(text) ==
  {Text(text.has \cap before, shell, painters, version) :
     before \in Cuts \cup {{}}, shell \in {"none", text.shell}, painters \in 0..text.painters,
     version \in {0, text.version}}
CutOff(w) ==
  \/ w.file = "lib" /\ lib' \in PartsOf(w.new) /\ broken' = TRUE /\ UNCHANGED ui
  \/ w.file = "ui" /\ ui' \in SUBSET w.new /\ UNCHANGED <<lib, broken>>

KillScript ==
  /\ script # Nothing
  /\ script.writes # <<>>
  /\ \/ UNCHANGED <<lib, ui, broken>>
     \/ ~ Head(script.writes).renames /\ CutOff(Head(script.writes))
  /\ script' = Nothing
  /\ UNCHANGED <<applied, launched>>

SPNext == RunScript \/ WriteText \/ Ends \/ KillScript
SPSpec == SPInit /\ [][SPNext]_spVars

---------------------------------------------------------------------------
Ran(name) == \E run \in applied : run.name = name

(* The scripts that look for their own marks change nothing the second time.  *)
(* finish-ux04-ux07.py is not one of them, and fix-studio-lib-check.py is one *)
(* as long as no more than two copies of a definition are there.              *)
Again(Patch(_), text) == Patch(text) # Nothing => Patch(Patch(text)) = Patch(text)
Repeatable ==
  /\ Again(Ux07, lib) /\ Again(Ux08, lib) /\ Again(Ux10, lib) /\ Again(Invoke, lib)
  /\ lib.painters <= 2 => Again(Fix, lib)

(* A library that has the errors of the viewport declares what they call, has *)
(* their overlay, and, unless finish put the earlier shell back or the script *)
(* came upon a library it was not written for, counts and paints it.          *)
ErrorsWhole ==
  "err_gpu" \in lib.has =>
    /\ ErrorsDeclared(lib)
    /\ [name |-> "ux08", shell |-> "07"] \notin applied /\ ~ Ran("finish") => ErrorsShown(lib)

(* A definition is there twice only after finish, which adds one at every     *)
(* run, or the patch of the errors, which brings its own copy along.          *)
PaintedOnce == lib.painters > 1 => Ran("finish") \/ Ran("ux08") \/ Ran("build")

(* All this until a write of the library is cut off, and again from the next  *)
(* rebuild on, whatever was run or killed between the writes of the scripts:  *)
(* of what a cut-off write leaves nothing is promised.  No other step leaves  *)
(* the library empty than such a write, or a rebuild for which git finds      *)
(* nothing.                                                                   *)
LibKept ==
  applied # {} =>
    /\ lib = Empty => broken
    /\ ~ broken => Repeatable /\ ErrorsWhole /\ PaintedOnce
=============================================================================
