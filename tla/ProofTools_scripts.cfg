SPECIFICATION Spec
CONSTANTS
  None = None
  Absent = Absent
  Unwritten = Unwritten
  Planned <- MCPlanned
  Corpora <- MCCorpora
  Superseded <- MCSuperseded
  Numbers <- MCNumbers
  Fixes <- MCFixes
  NewRows <- MCNewRows
  Overlays <- MCOverlays
  Latex <- MCLatex
  Registers <- MCRegisters
  Finds <- MCFinds
  CorpusRuns = 3
  ErdosRuns = 4
  Entries <- MCEntries
  Specs = {"s1", "s2"}
  MaxOther = 2
  MaxReports = 2
  Statuses = {"li_proved", "li_open", "literature_proved", "heuristic", "model_consensus", "model_conflict", "refuted"}
  Literature = {2}
  Specimened = {4}
  FirstClaims <- MCFirstClaims
  FirstReviews <- MCFirstReviews
  NewClaims <- MCNewClaims
  NewReviews <- MCNewReviews
  MaxSteps = 5
  Nothing = Nothing
  Libraries <- MCLibraries
  Cuts <- MCCuts
  Rebuilt <- MCRebuilt
  StudioRuns = 3
  Runners <- MCRunners
  Backlogs = {"sim"}
  Ids = {"a"}
  Extra = {"c"}
  Depth = 1
  Handed = {"sim"}
INVARIANTS
  CorpusSound
  ErdosAgrees
  ReportFresh
  LedgerKept
  LibKept
  TypeOK
  OneOpenRow
  Reconciled
PROPERTIES
  ClosedStaysClosed
  NotReopened
CHECK_DEADLOCK FALSE
