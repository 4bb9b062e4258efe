CONSTANTS
  Uri = {u1}
  Tasks = {t1, t2}
  NoTask = NoTask
  Messages = {"change", "close", "refresh", "codeAction", "command"}
  MaxMessages = 4
  DiffMode = FALSE
  RefreshOnOpen = FALSE
  RefreshOnSave = TRUE
  AnalysisMayFail = TRUE
  MayCancel = TRUE
SPECIFICATION FairSpec
\* no symmetry: the property is a liveness property
CHECK_DEADLOCK FALSE
INVARIANTS TypeOK CurrentIsLatest
PROPERTIES HandlersReturn CommandOnLatest CellSpec
