CONSTANTS
  Uri = {u1, u2}
  Tasks = {t1, t2, t3}
  NoTask = NoTask
  Messages = {"open", "save", "refresh"}
  MaxMessages = 4
  DiffMode = TRUE
  RefreshOnOpen = TRUE
  RefreshOnSave = TRUE
  AnalysisMayFail = TRUE
  MayCancel = FALSE
SPECIFICATION Spec
SYMMETRY HandlersAndDocuments
CHECK_DEADLOCK FALSE
INVARIANTS SingleScan VersionPrecedesRead StalenessIsTold EditorMatchesSnapshot
