CONSTANTS
  Proc = {p1, p2}
  Id = {1}
  File = {"core/lib.rs"}
  FileOf <- TwoFiles
  Slug <- Slugs
  IdFront <- AppFront
  IdBack <- SeamBack
  Seam <- Weakened
  Gone = Gone
  NoRow = NoRow
  NoFloor = NoFloor
  NoWork = NoWork
  NoReport = NoReport
  Never = Never
  Expiry = {0}
  Due = {0}
  Flaw = {"row"}
  MaxDay = 0
  MaxEdits = 1
  MaxCommands = 3
  ReInit = TRUE
  MayStop = TRUE
SPECIFICATION Spec
CHECK_DEADLOCK FALSE
INVARIANTS NoDebtSlips
