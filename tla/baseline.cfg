CONSTANTS
  Proc = {p1}
  Id = {1, 2}
  File = {"core/lib.rs", "unsafe-core/lib.rs"}
  FileOf <- TwoFiles
  Slug <- Slugs
  IdFront <- AppFront
  IdBack <- SeamBack
  Seam <- Weakened
  Gone = Gone
  NoRow = NoRow
  NoFloor = NoFloor
  NoWork = NoWork
  NoReport = NoReport
  Never = Never
  Expiry = {0}
  Due = {0, 1}
  Flaw = {"row"}
  MaxDay = 1
  MaxEdits = 2
  MaxCommands = 3
  ReInit = FALSE
  MayStop = FALSE
SPECIFICATION Spec
CHECK_DEADLOCK FALSE
INVARIANTS TypeOK NoDebtSlips FloorHeld HealthyMeansPass PrunedIsGone AutomationKeepsFloors ScannedResolved
