CONSTANTS
  a = a
  b = b
  Place = {a, b}
  NoPlace = NoPlace
  Cap = {1, 2}
  NoFile = NoFile
  Torn = Torn
  Failed = Failed
  Nothing = Nothing
  MaxRuns = 2
  MaxReads = 2
  MaxEvents = 3
SPECIFICATION Spec
INVARIANTS TypeOK ShownIsDisk DiagnosticsInOwnFolder SummaryNotOlder
CHECK_DEADLOCK FALSE
SYMMETRY Places
