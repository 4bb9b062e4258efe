CONSTANTS
  Files = 2
  MaxRuns = 2
  MayFail = TRUE
  MaySignal = TRUE
  MayKill = TRUE
SPECIFICATION FairSpec
CHECK_DEADLOCK FALSE
INVARIANTS TypeOK SuccessHasReport ExitIsOnDisk FailedMatchesPartial
PROPERTIES ReportOnlyPromoted ProcessEnds
