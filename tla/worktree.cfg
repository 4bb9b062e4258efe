CONSTANTS
  p1 = p1
  p2 = p2
  Pid = {p1, p2}
  Commit = {"root", "feature", "main"}
  MergeBaseOf <- MergeBases
  Subject = {"s", "t"}
  Name = {"crate", "repo", "worktree"}
  NoName = NoName
  HeadRoot = "repo"
  BaseRoot = "worktree"
  Copy = {1, 2}
  Key = {"k"}
  Verdict = {"confirmed"}
  History <- Histories
  Start <- Starts
  NoCommit = NoCommit
  Empty = Empty
  Partial = Partial
  NoDir = NoDir
  NoCap = NoCap
  Caps = {NoCap, 1}
  NoSection = NoSection
  MaxRuns = 2
  MaxMoves = 1
  MayFail = TRUE
SPECIFICATION Spec
INVARIANTS TypeOK TreesApart SameAnchor IntroducedIsNew
CHECK_DEADLOCK FALSE
SYMMETRY Processes
