CONSTANTS
  c1 = c1
  c2 = c2
  m1 = m1
  m2 = m2
  s1 = s1
  s2 = s2
  s3 = s3
  routed = routed
  other = other
  Proc = {p1}
  Card <- TwoCards
  Subject = {s1, s2, s3}
  NoSubject = NoSubject
  Commit = {m1, m2}
  NoHead = NoHead
  Command = {routed, other}
  NoCommand = NoCommand
  Tool = {"asan", "human-deep-review", "external-integration-test"}
  Routes <- FfiRoutes
  Review <- Reviews
  NoDraft = NoDraft
  NoBundle = NoBundle
  OutFiles = {}
  MaxDay = 1
  GitMayFail = TRUE
  RootInSubdir = FALSE
  MayCrash = FALSE
  TreeHeldStill = TRUE
SPECIFICATION Spec
INVARIANTS ConfirmKeepsStoreLoadable EvidenceIsWitnessed
PROPERTIES OwnReceiptOnly
