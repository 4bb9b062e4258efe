CONSTANTS
  File = {1, 2, 3}
  NoFile = NoFile
  Context = 1
  Reach = 1
  Seam <- Seams
  Line <- Lines
  Profile <- Profiles
  Discovered <- Order
  Slug <- OwnSlugs
  Starts <- Small
  NewLines = {"read", "decl"}
  Cap <- Caps
  NoCap = NoCap
  PlanLimit = 2
  NoReview = NoReview
  MaxEdits = 2
  MaxLines = 5
SPECIFICATION Spec
CHECK_DEADLOCK FALSE
INVARIANTS PassMeansNoNewDebt
