CONSTANTS
  Contents = {c1, c2}
  Base = base
  NoContent = none
  OriginalLimit = 1
  MaxEffective = 2
  Additional = {1}
  GithubBranch = FALSE
  MayKill = FALSE
  MayTear = FALSE
  MayDrift = FALSE
  MayReviewOnly = FALSE
  MayOverlap = TRUE
SPECIFICATION Spec
SYMMETRY Symmetry
INVARIANT ApprovedWasValidated
CHECK_DEADLOCK FALSE
