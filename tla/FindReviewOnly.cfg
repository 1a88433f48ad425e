CONSTANTS
  Contents = {c1, c2}
  Base = base
  NoContent = none
  OriginalLimit = 1
  MaxEffective = 2
  Additional = {1}
  GithubBranch = FALSE
  MayKill = TRUE
  MayTear = FALSE
  MayDrift = FALSE
  MayReviewOnly = TRUE
  MayOverlap = FALSE
SPECIFICATION Spec
SYMMETRY Symmetry
INVARIANT InterruptedExecutorResumable
CHECK_DEADLOCK FALSE
