CONSTANTS
  Contents = {c1, c2}
  Base = base
  NoContent = none
  OriginalLimit = 2
  MaxEffective = 2
  Additional = {1}
  GithubBranch = FALSE
  MayKill = FALSE
  MayTear = TRUE
  MayDrift = FALSE
  MayReviewOnly = FALSE
  MayOverlap = FALSE
SPECIFICATION Spec
SYMMETRY Symmetry
INVARIANT InterruptedExecutorResumable
CHECK_DEADLOCK FALSE
