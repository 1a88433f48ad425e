CONSTANTS
  Contents = {c1}
  Base = base
  NoContent = none
  OriginalLimit = 1
  MaxEffective = 2
  Additional = {1}
  GithubBranch = FALSE
  MayKill = FALSE
  MayTear = TRUE
  MayDrift = FALSE
  MayReviewOnly = TRUE
  MayOverlap = TRUE
SPECIFICATION Spec
INVARIANTS ReviewOnlyNeverExecutes
PROPERTIES RunStateImplemented
CHECK_DEADLOCK FALSE
