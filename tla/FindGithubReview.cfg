CONSTANTS
  Contents = {c1, c2}
  Base = base
  NoContent = none
  OriginalLimit = 1
  MaxEffective = 2
  Additional = {1}
  GithubBranch = TRUE
  MayKill = FALSE
  MayTear = FALSE
  MayDrift = FALSE
  MayReviewOnly = FALSE
  MayOverlap = FALSE
SPECIFICATION Spec
SYMMETRY Symmetry
PROPERTY ApprovedIsTerminal
CHECK_DEADLOCK FALSE
