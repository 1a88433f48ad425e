CONSTANTS
  Contents = {c1, c2}
  Base = base
  NoContent = none
  OriginalLimit = 3
  MaxEffective = 3
  Additional = {}
  GithubBranch = FALSE
  MayKill = TRUE
  MayTear = FALSE
  MayDrift = FALSE
  MayReviewOnly = FALSE
  MayOverlap = FALSE
SPECIFICATION Spec
SYMMETRY Symmetry
INVARIANT FeedbackFollowed
CHECK_DEADLOCK FALSE
