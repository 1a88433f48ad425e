CONSTANTS
  Contents = {c1}
  Base = base
  NoContent = none
  OriginalLimit = 2
  MaxEffective = 2
  Additional = {}
  GithubBranch = TRUE
  MayKill = FALSE
  MayTear = FALSE
  MayDrift = TRUE
  MayReviewOnly = FALSE
  MayOverlap = FALSE
SPECIFICATION FairSpec
INVARIANTS PublishedWasApproved FeedbackFollowed
PROPERTIES SessionEnds
CHECK_DEADLOCK FALSE
