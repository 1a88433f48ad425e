CONSTANTS
  Contents = {c1, c2}
  Base = base
  NoContent = none
  OriginalLimit = 1
  MaxEffective = 3
  Additional = {1, 2}
  GithubBranch = FALSE
  MayKill = TRUE
  MayTear = FALSE
  MayDrift = FALSE
  MayReviewOnly = FALSE
  MayOverlap = FALSE
SPECIFICATION Spec
SYMMETRY Symmetry
INVARIANTS TypeOK ApprovedWasReviewed ApprovedWasValidated
  InterruptedExecutorResumable
PROPERTIES BudgetGrowsOnlyWhenSpent ApprovedIsTerminal
CHECK_DEADLOCK FALSE
