CONSTANTS
  MaxAttempts = 2
  MaxOutput = 2
  MayKill = TRUE
  MayFail = TRUE
  MayStall = TRUE
SPECIFICATION FairSpec
INVARIANTS NothingOutlivesReport OneAttemptAlive CompletedIsUndisturbed
PROPERTIES SupervisorEnds
CHECK_DEADLOCK FALSE
