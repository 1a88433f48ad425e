CONSTANTS
  MaxAttempts = 1
  MaxOutput = 1
  MayKill = FALSE
  MayFail = TRUE
  MayStall = FALSE
SPECIFICATION Spec
INVARIANT StopProvesEmpty
CHECK_DEADLOCK FALSE
