CONSTANTS
  Metadata = {m1}
  NoMetadata = NoMetadata
  Failures = {f1, f2}
  NoFailure = NoFailure
  OriginalLimit = 1
  MaxEffective = 2
  Trees = {t1, t2}
  Runners = {r1}
  Claimers = {b1, b2}
  MaxCrashes = 2
  MaxEdits = 1
SPECIFICATION GateSpec
INVARIANTS DocumentReadable BlockedHasCause DecisionIsBound
  AnswersAgree ButtonWasPending AwaitingIsResumable
PROPERTIES FirstFailureKept DecisionFinal
CHECK_DEADLOCK FALSE
