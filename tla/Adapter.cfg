SPECIFICATION Spec
CONSTANTS
  Candidates = {c1}
  Commands <- MCCommands
  Attached = FALSE
  MaxEdits = 4
  MaxRounds = 2
  MaxDeaths = 2
INVARIANTS
  ControlIsBase
  ResumableIsComplete
  TransportIsAuthorized
  TransportIsRecorded
CHECK_DEADLOCK FALSE
