SPECIFICATION Spec
CONSTANTS
  Candidates = {c1}
  Commands <- MCCommands
  Attached = TRUE
  MaxEdits = 4
  MaxRounds = 2
  MaxDeaths = 2
INVARIANTS
  ControlIsBase
CHECK_DEADLOCK FALSE
