CONSTANTS
  Writers = {w1, w2, w3}
  Missing = Missing
SPECIFICATION Spec
SYMMETRY Symmetry
INVARIANTS NeverPartial ReportedSurvives
CHECK_DEADLOCK FALSE
