CONSTANTS
  Metadata = {m1}
  NoMetadata = NoMetadata
  Failures = {f1}
  NoFailure = NoFailure
  OriginalLimit = 1
  MaxEffective = 2
  Session = session
  Gates = {gate}
  Readers = {r1}
  Inodes = {i1, i2, i3}
  Missing = Missing
  Torn = Torn
  NoWriter = NoWriter
SPECIFICATION Spec
SYMMETRY InodeSymmetry
INVARIANTS NothingTornIsRead
PROPERTIES ImplementsRunState
CHECK_DEADLOCK FALSE
