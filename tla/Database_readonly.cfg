SPECIFICATION Spec
CONSTANTS
  a = a
  b = b
  Index = {a, b}
  MaxVersion = 1
  MaxRevision = 2
  MaxLive = 2
  AddDuringSession = FALSE
CHECK_DEADLOCK FALSE
PROPERTY ReadOnlyModeUnchanged
