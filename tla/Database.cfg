SPECIFICATION Spec
CONSTANTS
  a = a
  b = b
  Index = {a, b}
  MaxVersion = 1
  MaxRevision = 3
  MaxLive = 2
  AddDuringSession = FALSE
SYMMETRY IndexSymmetry
CHECK_DEADLOCK FALSE
INVARIANTS TypeOK Lockstep
PROPERTIES SessionsAtomic ReadOnlyOpenUnchanged
