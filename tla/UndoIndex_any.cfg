SPECIFICATION Spec
CONSTANTS
  k1 = k1
  k2 = k2
  k3 = k3
  Key = {k1, k2}
  Secondary = {"name", "owner"}
  MaxId = 2
  MaxSessions = 3
  MaxRevision = 2
  RetryRefused = TRUE
CHECK_DEADLOCK FALSE
SYMMETRY KeySymmetry
CONSTRAINT NothingLeaked
INVARIANTS TypeOK EndsPresent StackOrdered RangeExists CurrentAlive IndInv
