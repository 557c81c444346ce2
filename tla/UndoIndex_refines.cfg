SPECIFICATION Spec
CONSTANTS
  k1 = k1
  k2 = k2
  k3 = k3
  Key = {k1, k2}
  Secondary = {"name"}
  MaxId = 2
  MaxSessions = 3
  MaxRevision = 3
  RetryRefused = FALSE
CHECK_DEADLOCK FALSE
SYMMETRY KeySymmetry
INVARIANTS NodesAccounted KeysUnique RefInv
PROPERTY ImplementsTable
