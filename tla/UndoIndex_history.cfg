SPECIFICATION HSpec
CONSTANTS
  k1 = k1
  k2 = k2
  k3 = k3
  Key = {k1, k2, k3}
  Secondary = {"name"}
  MaxId = 2
  MaxSessions = 2
  MaxRevision = 2
  RetryRefused = TRUE
CHECK_DEADLOCK FALSE
PROPERTY UndoRestores
