SPECIFICATION OrdSpec
CONSTANTS
  Key = {1, 2, 3}
  Secondary = {"name", "owner"}
  Indices <- TwoIndices
  MaxId = 3
  MaxSessions = 1
  MaxRevision = 1
  RetryRefused = FALSE
CHECK_DEADLOCK FALSE
CONSTRAINT FewListed
INVARIANTS TreesSorted VerdictRight
