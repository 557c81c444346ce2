SPECIFICATION Spec
CONSTANTS
  BatchSize = 3
  Capacity = 7
INVARIANTS NodesPartitioned SizeExact
