SPECIFICATION Spec
CONSTANTS
  k1 = k1
  k2 = k2
  k3 = k3
  Key = {k1, k2, k3}
  MaxNodes = 3
  MaxCalls = 3
CHECK_DEADLOCK FALSE
SYMMETRY KeySymmetry
PROPERTIES FrontIsBackup
