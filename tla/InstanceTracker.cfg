SPECIFICATION Spec
CONSTANTS
  Slot = {s1, s2, s3}
  File = {f1, f2}
  Page = {g1, g2}
  Mode = {"mapped_private", "heap"}
  Moved = Moved
  MaxTracked = 3
INVARIANT TypeOK
PROPERTY PagesSaved
CHECK_DEADLOCK FALSE
