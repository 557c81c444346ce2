SPECIFICATION Spec
CONSTANTS
  p1 = p1
  p2 = p2
  Process = {p1, p2}
  NoOne = NoOne
  Options <- Careful
  Val <- Vals
  Zero = 0
  FirstChunk = 1
  FileExists = FALSE
  OneAtATime = TRUE
  SetupFails = TRUE
  SecondOpen = TRUE
INVARIANTS TypeOK FlagTells SegmentFits
PROPERTIES OpenRestores
CHECK_DEADLOCK FALSE
