SPECIFICATION Spec
CONSTANTS
  p1 = p1
  p2 = p2
  Process = {p1, p2}
  NoOne = NoOne
  Options <- Racing
  Val <- Bits
  Zero = 0
  FirstChunk = 1
  FileExists = FALSE
  OneAtATime = FALSE
  SetupFails = TRUE
  SecondOpen = FALSE
INVARIANT OneWriter
PROPERTIES  CallsProgress CallsEnd
CHECK_DEADLOCK FALSE
