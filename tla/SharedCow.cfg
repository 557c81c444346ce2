SPECIFICATION CowSpec
CONSTANTS
  h1 = h1
  h2 = h2
  h3 = h3
  h4 = h4
  b1 = b1
  b2 = b2
  b3 = b3
  b4 = b4
  b5 = b5
  segment = segment
  heap = heap
  Handle = {h1, h2, h3, h4}
  Place = {segment, heap}
  Home <- MCHome
  Block = {b1, b2, b3, b4, b5}
  Null = Null
  Contents <- MCContents
  RefLimit = 5
SYMMETRY CowSymmetry
CHECK_DEADLOCK FALSE
INVARIANTS TypeOK CountsExact HomesMatch
PROPERTY ImplementsValues
