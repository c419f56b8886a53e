SPECIFICATION Spec
CONSTANTS
  Procs = {p, q}
  ByteLen = 3
  PageSize = 2
  Counts = {1, 3}
  MaxPos = 4
  Tries = 2
INVARIANTS
  WritePrefix
  ResultTrue
  BlockInPage
PROPERTIES
  CallReturns
