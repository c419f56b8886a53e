SPECIFICATION Spec
CONSTANTS
  Bios = {b1, b2}
  Sectors = 3
  Values = {zero, one}
  ZERO = zero
INVARIANTS
  InRange
PROPERTIES
  IsDisk
  BiosEnd
