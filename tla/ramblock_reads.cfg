SPECIFICATION ReadsSpec
CONSTANTS
  Bios = {b1, b2}
  Sectors = 2
  Values = {zero, one}
  ZERO = zero
PROPERTIES
  ReadsFind
