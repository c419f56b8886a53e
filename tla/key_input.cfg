SPECIFICATION Spec
CONSTANTS
  N = 3
  TenMs = 1
INVARIANTS
  OnlyOvertakenStale
PROPERTIES
  LastReported
