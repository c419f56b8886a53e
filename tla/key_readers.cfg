SPECIFICATION Spec
CONSTANTS
  N = 1
  TenMs = 1
  Pollers = {p}
  Signallers = {s}
INVARIANTS
  NoLostWakeup
