SPECIFICATION Spec
CONSTANTS
  N = 2
  TenMs = 1
  Pollers = {}
  Signallers = {s}
INVARIANTS
  SettledReported
  OncePerBurst
  SignalledCurrent
PROPERTIES
  RestReported
