SPECIFICATION TsSpec
INVARIANTS
  TsTypeOK
  MeasureEnds
  NotForgotten
PROPERTIES
  LiftReported
  HoldReported
