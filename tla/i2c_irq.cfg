SPECIFICATION Spec
CONSTANTS
  Transfers <- MCTransfers
  QuirkSets = {{}, {"HDMIPHY"}}
  Retries = 2
  BlockLens = {0, 1, 2, 4}
  BlockBuf = 4
INVARIANTS
  TypeOK
  ResultExact
  NoOverrun
  WireOrder
  HandlerQuiet
  NakLastByte
  RetryFresh
  CleanStop
PROPERTIES
  AdapterSpec
  XferReturns
\* A block longer than its buffer may stop the machine; XferReturns covers the rest.
CHECK_DEADLOCK FALSE
