SPECIFICATION Spec
CONSTANTS
  Transfers <- WriteWrite
  QuirkSets = {{}}
  Retries = 2
  BlockLens = {1}
  BlockBuf = 4
INVARIANT DisabledWhenIdle
