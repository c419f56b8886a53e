SPECIFICATION Spec
CONSTANTS
  Us = us
  Peers = {p1, p2}
  Lengths = {60, 98}
  MaxPackets = 3
INVARIANTS
  EachEchoAnswered
  BytesCounted
PROPERTIES
  QueueGoesOn
CHECK_DEADLOCK FALSE
