SPECIFICATION Spec
CONSTANTS
  Bytes <- MCBytes
  RingMax = 2
  QueueMax = 4
  LineMax = 4
  MaxLines = 1
  MaxFails = 0
INVARIANT
  StreamWhole
