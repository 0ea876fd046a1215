SPECIFICATION Spec
CONSTANTS
  Bytes <- MCBytes
  RingMax = 2
  QueueMax = 4
  LineMax = 4
  MaxLines = 2
  MaxFails = 1
INVARIANTS
  TypeOK
  OneWakeup
  RunsAsAsked
PROPERTY
  InputServed
