SPECIFICATION Spec
CONSTANTS
  GattMax = 2
  EventDepth = 3
  MaxAsks = 3
  MaxFaults = 1
  MaxRestarts = 1
CHECK_DEADLOCK FALSE
INVARIANTS
  TypeOK
  HandleExact
PROPERTY
  Reconnectable
