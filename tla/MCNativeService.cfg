SPECIFICATION Spec
CONSTANTS
  PostDepth = 1
  EventDepth = 1
  MaxRequests = 3
  MaxUpgrades = 2
CHECK_DEADLOCK FALSE
INVARIANTS
  TypeOK
  BusyExact
  OwnAnswer
PROPERTY
  RequestsAnswered
