SPECIFICATION HeapSpec
CONSTANTS
  Pools <- MCPools
  Requests <- MCRequests
INVARIANTS
  HeapTypeOK
  ChainTiled
  HolesCoalesced
  BusyIsOwned
PROPERTY AllocatorSpec
