SPECIFICATION Spec
CONSTANTS
  a = a
  b = b
  ff = ff
  mixed = mixed
  Erased = ff
  Mixed = mixed
  PayloadWords <- MCPayloadWords
  Files <- MCFiles
  SlotLen = 6
  PatchLen = 4
  Align = 2
  PendingMax = 2
  BufLen = 2
  ChunkMax = 3
  RamMax = 1
  Faults = {"error", "power"}
  None = None
INVARIANTS
  TypeOK
  NothingLostInTransit
  SuccessIsInstalled
PROPERTIES
  OldImageKept
  ImplementsImageSlot
