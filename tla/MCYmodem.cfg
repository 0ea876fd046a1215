SPECIFICATION Spec
CONSTANTS
  Sizes <- MCSizes
  BlockMod = 4
  MaxFaults = 3
  MaxStrays = 3
  MaxReady = 2
INVARIANTS
  TypeOK
  StoredInOrder
  NoMutualWait
PROPERTY
  TransfersEnd
