SPECIFICATION ListSpec
CONSTANTS
  Pool <- MCPool
  Preempts = FALSE
  MaxPosts = 6
INVARIANTS
  AcceptedOnList
  ListOwnsBlocks
PROPERTY QueueSpec
CHECK_DEADLOCK FALSE
