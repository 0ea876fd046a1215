SPECIFICATION ListSpec
CONSTANTS
  Pool <- MCPool
  Preempts = TRUE
  MaxPosts = 3
INVARIANT AcceptedOnList
CHECK_DEADLOCK FALSE
