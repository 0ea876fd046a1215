SPECIFICATION FairSpec
CONSTANTS
  EntryTables <- MCTables
  Tasks <- MCTasks
  CliTask = "cli"
  Lens = {0}
  Pool <- MCPool
  Depth = 1
  DelayedPayloadMax = 4
  AsyncDepth = 1
  AsyncPayloadMax = 4
  Delays = {2}
  Half = 2
  TimeoutMax = 1
  MaxLag = 0
  MaxPosts = 0
  Endless = TRUE
PROPERTIES
  QueueServed
  NativePostsServed
  DelayedServed
  PolledForever
  WedgedTillWrap
