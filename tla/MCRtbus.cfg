SPECIFICATION RtbusSpec
CONSTANTS
  EntryTables <- MCTables
  Tasks <- MCTasks
  CliTask = "cli"
  Lens <- MCLens
  Pool <- MCPool
  Depth = 1
  DelayedPayloadMax = 4
  AsyncDepth = 2
  AsyncPayloadMax = 4
  Delays <- MCDelays
  Half = 2
  TimeoutMax = 1
  MaxLag = 0
  MaxPosts = 3
  Endless = FALSE
INVARIANTS
  TypeOK
  NodesOwnBlocks
  EveryPostInOnePlace
  NoOversleep
  PollRoundRobin
PROPERTIES
  NativePostsInOrder
  NeverEarly
