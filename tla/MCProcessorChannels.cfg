SPECIFICATION FairSpec
CONSTANTS
  NCores = 2
  NProcs = 3
  ChannelLimit = 14
  Names = {"a", "b"}
  Code <- WorkersOrAlternation
  Delays = 4
INVARIANTS
  CoresAndTableAgree
  IdleListExact
  WorkConserving
  NoLostWakeUp
  ParkedProcessesStopped
  ProcessesKept
  AlternationServed
  WorkersMeet
PROPERTIES
  ChannelsAllocated
  ChannelsSynchronous
  EveryProcessEnds
CHECK_DEADLOCK FALSE
