SPECIFICATION Spec
CONSTANTS
  NCores = 2
  NProcs = 3
  ChannelLimit = 14
  Names = {"a", "b"}
  Code <- AlternateThenReceive
  Delays = 4
INVARIANTS
  ReceivedWasSent
CHECK_DEADLOCK FALSE
