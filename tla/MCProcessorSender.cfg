SPECIFICATION Spec
CONSTANTS
  NCores = 2
  NProcs = 4
  ChannelLimit = 15
  Names = {"a", "b"}
  Code <- AlternateBeside
  Delays = 3
INVARIANTS
  DisableWakesSender
CHECK_DEADLOCK FALSE
