SPECIFICATION Spec
CONSTANTS
  NCores = 2
  NProcs = 3
  ChannelLimit = 14
  Names = {"a", "b", "c"}
  Code <- Exhaust
  Delays = 2
INVARIANTS
  TypeOK
CHECK_DEADLOCK FALSE
