CONSTANTS
  Pids = {1, 2, 3}
  Channels = {0, 2}
  CellSize = 128
  SignBit = 32768
  Sources <- AlternationSources
SPECIFICATION Spec
INVARIANT ChannelOperationsAreSafe
