CONSTANTS
  Pids = {1, 2, 3}
  Channels = {0, 2}
  CellSize = 128
  SignBit = 32768
  Sources <- MCSources
SPECIFICATION Spec
INVARIANTS
  ParsedAsWritten
  WellTypedRunsClean
  StackAsTyped
  RunsAsWritten
  RunsAsExpected
PROPERTY EveryProgramEnds

