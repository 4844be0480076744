SPECIFICATION FairSpec
CONSTANTS
    Pids <- MCPids
    ListSize = 4
INVARIANTS
    CoreOwnsItsCell
    NoneLostNoneTwice
    CanHaltExact
    MessagesFindTheirProcess
    StoppedCoreHasSaved
PROPERTIES
    FirstComeFirstServed
    RequestsAnswered
    EveryoneGetsATurn
CHECK_DEADLOCK FALSE
