SPECIFICATION Spec
CONSTANTS
    HeapBase = 0
    HeapMax = 7
    AllocSize = 2
    MemorySize = 8
    Processes = {1, 2, 3}
    Ends <- MCEnds
    MaxChannels = 2
    MaxSends = 2
INVARIANTS
    StoppedAreParked
    
    AnsweredInTime
PROPERTIES
    ChannelsSynchronous
