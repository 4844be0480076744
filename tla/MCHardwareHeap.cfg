SPECIFICATION Spec
CONSTANTS
    HeapBase = 1
    HeapMax = 7
    AllocSize = 2
    MemorySize = 10
    Words <- MCWords
INVARIANTS
    FreedBlocksLinked
    NothingLeaks
PROPERTIES
    ImplementsAllocator
