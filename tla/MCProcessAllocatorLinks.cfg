SPECIFICATION Spec
CONSTANTS
    HeapBase = 1
    HeapMax = 4
    AllocSize = 1
    MemorySize = 8
    MaxWords = 3
    MaxMade = 3
INVARIANT FreedCellsLinked
