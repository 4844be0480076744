SPECIFICATION Spec
CONSTANTS
  HeapBase = 3
  HeapMax = 21
  AllocSize = 4
  Words <- MCWords
INVARIANTS
  LiveBlocksDisjoint
  FreeListThreaded
  NoBlockLeaks
PROPERTY
  ImplementsAllocator
