---------------------------- MODULE MemoryProofs ----------------------------
(***************************************************************************)
(* What the simulator's memory keeps.  Its heap, for every base, size of   *)
(* the heap and size of the blocks, and for every client of HeapClient;    *)
(* the words of a program: what a jump after a comparison decides; and the *)
(* two stacks in a memory cell, for every size of the word, of the cell    *)
(* and of the stacks, as long as the stacks do not meet: the code does not *)
(* look, and neither does a theorem here say that they do not.             *)
(***************************************************************************)
EXTENDS HeapClient, MemoryCell, Multiples, FiniteSetTheorems, SequenceTheorems,
        TLAPS

-----------------------------------------------------------------------------
(* The heap: the inductive invariant.                                      *)

OnGrid(a) == (a - HeapBase) % AllocSize = 0

\* The blocks on the free list.
Returned == {freeList[i] : i \in 1 .. Len(freeList)}

(***************************************************************************)
(* The blocks below heap_end are exactly the live and the returned ones.   *)
(* That blocks do not overlap then follows from where blocks begin: at a   *)
(* distance from the base that is a multiple of the block's size.          *)
(***************************************************************************)
IInv ==
  /\ TypeOK
  /\ IsFiniteSet(live) /\ held = Cardinality(live)
  /\ OnGrid(heapEnd)
  /\ BlocksUpTo(heapEnd) = live \cup Returned
  /\ FreeListThreaded

-----------------------------------------------------------------------------
(* Where blocks begin.                                                     *)

\* A block that begins below another on the grid ends where it begins or below.
LEMMA BlocksApart ==
  ASSUME NEW a \in Addresses, NEW b \in Addresses, OnGrid(a), OnGrid(b), a < b
  PROVE  a + AllocSize <= b
<1>1. a - HeapBase \in Nat /\ b - HeapBase \in Nat
  BY HeapAssumption DEF Addresses
<1>2. AllocSize \in Nat \ {0}
  BY HeapAssumption
<1>3. a - HeapBase < b - HeapBase
  BY HeapAssumption DEF Addresses
<1>4. (a - HeapBase) + AllocSize <= b - HeapBase
  BY <1>1, <1>2, <1>3, MultiplesApart DEF OnGrid
<1> QED
  BY <1>4, HeapAssumption DEF Addresses

\* The block that begins at heap_end is the next one of the grid.
LEMMA NextBlock ==
  ASSUME NEW end \in Addresses, OnGrid(end), end + AllocSize <= HeapMax
  PROVE  /\ end + AllocSize \in Addresses
         /\ OnGrid(end + AllocSize)
         /\ BlocksUpTo(end + AllocSize) = BlocksUpTo(end) \cup {end}
<1>1. end + AllocSize \in Addresses
  BY HeapAssumption DEF Addresses
<1>2. OnGrid(end + AllocSize)
  <2>1. end - HeapBase \in Nat /\ AllocSize \in Nat \ {0}
    BY HeapAssumption DEF Addresses
  <2>2. ((end - HeapBase) + AllocSize) % AllocSize = 0
    BY <2>1, NextMultiple DEF OnGrid
  <2>3. (end + AllocSize) - HeapBase = (end - HeapBase) + AllocSize
    BY HeapAssumption DEF Addresses
  <2> QED
    BY <2>2, <2>3 DEF OnGrid
<1>3. ASSUME NEW a \in Addresses, OnGrid(a)
      PROVE  a + AllocSize <= end + AllocSize <=> a + AllocSize <= end \/ a = end
  <2>1. a < end => a + AllocSize <= end
    BY <1>3, BlocksApart
  <2> QED
    BY <2>1, HeapAssumption DEF Addresses
<1>4. \A a : a \in BlocksUpTo(end + AllocSize) <=> a \in BlocksUpTo(end) \/ a = end
  BY <1>3 DEF BlocksUpTo, OnGrid
<1> QED
  BY <1>1, <1>2, <1>4

-----------------------------------------------------------------------------
(* The invariant is inductive.                                             *)

LEMMA InitIInv == Init => IInv
<1> SUFFICES ASSUME Init PROVE IInv
  OBVIOUS
<1>1. TypeOK
  BY HeapAssumption DEF Init, HeapInit, TypeOK, Addresses
<1>2. IsFiniteSet(live) /\ held = Cardinality(live)
  BY FS_EmptySet DEF Init
<1>3. OnGrid(heapEnd)
  <2>1. HeapBase - HeapBase = 0 /\ 0 % AllocSize = 0
    BY HeapAssumption
  <2> QED
    BY <2>1 DEF OnGrid, Init, HeapInit
<1>4. Returned = {}
  BY DEF Init, Returned
<1>5. BlocksUpTo(heapEnd) = {}
  BY HeapAssumption DEF Init, HeapInit, BlocksUpTo, Addresses
<1>6. FreeListThreaded
  BY DEF Init, HeapInit, FreeListThreaded
<1> QED
  BY <1>1, <1>2, <1>3, <1>4, <1>5, <1>6 DEF IInv, Init

LEMMA AllocateNewStep == IInv /\ AllocateNew => IInv'
<1> SUFFICES ASSUME IInv, AllocateNew PROVE IInv'
  OBVIOUS
<1> USE DEF AllocateNew, AllocNew, HasFresh
<1>1. /\ heapEnd' \in Addresses
      /\ OnGrid(heapEnd)'
      /\ BlocksUpTo(heapEnd') = BlocksUpTo(heapEnd) \cup {heapEnd}
  BY NextBlock DEF IInv, TypeOK, OnGrid
<1>2. heapEnd \notin BlocksUpTo(heapEnd)
  BY HeapAssumption DEF BlocksUpTo, Addresses
<1>3. /\ IsFiniteSet(live')
      /\ held' = Cardinality(live')
      /\ held' \in Nat
  BY <1>2, FS_AddElement DEF IInv, TypeOK
<1>4. TypeOK'
  BY <1>1, <1>3 DEF IInv, TypeOK
<1>5. Returned' = Returned
  BY DEF Returned
<1>6. BlocksUpTo(heapEnd)' = live' \cup Returned'
  BY <1>1, <1>5 DEF IInv, BlocksUpTo
<1>7. FreeListThreaded'
  <2>1. \A i \in 1 .. Len(freeList) : freeList[i] # heapEnd
    BY <1>2 DEF IInv, Returned
  <2> QED
    BY <2>1 DEF IInv, FreeListThreaded
<1> QED
  BY <1>1, <1>3, <1>4, <1>6, <1>7 DEF IInv, OnGrid

LEMMA AllocateFreedStep == IInv /\ AllocateFreed => IInv'
<1> SUFFICES ASSUME IInv, AllocateFreed PROVE IInv'
  OBVIOUS
<1>1. /\ heapFree # 0
      /\ heapFree' = memory[heapFree]
      /\ live' = live \cup {heapFree} /\ held' = held + 1
      /\ freeList' = SubSeq(freeList, 2, Len(freeList))
      /\ UNCHANGED <<heapEnd, memory>>
  BY DEF AllocateFreed, AllocFreed
<1>2. freeList \in Seq(Addresses) /\ Len(freeList) \in Nat
  BY DEF IInv, TypeOK
<1>3. /\ freeList # << >>
      /\ heapFree = freeList[1]
  BY <1>1 DEF IInv, FreeListThreaded
<1>4. Len(freeList) # 0
  BY <1>2, <1>3
<1>5. /\ 1 \in 1 .. Len(freeList)
      /\ Len(freeList) # 1 => /\ 2 \in 1 .. Len(freeList)
                              /\ 1 \in 1 .. Len(freeList) - 1
  <2>1. \A n \in Nat : n # 0 => /\ 1 \in 1 .. n
                                /\ n # 1 => 2 \in 1 .. n /\ 1 \in 1 .. n - 1
    OBVIOUS
  <2> QED
    BY <2>1, <1>2, <1>4
<1>6. heapFree \in Addresses /\ heapFree \notin live
  BY <1>2, <1>3, <1>5 DEF IInv, FreeListThreaded
<1>7. /\ freeList' \in Seq(Addresses)
      /\ Len(freeList') = Len(freeList) - 1
      /\ \A i \in 1 .. Len(freeList) - 1 : freeList'[i] = freeList[i + 1]
  <2>1. freeList' = Tail(freeList)
    BY <1>1, <1>2, <1>3, TailIsSubSeq
  <2> QED
    BY <2>1, <1>2, <1>3, HeadTailProperties
<1>8. /\ IsFiniteSet(live')
      /\ held' = Cardinality(live')
  BY <1>1, <1>6, FS_AddElement DEF IInv
<1>9. memory[heapFree] = IF Len(freeList) = 1 THEN 0 ELSE freeList[2]
  <2>1. memory[freeList[1]] = IF 1 = Len(freeList) THEN 0 ELSE freeList[1 + 1]
    BY <1>5 DEF IInv, FreeListThreaded
  <2> QED
    BY <2>1, <1>3
<1>10. TypeOK'
  <2>1. heapFree' \in Addresses \cup {0}
    <3>1. Len(freeList) # 1 => freeList[2] \in Addresses
      BY <1>2, <1>5
    <3> QED
      BY <3>1, <1>1, <1>9
  <2> QED
    BY <1>1, <1>6, <1>7, <2>1 DEF IInv, TypeOK
<1>11. \A i \in 1 .. Len(freeList') : i + 1 \in 1 .. Len(freeList) /\ i + 1 # 1
  BY <1>2, <1>7
<1>12. \A i \in 1 .. Len(freeList) : i # 1 =>
         i - 1 \in 1 .. Len(freeList') /\ freeList[i] = freeList'[i - 1]
  <2> SUFFICES ASSUME NEW i \in 1 .. Len(freeList), i # 1
               PROVE  i - 1 \in 1 .. Len(freeList') /\ freeList[i] = freeList'[i - 1]
    OBVIOUS
  <2>1. i - 1 \in 1 .. Len(freeList) - 1 /\ (i - 1) + 1 = i
    BY <1>2
  <2> QED
    BY <2>1, <1>7
<1>13. Returned = Returned' \cup {heapFree}
  <2>1. Returned \subseteq Returned' \cup {heapFree}
    BY <1>3, <1>12 DEF Returned
  <2>2. Returned' \cup {heapFree} \subseteq Returned
    BY <1>3, <1>5, <1>7, <1>11 DEF Returned
  <2> QED
    BY <2>1, <2>2
<1>14. BlocksUpTo(heapEnd)' = live' \cup Returned'
  BY <1>1, <1>13 DEF IInv, BlocksUpTo
<1>15. FreeListThreaded'
  <2>1. heapFree' = IF freeList' = << >> THEN 0 ELSE freeList'[1]
    <3>1. CASE Len(freeList) = 1
      <4>1. freeList' = << >>
        BY <3>1, <1>7, EmptySeq
      <4> QED
        BY <3>1, <4>1, <1>1, <1>9
    <3>2. CASE Len(freeList) # 1
      <4>1. freeList'[1] = freeList[1 + 1]
        BY <3>2, <1>5, <1>7
      <4>2. Len(freeList') # 0
        BY <3>2, <1>2, <1>7
      <4>3. freeList' # << >>
        BY <4>2, EmptySeq
      <4> QED
        BY <3>2, <4>1, <4>3, <1>1, <1>9
    <3> QED
      BY <3>1, <3>2
  <2>2. \A i \in 1 .. Len(freeList') :
          memory'[freeList'[i]]
            = IF i = Len(freeList') THEN 0 ELSE freeList'[i + 1]
    <3> SUFFICES ASSUME NEW i \in 1 .. Len(freeList')
                 PROVE  memory'[freeList'[i]]
                          = IF i = Len(freeList') THEN 0 ELSE freeList'[i + 1]
      OBVIOUS
    <3>1. i + 1 \in 1 .. Len(freeList) /\ freeList'[i] = freeList[i + 1]
      BY <1>7, <1>11
    <3>2. memory[freeList[i + 1]]
            = IF i + 1 = Len(freeList) THEN 0 ELSE freeList[(i + 1) + 1]
      BY <3>1 DEF IInv, FreeListThreaded
    <3>3. i # Len(freeList') => freeList'[i + 1] = freeList[(i + 1) + 1]
      BY <1>2, <1>7
    <3> QED
      BY <3>1, <3>2, <3>3, <1>1, <1>2, <1>7
  <2>3. \A i, j \in 1 .. Len(freeList') : i # j => freeList'[i] # freeList'[j]
    <3> SUFFICES ASSUME NEW i \in 1 .. Len(freeList'),
                        NEW j \in 1 .. Len(freeList'), i # j
                 PROVE  freeList'[i] # freeList'[j]
      OBVIOUS
    <3>1. i + 1 # j + 1
      OBVIOUS
    <3> QED
      BY <3>1, <1>7, <1>11 DEF IInv, FreeListThreaded
  <2>4. \A i \in 1 .. Len(freeList') : freeList'[i] \notin live'
    <3> SUFFICES ASSUME NEW i \in 1 .. Len(freeList')
                 PROVE  freeList'[i] \notin live'
      OBVIOUS
    <3>1. freeList'[i] = freeList[i + 1]
      BY <1>7
    <3>2. freeList[i + 1] \notin live /\ freeList[i + 1] # freeList[1]
      BY <1>5, <1>11 DEF IInv, FreeListThreaded
    <3> QED
      BY <3>1, <3>2, <1>1, <1>3
  <2> QED
    BY <2>1, <2>2, <2>3, <2>4 DEF FreeListThreaded
<1> QED
  BY <1>1, <1>8, <1>10, <1>14, <1>15 DEF IInv, OnGrid

LEMMA FreeStep == ASSUME IInv, NEW a \in live, Free(a) PROVE IInv'
<1> USE DEF Free, FreeBlock
<1>1. freeList \in Seq(Addresses) /\ a \in Addresses
  BY DEF IInv, TypeOK
<1>2. /\ freeList' \in Seq(Addresses)
      /\ Len(freeList') = Len(freeList) + 1
      /\ freeList'[1] = a
      /\ \A i \in 1 .. Len(freeList) : freeList'[i + 1] = freeList[i]
  BY <1>1
<1>3. \A i \in 1 .. Len(freeList') : i # 1 =>
        i - 1 \in 1 .. Len(freeList) /\ freeList'[i] = freeList[i - 1]
  BY <1>1, <1>2
<1>4. \A i \in 1 .. Len(freeList) : freeList[i] # a
  BY DEF IInv, FreeListThreaded
<1>5. /\ IsFiniteSet(live')
      /\ held' = Cardinality(live')
      /\ held' \in Nat
  <2>1. Cardinality(live') = Cardinality(live) - 1 /\ IsFiniteSet(live')
    BY FS_RemoveElement DEF IInv
  <2>2. Cardinality(live') \in Nat
    BY <2>1, FS_CardinalityType
  <2> QED
    BY <2>1, <2>2 DEF IInv
<1>6. memory' \in [Addresses -> Nat]
  BY HeapAssumption DEF IInv, TypeOK, Addresses
<1>7. TypeOK'
  BY <1>1, <1>2, <1>5, <1>6 DEF IInv, TypeOK
<1>8. Returned' = Returned \cup {a}
  <2>1. \A i \in 1 .. Len(freeList) : i + 1 \in 1 .. Len(freeList')
    BY <1>1, <1>2
  <2>2. 1 \in 1 .. Len(freeList')
    BY <1>1, <1>2
  <2> QED
    BY <1>2, <1>3, <2>1, <2>2 DEF Returned
<1>9. BlocksUpTo(heapEnd)' = live' \cup Returned'
  BY <1>8 DEF IInv, BlocksUpTo
<1>10. FreeListThreaded'
  <2>1. heapFree' = IF freeList' = << >> THEN 0 ELSE freeList'[1]
    BY <1>1, <1>2
  <2>2. \A i \in 1 .. Len(freeList') :
          memory'[freeList'[i]]
            = IF i = Len(freeList') THEN 0 ELSE freeList'[i + 1]
    <3> SUFFICES ASSUME NEW i \in 1 .. Len(freeList')
                 PROVE  memory'[freeList'[i]]
                          = IF i = Len(freeList') THEN 0 ELSE freeList'[i + 1]
      OBVIOUS
    <3>1. CASE i = 1
      <4>1. memory'[freeList'[1]] = heapFree
        BY <1>1, <1>2 DEF IInv, TypeOK
      <4>2. heapFree = IF Len(freeList) = 0 THEN 0 ELSE freeList[1]
        BY <1>1 DEF IInv, FreeListThreaded
      <4>3. Len(freeList) # 0 => freeList'[2] = freeList[1]
        BY <1>1, <1>2
      <4> QED
        BY <3>1, <4>1, <4>2, <4>3, <1>1, <1>2
    <3>2. CASE i # 1
      <4>1. i - 1 \in 1 .. Len(freeList) /\ freeList'[i] = freeList[i - 1]
        BY <3>2, <1>3
      <4>2. memory'[freeList'[i]] = memory[freeList[i - 1]]
        BY <4>1, <1>1, <1>4 DEF IInv, TypeOK
      <4>3. memory[freeList[i - 1]]
              = IF i - 1 = Len(freeList) THEN 0 ELSE freeList[i]
        BY <4>1 DEF IInv, FreeListThreaded
      <4>4. i - 1 # Len(freeList) => freeList'[i + 1] = freeList[i]
        BY <4>1, <1>1, <1>2
      <4> QED
        BY <4>2, <4>3, <4>4, <1>1, <1>2
    <3> QED
      BY <3>1, <3>2
  <2>3. \A i, j \in 1 .. Len(freeList') : i # j => freeList'[i] # freeList'[j]
    <3> SUFFICES ASSUME NEW i \in 1 .. Len(freeList'),
                        NEW j \in 1 .. Len(freeList'), i # j
                 PROVE  freeList'[i] # freeList'[j]
      OBVIOUS
    <3>1. CASE i # 1 /\ j # 1
      BY <3>1, <1>3 DEF IInv, FreeListThreaded
    <3>2. CASE i = 1 \/ j = 1
      BY <3>2, <1>2, <1>3, <1>4
    <3> QED
      BY <3>1, <3>2
  <2>4. \A i \in 1 .. Len(freeList') : freeList'[i] \notin live'
    BY <1>2, <1>3 DEF IInv, FreeListThreaded
  <2> QED
    BY <2>1, <2>2, <2>3, <2>4 DEF FreeListThreaded
<1> QED
  BY <1>5, <1>7, <1>9, <1>10 DEF IInv, OnGrid

LEMMA WriteStep ==
  ASSUME IInv, NEW a \in live, NEW w \in Words, Write(a, w)
  PROVE  IInv'
<1> USE DEF Write
<1>1. TypeOK'
  BY WordsAssumption DEF IInv, TypeOK
<1>2. Returned' = Returned
  BY DEF Returned
<1>3. BlocksUpTo(heapEnd)' = live' \cup Returned'
  BY <1>2 DEF IInv, BlocksUpTo
<1>4. FreeListThreaded'
  BY DEF IInv, TypeOK, FreeListThreaded
<1> QED
  BY <1>1, <1>3, <1>4 DEF IInv, OnGrid

LEMMA Invariance == Spec => []IInv
<1>1. IInv /\ [Next]_vars => IInv'
  <2> SUFFICES ASSUME IInv, [Next]_vars PROVE IInv'
    OBVIOUS
  <2>1. CASE AllocateNew
    BY <2>1, AllocateNewStep
  <2>2. CASE AllocateFreed
    BY <2>2, AllocateFreedStep
  <2>3. CASE \E a \in live : Free(a)
    BY <2>3, FreeStep
  <2>4. CASE \E a \in live, w \in Words : Write(a, w)
    BY <2>4, WriteStep
  <2>5. CASE UNCHANGED vars
    BY <2>5 DEF vars, IInv, TypeOK, OnGrid, Returned, BlocksUpTo, FreeListThreaded
  <2> QED
    BY <2>1, <2>2, <2>3, <2>4, <2>5 DEF Next
<1> QED
  BY InitIInv, <1>1, PTL DEF Spec

-----------------------------------------------------------------------------
(* What follows.                                                           *)

\* Every pointer the heap keeps is an address of the heap or 0 (heap.rs).
THEOREM TypeCorrect == Spec => []TypeOK
<1>1. IInv => TypeOK
  BY DEF IInv
<1> QED
  BY <1>1, Invariance, PTL

\* Nothing a client writes into its blocks, and no order of returning them,
\* corrupts the list that Heap::free threads through them.
THEOREM ListIsThreaded == Spec => []FreeListThreaded
<1>1. IInv => FreeListThreaded
  BY DEF IInv
<1> QED
  BY <1>1, Invariance, PTL

LEMMA LiveOnGrid ==
  ASSUME IInv, NEW a \in live \cup Returned
  PROVE  a \in Addresses /\ OnGrid(a) /\ a + AllocSize <= heapEnd
  BY DEF IInv, BlocksUpTo, OnGrid

\* Blocks handed out by Heap::alloc do not overlap and lie below heap_end.
THEOREM LiveBlocksAreDisjoint == Spec => []LiveBlocksDisjoint
<1>1. IInv => LiveBlocksDisjoint
  <2> SUFFICES ASSUME IInv PROVE LiveBlocksDisjoint
    OBVIOUS
  <2>1. \A a, b \in live : a < b => a + AllocSize <= b
    BY LiveOnGrid, BlocksApart
  <2>2. \A a, b \in live : a # b => a < b \/ b < a
    BY HeapAssumption DEF IInv, TypeOK, Addresses
  <2>3. \A a, b \in live :
          a # b => a + AllocSize <= b \/ b + AllocSize <= a
    BY <2>1, <2>2
  <2>4. \A a \in live : a + AllocSize <= heapEnd
    BY LiveOnGrid
  <2> QED
    BY <2>3, <2>4 DEF LiveBlocksDisjoint
<1> QED
  BY <1>1, Invariance, PTL

\* Heap::alloc fails only when every block of the heap is held.
THEOREM NothingLeaks == Spec => []NoBlockLeaks
<1>1. IInv => NoBlockLeaks
  <2> SUFFICES ASSUME IInv PROVE NoBlockLeaks
    OBVIOUS
  <2>1. ASSUME OutOfMemory PROVE live = BlocksUpTo(HeapMax)
    <3>1. Returned = {}
      <4>1. freeList \in Seq(Addresses) /\ 0 \notin Addresses
        BY HeapAssumption DEF IInv, TypeOK, Addresses
      <4>2. freeList = << >>
        BY <2>1, <4>1 DEF OutOfMemory, IInv, FreeListThreaded
      <4> QED
        BY <4>2 DEF Returned
    <3>2. ASSUME NEW a \in Addresses, OnGrid(a)
          PROVE  a + AllocSize <= HeapMax <=> a + AllocSize <= heapEnd
      <4>1. heapEnd \in Addresses /\ OnGrid(heapEnd)
        BY DEF IInv, TypeOK
      <4>2. a < heapEnd => a + AllocSize <= heapEnd
        BY <3>2, <4>1, BlocksApart
      <4>3. heapEnd + AllocSize > HeapMax
        BY <2>1, <4>1, HeapAssumption DEF OutOfMemory, HasFresh, Addresses
      <4> QED
        BY <4>1, <4>2, <4>3, HeapAssumption DEF Addresses
    <3>3. BlocksUpTo(HeapMax) = BlocksUpTo(heapEnd)
      BY <3>2 DEF BlocksUpTo, OnGrid
    <3> QED
      BY <3>1, <3>3 DEF IInv
  <2> QED
    BY <2>1 DEF NoBlockLeaks, IInv, Returned
<1> QED
  BY <1>1, Invariance, PTL

-----------------------------------------------------------------------------
(* The heap implements the allocator.                                      *)

LEMMA FreshIsAvailable ==
  ASSUME IInv, AllocateNew
  PROVE  heapEnd \in Addresses /\ Abstract!Available(heapEnd)
<1>1. \A b \in live : b \in Addresses /\ b + AllocSize <= heapEnd
  BY LiveOnGrid
<1>2. heapEnd \in Addresses
  BY DEF IInv, TypeOK
<1> QED
  BY <1>1, <1>2, HeapAssumption
  DEF AllocateNew, AllocNew, HasFresh, Addresses,
      Abstract!Available, Abstract!Overlap

LEMMA FreedIsAvailable ==
  ASSUME IInv, AllocateFreed
  PROVE  heapFree \in Addresses /\ Abstract!Available(heapFree)
<1>1. \A b \in live : b \in Addresses /\ OnGrid(b)
  BY LiveOnGrid
<1>2. heapFree \in Returned /\ heapFree \notin live
  <2>1. freeList \in Seq(Addresses)
    BY DEF IInv, TypeOK
  <2>2. 1 \in 1 .. Len(freeList) /\ heapFree = freeList[1]
    BY <2>1 DEF AllocateFreed, AllocFreed, IInv, FreeListThreaded
  <2> QED
    BY <2>2 DEF Returned, IInv, FreeListThreaded
<1>3. /\ heapFree \in Addresses
      /\ OnGrid(heapFree)
      /\ heapFree + AllocSize <= heapEnd
  BY <1>2, LiveOnGrid
<1>4. heapEnd \in Addresses
  BY DEF IInv, TypeOK
<1>5. \A b \in live : heapFree + AllocSize <= b \/ b + AllocSize <= heapFree
  <2>1. \A b \in live : heapFree < b => heapFree + AllocSize <= b
    BY <1>1, <1>3, BlocksApart
  <2>2. \A b \in live : b < heapFree => b + AllocSize <= heapFree
    BY <1>1, <1>3, BlocksApart
  <2>3. \A b \in live : heapFree < b \/ b < heapFree
    BY <1>1, <1>2, <1>3, HeapAssumption DEF Addresses
  <2> QED
    BY <2>1, <2>2, <2>3
<1> QED
  BY <1>1, <1>3, <1>4, <1>5, HeapAssumption
  DEF Addresses, Abstract!Available, Abstract!Overlap

\* Whatever Heap::alloc hands out lies in the heap and overlaps no block that
\* is held: the two pointers and the links implement the abstract allocator.
THEOREM HeapIsAnAllocator == Spec => ImplementsAllocator
<1>1. Init => Abstract!Init
  BY DEF Init, Abstract!Init
<1>2. IInv /\ [Next]_vars => [Abstract!Next]_<<live, held>>
  <2> SUFFICES ASSUME IInv, [Next]_vars
               PROVE  Abstract!Next \/ UNCHANGED <<live, held>>
    OBVIOUS
  <2>1. CASE AllocateNew
    <3>1. heapEnd \in Addresses /\ Abstract!Available(heapEnd)
      BY <2>1, FreshIsAvailable
    <3> QED
      BY <2>1, <3>1 DEF AllocateNew, AllocNew, Addresses, Abstract!Next,
                        Abstract!Alloc
  <2>2. CASE AllocateFreed
    <3>1. heapFree \in Addresses /\ Abstract!Available(heapFree)
      BY <2>2, FreedIsAvailable
    <3> QED
      BY <2>2, <3>1 DEF AllocateFreed, AllocFreed, Addresses, Abstract!Next,
                        Abstract!Alloc
  <2>3. CASE \E a \in live : Free(a)
    BY <2>3 DEF Free, Abstract!Next, Abstract!Free
  <2>4. CASE \E a \in live, w \in Words : Write(a, w)
    BY <2>4 DEF Write
  <2>5. CASE UNCHANGED vars
    BY <2>5 DEF vars
  <2> QED
    BY <2>1, <2>2, <2>3, <2>4, <2>5 DEF Next
<1> QED
  BY <1>1, <1>2, Invariance, PTL DEF Spec, ImplementsAllocator, Abstract!Spec

-----------------------------------------------------------------------------
(* The words: the conditions of a jump.                                    *)

LEMMA WordRange == /\ SignBit \in Nat /\ SignBit > 0
                   /\ WordSize \in Nat /\ WordSize = 2 * SignBit
                   /\ \A a \in Word : a \in Nat /\ 0 <= a /\ a < WordSize
  BY SignBitAssumption DEF WordSize, Word

LEMMA ZeroMeansEqual ==
  ASSUME NEW a \in Word, NEW b \in Word
  PROVE  Difference(a, b) = 0 <=> a = b
  <1>1. CASE a < b
    BY <1>1, WordRange DEF Difference, Wrapped
  <1>2. CASE a >= b
    BY <1>2, WordRange DEF Difference, Wrapped
  <1> QED
    BY <1>1, <1>2, WordRange

(***************************************************************************)
(* Compare subtracts and keeps the flags: the unsigned conditions then     *)
(* tell how the two operands compare as u16, the signed ones how they      *)
(* compare as i16 (matches_condition), also when the difference does not   *)
(* fit.                                                                    *)
(***************************************************************************)
THEOREM CompareDecidesUnsigned ==
  ASSUME NEW a \in Word, NEW b \in Word
  PROVE  LET f == DifferenceFlags(a, b) IN
         /\ MatchesCondition(f, ZeroEqual) <=> a = b
         /\ MatchesCondition(f, NotZeroNotEqual) <=> a # b
         /\ MatchesCondition(f, UnsignedGreater) <=> a > b
         /\ MatchesCondition(f, UnsignedLessOrEqual) <=> a <= b
         /\ MatchesCondition(f, UnsignedGreaterOrEqual) <=> a >= b
         /\ MatchesCondition(f, UnsignedLess) <=> a < b
  <1> DEFINE f == DifferenceFlags(a, b)
  <1>1. f.zero <=> a = b
    BY ZeroMeansEqual DEF DifferenceFlags, ResultFlags
  <1>2. f.carry <=> a < b
    BY DEF DifferenceFlags, ResultFlags
  <1>3. a \in Nat /\ b \in Nat
    BY WordRange
  <1> HIDE DEF f
  <1>4. /\ MatchesCondition(f, ZeroEqual) <=> f.zero
        /\ MatchesCondition(f, NotZeroNotEqual) <=> ~f.zero
        /\ MatchesCondition(f, UnsignedGreater) <=> ~f.carry /\ ~f.zero
        /\ MatchesCondition(f, UnsignedLessOrEqual) <=> f.carry \/ f.zero
        /\ MatchesCondition(f, UnsignedGreaterOrEqual) <=> ~f.carry
        /\ MatchesCondition(f, UnsignedLess) <=> f.carry
    BY DEF MatchesCondition, ZeroEqual, NotZeroNotEqual, Negative, NonNegative,
           UnsignedGreater, UnsignedLessOrEqual, UnsignedGreaterOrEqual,
           UnsignedLess, SignedGreater, SignedLessOrEqual,
           SignedGreaterOrEqual, SignedLess, Overflow, NoOverflow, Always
  <1> QED
    BY <1>1, <1>2, <1>3, <1>4 DEF f

THEOREM CompareDecidesSigned ==
  ASSUME NEW a \in Word, NEW b \in Word
  PROVE  LET f == DifferenceFlags(a, b) IN
         /\ MatchesCondition(f, SignedGreater) <=> Signed(a) > Signed(b)
         /\ MatchesCondition(f, SignedLessOrEqual) <=> Signed(a) <= Signed(b)
         /\ MatchesCondition(f, SignedGreaterOrEqual) <=> Signed(a) >= Signed(b)
         /\ MatchesCondition(f, SignedLess) <=> Signed(a) < Signed(b)
  <1> DEFINE f == DifferenceFlags(a, b)
  <1>1. f.zero <=> Signed(a) = Signed(b)
    <2>1. f.zero <=> a = b
      BY ZeroMeansEqual DEF DifferenceFlags, ResultFlags
    <2> QED
      BY <2>1, WordRange DEF Signed
  <1>2. f.sign # f.overflow <=> Signed(a) < Signed(b)
    <2>1. f.sign <=> Difference(a, b) >= SignBit
      BY DEF DifferenceFlags, ResultFlags
    <2>2. f.overflow <=> OutOfRange(Signed(a) - Signed(b))
      BY DEF DifferenceFlags, ResultFlags
    <2>3. f.sign \in BOOLEAN /\ f.overflow \in BOOLEAN
      BY DEF DifferenceFlags, ResultFlags, OutOfRange
    <2>4. CASE a < SignBit /\ b < SignBit
      BY <2>1, <2>2, <2>3, <2>4, WordRange
      DEF Difference, Wrapped, Signed, OutOfRange
    <2>5. CASE a < SignBit /\ b >= SignBit
      BY <2>1, <2>2, <2>3, <2>5, WordRange
      DEF Difference, Wrapped, Signed, OutOfRange
    <2>6. CASE a >= SignBit /\ b < SignBit
      BY <2>1, <2>2, <2>3, <2>6, WordRange
      DEF Difference, Wrapped, Signed, OutOfRange
    <2>7. CASE a >= SignBit /\ b >= SignBit
      BY <2>1, <2>2, <2>3, <2>7, WordRange
      DEF Difference, Wrapped, Signed, OutOfRange
    <2> QED
      BY <2>4, <2>5, <2>6, <2>7, WordRange
  <1>3. Signed(a) \in Int /\ Signed(b) \in Int
    BY WordRange DEF Signed
  <1> HIDE DEF f
  <1>4. /\ MatchesCondition(f, SignedGreater) <=> ~Lower(f) /\ ~f.zero
        /\ MatchesCondition(f, SignedLessOrEqual) <=> Lower(f) \/ f.zero
        /\ MatchesCondition(f, SignedGreaterOrEqual) <=> ~Lower(f)
        /\ MatchesCondition(f, SignedLess) <=> Lower(f)
    BY DEF MatchesCondition, ZeroEqual, NotZeroNotEqual, Negative, NonNegative,
           UnsignedGreater, UnsignedLessOrEqual, UnsignedGreaterOrEqual,
           UnsignedLess, SignedGreater, SignedLessOrEqual,
           SignedGreaterOrEqual, SignedLess, Overflow, NoOverflow, Always
  <1> QED
    BY <1>1, <1>2, <1>3, <1>4 DEF f, Lower

(***************************************************************************)
(* The code generator jumps to the false branch on the inverted condition  *)
(* (Condition::invert): it is matched exactly when the condition is not,   *)
(* whatever the flags.                                                     *)
(***************************************************************************)
THEOREM InvertNegates ==
  ASSUME NEW f \in Flags, NEW c \in Conditions
  PROVE  /\ Invert(c) \in Conditions
         /\ MatchesCondition(f, Invert(c)) <=> ~MatchesCondition(f, c)
  <1>1. Invert(c) \in Conditions /\ Invert(c) = c + 1 - 2 * (c % 2)
    BY DEF Invert, Conditions
  <1> QED
    BY <1>1
    DEF Flags, Conditions, Invert, MatchesCondition, Lower, ZeroEqual,
        NotZeroNotEqual, Negative, NonNegative, UnsignedGreater,
        UnsignedLessOrEqual, UnsignedGreaterOrEqual, UnsignedLess,
        SignedGreater, SignedLessOrEqual, SignedGreaterOrEqual, SignedLess,
        Overflow, NoOverflow, Always

(***************************************************************************)
(* A process that stops keeps its flags in a byte of its cell (set_flags,  *)
(* get_flags): decoding gives back what was encoded.                       *)
(***************************************************************************)
THEOREM FlagsSurviveEncoding ==
  ASSUME NEW f \in Flags
  PROVE  EncodeFlags(f) \in 0 .. 15 /\ DecodeFlags(EncodeFlags(f)) = f
  BY DEF Flags, EncodeFlags, DecodeFlags, Bit

-----------------------------------------------------------------------------
(* The memory cell.                                                        *)

\* The two pointers of a cell in use.
Stacked(cell) ==
  /\ cell \in Cell
  /\ StackPointer(cell) \in HeaderSize .. CellSize
  /\ StackPointer(cell) % 2 = 0
  /\ CallStackPointer(cell) \in HeaderSize .. CellSize
  /\ CallStackPointer(cell) % 2 = 0

\* Two cells agree on all words but those at the given addresses.
SameBut(cell, other, changed) ==
  \A a : WordAddress(a) /\ a \notin changed => ReadWord(cell, a) = ReadWord(other, a)

-----------------------------------------------------------------------------
(* Words.                                                                  *)

LEMMA Sizes ==
  /\ CellSize \in Nat /\ CellSize % 2 = 0 /\ CellSize >= 8 /\ HeaderSize = 8
  /\ WordSize \in Nat /\ CellSize < WordSize
  BY CellSizeAssumption, SignBitAssumption DEF HeaderSize, WordSize

LEMMA HeaderAddresses ==
  WordAddress(0) /\ WordAddress(2) /\ WordAddress(4) /\ WordAddress(6)
  BY Sizes, SMT DEF WordAddress

LEMMA WordNumberOf ==
  ASSUME NEW a, WordAddress(a)
  PROVE  a \div 2 \in WordNumbers /\ a = 2 * (a \div 2)
  BY Sizes, SMT DEF WordAddress, WordNumbers

\* No cell is the Fault that a failed operation gives.
LEMMA NoFault == ASSUME NEW cell \in Cell PROVE cell # Fault
<1>1. 0 \in WordNumbers
  BY Sizes, SMT DEF WordNumbers
<1>2. DOMAIN cell = WordNumbers
  BY DEF Cell
<1>3. 0 \notin DOMAIN Fault
  BY DEF Fault
<1> QED
  BY <1>1, <1>2, <1>3

\* A word written is the word read, and no other word changes.
LEMMA WordWritten ==
  ASSUME NEW cell \in Cell, NEW a, WordAddress(a), NEW word \in Word
  PROVE  /\ WriteWord(cell, a, word) \in Cell
         /\ ReadWord(WriteWord(cell, a, word), a) = word
         /\ SameBut(WriteWord(cell, a, word), cell, {a})
<1>1. WriteWord(cell, a, word) = [cell EXCEPT ![a \div 2] = word]
  BY NoFault DEF WriteWord
<1>2. a \div 2 \in WordNumbers
  BY WordNumberOf
<1>3. ASSUME NEW b, WordAddress(b), b # a PROVE b \div 2 # a \div 2
  BY <1>3, WordNumberOf
<1> QED
  BY <1>1, <1>2, <1>3, WordNumberOf DEF Cell, ReadWord, SameBut

-----------------------------------------------------------------------------
(* The value stack and the call stack.                                     *)

LEMMA TwoWrites ==
  ASSUME NEW cell \in Cell, NEW a, NEW b, WordAddress(a), WordAddress(b), a # b,
         NEW v \in Word, NEW w \in Word
  PROVE  LET written == WriteWord(WriteWord(cell, a, v), b, w)
         IN  /\ written \in Cell
             /\ ReadWord(written, a) = v
             /\ ReadWord(written, b) = w
             /\ SameBut(written, cell, {a, b})
<1> DEFINE once == WriteWord(cell, a, v)
           written == WriteWord(once, b, w)
<1>1. once \in Cell /\ ReadWord(once, a) = v /\ SameBut(once, cell, {a})
  BY WordWritten
<1> HIDE DEF once
<1>2. /\ written \in Cell
      /\ ReadWord(written, b) = w
      /\ SameBut(written, once, {b})
  BY <1>1, WordWritten
<1> HIDE DEF written
<1>3. ReadWord(written, a) = v
  BY <1>1, <1>2 DEF SameBut
<1>4. SameBut(written, cell, {a, b})
  BY <1>1, <1>2 DEF SameBut
<1> QED
  BY <1>2, <1>3, <1>4 DEF written, once

\* ValueStack::push and pop: what is pushed is on top and can be popped, and
\* no word changes but the pointer and the one below the stack.
THEOREM PushThenPop ==
  ASSUME NEW cell, Stacked(cell), NEW value \in Word,
         StackPointer(cell) >= HeaderSize + 2
  PROVE  LET sp == StackPointer(cell)
             pushed == Push(cell, value)
         IN  /\ pushed \in Cell
             /\ StackPointer(pushed) = sp - 2
             /\ Top(pushed) = value
             /\ SameBut(pushed, cell, {4, sp - 2})
             /\ Pop(pushed) \in Cell
             /\ StackPointer(Pop(pushed)) = sp
<1> DEFINE sp == StackPointer(cell)
           pushed == Push(cell, value)
<1>1. /\ sp \in Nat /\ sp - 2 \in Word /\ sp \in Word
      /\ WordAddress(sp - 2) /\ sp - 2 # 4 /\ cell \in Cell /\ sp >= 2
  <2>1. sp \in HeaderSize .. CellSize /\ sp >= HeaderSize + 2 /\ sp % 2 = 0
    BY DEF Stacked
  <2> HIDE DEF sp
  <2>2. (sp - 2) % 2 = 0
    BY <2>1, Sizes, SMT
  <2> QED
    BY <2>1, <2>2, Sizes DEF Stacked, Word, WordAddress
<1>2. pushed = WriteWord(WriteWord(cell, 4, sp - 2), sp - 2, value)
  BY <1>1, NoFault DEF Push
<1> HIDE DEF sp, pushed
<1>3. /\ pushed \in Cell
      /\ ReadWord(pushed, 4) = sp - 2
      /\ ReadWord(pushed, sp - 2) = value
      /\ SameBut(pushed, cell, {4, sp - 2})
  BY <1>1, <1>2, HeaderAddresses, TwoWrites
<1>4. StackPointer(pushed) = sp - 2
  BY <1>3 DEF StackPointer
<1>5. CanPop(pushed)
  BY <1>1, <1>3, <1>4, NoFault DEF CanPop
<1>6. Top(pushed) = value
  BY <1>3, <1>4, <1>5 DEF Top
<1>7. Pop(pushed) = WriteWord(pushed, 4, sp)
  <2>1. sp - 2 + 2 = sp
    BY <1>1
  <2> QED
    BY <1>4, <1>5, <2>1 DEF Pop
<1>8. Pop(pushed) \in Cell /\ StackPointer(Pop(pushed)) = sp
  <2>1. /\ WriteWord(pushed, 4, sp) \in Cell
        /\ ReadWord(WriteWord(pushed, 4, sp), 4) = sp
    BY <1>1, <1>3, HeaderAddresses, WordWritten
  <2> QED
    BY <1>7, <2>1 DEF StackPointer
<1> QED
  BY <1>3, <1>4, <1>6, <1>8 DEF sp, pushed

\* CallStack::push and pop: the address pushed by a call is where the return
\* goes.
THEOREM CallThenReturn ==
  ASSUME NEW cell, Stacked(cell), NEW address \in Word,
         CallStackPointer(cell) < CellSize
  PROVE  LET csp == CallStackPointer(cell)
             called == CallPush(cell, address)
         IN  /\ called \in Cell
             /\ CallStackPointer(called) = csp + 2
             /\ CallTop(called) = address
             /\ SameBut(called, cell, {2, csp})
             /\ CallPop(called) \in Cell
             /\ CallStackPointer(CallPop(called)) = csp
<1> DEFINE csp == CallStackPointer(cell)
           called == CallPush(cell, address)
<1>1. /\ csp \in Nat /\ csp + 2 \in Word /\ csp \in Word
      /\ WordAddress(csp) /\ csp # 2 /\ cell \in Cell
  <2>1. csp \in HeaderSize .. CellSize /\ csp < CellSize /\ csp % 2 = 0
    BY DEF Stacked
  <2> HIDE DEF csp
  <2>2. csp + 2 <= CellSize
    BY <2>1, Sizes, SMT
  <2> QED
    BY <2>1, <2>2, Sizes DEF Stacked, Word, WordAddress
<1>2. called = WriteWord(WriteWord(cell, 2, csp + 2), csp, address)
  BY <1>1, NoFault DEF CallPush
<1> HIDE DEF csp, called
<1>3. /\ called \in Cell
      /\ ReadWord(called, 2) = csp + 2
      /\ ReadWord(called, csp) = address
      /\ SameBut(called, cell, {2, csp})
  BY <1>1, <1>2, HeaderAddresses, TwoWrites
<1>4. CallStackPointer(called) = csp + 2
  BY <1>3 DEF CallStackPointer
<1>5. (csp + 2) - 2 = csp
  BY <1>1
<1>6. CallTop(called) = address
  BY <1>3, <1>4, <1>5 DEF CallTop
<1>7. CallPop(called) = WriteWord(called, 2, csp)
  BY <1>4, <1>5 DEF CallPop
<1>8. CallPop(called) \in Cell /\ CallStackPointer(CallPop(called)) = csp
  <2>1. /\ WriteWord(called, 2, csp) \in Cell
        /\ ReadWord(WriteWord(called, 2, csp), 2) = csp
    BY <1>1, <1>3, HeaderAddresses, WordWritten
  <2> QED
    BY <1>7, <2>1 DEF CallStackPointer
<1> QED
  BY <1>3, <1>4, <1>6, <1>8 DEF csp, called

\* While one word is left between the stacks, a push on either leaves all words
\* of the other, and its pointer.
THEOREM StacksApart ==
  ASSUME NEW cell, Stacked(cell), NEW word \in Word,
         CallStackPointer(cell) + 2 <= StackPointer(cell)
  PROVE  /\ CallStackPointer(Push(cell, word)) = CallStackPointer(cell)
         /\ \A a : WordAddress(a) /\ HeaderSize <= a /\ a < CallStackPointer(cell) =>
              ReadWord(Push(cell, word), a) = ReadWord(cell, a)
         /\ StackPointer(CallPush(cell, word)) = StackPointer(cell)
         /\ \A a : WordAddress(a) /\ StackPointer(cell) <= a =>
              ReadWord(CallPush(cell, word), a) = ReadWord(cell, a)
<1> DEFINE sp == StackPointer(cell)
           csp == CallStackPointer(cell)
<1>1. /\ sp \in HeaderSize .. CellSize /\ csp \in HeaderSize .. CellSize
      /\ csp + 2 <= sp
  BY DEF Stacked
<1>2. sp >= HeaderSize + 2 /\ csp < CellSize
  BY <1>1, Sizes
<1>3. SameBut(Push(cell, word), cell, {4, sp - 2})
  BY <1>2, PushThenPop
<1>4. SameBut(CallPush(cell, word), cell, {2, csp})
  BY <1>2, CallThenReturn
<1> HIDE DEF sp, csp
<1>5. 2 \notin {4, sp - 2} /\ 4 \notin {2, csp}
  BY <1>1, <1>2, Sizes
<1>6. ASSUME NEW a, WordAddress(a), HeaderSize <= a, a < csp
      PROVE  a \notin {4, sp - 2}
  BY <1>1, <1>6, Sizes DEF WordAddress
<1>7. ASSUME NEW a, WordAddress(a), sp <= a PROVE a \notin {2, csp}
  BY <1>1, <1>7, Sizes DEF WordAddress
<1>8. ReadWord(Push(cell, word), 2) = ReadWord(cell, 2)
  BY <1>3, <1>5, HeaderAddresses DEF SameBut
<1>9. ReadWord(CallPush(cell, word), 4) = ReadWord(cell, 4)
  BY <1>4, <1>5, HeaderAddresses DEF SameBut
<1> QED
  BY <1>3, <1>4, <1>6, <1>7, <1>8, <1>9
  DEF SameBut, sp, csp, StackPointer, CallStackPointer

-----------------------------------------------------------------------------
(* The stack of a new process.                                             *)

\* stack_block_copy: a new process finds on its stack the words on top of its
\* parent's, in the same order, and no other word of its cell is changed.
THEOREM ChildGetsTheWords ==
  ASSUME NEW cell, Stacked(cell), NEW parent, Stacked(parent), NEW count \in Nat,
         HeaderSize + 2 * count <= StackPointer(cell),
         StackPointer(parent) + 2 * count <= CellSize
  PROVE  LET child == StackBlockCopy(cell, parent, count)
             new == StackPointer(cell) - 2 * count
         IN  /\ child \in Cell
             /\ StackPointer(child) = new
             /\ \A i \in 0 .. count - 1 : Peek(child, i) = Peek(parent, i)
             /\ \A a : /\ WordAddress(a) /\ a # 4
                       /\ a < new \/ StackPointer(cell) <= a
                       => ReadWord(child, a) = ReadWord(cell, a)
<1> DEFINE sp == StackPointer(cell)
           source == StackPointer(parent)
           new == sp - 2 * count
           child == StackBlockCopy(cell, parent, count)
<1>1. /\ cell \in Cell /\ parent \in Cell
      /\ sp \in HeaderSize .. CellSize /\ sp % 2 = 0
      /\ source \in HeaderSize .. CellSize /\ source % 2 = 0
      /\ HeaderSize + 2 * count <= sp /\ source + 2 * count <= CellSize
  BY DEF Stacked
<1> DEFINE first == new \div 2
           after == sp \div 2
           copied == first .. after - 1
           from(w) == source \div 2 + w - first
           filled == [w \in WordNumbers |-> IF w \in copied THEN parent[from(w)]
                                            ELSE cell[w]]
<1>2. child = WriteWord(filled, 4, new)
  <2>1. new >= 0 /\ source + 2 * count <= CellSize
    BY <1>1, Sizes
  <2> QED
    BY <2>1, Sizes DEF StackBlockCopy, Stacked
<1> HIDE DEF sp, source, child
<1>3. /\ new \in Nat /\ new >= HeaderSize /\ new \in Word /\ new % 2 = 0
      /\ after \in Nat /\ sp = 2 * after
      /\ first = after - count /\ first \in Nat /\ first >= 4 /\ new = 2 * first
      /\ source \div 2 \in Nat /\ source = 2 * (source \div 2)
  <2>1. after \in Nat /\ sp = 2 * after
    BY <1>1, Sizes, SMT
  <2>2. source \div 2 \in Nat /\ source = 2 * (source \div 2)
    BY <1>1, Sizes, SMT
  <2> HIDE DEF after
  <2>3. new = 2 * (after - count) /\ after - count \in Nat /\ after - count >= 4
    BY <1>1, <2>1, Sizes, SMT
  <2>4. first = after - count
    BY <2>3, SMT
  <2>5. new \in Word /\ new \in Nat /\ new >= HeaderSize /\ new % 2 = 0
    BY <1>1, <2>3, Sizes, SMT DEF Word
  <2> QED
    BY <2>1, <2>2, <2>3, <2>4, <2>5
<1> DEFINE base == source \div 2
<1>4. base \in Nat /\ source = 2 * base /\ \A w : from(w) = base + w - first
  BY <1>3
<1> HIDE DEF after, base, from, first, new
<1>5. ASSUME NEW w \in copied PROVE from(w) \in WordNumbers /\ w \in WordNumbers
  BY <1>1, <1>3, <1>4, Sizes, SMT DEF WordNumbers
<1>6. filled \in Cell
  <2>1. \A w \in WordNumbers : cell[w] \in Word /\ parent[w] \in Word
    BY <1>1 DEF Cell
  <2> QED
    BY <1>5, <2>1 DEF Cell
<1> HIDE DEF filled
<1>7. /\ child \in Cell
      /\ ReadWord(child, 4) = new
      /\ SameBut(child, filled, {4})
  BY <1>2, <1>3, <1>6, HeaderAddresses, WordWritten
<1>8. StackPointer(child) = new
  BY <1>7 DEF StackPointer
<1>9. ASSUME NEW i \in 0 .. count - 1 PROVE Peek(child, i) = Peek(parent, i)
  <2>1. /\ first + i \in copied /\ from(first + i) = base + i
        /\ new + 2 * i = 2 * (first + i) /\ source + 2 * i = 2 * (base + i)
    BY <1>3, <1>4
  <2>2. /\ (new + 2 * i) \div 2 = first + i /\ (source + 2 * i) \div 2 = base + i
        /\ new + 2 * i # 4 /\ (new + 2 * i) % 2 = 0
    BY <1>3, <1>4, <2>1, SMT
  <2>3. WordAddress(new + 2 * i)
    BY <1>1, <1>3, <2>2, Sizes DEF WordAddress
  <2>4. ReadWord(child, new + 2 * i) = ReadWord(filled, new + 2 * i)
    BY <1>7, <2>2, <2>3 DEF SameBut
  <2>5. ReadWord(filled, new + 2 * i) = parent[base + i]
    BY <1>5, <2>1, <2>2 DEF ReadWord, filled
  <2>6. ReadWord(parent, source + 2 * i) = parent[base + i]
    BY <2>2 DEF ReadWord
  <2> QED
    BY <1>8, <2>4, <2>5, <2>6 DEF Peek, source
<1>10. ASSUME NEW a, WordAddress(a), a # 4, a < new \/ sp <= a
       PROVE  ReadWord(child, a) = ReadWord(cell, a)
  <2>1. a \div 2 \in WordNumbers /\ a = 2 * (a \div 2) /\ a \div 2 \in Nat
    BY <1>10, WordNumberOf, Sizes, SMT DEF WordNumbers
  <2>2. a \div 2 \notin copied
    <3> DEFINE half == a \div 2
    <3>1. half \in Nat /\ a = 2 * half
      BY <2>1
    <3> HIDE DEF half
    <3>2. half < first \/ after <= half
      BY <1>3, <1>10, <3>1
    <3>3. half \notin copied
      BY <1>3, <3>1, <3>2
    <3> QED
      BY <3>3 DEF half
  <2>3. ReadWord(child, a) = ReadWord(filled, a)
    BY <1>7, <1>10 DEF SameBut
  <2> QED
    BY <2>1, <2>2, <2>3 DEF ReadWord, filled
<1> QED
  BY <1>7, <1>8, <1>9, <1>10 DEF sp, new, child
=============================================================================
