------------------------- MODULE HardwareHeapProofs -------------------------
(***************************************************************************)
(* What the hardware's heap keeps true for every size of the memory, of    *)
(* the heap and of the blocks, as long as the bump pointer meets HeapMax.  *)
(***************************************************************************)
EXTENDS HardwareHeapClient, Multiples, FiniteSetTheorems, SequenceTheorems, TLAPS

-----------------------------------------------------------------------------
(* The inductive invariant.                                                *)

OnGrid(a) == (a - HeapBase) % AllocSize = 0
BlocksBelow(end) == {a \in HeapBase .. end - 1 : (a - HeapBase) % AllocSize = 0}
Returned == {freed[i] : i \in 1 .. Len(freed)}

\* The block that is handed out but not yet taken by the client.
Handed == IF request = "alloc" /\ heapFinished THEN {allocAddress} ELSE {}

Counted == IsFiniteSet(live) /\ held = Cardinality(live)

\* Which request each state of the heap serves, and what it has done of it.
Control ==
  /\ request = "none" => heapState = "INIT" /\ ~heapFinished
  /\ heapState = "UPDATE_HEAP_FREE" =>
       /\ request = "alloc" /\ ~heapFinished
       /\ heapEnd = HeapMax
       /\ ramOut = ram[heapFree]
  /\ heapState = "WRITE_FREE" =>
       /\ request = "free" /\ ~heapFinished
       /\ ram[freeAddress] = heapFree
  /\ request = "free" => freeAddress \in live
  /\ request = "alloc" /\ ~heapFinished /\ heapEnd = HeapMax => freed # << >>

\* The blocks below the bump pointer are live, returned or on their way.
Blocks ==
  /\ OnGrid(heapEnd)
  /\ BlocksBelow(heapEnd) = live \cup Returned \cup Handed
  /\ live \cap Handed = {}

\* The links between the returned blocks, without the first.
Links ==
  /\ \A i \in 1 .. Len(freed) - 1 : ram[freed[i]] = freed[i + 1]
  /\ \A i, j \in 1 .. Len(freed) : i # j => freed[i] # freed[j]
  /\ \A i \in 1 .. Len(freed) : freed[i] \notin live

\* Where heapFree points: to the first returned block, or past it when that is
\* on its way to the client, or to the block that is being returned.
Taken == freed # << >> /\ request = "alloc" /\ heapFinished /\ freed[1] = allocAddress
Given == request = "free" /\ heapFinished
HeadRest == freed # << >> /\ ~Taken /\ ~Given => heapFree = freed[1]
HeadTaken ==
  Taken => /\ Len(freed) > 1 => heapFree = freed[2]
           /\ \A i \in 2 .. Len(freed) : freed[i] # allocAddress
HeadGiven == Given => /\ heapFree = freeAddress
                      /\ freed # << >> => ram[freeAddress] = freed[1]
HandedOut ==
  request = "alloc" /\ heapFinished /\ ~Taken => allocAddress \notin Returned

IInv ==
  /\ TypeOK /\ Counted /\ Control /\ Blocks /\ Links
  /\ HeadRest /\ HeadTaken /\ HeadGiven /\ HandedOut

-----------------------------------------------------------------------------
(* Where blocks begin, and what a port does.                               *)

LEMMA Constants ==
  /\ HeapBase \in Nat /\ HeapMax \in Nat /\ MemorySize \in Nat
  /\ AllocSize \in Nat \ {0}
  /\ HeapBase < HeapMax /\ HeapMax < MemorySize
  /\ HeapMax \in MemoryAddresses
  /\ OnGrid(HeapMax)
  /\ MemorySize \notin MemoryAddresses
  BY HardwareHeapAssumption, ClientAssumption DEF OnGrid, MemoryAddresses

\* A block that begins below another on the grid ends where it begins or below.
LEMMA BlocksApart ==
  ASSUME NEW a \in HeapBase .. HeapMax, NEW b \in HeapBase .. HeapMax,
         OnGrid(a), OnGrid(b), a < b
  PROVE  a + AllocSize <= b
<1>1. a - HeapBase \in Nat /\ b - HeapBase \in Nat
  BY Constants
<1>2. AllocSize \in Nat \ {0}
  BY Constants
<1>3. a - HeapBase < b - HeapBase
  BY Constants
<1>4. (a - HeapBase) + AllocSize <= b - HeapBase
  BY <1>1, <1>2, <1>3, MultiplesApart DEF OnGrid
<1> QED
  BY <1>4, Constants

\* The block at the bump pointer is the next one of the grid, and the pointer
\* does not wrap.
LEMMA NextBlock ==
  ASSUME NEW end \in HeapBase .. HeapMax, OnGrid(end), end # HeapMax
  PROVE  /\ Plus(end, AllocSize) \in HeapBase .. HeapMax
         /\ OnGrid(Plus(end, AllocSize))
         /\ BlocksBelow(Plus(end, AllocSize)) = BlocksBelow(end) \cup {end}
         /\ end \notin BlocksBelow(end)
         /\ end \in MemoryAddresses
<1>1. end + AllocSize <= HeapMax
  BY BlocksApart, Constants
<1>2. Plus(end, AllocSize) = end + AllocSize
  <2>1. end + AllocSize \in 0 .. MemorySize - 1
    BY <1>1, Constants
  <2>2. \A n \in 0 .. MemorySize - 1 : n % MemorySize = n
    BY Constants
  <2> QED
    BY <2>1, <2>2 DEF Plus
<1>3. OnGrid(end + AllocSize)
  <2>1. end - HeapBase \in Nat /\ AllocSize \in Nat \ {0}
    BY Constants
  <2>2. ((end - HeapBase) + AllocSize) % AllocSize = 0
    BY <2>1, NextMultiple DEF OnGrid
  <2>3. (end + AllocSize) - HeapBase = (end - HeapBase) + AllocSize
    BY Constants
  <2> QED
    BY <2>2, <2>3 DEF OnGrid
<1>4. ASSUME NEW a \in HeapBase .. HeapMax, OnGrid(a)
      PROVE  a < end + AllocSize <=> a < end \/ a = end
  <2>1. end < a => end + AllocSize <= a
    BY <1>4, BlocksApart
  <2> QED
    BY <2>1, Constants
<1>5. \A a : a \in BlocksBelow(end + AllocSize) <=> a \in BlocksBelow(end) \/ a = end
  <2> SUFFICES ASSUME NEW a
               PROVE  a \in BlocksBelow(end + AllocSize)
                        <=> a \in BlocksBelow(end) \/ a = end
    OBVIOUS
  <2>1. a \in HeapBase .. (end + AllocSize) - 1 <=>
          a \in HeapBase .. HeapMax /\ a < end + AllocSize
    BY <1>1, Constants
  <2>2. a \in HeapBase .. end - 1 <=> a \in HeapBase .. HeapMax /\ a < end
    BY Constants
  <2> QED
    BY <1>4, <2>1, <2>2 DEF BlocksBelow, OnGrid
<1>6. end \notin BlocksBelow(end) /\ end \in MemoryAddresses
  BY Constants DEF BlocksBelow, MemoryAddresses
<1> QED
  BY <1>1, <1>2, <1>3, <1>5, <1>6, Constants

LEMMA BlockFacts ==
  ASSUME IInv, NEW a \in live \cup Returned \cup Handed
  PROVE  /\ a \in HeapBase .. HeapMax
         /\ a \in MemoryAddresses
         /\ OnGrid(a)
         /\ a + AllocSize <= heapEnd
<1>1. a \in BlocksBelow(heapEnd) /\ heapEnd \in HeapBase .. HeapMax /\ OnGrid(heapEnd)
  BY DEF IInv, Blocks, TypeOK
<1>2. a \in HeapBase .. heapEnd - 1 /\ OnGrid(a)
  BY <1>1 DEF BlocksBelow, OnGrid
<1>3. a \in HeapBase .. HeapMax /\ a < heapEnd /\ a \in MemoryAddresses
  BY <1>1, <1>2, Constants DEF MemoryAddresses
<1> QED
  BY <1>1, <1>2, <1>3, BlocksApart

\* A cycle in which nobody writes.
LEMMA NoWrite ==
  ASSUME NEW a \in MemoryAddresses \cup {MemorySize},
         RamClock(ram, ramOut, Read(a)) \/ RamClock(ram, ramOut, NoAccess), TypeOK
  PROVE  ram' = ram /\ ramOut' \in MemoryAddresses
  BY Constants
  DEF RamClock, Stored, Answer, NoAccess, Read, TypeOK, Undriven, MemoryAddresses

LEMMA Written ==
  ASSUME NEW a \in MemoryAddresses, NEW d \in MemoryAddresses,
         RamClock(ram, ramOut, Write(a, d)), TypeOK
  PROVE  /\ ram' = [ram EXCEPT ![a] = d]
         /\ ram' \in [MemoryAddresses -> MemoryAddresses]
         /\ ram'[a] = d
         /\ \A b \in MemoryAddresses : b # a => ram'[b] = ram[b]
         /\ ramOut' \in MemoryAddresses
<1>1. Write(a, d).write /\ Write(a, d).at = a /\ Write(a, d).data = d
  BY DEF Write
<1>2. a # MemorySize
  BY Constants
<1>3. ram' = [ram EXCEPT ![a] = d] /\ ramOut' = ram[a]
  BY <1>1, <1>2 DEF RamClock, Stored, Answer
<1> QED
  BY <1>3 DEF TypeOK

\* A heap that is asked for nothing does nothing.
LEMMA Idle ==
  ASSUME IInv, NEW port, Clock(port), ~alloc, ~free, heapState = "INIT"
  PROVE  ~heapFinished' /\ UNCHANGED <<heapState, heapFree, heapEnd, allocAddress>>
  BY DEF Clock, HeapClock, HeapIdle, AllocFromEnd, AllocFromList,
         UpdateHeapFree, StartFree, WriteFree

-----------------------------------------------------------------------------
(* The invariant is inductive: the client.                                 *)

LEMMA InitIInv == Init => IInv
<1> SUFFICES ASSUME Init PROVE IInv
  OBVIOUS
<1> USE DEF Init, HeapInit
<1>1. 0 \in MemoryAddresses
  BY Constants DEF MemoryAddresses
<1>2. TypeOK
  <2>1. freed \in Seq(MemoryAddresses)
    BY EmptySeq
  <2>2. heapEnd \in HeapBase .. HeapMax
    BY Constants
  <2>3. ram \in [MemoryAddresses -> MemoryAddresses]
    BY <1>1
  <2> QED
    BY <1>1, <2>1, <2>2, <2>3 DEF TypeOK, Undriven
<1>3. Counted
  BY FS_EmptySet DEF Counted
<1>4. Control
  BY DEF Control
<1>5. Len(freed) = 0
  BY EmptySeq
<1>6. Blocks
  <2>1. OnGrid(heapEnd)
    <3>1. HeapBase - HeapBase = 0 /\ 0 % AllocSize = 0
      BY Constants
    <3> QED
      BY <3>1 DEF OnGrid
  <2>2. Returned = {} /\ Handed = {} /\ BlocksBelow(heapEnd) = {}
    BY <1>5, Constants DEF Returned, Handed, BlocksBelow
  <2> QED
    BY <2>1, <2>2 DEF Blocks
<1>7. Links
  BY <1>5 DEF Links
<1> QED
  BY <1>2, <1>3, <1>4, <1>6, <1>7
  DEF IInv, HeadRest, HeadTaken, HeadGiven, HandedOut, Taken, Given

\* A step that leaves the heap and its blocks alone, and writes nowhere else.
LEMMA Quiet ==
  ASSUME IInv, request = "none", ~heapFinished',
         UNCHANGED <<heapState, heapFree, heapEnd, allocAddress, live, held, freed>>,
         \A a \in Returned : ram'[a] = ram[a]
  PROVE  /\ Counted' /\ Blocks' /\ Links'
         /\ HeadRest' /\ HeadTaken' /\ HeadGiven' /\ HandedOut'
<1>1. Counted'
  BY DEF IInv, Counted
<1>2. Handed = {} /\ Handed' = {} /\ Returned' = Returned
  BY DEF Handed, Returned
<1>3. Blocks'
  BY <1>2 DEF IInv, Blocks, OnGrid, BlocksBelow
<1>4. \A i \in 1 .. Len(freed) : ram'[freed[i]] = ram[freed[i]]
  BY DEF Returned
<1>5. Len(freed) \in Nat
  BY DEF IInv, TypeOK
<1>6. Links'
  BY <1>4, <1>5 DEF IInv, Links
<1> QED
  BY <1>1, <1>3, <1>6
  DEF IInv, HeadRest, HeadTaken, HeadGiven, HandedOut, Taken, Given

LEMMA AskAllocStep == IInv /\ AskAlloc => IInv'
<1> SUFFICES ASSUME IInv, AskAlloc PROVE IInv'
  OBVIOUS
<1>1. /\ request = "none" /\ ~Full /\ request' = "alloc"
      /\ Clock(NoAccess)
      /\ UNCHANGED <<freeAddress, live, held, freed>>
  BY DEF AskAlloc
<1>2. heapState = "INIT" /\ ~alloc /\ ~free
  BY <1>1 DEF IInv, Control, alloc, free
<1>3. ~heapFinished' /\ UNCHANGED <<heapState, heapFree, heapEnd, allocAddress>>
  BY <1>1, <1>2, Idle
<1>4. ram' = ram /\ ramOut' \in MemoryAddresses
  BY <1>1, NoWrite DEF Clock, IInv
<1>5. heapFinished' \in BOOLEAN
  BY <1>1, <1>2 DEF Clock, HeapClock, HeapIdle, AllocFromEnd, AllocFromList,
                    UpdateHeapFree, StartFree, WriteFree
<1>6. TypeOK'
  BY <1>1, <1>3, <1>4, <1>5 DEF IInv, TypeOK
<1>7. Control'
  BY <1>1, <1>2, <1>3 DEF Control, Full
<1> QED
  BY <1>1, <1>3, <1>4, <1>6, <1>7, Quiet DEF IInv

LEMMA AskFreeStep == ASSUME IInv, NEW a \in live, AskFree(a) PROVE IInv'
<1>1. /\ request = "none" /\ request' = "free" /\ freeAddress' = a
      /\ Clock(NoAccess)
      /\ UNCHANGED <<live, held, freed>>
  BY DEF AskFree
<1>2. heapState = "INIT" /\ ~alloc /\ ~free
  BY <1>1 DEF IInv, Control, alloc, free
<1>3. ~heapFinished' /\ UNCHANGED <<heapState, heapFree, heapEnd, allocAddress>>
  BY <1>1, <1>2, Idle
<1>4. ram' = ram /\ ramOut' \in MemoryAddresses
  BY <1>1, NoWrite DEF Clock, IInv
<1>5. heapFinished' \in BOOLEAN
  BY <1>1, <1>2 DEF Clock, HeapClock, HeapIdle, AllocFromEnd, AllocFromList,
                    UpdateHeapFree, StartFree, WriteFree
<1>6. TypeOK'
  BY <1>1, <1>3, <1>4, <1>5 DEF IInv, TypeOK
<1>7. Control'
  BY <1>1, <1>2, <1>3 DEF Control
<1> QED
  BY <1>1, <1>3, <1>4, <1>6, <1>7, Quiet DEF IInv

LEMMA StoreStep ==
  ASSUME IInv, NEW k \in MemoryAddresses, NEW w \in Words, Store(k, w)
  PROVE  IInv'
<1>1. /\ request = "none"
      /\ Clock(Write(k, w))
      /\ UNCHANGED <<request, freeAddress, live, held, freed>>
  BY DEF Store
<1>2. heapState = "INIT" /\ ~alloc /\ ~free
  BY <1>1 DEF IInv, Control, alloc, free
<1>3. ~heapFinished' /\ UNCHANGED <<heapState, heapFree, heapEnd, allocAddress>>
  BY <1>1, <1>2, Idle
<1>4. /\ ram' \in [MemoryAddresses -> MemoryAddresses]
      /\ \A b \in MemoryAddresses : b # k => ram'[b] = ram[b]
      /\ ramOut' \in MemoryAddresses
  BY <1>1, Written, ClientAssumption DEF Clock, IInv
<1>5. heapFinished' \in BOOLEAN
  BY <1>1, <1>2 DEF Clock, HeapClock, HeapIdle, AllocFromEnd, AllocFromList,
                    UpdateHeapFree, StartFree, WriteFree
<1>6. TypeOK'
  BY <1>1, <1>3, <1>4, <1>5 DEF IInv, TypeOK
<1>7. Control'
  BY <1>1, <1>2, <1>3 DEF Control
<1>8. ASSUME NEW b \in Returned PROVE b # k
  <2>1. PICK a \in live : a <= k /\ k < a + AllocSize
    BY DEF Store
  <2>2. a # b
    BY DEF IInv, Links, Returned
  <2>3. /\ a \in HeapBase .. HeapMax /\ OnGrid(a)
        /\ b \in HeapBase .. HeapMax /\ OnGrid(b)
    BY BlockFacts
  <2>4. a < b => a + AllocSize <= b
    BY <2>3, BlocksApart
  <2> QED
    BY <2>1, <2>2, <2>3, <2>4, Constants DEF MemoryAddresses
<1>9. \A b \in Returned : ram'[b] = ram[b]
  BY <1>4, <1>8, BlockFacts
<1> QED
  BY <1>1, <1>3, <1>6, <1>7, <1>9, Quiet DEF IInv

-----------------------------------------------------------------------------
(* The heap at work.                                                       *)

\* The steps of a waiting client, one for each thing the heap may do.
LEMMA WaitCases ==
  ASSUME IInv, Wait
  PROVE  \/ /\ request = "alloc" /\ heapState = "INIT" /\ heapEnd # HeapMax
            /\ AllocFromEnd(TRUE) /\ ram' = ram
         \/ /\ request = "alloc" /\ heapState = "INIT" /\ heapEnd = HeapMax
            /\ AllocFromList(TRUE) /\ ram' = ram /\ ramOut' = ram[heapFree]
         \/ /\ request = "alloc" /\ heapState = "UPDATE_HEAP_FREE"
            /\ UpdateHeapFree(ramOut) /\ ram' = ram
         \/ /\ request = "free" /\ heapState = "INIT"
            /\ StartFree(FALSE, TRUE, freeAddress)
            /\ RamClock(ram, ramOut, Write(freeAddress, heapFree))
         \/ /\ request = "free" /\ heapState = "WRITE_FREE"
            /\ WriteFree(freeAddress)
            /\ RamClock(ram, ramOut, Write(freeAddress, heapFree))
<1>1. /\ request \in {"alloc", "free"} /\ ~heapFinished
      /\ HeapClock(alloc, free, freeAddress, ramOut)
      /\ RamClock(ram, ramOut, HeapPort(alloc, free, freeAddress))
      /\ heapState \in {"INIT", "UPDATE_HEAP_FREE", "WRITE_FREE"}
      /\ TypeOK
  BY DEF Wait, Clock, IInv, TypeOK
<1>2. CASE request = "alloc"
  <2>1. alloc = TRUE /\ free = FALSE
    BY <1>1, <1>2 DEF alloc, free
  <2>2. heapState # "WRITE_FREE"
    BY <1>2 DEF IInv, Control
  <2>3. CASE heapState = "INIT" /\ heapEnd # HeapMax
    <3>1. HeapPort(TRUE, FALSE, freeAddress) = NoAccess
      BY <2>3 DEF HeapPort
    <3>2. AllocFromEnd(TRUE)
      BY <1>1, <2>1, <2>3
      DEF HeapClock, HeapIdle, AllocFromEnd, AllocFromList, UpdateHeapFree,
          StartFree, WriteFree
    <3>3. RamClock(ram, ramOut, NoAccess)
      BY <1>1, <2>1, <3>1
    <3>4. ram' = ram
      BY <1>1, <3>3, NoWrite
    <3> QED
      BY <1>2, <2>3, <3>2, <3>4
  <2>4. CASE heapState = "INIT" /\ heapEnd = HeapMax
    <3>1. HeapPort(TRUE, FALSE, freeAddress) = Read(heapFree)
      BY <2>4 DEF HeapPort
    <3>2. AllocFromList(TRUE)
      BY <1>1, <2>1, <2>4
      DEF HeapClock, HeapIdle, AllocFromEnd, AllocFromList, UpdateHeapFree,
          StartFree, WriteFree
    <3>3. RamClock(ram, ramOut, Read(heapFree))
      BY <1>1, <2>1, <3>1
    <3>4. ram' = ram
      BY <1>1, <3>3, NoWrite DEF TypeOK
    <3>5. ramOut' = ram[heapFree]
      <4>1. heapFree # MemorySize
        BY <1>1, Constants DEF TypeOK
      <4>2. Read(heapFree).at = heapFree
        BY DEF Read, NoAccess
      <4> QED
        BY <3>3, <4>1, <4>2 DEF RamClock, Answer
    <3> QED
      BY <1>2, <2>4, <3>2, <3>4, <3>5
  <2>5. CASE heapState = "UPDATE_HEAP_FREE"
    <3>1. HeapPort(TRUE, FALSE, freeAddress) = Read(heapFree)
      BY <2>5 DEF HeapPort
    <3>2. UpdateHeapFree(ramOut)
      BY <1>1, <2>1, <2>5
      DEF HeapClock, HeapIdle, AllocFromEnd, AllocFromList, UpdateHeapFree,
          StartFree, WriteFree
    <3>3. RamClock(ram, ramOut, Read(heapFree))
      BY <1>1, <2>1, <3>1
    <3>4. ram' = ram
      BY <1>1, <3>3, NoWrite DEF TypeOK
    <3> QED
      BY <1>2, <2>5, <3>2, <3>4
  <2> QED
    BY <1>1, <2>2, <2>3, <2>4, <2>5
<1>3. CASE request = "free"
  <2>1. alloc = FALSE /\ free = TRUE
    BY <1>1, <1>3 DEF alloc, free
  <2>2. heapState # "UPDATE_HEAP_FREE"
    BY <1>3 DEF IInv, Control
  <2>3. HeapPort(FALSE, TRUE, freeAddress) = Write(freeAddress, heapFree)
    BY <1>1, <2>2 DEF HeapPort
  <2>4. RamClock(ram, ramOut, Write(freeAddress, heapFree))
    BY <1>1, <2>1, <2>3
  <2>5. CASE heapState = "INIT"
    BY <1>1, <1>3, <2>1, <2>4, <2>5
    DEF HeapClock, HeapIdle, AllocFromEnd, AllocFromList, UpdateHeapFree,
        StartFree, WriteFree
  <2>6. CASE heapState = "WRITE_FREE"
    BY <1>1, <1>3, <2>1, <2>4, <2>6
    DEF HeapClock, HeapIdle, AllocFromEnd, AllocFromList, UpdateHeapFree,
        StartFree, WriteFree
  <2> QED
    BY <1>1, <2>2, <2>5, <2>6
<1> QED
  BY <1>1, <1>2, <1>3

\* The answer of the memory is a word in every cycle of the heap.
LEMMA AnswerType == ASSUME IInv, Wait PROVE ramOut' \in MemoryAddresses
<1>1. /\ RamClock(ram, ramOut, HeapPort(alloc, free, freeAddress))
      /\ ram \in [MemoryAddresses -> MemoryAddresses]
      /\ heapFree \in MemoryAddresses /\ freeAddress \in MemoryAddresses
  BY DEF Wait, Clock, IInv, TypeOK
<1>2. HeapPort(alloc, free, freeAddress)
        \in {Read(heapFree), Write(freeAddress, heapFree), NoAccess}
  BY DEF HeapPort
<1>3. HeapPort(alloc, free, freeAddress).at
        \in {heapFree, freeAddress, MemorySize}
  BY <1>2 DEF Read, Write, NoAccess
<1>4. 0 \in MemoryAddresses
  BY Constants DEF MemoryAddresses
<1>5. ramOut' = Undriven \/ ramOut' = ram[heapFree] \/ ramOut' = ram[freeAddress]
  BY <1>1, <1>3 DEF RamClock, Answer
<1> QED
  BY <1>1, <1>4, <1>5 DEF Undriven

LEMMA FromEndStep ==
  ASSUME IInv, Wait, request = "alloc", heapState = "INIT", heapEnd # HeapMax,
         AllocFromEnd(TRUE), ram' = ram
  PROVE  IInv'
<1>1. /\ heapEnd' = Plus(heapEnd, AllocSize)
      /\ allocAddress' = heapEnd /\ heapFinished' = TRUE
      /\ UNCHANGED <<heapState, heapFree, request, freeAddress, live, held, freed>>
  BY DEF AllocFromEnd, Wait
<1>2. /\ heapEnd' \in HeapBase .. HeapMax
      /\ OnGrid(heapEnd')
      /\ BlocksBelow(heapEnd') = BlocksBelow(heapEnd) \cup {heapEnd}
      /\ heapEnd \notin BlocksBelow(heapEnd)
      /\ heapEnd \in MemoryAddresses
  BY <1>1, NextBlock DEF IInv, TypeOK, Blocks
<1>3. TypeOK'
  BY <1>1, <1>2, AnswerType DEF IInv, TypeOK
<1>4. Counted' /\ Links'
  BY <1>1 DEF IInv, Counted, Links
<1>5. Control'
  BY <1>1 DEF Control
<1>6. Handed = {} /\ Handed' = {heapEnd} /\ Returned' = Returned
  BY <1>1 DEF Handed, Returned, Wait
<1>7. Blocks'
  <2>1. OnGrid(heapEnd)'
    BY <1>2 DEF OnGrid
  <2>2. BlocksBelow(heapEnd)' = BlocksBelow(heapEnd')
    BY DEF BlocksBelow
  <2> QED
    BY <1>1, <1>2, <1>6, <2>1, <2>2 DEF IInv, Blocks
<1>8. heapEnd \notin Returned
  BY <1>2 DEF IInv, Blocks
<1>9. ~Taken' /\ ~Given' /\ ~Taken /\ ~Given
  <2>1. freed # << >> => freed[1] \in Returned
    BY EmptySeq DEF IInv, TypeOK, Returned
  <2> QED
    BY <1>1, <1>8, <2>1 DEF Taken, Given, Wait
<1>10. HeadRest' /\ HeadTaken' /\ HeadGiven' /\ HandedOut'
  BY <1>1, <1>6, <1>8, <1>9
  DEF IInv, HeadRest, HeadTaken, HeadGiven, HandedOut
<1> QED
  BY <1>3, <1>4, <1>5, <1>7, <1>10 DEF IInv

LEMMA FromListStep ==
  ASSUME IInv, Wait, request = "alloc", heapState = "INIT", heapEnd = HeapMax,
         AllocFromList(TRUE), ram' = ram, ramOut' = ram[heapFree]
  PROVE  IInv'
<1>1. /\ heapState' = "UPDATE_HEAP_FREE" /\ heapFinished' = FALSE
      /\ UNCHANGED <<heapFree, heapEnd, allocAddress, request, freeAddress, live,
                     held, freed>>
  BY DEF AllocFromList, Wait
<1>2. TypeOK'
  BY <1>1, AnswerType DEF IInv, TypeOK
<1>3. Control'
  BY <1>1 DEF IInv, Control, Wait
<1>4. Handed = {} /\ Handed' = {} /\ Returned' = Returned
  BY <1>1 DEF Handed, Returned, Wait
<1>5. Blocks'
  BY <1>1, <1>4 DEF IInv, Blocks, OnGrid, BlocksBelow
<1>6. Counted' /\ Links'
  BY <1>1 DEF IInv, Counted, Links
<1>7. HeadRest' /\ HeadTaken' /\ HeadGiven' /\ HandedOut'
  BY <1>1 DEF IInv, HeadRest, HeadTaken, HeadGiven, HandedOut, Taken, Given, Wait
<1> QED
  BY <1>2, <1>3, <1>5, <1>6, <1>7 DEF IInv

LEMMA UpdateStep ==
  ASSUME IInv, Wait, request = "alloc", heapState = "UPDATE_HEAP_FREE",
         UpdateHeapFree(ramOut), ram' = ram
  PROVE  IInv'
<1>1. /\ heapState' = "INIT" /\ heapFinished' = TRUE
      /\ allocAddress' = heapFree /\ heapFree' = ramOut
      /\ UNCHANGED <<heapEnd, request, freeAddress, live, held, freed>>
  BY DEF UpdateHeapFree, Wait
<1>2. /\ ~heapFinished /\ heapEnd = HeapMax /\ ramOut = ram[heapFree]
      /\ freed # << >>
  BY DEF IInv, Control
<1>3. TypeOK'
  BY <1>1, AnswerType DEF IInv, TypeOK
<1>4. Control'
  BY <1>1 DEF Control
<1>5. heapFree = freed[1]
  BY <1>2 DEF IInv, HeadRest, Taken, Given
<1>6. Len(freed) \in Nat \ {0} /\ 1 \in 1 .. Len(freed)
  <2>1. Len(freed) \in Nat \ {0}
    BY <1>2, EmptySeq DEF IInv, TypeOK
  <2> QED
    BY <2>1
<1>7. Handed = {} /\ Handed' = {freed[1]} /\ Returned' = Returned
  BY <1>1, <1>2, <1>5 DEF Handed, Returned
<1>8. freed[1] \in Returned /\ freed[1] \notin live
  BY <1>6 DEF Returned, IInv, Links
<1>9. Blocks'
  BY <1>1, <1>7, <1>8 DEF IInv, Blocks, OnGrid, BlocksBelow
<1>10. Counted' /\ Links'
  BY <1>1 DEF IInv, Counted, Links
<1>11. Taken' /\ ~Given'
  BY <1>1, <1>2, <1>5 DEF Taken, Given
<1>12. HeadTaken'
  <2>1. Len(freed) > 1 => ram[freed[1]] = freed[1 + 1]
    <3>1. Len(freed) > 1 => 1 \in 1 .. Len(freed) - 1
      BY <1>6
    <3> QED
      BY <3>1 DEF IInv, Links
  <2>2. \A i \in 2 .. Len(freed) : i \in 1 .. Len(freed) /\ i # 1
    BY <1>6
  <2>3. \A i \in 2 .. Len(freed) : freed[i] # freed[1]
    BY <1>6, <2>2 DEF IInv, Links
  <2> QED
    BY <1>1, <1>2, <1>5, <2>1, <2>3 DEF HeadTaken
<1>13. HeadRest' /\ HeadGiven' /\ HandedOut'
  BY <1>11 DEF HeadRest, HeadGiven, HandedOut
<1> QED
  BY <1>3, <1>4, <1>9, <1>10, <1>12, <1>13 DEF IInv

\* Both cycles of a return write the link into the block that is returned.
LEMMA LinkWritten ==
  ASSUME IInv, request = "free", RamClock(ram, ramOut, Write(freeAddress, heapFree))
  PROVE  /\ ram' \in [MemoryAddresses -> MemoryAddresses]
         /\ ram'[freeAddress] = heapFree
         /\ \A i \in 1 .. Len(freed) : ram'[freed[i]] = ram[freed[i]]
<1>1. /\ freeAddress \in live
      /\ freeAddress \in MemoryAddresses /\ heapFree \in MemoryAddresses
  BY DEF IInv, Control, TypeOK
<1>2. /\ ram' \in [MemoryAddresses -> MemoryAddresses]
      /\ ram'[freeAddress] = heapFree
      /\ \A b \in MemoryAddresses : b # freeAddress => ram'[b] = ram[b]
  BY <1>1, Written DEF IInv
<1>3. \A i \in 1 .. Len(freed) : freed[i] # freeAddress /\ freed[i] \in MemoryAddresses
  BY <1>1 DEF IInv, Links, TypeOK
<1> QED
  BY <1>2, <1>3

LEMMA StartFreeStep ==
  ASSUME IInv, Wait, request = "free", heapState = "INIT",
         StartFree(FALSE, TRUE, freeAddress),
         RamClock(ram, ramOut, Write(freeAddress, heapFree))
  PROVE  IInv'
<1>1. /\ heapState' = "WRITE_FREE" /\ heapFinished' = FALSE /\ ~heapFinished
      /\ UNCHANGED <<heapFree, heapEnd, allocAddress, request, freeAddress, live,
                     held, freed>>
  BY DEF StartFree, Wait
<1>2. TypeOK'
  BY <1>1, AnswerType, LinkWritten DEF IInv, TypeOK
<1>3. Control'
  BY <1>1, LinkWritten DEF IInv, Control
<1>4. Handed = {} /\ Handed' = {} /\ Returned' = Returned
  BY <1>1 DEF Handed, Returned
<1>5. Blocks'
  BY <1>1, <1>4 DEF IInv, Blocks, OnGrid, BlocksBelow
<1>6. Counted'
  BY <1>1 DEF IInv, Counted
<1>7. Links'
  <2>1. \A i \in 1 .. Len(freed) - 1 : i \in 1 .. Len(freed)
    BY DEF IInv, TypeOK
  <2> QED
    BY <1>1, <2>1, LinkWritten DEF IInv, Links
<1>8. HeadRest' /\ HeadTaken' /\ HeadGiven' /\ HandedOut'
  BY <1>1 DEF IInv, HeadRest, HeadTaken, HeadGiven, HandedOut, Taken, Given
<1> QED
  BY <1>2, <1>3, <1>5, <1>6, <1>7, <1>8 DEF IInv

LEMMA WriteFreeStep ==
  ASSUME IInv, Wait, request = "free", heapState = "WRITE_FREE",
         WriteFree(freeAddress),
         RamClock(ram, ramOut, Write(freeAddress, heapFree))
  PROVE  IInv'
<1>1. /\ heapState' = "INIT" /\ heapFinished' = TRUE /\ ~heapFinished
      /\ heapFree' = freeAddress
      /\ UNCHANGED <<heapEnd, allocAddress, request, freeAddress, live, held, freed>>
  BY DEF WriteFree, Wait
<1>2. TypeOK'
  BY <1>1, AnswerType, LinkWritten DEF IInv, TypeOK
<1>3. Control'
  BY <1>1 DEF IInv, Control
<1>4. Handed = {} /\ Handed' = {} /\ Returned' = Returned
  BY <1>1 DEF Handed, Returned
<1>5. Blocks'
  BY <1>1, <1>4 DEF IInv, Blocks, OnGrid, BlocksBelow
<1>6. Counted'
  BY <1>1 DEF IInv, Counted
<1>7. Links'
  <2>1. \A i \in 1 .. Len(freed) - 1 : i \in 1 .. Len(freed)
    BY DEF IInv, TypeOK
  <2> QED
    BY <1>1, <2>1, LinkWritten DEF IInv, Links
<1>8. freed # << >> => heapFree = freed[1]
  BY <1>1 DEF IInv, HeadRest, Taken, Given
<1>9. HeadRest' /\ HeadTaken' /\ HeadGiven' /\ HandedOut'
  BY <1>1, <1>8, LinkWritten DEF HeadRest, HeadTaken, HeadGiven, HandedOut, Taken, Given
<1> QED
  BY <1>2, <1>3, <1>5, <1>6, <1>7, <1>9 DEF IInv

-----------------------------------------------------------------------------
(* The client takes the heap's answer.                                     *)

\* A client that sees its request finished: the heap is idle.
LEMMA Finished ==
  ASSUME IInv, heapFinished, Clock(NoAccess)
  PROVE  /\ heapState = "INIT"
         /\ ~heapFinished' /\ heapFinished' \in BOOLEAN
         /\ UNCHANGED <<heapState, heapFree, heapEnd, allocAddress>>
         /\ ram' = ram /\ ramOut' \in MemoryAddresses
<1>1. heapState = "INIT" /\ ~alloc /\ ~free
  BY DEF IInv, Control, TypeOK, alloc, free
<1>2. ~heapFinished' /\ UNCHANGED <<heapState, heapFree, heapEnd, allocAddress>>
  BY <1>1, Idle
<1>3. ram' = ram /\ ramOut' \in MemoryAddresses
  BY NoWrite DEF Clock, IInv
<1>4. heapFinished' \in BOOLEAN
  BY <1>1 DEF Clock, HeapClock, HeapIdle, AllocFromEnd, AllocFromList,
              UpdateHeapFree, StartFree, WriteFree
<1> QED
  BY <1>1, <1>2, <1>3, <1>4

LEMMA AllocatedStep == IInv /\ Allocated => IInv'
<1> SUFFICES ASSUME IInv, Allocated PROVE IInv'
  OBVIOUS
<1>1. /\ request = "alloc" /\ heapFinished /\ request' = "none"
      /\ live' = live \cup {allocAddress} /\ held' = held + 1
      /\ freed' = IF freed # << >> /\ freed[1] = allocAddress
                  THEN Tail(freed) ELSE freed
      /\ Clock(NoAccess) /\ freeAddress' = freeAddress
  BY DEF Allocated
<1>2. /\ heapState = "INIT"
      /\ ~heapFinished' /\ heapFinished' \in BOOLEAN
      /\ UNCHANGED <<heapState, heapFree, heapEnd, allocAddress>>
      /\ ram' = ram /\ ramOut' \in MemoryAddresses
  BY <1>1, Finished
<1>3. Handed = {allocAddress} /\ Handed' = {} /\ allocAddress \notin live
  BY <1>1 DEF Handed, IInv, Blocks
<1>4. freed \in Seq(MemoryAddresses) /\ Len(freed) \in Nat
  BY DEF IInv, TypeOK
<1>5. Counted' /\ held' \in Nat
  <2>1. IsFiniteSet(live') /\ held' = Cardinality(live')
    BY <1>1, <1>3, FS_AddElement DEF IInv, Counted
  <2> QED
    BY <1>1, <2>1 DEF Counted, IInv, TypeOK
<1>6. Control'
  BY <1>1, <1>2 DEF Control
<1>7. ASSUME freed' \in Seq(MemoryAddresses) PROVE TypeOK'
  BY <1>1, <1>2, <1>5, <1>7 DEF IInv, TypeOK
<1>8. CASE Taken
  <2>1. freed # << >> /\ freed[1] = allocAddress /\ freed' = Tail(freed)
    BY <1>1, <1>8 DEF Taken
  <2>2. Len(freed) \in Nat \ {0}
    BY <2>1, <1>4, EmptySeq
  <2>3. /\ freed' \in Seq(MemoryAddresses)
        /\ Len(freed') = Len(freed) - 1
        /\ \A i \in 1 .. Len(freed') : freed'[i] = freed[i + 1]
    BY <2>1, <1>4, HeadTailProperties
  <2>4. \A i \in 1 .. Len(freed') : /\ i + 1 \in 1 .. Len(freed)
                                    /\ i + 1 \in 2 .. Len(freed)
    BY <2>2, <2>3
  <2>5. \A i \in 1 .. Len(freed') - 1 : /\ i \in 1 .. Len(freed')
                                        /\ i + 1 \in 1 .. Len(freed')
                                        /\ i + 1 \in 1 .. Len(freed) - 1
    BY <2>2, <2>3
  <2>6. \A i \in 1 .. Len(freed) : i # 1 =>
          i - 1 \in 1 .. Len(freed') /\ freed[i] = freed'[i - 1]
    <3> SUFFICES ASSUME NEW i \in 1 .. Len(freed), i # 1
                 PROVE  i - 1 \in 1 .. Len(freed') /\ freed[i] = freed'[i - 1]
      OBVIOUS
    <3>1. i - 1 \in 1 .. Len(freed') /\ (i - 1) + 1 = i
      BY <2>2, <2>3
    <3> QED
      BY <3>1, <2>3
  <2>7. Returned = Returned' \cup {allocAddress}
    <3>1. 1 \in 1 .. Len(freed)
      BY <2>2
    <3>2. Returned \subseteq Returned' \cup {allocAddress}
      BY <2>1, <2>6 DEF Returned
    <3>3. Returned' \cup {allocAddress} \subseteq Returned
      BY <2>1, <2>3, <2>4, <3>1 DEF Returned
    <3> QED
      BY <3>2, <3>3
  <2>8. Blocks'
    BY <1>1, <1>2, <1>3, <2>7 DEF IInv, Blocks, OnGrid, BlocksBelow
  <2>9. Links'
    <3>1. \A i \in 1 .. Len(freed') - 1 : ram'[freed'[i]] = freed'[i + 1]
      <4> SUFFICES ASSUME NEW i \in 1 .. Len(freed') - 1
                   PROVE  ram'[freed'[i]] = freed'[i + 1]
        OBVIOUS
      <4>1. ram[freed[i + 1]] = freed[(i + 1) + 1]
        BY <2>5 DEF IInv, Links
      <4>2. freed'[i] = freed[i + 1] /\ freed'[i + 1] = freed[(i + 1) + 1]
        BY <2>3, <2>5
      <4> QED
        BY <1>2, <4>1, <4>2
    <3>2. \A i, j \in 1 .. Len(freed') : i # j => freed'[i] # freed'[j]
      <4> SUFFICES ASSUME NEW i \in 1 .. Len(freed'), NEW j \in 1 .. Len(freed'),
                          i # j
                   PROVE  freed'[i] # freed'[j]
        OBVIOUS
      <4>1. i + 1 # j + 1
        OBVIOUS
      <4>2. i + 1 \in 1 .. Len(freed) /\ j + 1 \in 1 .. Len(freed)
        BY <2>4
      <4>3. \A k, l \in 1 .. Len(freed) : k # l => freed[k] # freed[l]
        BY DEF IInv, Links
      <4>4. freed[i + 1] # freed[j + 1]
        BY ONLY <4>1, <4>2, <4>3
      <4>5. freed'[i] = freed[i + 1] /\ freed'[j] = freed[j + 1]
        BY <2>3
      <4> QED
        BY ONLY <4>4, <4>5
    <3>3. \A i \in 1 .. Len(freed') : freed'[i] \notin live'
      <4> SUFFICES ASSUME NEW i \in 1 .. Len(freed') PROVE freed'[i] \notin live'
        OBVIOUS
      <4>1. freed'[i] = freed[i + 1] /\ freed[i + 1] \notin live
        BY <2>3, <2>4 DEF IInv, Links
      <4>2. freed[i + 1] # allocAddress
        BY <1>8, <2>4 DEF IInv, HeadTaken
      <4> QED
        BY <1>1, <4>1, <4>2
    <3> QED
      BY <3>1, <3>2, <3>3 DEF Links
  <2>10. HeadRest'
    <3> SUFFICES ASSUME freed' # << >> PROVE heapFree' = freed'[1]
      BY DEF HeadRest
    <3>1. Len(freed') \in Nat \ {0}
      BY <2>3, EmptySeq
    <3>2. 1 \in 1 .. Len(freed') /\ Len(freed) > 1
      BY <3>1, <2>2, <2>3
    <3>3. freed'[1] = freed[1 + 1]
      BY <2>3, <3>2
    <3> QED
      BY <1>2, <1>8, <3>2, <3>3 DEF IInv, HeadTaken
  <2> QED
    BY <1>1, <1>5, <1>6, <1>7, <2>3, <2>8, <2>9, <2>10
    DEF IInv, HeadTaken, HeadGiven, HandedOut, Taken, Given
<1>9. CASE ~Taken
  <2>1. freed' = freed
    BY <1>1, <1>9 DEF Taken
  <2>2. Returned' = Returned /\ allocAddress \notin Returned
    BY <1>1, <1>9, <2>1 DEF Returned, IInv, HandedOut
  <2>3. Blocks'
    BY <1>1, <1>2, <1>3, <2>2 DEF IInv, Blocks, OnGrid, BlocksBelow
  <2>4. Links'
    <3>1. \A i \in 1 .. Len(freed) : freed[i] # allocAddress
      BY <2>2 DEF Returned
    <3> QED
      BY <1>1, <1>2, <2>1, <3>1 DEF IInv, Links
  <2>5. HeadRest'
    BY <1>1, <1>2, <1>9, <2>1 DEF IInv, HeadRest, Given
  <2> QED
    BY <1>1, <1>4, <1>5, <1>6, <1>7, <2>1, <2>3, <2>4, <2>5
    DEF IInv, HeadTaken, HeadGiven, HandedOut, Taken, Given
<1> QED
  BY <1>8, <1>9

LEMMA FreedStep == IInv /\ Freed => IInv'
<1> SUFFICES ASSUME IInv, Freed PROVE IInv'
  OBVIOUS
<1>1. /\ request = "free" /\ heapFinished /\ request' = "none"
      /\ live' = live \ {freeAddress} /\ held' = held - 1
      /\ freed' = << freeAddress >> \o freed
      /\ Clock(NoAccess) /\ freeAddress' = freeAddress
  BY DEF Freed
<1>2. /\ heapState = "INIT"
      /\ ~heapFinished' /\ heapFinished' \in BOOLEAN
      /\ UNCHANGED <<heapState, heapFree, heapEnd, allocAddress>>
      /\ ram' = ram /\ ramOut' \in MemoryAddresses
  BY <1>1, Finished
<1>3. Handed = {} /\ Handed' = {}
  BY <1>1 DEF Handed
<1>4. /\ freed \in Seq(MemoryAddresses) /\ Len(freed) \in Nat
      /\ freeAddress \in MemoryAddresses /\ freeAddress \in live
  BY <1>1 DEF IInv, TypeOK, Control
<1>5. Counted' /\ held' \in Nat
  <2>1. IsFiniteSet(live') /\ held' = Cardinality(live')
    BY <1>1, <1>4, FS_RemoveElement DEF IInv, Counted
  <2> QED
    BY <2>1, FS_CardinalityType DEF Counted
<1>6. Control'
  BY <1>1, <1>2 DEF Control
<1>7. /\ freed' \in Seq(MemoryAddresses)
      /\ Len(freed') = Len(freed) + 1
      /\ freed'[1] = freeAddress
      /\ \A i \in 1 .. Len(freed) : freed'[i + 1] = freed[i]
  BY <1>1, <1>4
<1>8. TypeOK'
  BY <1>1, <1>2, <1>5, <1>7 DEF IInv, TypeOK
<1>9. \A i \in 1 .. Len(freed') : i # 1 =>
        i - 1 \in 1 .. Len(freed) /\ freed'[i] = freed[i - 1]
  BY <1>4, <1>7
<1>10. \A i \in 1 .. Len(freed) : freed[i] # freeAddress
  BY <1>4 DEF IInv, Links
<1>11. Returned' = Returned \cup {freeAddress}
  <2>1. \A i \in 1 .. Len(freed) : i + 1 \in 1 .. Len(freed')
    BY <1>4, <1>7
  <2>2. 1 \in 1 .. Len(freed')
    BY <1>4, <1>7
  <2>3. Returned' \subseteq Returned \cup {freeAddress}
    <3>1. ASSUME NEW i \in 1 .. Len(freed')
          PROVE  freed'[i] \in Returned \cup {freeAddress}
      BY <1>7, <1>9 DEF Returned
    <3> QED
      BY <3>1 DEF Returned
  <2>4. freeAddress \in Returned' /\ \A i \in 1 .. Len(freed) : freed[i] \in Returned'
    BY <1>7, <2>1, <2>2 DEF Returned
  <2> QED
    BY <2>3, <2>4 DEF Returned
<1>12. Blocks'
  BY <1>1, <1>2, <1>3, <1>4, <1>11 DEF IInv, Blocks, OnGrid, BlocksBelow
<1>13. Links'
  <2>1. \A i \in 1 .. Len(freed') - 1 : ram'[freed'[i]] = freed'[i + 1]
    <3> SUFFICES ASSUME NEW i \in 1 .. Len(freed') - 1
                 PROVE  ram'[freed'[i]] = freed'[i + 1]
      OBVIOUS
    <3>1. i \in 1 .. Len(freed) /\ freed'[i + 1] = freed[i]
      BY <1>4, <1>7
    <3>2. CASE i = 1
      <4>1. freed # << >>
        BY <3>1, EmptySeq
      <4> QED
        BY <1>1, <1>2, <1>7, <3>1, <3>2, <4>1 DEF IInv, HeadGiven, Given
    <3>3. CASE i # 1
      <4>1. /\ i - 1 \in 1 .. Len(freed) - 1
            /\ (i - 1) + 1 = i
            /\ i \in 1 .. Len(freed')
        BY <1>4, <1>7, <3>1, <3>3
      <4>2. ram[freed[i - 1]] = freed[i]
        BY <4>1 DEF IInv, Links
      <4>3. freed'[i] = freed[i - 1]
        BY <1>9, <3>3, <4>1
      <4> QED
        BY <1>2, <3>1, <4>2, <4>3
    <3> QED
      BY <3>2, <3>3
  <2>2. \A i, j \in 1 .. Len(freed') : i # j => freed'[i] # freed'[j]
    <3> SUFFICES ASSUME NEW i \in 1 .. Len(freed'), NEW j \in 1 .. Len(freed'),
                        i # j
                 PROVE  freed'[i] # freed'[j]
      OBVIOUS
    <3>1. CASE i # 1 /\ j # 1
      <4>1. i - 1 # j - 1
        OBVIOUS
      <4> QED
        BY <3>1, <4>1, <1>9 DEF IInv, Links
    <3>2. CASE i = 1 \/ j = 1
      BY <3>2, <1>7, <1>9, <1>10
    <3> QED
      BY <3>1, <3>2
  <2>3. \A i \in 1 .. Len(freed') : freed'[i] \notin live'
    BY <1>1, <1>7, <1>9 DEF IInv, Links
  <2> QED
    BY <2>1, <2>2, <2>3 DEF Links
<1>14. HeadRest'
  BY <1>1, <1>2, <1>7 DEF HeadRest, IInv, HeadGiven, Given
<1> QED
  BY <1>1, <1>5, <1>6, <1>8, <1>12, <1>13, <1>14
  DEF IInv, HeadTaken, HeadGiven, HandedOut, Taken, Given

-----------------------------------------------------------------------------
(* What follows.                                                           *)

LEMMA Invariance == Spec => []IInv
<1>1. IInv /\ [Next]_vars => IInv'
  <2> SUFFICES ASSUME IInv, [Next]_vars PROVE IInv'
    OBVIOUS
  <2>1. CASE AskAlloc
    BY <2>1, AskAllocStep
  <2>2. CASE \E a \in live : AskFree(a)
    BY <2>2, AskFreeStep
  <2>3. CASE \E k \in MemoryAddresses, w \in Words : Store(k, w)
    BY <2>3, StoreStep
  <2>4. CASE Wait
    BY <2>4, WaitCases, FromEndStep, FromListStep, UpdateStep, StartFreeStep,
       WriteFreeStep
  <2>5. CASE Allocated
    BY <2>5, AllocatedStep
  <2>6. CASE Freed
    BY <2>6, FreedStep
  <2>7. CASE UNCHANGED vars
    BY <2>7 DEF vars, IInv, TypeOK, Counted, Control, Blocks, Links, HeadRest,
                HeadTaken, HeadGiven, HandedOut, Taken, Given, Handed, Returned,
                OnGrid, BlocksBelow
  <2> QED
    BY <2>1, <2>2, <2>3, <2>4, <2>5, <2>6, <2>7 DEF Next
<1> QED
  BY InitIInv, <1>1, PTL DEF Spec

\* The registers of Heap.v keep their widths: the bump pointer does not wrap.
THEOREM HardwareHeapTypes == Spec => []TypeOK
<1>1. IInv => TypeOK
  BY DEF IInv
<1> QED
  BY <1>1, Invariance, PTL

\* Between requests the links that Heap.v writes visit the returned blocks.
THEOREM FreedAreLinked == Spec => []FreedBlocksLinked
<1>1. IInv => FreedBlocksLinked
  BY DEF IInv, Control, Links, HeadRest, Taken, Given, FreedBlocksLinked
<1> QED
  BY <1>1, Invariance, PTL

\* Between requests Heap.v has lost no block.
THEOREM HardwareNothingLeaks == Spec => []NothingLeaks
<1>1. IInv => NothingLeaks
  <2> SUFFICES ASSUME IInv, request = "none"
               PROVE  BlocksBelow(heapEnd) = live \cup Returned
    BY DEF NothingLeaks, BlocksBelow, Returned
  <2> QED
    BY DEF IInv, Blocks, Handed
<1> QED
  BY <1>1, Invariance, PTL

LEMMA HandedIsAvailable ==
  ASSUME IInv, Allocated
  PROVE  allocAddress \in HeapBase .. HeapMax /\ Abstract!Available(allocAddress)
<1>1. allocAddress \in Handed /\ allocAddress \notin live
  BY DEF Allocated, Handed, IInv, Blocks
<1>2. /\ allocAddress \in HeapBase .. HeapMax
      /\ OnGrid(allocAddress)
      /\ allocAddress + AllocSize <= heapEnd
  BY <1>1, BlockFacts
<1>3. heapEnd \in HeapBase .. HeapMax
  BY DEF IInv, TypeOK
<1>4. \A b \in live : b \in HeapBase .. HeapMax /\ OnGrid(b)
  BY BlockFacts
<1>5. \A b \in live : \/ allocAddress + AllocSize <= b
                      \/ b + AllocSize <= allocAddress
  <2>1. \A b \in live : allocAddress < b => allocAddress + AllocSize <= b
    BY <1>2, <1>4, BlocksApart
  <2>2. \A b \in live : b < allocAddress => b + AllocSize <= allocAddress
    BY <1>2, <1>4, BlocksApart
  <2>3. \A b \in live : allocAddress < b \/ b < allocAddress
    BY <1>1, <1>2, <1>4, Constants
  <2> QED
    BY <2>1, <2>2, <2>3
<1> QED
  BY <1>2, <1>3, <1>4, <1>5, Constants DEF Abstract!Available, Abstract!Overlap

\* Whatever Heap.v hands out overlaps no block that is held.
THEOREM HardwareHeapIsAnAllocator == Spec => ImplementsAllocator
<1>1. Init => Abstract!Init
  BY DEF Init, Abstract!Init
<1>2. IInv /\ [Next]_vars => [Abstract!Next]_<<live, held>>
  <2> SUFFICES ASSUME IInv, [Next]_vars
               PROVE  Abstract!Next \/ UNCHANGED <<live, held>>
    OBVIOUS
  <2>1. CASE AskAlloc
    BY <2>1 DEF AskAlloc
  <2>2. CASE \E a \in live : AskFree(a)
    BY <2>2 DEF AskFree
  <2>3. CASE \E k \in MemoryAddresses, w \in Words : Store(k, w)
    BY <2>3 DEF Store
  <2>4. CASE Wait
    BY <2>4 DEF Wait
  <2>5. CASE Allocated
    <3>1. allocAddress \in HeapBase .. HeapMax /\ Abstract!Available(allocAddress)
      BY <2>5, HandedIsAvailable
    <3> QED
      BY <2>5, <3>1 DEF Allocated, Abstract!Next, Abstract!Alloc
  <2>6. CASE Freed
    <3>1. freeAddress \in live
      BY <2>6 DEF Freed, IInv, Control
    <3> QED
      BY <2>6, <3>1 DEF Freed, Abstract!Next, Abstract!Free
  <2>7. CASE UNCHANGED vars
    BY <2>7 DEF vars
  <2> QED
    BY <2>1, <2>2, <2>3, <2>4, <2>5, <2>6, <2>7 DEF Next
<1> QED
  BY <1>1, <1>2, Invariance, PTL DEF Spec, ImplementsAllocator, Abstract!Spec
=============================================================================
