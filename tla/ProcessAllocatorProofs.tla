----------------------- MODULE ProcessAllocatorProofs -----------------------
(***************************************************************************)
(* What the hardware process allocator keeps true for every number of      *)
(* cells, every size of a cell and every stack passed to a new process.    *)
(* Types hold for ever; that the cell is new and the stack handed over is  *)
(* proved up to the first process that takes a used cell, beyond which the *)
(* list of free cells is no longer one (run "links").                      *)
(***************************************************************************)
EXTENDS ProcessAllocatorClient, Multiples, FiniteSetTheorems, TLAPS

-----------------------------------------------------------------------------
(* The inductive invariant.                                                *)

Word == 0 .. MemorySize * MemorySize - 1
Cell == [MemoryAddresses -> Word]
Pasts == DOMAIN WriteOrder \cup {"COPY"}

\* The types of everything that ends up in a register or in a memory.
Types ==
    /\ TypeOK
    /\ heapFinished \in BOOLEAN /\ memoryCycle \in BOOLEAN
    /\ copierState \in {"WAIT", "READ_WRITE", "DONE"}
    /\ heapRam \in [MemoryAddresses -> CellNumbers]
    /\ heapOut \in CellNumbers
    /\ copyWord \in Word /\ oldOut \in Word
    /\ handler \in {"idle", "start", "busy"}
    /\ request \in [create : BOOLEAN, words : 0 .. MaxWords, pc : {0, 1},
                    pid : CellNumbers]
    /\ live \subseteq CellNumbers
    /\ made \in Nat
    /\ before \in [CellNumbers -> Cell]

creating == handler = "busy" /\ request.create
freeing == handler = "busy" /\ ~request.create

\* Which state each of the three machines is in, and the handler.
Control ==
    /\ handler # "busy" => paState = "INIT"
    /\ freeing => paState = "WAIT_FOR_HEAP_FREE"
    /\ creating => paState \notin {"INIT", "WAIT_FOR_HEAP_FREE"}
    /\ heapState = "UPDATE_HEAP_FREE" =>
          creating /\ paState = "ALLOC" /\ ~heapFinished /\ heapEnd = HeapMax
    /\ heapState = "WRITE_FREE" =>
          \/ handler = "idle" /\ ~request.create
          \/ freeing /\ ~paFinished
    /\ paState = "READ_OLD_STACK_POINTER" => ~heapFinished
    /\ creating /\ paFinished =>
          paState = "COPY" /\ copierState = "WAIT" /\ ~memoryCycle
    /\ copierState # "WAIT" => paState = "COPY"
    /\ copierState = "DONE" => ~memoryCycle
    /\ memoryCycle => paState = "COPY" \/ handler = "idle"

\* The numbers a cell may get, those given out, and whether the heap has
\* answered the request in hand.
CellCount == HeapMax - HeapBase
Issued == HeapBase .. HeapBase + made - 1
taken == creating /\ (paState \in Pasts \/ (paState = "ALLOC" /\ heapFinished))

answered == IF taken THEN made + 1 ELSE made

\* How far the bump pointer is.
Bumped ==
    /\ made <= CellCount + 1
    /\ handler # "idle" /\ request.create => made <= CellCount
    /\ heapEnd = IF answered <= CellCount THEN HeapBase + answered ELSE HeapMax
    /\ made <= CellCount => live \subseteq Issued

\* While every cell was given out at most once, heapFree is one that ended, if
\* any did; during a free it becomes the one that ends.
Ended ==
    /\ made <= CellCount /\ ~(taken /\ made = CellCount) /\ ~freeing /\ live # Issued =>
          heapFree \in Issued \ live
    /\ freeing /\ (heapFinished \/ paFinished) => heapFree = request.pid
    /\ handler = "idle" /\ heapState = "WRITE_FREE" => heapFree = request.pid

\* The process a request is about, and the cell it gets.
Requested ==
    /\ handler # "idle" => request.pid \in live \cup (IF request.create THEN {0} ELSE {})
    /\ handler # "idle" /\ request.create /\ made = CellCount => live # Issued
    /\ taken => /\ allocAddress \in HeapBase .. HeapMax - 1
                /\ allocAddress \notin live
                /\ made < CellCount => allocAddress = HeapBase + made
    /\ paState \in Pasts => rAllocatedPid = allocAddress

\* The request never asks for more words than the parent's stack has.
Fits ==
    /\ handler # "idle" /\ request.create =>
          \E s \in request.words .. MaxWords :
             High(before[request.pid][0]) = (MemorySize - s) % MemorySize
    /\ handler = "idle" /\ made = 0 => cells[0] = SavedCell(0, 0)

\* The parent, as it was, and its stack pointer.
parent == before[request.pid]
sp == High(parent[0])

\* The parent's pointers on their way.
Pointers ==
    /\ paState = "READ_OLD_STACK_POINTER" => oldOut = parent[0]
    /\ creating /\ paState # "READ_OLD_STACK_POINTER" => rOldStackPointers = parent[0]
    /\ paState \in Pasts /\ copierState = "WAIT" /\ ~paFinished => copyFrom = sp

\* The copier, and how many words have reached the new cell.
Copying ==
    /\ paState = "COPY" /\ copierState = "WAIT" /\ memoryCycle =>
          /\ wordsCopied = 0
          /\ request.words > 0 /\ ~paFinished => oldOut = parent[sp]
    /\ copierState = "READ_WRITE" =>
          /\ wordsCopied \in 1 .. request.words
          /\ copyFrom = Plus(sp, wordsCopied)
          /\ copyTo = MemorySize - request.words + wordsCopied - 1
          /\ copyWord = parent[Plus(sp, wordsCopied - 1)]
          /\ memoryCycle /\ wordsCopied < request.words =>
                oldOut = parent[Plus(sp, wordsCopied)]

copied ==
    CASE paState = "COPY" /\ copierState = "READ_WRITE" ->
            IF memoryCycle THEN wordsCopied ELSE wordsCopied - 1
      [] paState = "COPY" /\ (copierState = "DONE" \/ paFinished) -> request.words
      [] OTHER -> 0

\* What the cells hold, word by word.
popped == paState \in Pasts \ {"WRITE_UPDATED_SP_0"}
started == paState \in {"WRITE_SP_1", "WRITE_PC_0", "WRITE_PC_1", "COPY"}
linked == paState \in {"WRITE_PC_1", "COPY"}

OldCell ==
    /\ cells[request.pid][0] =
          IF popped THEN Pair(Plus(sp, request.words), Low(parent[0])) ELSE parent[0]
    /\ \A k \in MemoryAddresses \ {0} : cells[request.pid][k] = parent[k]

NewCell ==
    paState \in Pasts =>
      \A k \in MemoryAddresses :
        cells[rAllocatedPid][k] =
          CASE k = 0 /\ started -> Pair(newStackPointer(request), 0)
            [] k = 1 /\ linked -> request.pc
            [] /\ k >= MemorySize - request.words
               /\ k < MemorySize - request.words + copied ->
                  parent[Plus(sp, k + request.words)]
            [] OTHER -> before[rAllocatedPid][k]

OtherCells ==
    \A p \in CellNumbers : p # request.pid /\ (paState \in Pasts => p # rAllocatedPid)
        => cells[p] = before[p]

Cells == handler = "start" \/ creating => OldCell /\ NewCell /\ OtherCells

IInv ==
    /\ Types /\ Control
    /\ Bumped /\ Ended /\ Requested
    /\ Fits /\ Pointers /\ Copying /\ Cells

-----------------------------------------------------------------------------
(* Numbers, words of two halves, and ports.                                *)

LEMMA Sizes ==
    /\ MemorySize \in Nat /\ HeapBase \in Nat /\ HeapMax \in Nat
    /\ MaxWords \in Nat /\ MaxMade \in Nat
    /\ 0 < HeapBase /\ HeapBase < HeapMax /\ HeapMax < MemorySize
    /\ MaxWords + 2 < MemorySize
    /\ AllocSize = 1
  BY HardwareHeapAssumption, CellAssumption, RequestAssumption

LEMMA Addresses ==
    /\ CellNumbers \subseteq MemoryAddresses
    /\ 0 \in CellNumbers /\ 0 \in MemoryAddresses /\ 1 \in MemoryAddresses
    /\ MemorySize \notin MemoryAddresses
    /\ \A n \in 0 .. MaxWords : n \in MemoryAddresses
  BY Sizes DEF CellNumbers, MemoryAddresses

\* A sum is an address, and the sum itself when it is small.
LEMMA Sums ==
    ASSUME NEW a \in Nat, NEW n \in Nat
    PROVE  /\ Plus(a, n) \in MemoryAddresses
           /\ a + n < MemorySize => Plus(a, n) = a + n
  BY Sizes DEF Plus, MemoryAddresses

LEMMA Remainders ==
    ASSUME NEW a \in Nat
    PROVE  /\ a % MemorySize \in MemoryAddresses
           /\ a < MemorySize => a % MemorySize = a
  BY Sizes DEF MemoryAddresses

LEMMA Halves ==
    ASSUME NEW a \in MemoryAddresses, NEW b \in MemoryAddresses
    PROVE  /\ Pair(a, b) \in Word
           /\ High(Pair(a, b)) = a
           /\ Low(Pair(a, b)) = b
<1>1. a \in Nat /\ b \in Nat /\ a < MemorySize /\ b < MemorySize
      /\ MemorySize \in Nat \ {0}
  BY Sizes DEF MemoryAddresses
<1>2. PICK w \in Nat : w = a * MemorySize + b
  BY <1>1
<1>3. w \div MemorySize = a /\ w % MemorySize = b
  BY <1>1, <1>2, SMTT(30)
<1>4. w <= MemorySize * MemorySize - 1
  <2>1. (a + 1) * MemorySize <= MemorySize * MemorySize
    BY <1>1
  <2>2. (a + 1) * MemorySize = a * MemorySize + MemorySize
    BY <1>1
  <2>3. a * MemorySize \in Nat /\ MemorySize * MemorySize \in Nat
    BY <1>1
  <2> QED
    BY <1>1, <1>2, <2>1, <2>2, <2>3
<1>5. MemorySize * MemorySize - 1 \in Int
  BY <1>1
<1> QED
  BY <1>1, <1>2, <1>3, <1>4, <1>5, Remainders DEF Pair, High, Low, Word

LEMMA WordHalves ==
    ASSUME NEW w \in Word
    PROVE  w \in Nat /\ High(w) \in MemoryAddresses /\ Low(w) \in MemoryAddresses
<1>1. w \in Nat /\ MemorySize \in Nat \ {0}
  BY Sizes DEF Word
<1>2. w \div MemorySize \in Nat
  BY <1>1
<1> QED
  BY <1>1, <1>2, Remainders DEF High, Low

\* Words small enough to be an address are words.
LEMMA SmallWords == MemoryAddresses \subseteq Word
<1>1. MemorySize \in Nat \ {0}
  BY Sizes
<1>2. MemorySize * 1 <= MemorySize * MemorySize
  BY <1>1
<1>3. MemorySize * MemorySize \in Nat
  BY <1>1
<1> QED
  BY <1>1, <1>2, <1>3 DEF MemoryAddresses, Word

LEMMA PortFacts ==
    ASSUME NEW a, NEW d
    PROVE  /\ ~Read(a).write /\ Read(a).at = a
           /\ Write(a, d).write /\ Write(a, d).at = a /\ Write(a, d).data = d
           /\ ~NoAccess.write /\ NoAccess.at = MemorySize
  BY DEF Read, Write, NoAccess

\* The states in which pointers are written, and what follows each.
LEMMA Order ==
    /\ DOMAIN WriteOrder = {"WRITE_UPDATED_SP_0", "WRITE_UPDATED_SP_1",
                            "WRITE_SP_0", "WRITE_SP_1", "WRITE_PC_0", "WRITE_PC_1"}
    /\ WriteOrder["WRITE_UPDATED_SP_0"] = "WRITE_UPDATED_SP_1"
    /\ WriteOrder["WRITE_UPDATED_SP_1"] = "WRITE_SP_0"
    /\ WriteOrder["WRITE_SP_0"] = "WRITE_SP_1"
    /\ WriteOrder["WRITE_SP_1"] = "WRITE_PC_0"
    /\ WriteOrder["WRITE_PC_0"] = "WRITE_PC_1"
    /\ WriteOrder["WRITE_PC_1"] = "COPY"
  BY DEF WriteOrder

\* What a memory of values in a set V does with a port.
IsPort(port, V) ==
    \/ port = NoAccess
    \/ \E a \in MemoryAddresses : port = Read(a)
    \/ \E a \in MemoryAddresses, d \in V : port = Write(a, d)

LEMMA PortKeepsType ==
    ASSUME NEW V, 0 \in V, NEW ram \in [MemoryAddresses -> V], NEW port,
           IsPort(port, V)
    PROVE  /\ Stored(ram, port) \in [MemoryAddresses -> V]
           /\ Answer(ram, port) \in V
<1>1. CASE port = NoAccess
  BY <1>1, PortFacts DEF Stored, Answer, Undriven
<1>2. CASE \E a \in MemoryAddresses : port = Read(a)
  BY <1>2, PortFacts, Addresses DEF Stored, Answer
<1>3. CASE \E a \in MemoryAddresses, d \in V : port = Write(a, d)
  <2>1. PICK a \in MemoryAddresses, d \in V : port = Write(a, d)
    BY <1>3
  <2>2. port.write /\ port.at = a /\ port.data = d
    BY <2>1, PortFacts
  <2>3. a # MemorySize
    BY Addresses
  <2> QED
    BY <2>2, <2>3 DEF Stored, Answer
<1> QED
  BY <1>1, <1>2, <1>3 DEF IsPort

-----------------------------------------------------------------------------
(* Types.                                                                  *)

LEMMA HeapTypes ==
    ASSUME Types, NEW a \in BOOLEAN, NEW f \in BOOLEAN,
           HeapClock(a, f, request.pid, heapOut),
           RamClock(heapRam, heapOut, HeapPort(a, f, request.pid))
    PROVE  /\ heapState' \in {"INIT", "UPDATE_HEAP_FREE", "WRITE_FREE"}
           /\ heapFree' \in CellNumbers /\ allocAddress' \in CellNumbers
           /\ heapEnd' \in HeapBase .. HeapMax
           /\ heapFinished' \in BOOLEAN
           /\ heapRam' \in [MemoryAddresses -> CellNumbers]
           /\ heapOut' \in CellNumbers
<1>1. /\ request.pid \in CellNumbers /\ heapFree \in CellNumbers
      /\ heapOut \in CellNumbers /\ allocAddress \in CellNumbers
      /\ heapEnd \in HeapBase .. HeapMax
      /\ heapRam \in [MemoryAddresses -> CellNumbers]
      /\ heapState \in {"INIT", "UPDATE_HEAP_FREE", "WRITE_FREE"}
  BY DEF Types, TypeOK
<1>2. heapEnd # HeapMax => /\ heapEnd \in CellNumbers
                           /\ Plus(heapEnd, AllocSize) = heapEnd + 1
                           /\ heapEnd + 1 \in HeapBase .. HeapMax
  <2>1. heapEnd \in Nat
    BY <1>1, Sizes
  <2> QED
    BY <1>1, <2>1, Sizes, Sums DEF CellNumbers
<1>3. IsPort(HeapPort(a, f, request.pid), CellNumbers)
  <2>1. HeapPort(a, f, request.pid) \in {Read(heapFree), Write(request.pid, heapFree), NoAccess}
    BY DEF HeapPort
  <2> QED
    BY <1>1, <2>1, Addresses DEF IsPort
<1>4. /\ heapRam' \in [MemoryAddresses -> CellNumbers]
      /\ heapOut' \in CellNumbers
  BY <1>1, <1>3, Addresses, PortKeepsType DEF RamClock
<1>5. CASE HeapIdle(a, f) \/ AllocFromList(a) \/ StartFree(a, f, request.pid)
  BY <1>1, <1>4, <1>5 DEF HeapIdle, AllocFromList, StartFree
<1>6. CASE AllocFromEnd(a)
  BY <1>1, <1>2, <1>4, <1>6 DEF AllocFromEnd
<1>7. CASE UpdateHeapFree(heapOut) \/ WriteFree(request.pid)
  BY <1>1, <1>4, <1>7 DEF UpdateHeapFree, WriteFree
<1> QED
  BY <1>5, <1>6, <1>7 DEF HeapClock

LEMMA CopierTypes ==
    ASSUME Types, NEW e \in BOOLEAN, NEW from \in MemoryAddresses,
           NEW to \in MemoryAddresses, NEW count,
           CopierClock(e, oldOut, from, to, count)
    PROVE  /\ copierState' \in {"WAIT", "READ_WRITE", "DONE"}
           /\ memoryCycle' \in BOOLEAN
           /\ copyFrom' \in MemoryAddresses /\ copyTo' \in MemoryAddresses
           /\ wordsCopied' \in MemoryAddresses
           /\ copyWord' \in Word
<1>1. /\ copyFrom \in MemoryAddresses /\ copyTo \in MemoryAddresses
      /\ wordsCopied \in MemoryAddresses
      /\ copierState \in {"WAIT", "READ_WRITE", "DONE"}
      /\ copyWord \in Word /\ oldOut \in Word
  BY DEF Types, TypeOK
<1>2. \A x \in MemoryAddresses : Plus(x, 1) \in MemoryAddresses
  <2>1. \A x \in MemoryAddresses : x \in Nat
    BY DEF MemoryAddresses
  <2> QED
    BY <2>1, Sums
<1>3. 0 \in MemoryAddresses
  BY Addresses
<1>4. CASE CopierFirstCycle(e, from, to)
  BY <1>1, <1>3, <1>4 DEF CopierFirstCycle
<1>5. CASE CopierSecondCycle(e, oldOut, from, to, count)
  BY <1>1, <1>2, <1>5 DEF CopierSecondCycle
<1> QED
  BY <1>4, <1>5 DEF CopierClock

\* The pointers of a request.
LEMMA RequestTypes ==
    ASSUME Types
    PROVE  /\ request.create \in BOOLEAN /\ request.words \in 0 .. MaxWords
           /\ request.pid \in CellNumbers
           /\ oldStackPointer \in MemoryAddresses
           /\ newStackPointer(request) \in MemoryAddresses
           /\ updatedStackPointers(request) \in Word
           /\ Pair(newStackPointer(request), 0) \in Word
           /\ request.pc \in Word
<1>1. /\ request.words \in 0 .. MaxWords /\ request.create \in BOOLEAN
      /\ request.pid \in CellNumbers
      /\ request.pc \in {0, 1} /\ rOldStackPointers \in Word
  BY DEF Types, TypeOK, Word
<1>2. oldStackPointer \in MemoryAddresses /\ Low(rOldStackPointers) \in MemoryAddresses
  BY <1>1, WordHalves DEF oldStackPointer
<1>3. request.words \in Nat /\ MemorySize - request.words \in Nat
      /\ oldStackPointer \in Nat
  BY <1>1, <1>2, Sizes DEF MemoryAddresses
<1>4. newStackPointer(request) \in MemoryAddresses
  BY <1>3, Remainders DEF newStackPointer
<1>5. Plus(oldStackPointer, request.words) \in MemoryAddresses
  BY <1>3, Sums
<1>6. /\ updatedStackPointers(request) \in Word
      /\ Pair(newStackPointer(request), 0) \in Word
  BY <1>2, <1>4, <1>5, Halves, Addresses DEF updatedStackPointers
<1>7. request.pc \in Word
  BY <1>1, Addresses, SmallWords
<1> QED
  BY <1>1, <1>2, <1>4, <1>6, <1>7

LEMMA PartsTypes ==
    ASSUME Types, NEW e \in BOOLEAN, PartsClock(e, request)
    PROVE  /\ heapState' \in {"INIT", "UPDATE_HEAP_FREE", "WRITE_FREE"}
           /\ heapFree' \in CellNumbers /\ allocAddress' \in CellNumbers
           /\ heapEnd' \in HeapBase .. HeapMax
           /\ heapFinished' \in BOOLEAN
           /\ heapRam' \in [MemoryAddresses -> CellNumbers]
           /\ heapOut' \in CellNumbers
           /\ copierState' \in {"WAIT", "READ_WRITE", "DONE"}
           /\ memoryCycle' \in BOOLEAN
           /\ copyFrom' \in MemoryAddresses /\ copyTo' \in MemoryAddresses
           /\ wordsCopied' \in MemoryAddresses
           /\ copyWord' \in Word
<1>1. /\ wHeapAlloc \in BOOLEAN /\ wHeapFree(e, request) \in BOOLEAN
      /\ wCopierEnabled \in BOOLEAN
  BY DEF wHeapAlloc, wHeapFree, wCopierEnabled
<1>2. /\ HeapClock(wHeapAlloc, wHeapFree(e, request), request.pid, heapOut)
      /\ RamClock(heapRam, heapOut,
                  HeapPort(wHeapAlloc, wHeapFree(e, request), request.pid))
      /\ CopierClock(wCopierEnabled, oldOut, oldStackPointer,
                     newStackPointer(request), request.words)
  BY DEF PartsClock
<1> HIDE DEF wHeapAlloc, wHeapFree, wCopierEnabled
<1>3. /\ heapState' \in {"INIT", "UPDATE_HEAP_FREE", "WRITE_FREE"}
      /\ heapFree' \in CellNumbers /\ allocAddress' \in CellNumbers
      /\ heapEnd' \in HeapBase .. HeapMax
      /\ heapFinished' \in BOOLEAN
      /\ heapRam' \in [MemoryAddresses -> CellNumbers]
      /\ heapOut' \in CellNumbers
  BY <1>1, <1>2, HeapTypes
<1>4. /\ copierState' \in {"WAIT", "READ_WRITE", "DONE"}
      /\ memoryCycle' \in BOOLEAN
      /\ copyFrom' \in MemoryAddresses /\ copyTo' \in MemoryAddresses
      /\ wordsCopied' \in MemoryAddresses
      /\ copyWord' \in Word
  BY <1>1, <1>2, RequestTypes, CopierTypes
<1> QED
  BY <1>3, <1>4

LEMMA CellTypes ==
    ASSUME Types, CellsClock(request)
    PROVE  cells' \in [CellNumbers -> Cell] /\ oldOut' \in Word
<1>1. /\ cells \in [CellNumbers -> Cell]
      /\ copyFrom \in MemoryAddresses /\ copyTo \in MemoryAddresses /\ copyWord \in Word
  BY DEF Types, TypeOK, Cell, Word
<1>2. IsPort(oldPort(request), Word)
  <2>1. oldPort(request) \in {Read(copyFrom), Read(0),
                              Write(0, updatedStackPointers(request)), NoAccess}
    BY DEF oldPort
  <2> QED
    BY <1>1, <2>1, RequestTypes, Addresses DEF IsPort
<1>3. IsPort(newPort(request), Word)
  <2>1. newPort(request) \in {Write(copyTo, copyWord), Read(copyTo),
                              Write(0, Pair(newStackPointer(request), 0)),
                              Write(1, request.pc), NoAccess}
    BY DEF newPort
  <2> QED
    BY <1>1, <2>1, RequestTypes, Addresses DEF IsPort
<1>4. 0 \in Word
  BY Addresses, SmallWords
<1>5. \A p \in CellNumbers :
        /\ Stored(cells[p], oldPort(request)) \in Cell
        /\ Stored(cells[p], newPort(request)) \in Cell
        /\ Answer(cells[p], oldPort(request)) \in Word
  BY <1>1, <1>2, <1>3, <1>4, PortKeepsType DEF Cell
<1>6. request.pid \in CellNumbers
  BY RequestTypes
<1> QED
  BY <1>1, <1>5, <1>6 DEF CellsClock

LEMMA InitTypes == Init => Types
<1> SUFFICES ASSUME Init PROVE Types
  OBVIOUS
<1> USE DEF Init, AllocatorInit, HeapInit, CopierInit, Undriven
<1>1. 0 \in Word /\ 0 \in Nat
  BY Addresses, SmallWords
<1>2. \A p \in CellNumbers : SavedCell(p, 0) \in Cell
  <2>1. ASSUME NEW p \in CellNumbers, NEW k \in MemoryAddresses
        PROVE  Pair(p, k) \in Word /\ Pair((MemorySize - 0) % MemorySize, 2) \in Word
    <3>1. (MemorySize - 0) % MemorySize \in MemoryAddresses /\ 2 \in MemoryAddresses
      BY Sizes, Remainders DEF MemoryAddresses
    <3> QED
      BY <3>1, Addresses, Halves
  <2> QED
    BY <2>1 DEF SavedCell, Cell
<1>3. cells \in [CellNumbers -> Cell] /\ before = cells
  BY <1>2
<1>4. heapEnd \in HeapBase .. HeapMax /\ 0 \in 0 .. MaxWords
  BY Sizes
<1>5. request \in [create : BOOLEAN, words : 0 .. MaxWords, pc : {0, 1}, pid : CellNumbers]
  BY <1>4, Addresses
<1>6. TypeOK
  BY <1>1, <1>3, <1>4, Addresses DEF TypeOK, Word, Cell
<1> QED
  BY <1>1, <1>3, <1>5, <1>6, Addresses DEF Types

\* A cell as its core leaves it.
LEMMA SavedCellType ==
    ASSUME NEW p \in CellNumbers, NEW s \in 0 .. MaxWords
    PROVE  /\ SavedCell(p, s) \in Cell
           /\ High(SavedCell(p, s)[0]) = (MemorySize - s) % MemorySize
<1>1. (MemorySize - s) % MemorySize \in MemoryAddresses /\ 2 \in MemoryAddresses
  <2>1. MemorySize - s \in Nat /\ 2 \in MemoryAddresses
    BY Sizes DEF MemoryAddresses
  <2> QED
    BY <2>1, Remainders
<1>2. \A k \in MemoryAddresses : Pair(p, k) \in Word
  BY Addresses, Halves
<1>3. /\ Pair((MemorySize - s) % MemorySize, 2) \in Word
      /\ High(Pair((MemorySize - s) % MemorySize, 2)) = (MemorySize - s) % MemorySize
  BY <1>1, Halves
<1> QED
  BY <1>2, <1>3, Addresses DEF SavedCell, Cell

\* A clock edge while the allocator is not enabled.
LEMMA DisabledTypes ==
    ASSUME Types, DisabledEdge(request),
           cells' \in [CellNumbers -> Cell], before' \in [CellNumbers -> Cell],
           handler' \in {"idle", "start", "busy"},
           request' \in [create : BOOLEAN, words : 0 .. MaxWords, pc : {0, 1},
                         pid : CellNumbers],
           live' \subseteq CellNumbers, made' \in Nat
    PROVE  Types'
<1>1. /\ PartsClock(FALSE, request)
      /\ paState' = "INIT" /\ rAllocatedPid' = 0 /\ oldOut' = 0
      /\ paFinished' = paFinished /\ rOldStackPointers' = rOldStackPointers
  BY DEF DisabledEdge, Undriven
<1>2. 0 \in Word /\ 0 \in CellNumbers
  BY Addresses, SmallWords
<1>3. TypeOK'
  BY <1>1, <1>2, PartsTypes DEF Types, TypeOK, Cell, Word
<1> QED
  BY <1>1, <1>2, <1>3, PartsTypes DEF Types

\* A clock edge while it is enabled.
LEMMA EdgeTypes ==
    ASSUME Types, Edge(request), handler' = "busy",
           UNCHANGED <<request, live, made, before>>
    PROVE  Types'
<1>1. PartsClock(TRUE, request) /\ CellsClock(request)
  BY DEF Edge
<1>2. /\ paState' \in DOMAIN WriteOrder \cup {"INIT", "WAIT_FOR_HEAP_FREE",
                      "READ_OLD_STACK_POINTER", "ALLOC", "COPY"}
      /\ paFinished' \in BOOLEAN
      /\ rAllocatedPid' \in CellNumbers
      /\ rOldStackPointers' \in Word
  <2> USE DEF Types, TypeOK, Word
  <2>1. CASE Begin(request) \/ WaitForHeapFree
    BY <2>1 DEF Begin, WaitForHeapFree
  <2>2. CASE ReadOldStackPointer \/ Alloc
    BY <2>2, Order DEF ReadOldStackPointer, Alloc
  <2>3. CASE WritePointers
    BY <2>3, Order DEF WritePointers
  <2>4. CASE Copy
    BY <2>4 DEF Copy, copierFinished
  <2> QED
    BY <2>1, <2>2, <2>3, <2>4 DEF Edge
<1>3. TypeOK'
  BY <1>1, <1>2, PartsTypes, CellTypes DEF TypeOK, Cell, Word
<1> QED
  BY <1>1, <1>3, PartsTypes, CellTypes DEF Types

LEMMA NextTypes == Types /\ [Next]_vars => Types'
<1> SUFFICES ASSUME Types, [Next]_vars PROVE Types'
  OBVIOUS
<1>1. /\ cells \in [CellNumbers -> Cell] /\ before \in [CellNumbers -> Cell]
      /\ live \subseteq CellNumbers /\ made \in Nat
      /\ request \in [create : BOOLEAN, words : 0 .. MaxWords, pc : {0, 1},
                      pid : CellNumbers]
  BY DEF Types, TypeOK, Cell, Word
<1>2. 0 \in 0 .. MaxWords
  BY Sizes
<1>3. ASSUME NEW r, Ask(r), cells' \in [CellNumbers -> Cell],
             r \in [create : BOOLEAN, words : 0 .. MaxWords, pc : {0, 1},
                    pid : CellNumbers]
      PROVE  Types'
  BY <1>1, <1>3, DisabledTypes DEF Ask
<1>4. CASE AskFirst
  BY <1>1, <1>2, <1>3, <1>4, Addresses DEF AskFirst
<1>5. ASSUME NEW p \in live, NEW s \in 0 .. MaxWords, NEW n \in 0 .. MaxWords,
             AskCreate(p, s, n)
      PROVE  Types'
  <2>1. cells' \in [CellNumbers -> Cell]
    BY <1>1, <1>5, SavedCellType DEF AskCreate
  <2> QED
    BY <1>1, <1>3, <1>5, <2>1 DEF AskCreate
<1>6. ASSUME NEW p \in live, AskFree(p)
      PROVE  Types'
  BY <1>1, <1>2, <1>3, <1>6 DEF AskFree
<1>7. CASE Wait
  BY <1>7, EdgeTypes DEF Wait
<1>8. CASE Finished
  <2>1. rAllocatedPid \in CellNumbers
    BY DEF Types, TypeOK
  <2>2. live' \subseteq CellNumbers /\ made' \in Nat
    BY <1>1, <1>8, <2>1 DEF Finished
  <2> QED
    BY <1>1, <1>8, <2>2, DisabledTypes DEF Finished
<1>9. CASE Elsewhere
  BY <1>1, <1>9, DisabledTypes DEF Elsewhere, Types
<1>10. CASE UNCHANGED vars
  BY <1>10 DEF vars, allocatorVars, heapVars, copierVars, Types, TypeOK
<1> QED
  BY <1>4, <1>5, <1>6, <1>7, <1>8, <1>9, <1>10 DEF Next

\* The registers of ProcessAllocator.v, its heap and its copier keep their
\* widths, and every word of a cell fits in one, whatever is asked for how often.
THEOREM ProcessAllocatorTypes == Spec => []TypeOK
<1>1. Types => TypeOK
  BY DEF Types
<1> QED
  BY <1>1, InitTypes, NextTypes, PTL DEF Spec

-----------------------------------------------------------------------------
(* Edges at which the allocator is not enabled.                            *)

LEMMA DisabledSummary ==
    ASSUME Types, Control, DisabledEdge(request),
           handler = "idle" \/ (handler = "busy" /\ paFinished)
    PROVE  /\ paState' = "INIT" /\ copierState' = "WAIT"
           /\ handler = "idle" => ~memoryCycle' /\ heapState' = "INIT"
           /\ heapState' = "INIT" \/ (freeing /\ heapState' = "WRITE_FREE")
           /\ UNCHANGED heapEnd
           /\ heapFree' = IF heapState = "WRITE_FREE" THEN request.pid ELSE heapFree
<1>1. /\ HeapClock(wHeapAlloc, wHeapFree(FALSE, request), request.pid, heapOut)
      /\ CopierClock(wCopierEnabled, oldOut, oldStackPointer,
                     newStackPointer(request), request.words)
      /\ paState' = "INIT"
  BY DEF DisabledEdge, PartsClock
<1>2. heapState \in {"INIT", "UPDATE_HEAP_FREE", "WRITE_FREE"}
  BY DEF Types, TypeOK
<1>3. CASE handler = "idle"
  <2>1. ~wHeapAlloc /\ ~wHeapFree(FALSE, request) /\ ~wCopierEnabled
    BY <1>3 DEF Control, wHeapAlloc, wHeapFree, wCopierEnabled
  <2>2. heapState # "UPDATE_HEAP_FREE"
    BY <1>3 DEF Control, creating
  <2>3. copierState' = "WAIT" /\ ~memoryCycle'
    BY <1>1, <2>1 DEF CopierClock, CopierFirstCycle, CopierSecondCycle
  <2>4. /\ heapState' = "INIT" /\ UNCHANGED heapEnd
        /\ heapFree' = IF heapState = "WRITE_FREE" THEN request.pid ELSE heapFree
    BY <1>1, <2>1, <2>2 DEF HeapClock, HeapIdle, AllocFromEnd, AllocFromList,
                            UpdateHeapFree, StartFree, WriteFree
  <2> QED
    BY <1>1, <2>3, <2>4
<1>4. CASE creating /\ paFinished
  <2>1. /\ ~wHeapAlloc /\ ~wHeapFree(FALSE, request)
        /\ copierState = "WAIT" /\ ~memoryCycle /\ wCopierEnabled
    BY <1>4 DEF Control, wHeapAlloc, wHeapFree, wCopierEnabled, copierFinished
  <2>2. heapState = "INIT"
    BY <1>2, <1>4 DEF Control, creating, freeing
  <2>3. copierState' = "WAIT"
    BY <1>1, <2>1 DEF CopierClock, CopierFirstCycle, CopierSecondCycle
  <2>4. heapState' = "INIT" /\ UNCHANGED <<heapEnd, heapFree>>
    BY <1>1, <2>1, <2>2 DEF HeapClock, HeapIdle, AllocFromEnd, AllocFromList,
                            UpdateHeapFree, StartFree, WriteFree
  <2> QED
    BY <1>1, <1>4, <2>2, <2>3, <2>4 DEF creating
<1>5. CASE freeing /\ paFinished
  <2>1. ~wHeapAlloc /\ ~wCopierEnabled
    BY <1>5 DEF Control, wHeapAlloc, wCopierEnabled
  <2>2. heapState = "INIT"
    BY <1>2, <1>5 DEF Control, creating, freeing
  <2>3. copierState' = "WAIT"
    BY <1>1, <2>1 DEF CopierClock, CopierFirstCycle, CopierSecondCycle
  <2>4. heapState' \in {"INIT", "WRITE_FREE"} /\ UNCHANGED <<heapEnd, heapFree>>
    BY <1>1, <2>1, <2>2 DEF HeapClock, HeapIdle, AllocFromEnd, AllocFromList,
                            UpdateHeapFree, StartFree, WriteFree
  <2> QED
    BY <1>1, <1>5, <2>2, <2>3, <2>4 DEF freeing
<1> QED
  BY <1>3, <1>4, <1>5 DEF creating, freeing

\* Nothing is under way in a state of the allocator's rest.
LEMMA AtRest ==
    ASSUME paState' = "INIT", copierState' = "WAIT", handler' # "busy"
    PROVE  ~taken' /\ Pointers' /\ Copying' /\ ~creating' /\ ~freeing'
  BY Order DEF taken, Pointers, Copying, creating, freeing, Pasts

\* A request begins with what the handler has just been told.
LEMMA AskStep ==
    ASSUME IInv, NEW r, Ask(r),
           r.create \in BOOLEAN,
           r.pid \in live \cup (IF r.create THEN {0} ELSE {}),
           r.create => made <= CellCount,
           r.create /\ made = CellCount => live # Issued,
           r.create => \E s \in r.words .. MaxWords :
                          High(cells'[r.pid][0]) = (MemorySize - s) % MemorySize
    PROVE  /\ Control' /\ Bumped' /\ Ended' /\ Requested'
           /\ Fits' /\ Pointers' /\ Copying' /\ Cells'
<1>1. /\ handler = "idle" /\ handler' = "start" /\ request' = r /\ before' = cells'
      /\ DisabledEdge(request)
      /\ UNCHANGED <<live, freed, made>>
  BY DEF Ask
<1>2. /\ paState' = "INIT" /\ copierState' = "WAIT" /\ ~memoryCycle'
      /\ heapState' = "INIT" /\ UNCHANGED heapEnd
      /\ heapFree' = IF heapState = "WRITE_FREE" THEN request.pid ELSE heapFree
  BY <1>1, DisabledSummary DEF IInv
<1>3. heapFree' = heapFree
  BY <1>1, <1>2 DEF IInv, Ended
<1>4. ~taken /\ ~creating /\ ~freeing
  BY <1>1 DEF taken, creating, freeing
<1>5. ~taken' /\ Pointers' /\ Copying' /\ ~creating' /\ ~freeing'
  BY <1>1, <1>2, AtRest
<1>6. Control'
  BY <1>1, <1>2, <1>5 DEF Control
<1>7. Bumped'
  BY <1>1, <1>2, <1>4, <1>5 DEF IInv, Bumped, answered, Issued
<1>8. Ended'
  BY <1>1, <1>2, <1>3, <1>4, <1>5 DEF IInv, Ended, Issued
<1>9. paState' \notin Pasts
  BY <1>2, Order DEF Pasts
<1>10. Requested'
  BY <1>1, <1>5, <1>9 DEF Requested, Issued
<1>11. Fits'
  BY <1>1 DEF Fits
<1>12. Cells'
  <2>1. ~popped'
    BY <1>9 DEF popped
  <2> QED
    BY <1>1, <1>9, <2>1 DEF Cells, OldCell, NewCell, OtherCells, parent
<1> QED
  BY <1>5, <1>6, <1>7, <1>8, <1>10, <1>11, <1>12

LEMMA ElsewhereStep ==
    ASSUME IInv, Elsewhere
    PROVE  /\ Control' /\ Bumped' /\ Ended' /\ Requested'
           /\ Fits' /\ Pointers' /\ Copying' /\ Cells'
<1>1. /\ handler = "idle" /\ handler' = "idle"
      /\ DisabledEdge(request)
      /\ UNCHANGED <<cells, request, live, freed, made, before>>
  BY DEF Elsewhere
<1>2. /\ paState' = "INIT" /\ copierState' = "WAIT" /\ ~memoryCycle'
      /\ heapState' = "INIT" /\ UNCHANGED heapEnd
      /\ heapFree' = IF heapState = "WRITE_FREE" THEN request.pid ELSE heapFree
  BY <1>1, DisabledSummary DEF IInv
<1>3. heapFree' = heapFree
  BY <1>1, <1>2 DEF IInv, Ended
<1>4. ~taken /\ ~creating /\ ~freeing
  BY <1>1 DEF taken, creating, freeing
<1>5. ~taken' /\ Pointers' /\ Copying' /\ ~creating' /\ ~freeing'
  BY <1>1, <1>2, AtRest
<1>6. Control'
  BY <1>1, <1>2, <1>5 DEF Control
<1>7. Bumped'
  BY <1>1, <1>2, <1>4, <1>5 DEF IInv, Bumped, answered, Issued
<1>8. Ended'
  BY <1>1, <1>2, <1>3, <1>4, <1>5 DEF IInv, Ended, Issued
<1>9. paState' \notin Pasts
  BY <1>2, Order DEF Pasts
<1>10. Requested'
  BY <1>1, <1>5, <1>9 DEF Requested
<1>11. Fits' /\ Cells'
  BY <1>1, <1>5 DEF IInv, Fits, Cells
<1> QED
  BY <1>5, <1>6, <1>7, <1>8, <1>10, <1>11

LEMMA FinishedStep ==
    ASSUME IInv, Finished
    PROVE  /\ Control' /\ Bumped' /\ Ended' /\ Requested'
           /\ Fits' /\ Pointers' /\ Copying' /\ Cells'
<1>1. /\ handler = "busy" /\ paFinished /\ handler' = "idle"
      /\ DisabledEdge(request)
      /\ UNCHANGED <<request, cells, before>>
  BY DEF Finished
<1>2. /\ paState' = "INIT" /\ copierState' = "WAIT"
      /\ heapState' = "INIT" \/ (freeing /\ heapState' = "WRITE_FREE")
      /\ UNCHANGED heapEnd
      /\ heapFree' = IF heapState = "WRITE_FREE" THEN request.pid ELSE heapFree
  BY <1>1, DisabledSummary DEF IInv
<1>3. heapFree' = heapFree
  BY <1>1, <1>2 DEF IInv, Control
<1>4. ~taken' /\ Pointers' /\ Copying' /\ ~creating' /\ ~freeing'
  BY <1>1, <1>2, AtRest
<1>5. Control'
  BY <1>1, <1>2, <1>4 DEF Control, freeing
<1>6. paState' \notin Pasts
  BY <1>2, Order DEF Pasts
<1>7. Requested' /\ Cells'
  BY <1>1, <1>4, <1>6 DEF Requested, Cells
<1>8. made \in Nat /\ HeapBase \in Nat /\ CellCount \in Nat
  BY Sizes DEF IInv, Types, CellCount
<1>9. CASE request.create
  <2>1. /\ live' = live \cup {rAllocatedPid} /\ made' = made + 1
    BY <1>9 DEF Finished
  <2>2. creating /\ paState = "COPY" /\ heapState' = "INIT"
    BY <1>1, <1>2, <1>9 DEF IInv, Control, creating, freeing
  <2>3. taken /\ rAllocatedPid = allocAddress
    BY <2>2 DEF taken, Pasts, IInv, Requested
  <2>4. made <= CellCount
    BY <1>1, <1>9 DEF IInv, Bumped
  <2>5. made < CellCount => /\ rAllocatedPid = HeapBase + made
                            /\ live \subseteq Issued
                            /\ Issued' = Issued \cup {HeapBase + made}
                            /\ HeapBase + made \notin Issued
    BY <1>8, <2>1, <2>3 DEF IInv, Requested, Bumped, Issued
  <2>6. Bumped'
    BY <1>1, <1>2, <1>4, <1>8, <2>1, <2>3, <2>4, <2>5 DEF IInv, Bumped, answered
  <2>7. Ended'
    <3>1. ASSUME made' <= CellCount, live' # Issued' PROVE heapFree' \in Issued' \ live'
      <4>1. made < CellCount
        BY <1>8, <2>1, <3>1
      <4>2. live # Issued
        BY <2>1, <2>5, <3>1, <4>1
      <4>3. heapFree \in Issued \ live
        BY <1>8, <2>2, <4>1, <4>2 DEF IInv, Ended, creating, freeing
      <4> QED
        BY <1>3, <2>1, <2>5, <4>1, <4>3
    <3> QED
      BY <1>1, <1>4, <2>2, <3>1 DEF Ended
  <2>8. Fits'
    BY <1>1, <1>8, <2>1 DEF Fits
  <2> QED
    BY <1>4, <1>5, <1>7, <2>6, <2>7, <2>8
<1>10. CASE ~request.create
  <2>1. live' = live \ {request.pid} /\ made' = made
    BY <1>10 DEF Finished
  <2>2. freeing /\ heapFree = request.pid /\ request.pid \in live /\ ~taken
    BY <1>1, <1>10 DEF IInv, Ended, Requested, freeing, taken, creating
  <2>3. Bumped'
    BY <1>1, <1>2, <1>4, <2>1, <2>2 DEF IInv, Bumped, answered, Issued
  <2>4. Ended'
    BY <1>1, <1>3, <1>4, <2>1, <2>2 DEF IInv, Ended, Bumped, Issued
  <2>5. made # 0
    BY <1>8, <2>2 DEF IInv, Bumped, Issued
  <2>6. Fits'
    BY <1>1, <2>1, <2>5 DEF Fits
  <2> QED
    BY <1>4, <1>5, <1>7, <2>3, <2>4, <2>6
<1> QED
  BY <1>9, <1>10 DEF Finished

-----------------------------------------------------------------------------
(* Edges at which it is enabled: its parts.                                *)

\* The copier while it is not enabled: it holds the address of the first word.
LEMMA CopierWaits ==
    ASSUME Types, Control, Edge(request), handler # "idle", paState # "COPY"
    PROVE  copierState' = "WAIT" /\ ~memoryCycle' /\ copyFrom' = oldStackPointer
<1>1. CopierClock(wCopierEnabled, oldOut, oldStackPointer,
                  newStackPointer(request), request.words)
  BY DEF Edge, PartsClock
<1>2. ~wCopierEnabled /\ copierState = "WAIT" /\ ~memoryCycle
  BY DEF Control, wCopierEnabled
<1> QED
  BY <1>1, <1>2 DEF CopierClock, CopierFirstCycle, CopierSecondCycle

\* The heap while nothing is asked of it.
LEMMA HeapWaits ==
    ASSUME Types, Control, Edge(request), enabled,
           request.create, paState # "ALLOC" \/ heapFinished
    PROVE  /\ heapState = "INIT" /\ ~heapFinished'
           /\ UNCHANGED <<heapState, heapFree, heapEnd, allocAddress>>
<1>1. HeapClock(wHeapAlloc, wHeapFree(TRUE, request), request.pid, heapOut)
  BY DEF Edge, PartsClock
<1>2. ~wHeapAlloc /\ ~wHeapFree(TRUE, request)
  BY DEF Control, wHeapAlloc, wHeapFree, freeing, creating, enabled
<1>3. heapState = "INIT"
  BY DEF Types, TypeOK, Control, freeing, enabled
<1> QED
  BY <1>1, <1>2, <1>3 DEF HeapClock, HeapIdle, AllocFromEnd, AllocFromList,
                          UpdateHeapFree, StartFree, WriteFree

LEMMA StoredFacts ==
    ASSUME NEW ram \in Cell, NEW port
    PROVE  /\ ~port.write => Stored(ram, port) = ram
           /\ port.write /\ port.at \in MemoryAddresses =>
                /\ Stored(ram, port)[port.at] = port.data
                /\ \A k \in MemoryAddresses \ {port.at} :
                      Stored(ram, port)[k] = ram[k]
  BY DEF Stored, Cell

\* Each cell sees its own port only.
LEMMA CellPorts ==
    ASSUME Types, CellsClock(request)
    PROVE  /\ cells'[request.pid] = Stored(cells[request.pid], oldPort(request))
           /\ rAllocatedPid # request.pid =>
                cells'[rAllocatedPid] = Stored(cells[rAllocatedPid], newPort(request))
           /\ \A p \in CellNumbers :
                p # request.pid /\ p # rAllocatedPid => cells'[p] = cells[p]
           /\ oldOut' = Answer(cells[request.pid], oldPort(request))
<1>1. rAllocatedPid \in CellNumbers /\ request.pid \in CellNumbers
  BY RequestTypes DEF Types, TypeOK
<1> QED
  BY <1>1 DEF CellsClock

\* An edge at which neither port writes.
LEMMA CellsWait ==
    ASSUME Types, CellsClock(request),
           ~oldPort(request).write, ~newPort(request).write
    PROVE  cells' = cells
<1>1. cells \in [CellNumbers -> Cell] /\ cells' \in [CellNumbers -> Cell]
  BY CellTypes DEF Types, TypeOK, Cell, Word
<1>2. \A p \in CellNumbers : /\ Stored(cells[p], oldPort(request)) = cells[p]
                             /\ Stored(cells[p], newPort(request)) = cells[p]
  BY <1>1, StoredFacts
<1>3. \A p \in CellNumbers : cells'[p] = cells[p]
  BY <1>2, CellPorts
<1> QED
  BY <1>1, <1>3

\* The new cell is not the parent's.
LEMMA NewIsNotOld ==
    ASSUME Types, Requested, taken
    PROVE  /\ allocAddress # request.pid
           /\ allocAddress \in CellNumbers
           /\ paState \in Pasts => rAllocatedPid # request.pid
<1>1. request.pid \in live \cup {0}
  BY DEF Requested, taken, creating
<1>2. allocAddress \notin live /\ allocAddress \in HeapBase .. HeapMax - 1
  BY DEF Requested
<1> QED
  BY <1>1, <1>2, Sizes DEF Requested, CellNumbers

\* The invariant of the parts of the state that an edge of the handler's busy
\* time does not touch.
LEMMA BusyKeeps ==
    ASSUME IInv, handler # "idle", handler' = "busy",
           UNCHANGED <<request, live, made, before>>
    PROVE  /\ Fits' /\ parent' = parent /\ sp' = sp /\ Issued' = Issued
           /\ creating' = request.create /\ freeing' = ~request.create
<1>1. request.create \in BOOLEAN
  BY RequestTypes DEF IInv
<1> QED
  BY <1>1 DEF IInv, Fits, parent, sp, Issued, creating, freeing

-----------------------------------------------------------------------------
(* Edges at which it is enabled: its states.                               *)

LEMMA BeginStep ==
    ASSUME IInv, Wait, Begin(request)
    PROVE  /\ Control' /\ Bumped' /\ Ended' /\ Requested'
           /\ Fits' /\ Pointers' /\ Copying' /\ Cells'
<1>1. /\ enabled /\ handler' = "busy" /\ Edge(request)
      /\ UNCHANGED <<request, live, freed, made, before>>
  BY DEF Wait
<1>2. /\ paState = "INIT" /\ ~paFinished'
      /\ paState' = IF request.create THEN "READ_OLD_STACK_POINTER"
                                      ELSE "WAIT_FOR_HEAP_FREE"
  BY DEF Begin
<1>3. handler = "start" /\ ~taken
  BY <1>1, <1>2, Order DEF IInv, Control, enabled, creating, freeing, taken
<1>4. /\ Fits' /\ parent' = parent /\ sp' = sp /\ Issued' = Issued
      /\ creating' = request.create /\ freeing' = ~request.create
  BY <1>1, <1>3, BusyKeeps
<1>5. copierState' = "WAIT" /\ ~memoryCycle'
  BY <1>1, <1>2, <1>3, CopierWaits DEF IInv
<1>6. paState' \notin Pasts /\ paState' # "ALLOC" /\ paState' # "COPY"
  BY <1>2, Order DEF Pasts
<1>7. ~taken'
  BY <1>6 DEF taken
<1>8. heapState = "INIT"
  BY <1>3 DEF IInv, Control, creating, freeing, Types, TypeOK
<1>9. /\ ~heapFinished' /\ UNCHANGED <<heapFree, heapEnd>>
      /\ heapState' = IF request.create THEN "INIT" ELSE "WRITE_FREE"
  <2>1. HeapClock(wHeapAlloc, wHeapFree(TRUE, request), request.pid, heapOut)
    BY <1>1 DEF Edge, PartsClock
  <2>2. ~wHeapAlloc /\ (wHeapFree(TRUE, request) <=> ~request.create)
    BY <1>2 DEF wHeapAlloc, wHeapFree
  <2> QED
    BY <1>8, <2>1, <2>2 DEF HeapClock, HeapIdle, AllocFromEnd, AllocFromList,
                            UpdateHeapFree, StartFree, WriteFree
<1>10. Control'
  BY <1>1, <1>2, <1>4, <1>5, <1>6, <1>9 DEF Control
<1>11. Bumped'
  BY <1>1, <1>3, <1>4, <1>7, <1>9 DEF IInv, Bumped, answered
<1>12. Ended'
  <2>1. ~freeing
    BY <1>3 DEF freeing
  <2> QED
    BY <1>1, <1>2, <1>3, <1>4, <1>7, <1>9, <2>1 DEF IInv, Ended
<1>13. Requested'
  BY <1>1, <1>3, <1>4, <1>6, <1>7 DEF IInv, Requested
<1>14. Copying'
  BY <1>5, <1>6 DEF Copying
<1>15. /\ cells' = cells
       /\ request.create => oldOut' = cells[request.pid][0]
  <2>1. CellsClock(request)
    BY <1>1 DEF Edge
  <2>2. ~wCopierEnabled
    BY <1>2 DEF wCopierEnabled
  <2>3. oldPort(request) = IF request.create THEN Read(0) ELSE NoAccess
    BY <1>2, <2>2 DEF oldPort
  <2>4. newPort(request) = NoAccess
    BY <1>2, <2>2 DEF newPort
  <2>5. cells' = cells
    BY <2>1, <2>3, <2>4, CellsWait, PortFacts DEF IInv
  <2>6. request.create => oldOut' = cells[request.pid][0]
    BY <2>1, <2>3, CellPorts, PortFacts, Addresses DEF IInv, Answer
  <2> QED
    BY <2>5, <2>6
<1>16. paState \notin Pasts
  BY <1>2, Order DEF Pasts
<1>17. cells[request.pid][0] = parent[0] /\ OldCell /\ OtherCells
  BY <1>3, <1>16 DEF IInv, Cells, OldCell, popped
<1>18. Pointers'
  BY <1>2, <1>4, <1>6, <1>15, <1>17 DEF Pointers
<1>19. Cells'
  <2>1. ~popped /\ ~popped'
    BY <1>6, <1>16 DEF popped
  <2> QED
    BY <1>1, <1>4, <1>6, <1>15, <1>16, <1>17, <2>1
       DEF Cells, OldCell, NewCell, OtherCells
<1> QED
  BY <1>4, <1>10, <1>11, <1>12, <1>13, <1>14, <1>18, <1>19

LEMMA FreeStep ==
    ASSUME IInv, Wait, WaitForHeapFree
    PROVE  /\ Control' /\ Bumped' /\ Ended' /\ Requested'
           /\ Fits' /\ Pointers' /\ Copying' /\ Cells'
<1>1. /\ enabled /\ handler' = "busy" /\ Edge(request)
      /\ UNCHANGED <<request, live, freed, made, before>>
  BY DEF Wait
<1>2. /\ paState = "WAIT_FOR_HEAP_FREE" /\ paState' = "WAIT_FOR_HEAP_FREE"
      /\ paFinished' = heapFinished
  BY DEF WaitForHeapFree
<1>3. handler = "busy" /\ ~paFinished /\ freeing /\ ~creating /\ ~taken /\ ~request.create
  BY <1>1, <1>2, RequestTypes DEF IInv, Control, enabled, creating, freeing, taken
<1>4. /\ Fits' /\ parent' = parent /\ sp' = sp /\ Issued' = Issued
      /\ ~creating' /\ freeing'
  BY <1>1, <1>3, BusyKeeps
<1>5. copierState' = "WAIT" /\ ~memoryCycle'
  BY <1>1, <1>2, <1>3, CopierWaits DEF IInv
<1>6. paState' \notin Pasts /\ ~taken'
  BY <1>2, <1>4, Order DEF Pasts, taken
<1>7. heapState \in {"INIT", "WRITE_FREE"}
  BY <1>3 DEF IInv, Control, Types, TypeOK
<1>8. /\ heapState' \in {"INIT", "WRITE_FREE"} /\ UNCHANGED heapEnd
      /\ heapState' = "WRITE_FREE" => ~heapFinished
      /\ heapFinished \/ heapFinished' => heapFree' = request.pid
  <2>1. HeapClock(wHeapAlloc, wHeapFree(TRUE, request), request.pid, heapOut)
    BY <1>1 DEF Edge, PartsClock
  <2>2. ~wHeapAlloc /\ (wHeapFree(TRUE, request) <=> ~heapFinished)
    BY <1>2 DEF wHeapAlloc, wHeapFree
  <2>3. heapFinished => heapFree = request.pid
    BY <1>3 DEF IInv, Ended
  <2> QED
    BY <1>7, <2>1, <2>2, <2>3 DEF HeapClock, HeapIdle, AllocFromEnd, AllocFromList,
                            UpdateHeapFree, StartFree, WriteFree
<1>9. Control'
  BY <1>1, <1>2, <1>4, <1>5, <1>8 DEF Control
<1>10. Bumped'
  BY <1>1, <1>3, <1>4, <1>6, <1>8 DEF IInv, Bumped, answered
<1>11. Ended'
  BY <1>1, <1>2, <1>4, <1>8 DEF Ended
<1>12. Requested'
  BY <1>1, <1>3, <1>4, <1>6 DEF IInv, Requested
<1>13. Copying' /\ Pointers' /\ Cells'
  BY <1>1, <1>2, <1>4, <1>5, <1>6 DEF Copying, Pointers, Cells
<1> QED
  BY <1>4, <1>9, <1>10, <1>11, <1>12, <1>13

\* Once the heap has answered, or before it is asked, the numbers stay.
LEMMA NumbersKept ==
    ASSUME IInv, Wait, creating, paState # "ALLOC" \/ heapFinished,
           taken' <=> taken, paState' \in Pasts => rAllocatedPid' = allocAddress
    PROVE  Bumped' /\ Ended' /\ Requested'
<1>1. /\ enabled /\ handler' = "busy" /\ Edge(request)
      /\ UNCHANGED <<request, live, freed, made, before>>
  BY DEF Wait
<1>2. handler = "busy" /\ request.create
  BY DEF creating
<1>3. /\ Issued' = Issued /\ creating' /\ ~freeing' /\ ~freeing
  BY <1>1, <1>2, BusyKeeps DEF freeing
<1>4. /\ heapState = "INIT"
      /\ UNCHANGED <<heapState, heapFree, heapEnd, allocAddress>>
  BY <1>1, <1>2, HeapWaits DEF IInv
<1>5. Bumped'
  BY <1>1, <1>2, <1>3, <1>4 DEF IInv, Bumped, answered
<1>6. Ended'
  BY <1>1, <1>2, <1>3, <1>4 DEF IInv, Ended
<1>7. Requested'
  BY <1>1, <1>2, <1>3, <1>4 DEF IInv, Requested
<1> QED
  BY <1>5, <1>6, <1>7

LEMMA ReadStep ==
    ASSUME IInv, Wait, ReadOldStackPointer
    PROVE  /\ Control' /\ Bumped' /\ Ended' /\ Requested'
           /\ Fits' /\ Pointers' /\ Copying' /\ Cells'
<1>1. /\ enabled /\ handler' = "busy" /\ Edge(request)
      /\ UNCHANGED <<request, live, freed, made, before>>
  BY DEF Wait
<1>2. /\ paState = "READ_OLD_STACK_POINTER" /\ paState' = "ALLOC"
      /\ rOldStackPointers' = oldOut /\ ~paFinished'
  BY DEF ReadOldStackPointer
<1>3. handler = "busy" /\ creating /\ ~freeing /\ request.create
  BY <1>1, <1>2, RequestTypes DEF IInv, Control, enabled, creating, freeing
<1>4. /\ Fits' /\ parent' = parent /\ sp' = sp /\ Issued' = Issued
      /\ creating' /\ ~freeing'
  BY <1>1, <1>3, BusyKeeps
<1>5. copierState' = "WAIT" /\ ~memoryCycle'
  BY <1>1, <1>2, <1>3, CopierWaits DEF IInv
<1>6. /\ paState \notin Pasts /\ paState' \notin Pasts
      /\ paState' # "COPY" /\ paState # "COPY"
  BY <1>2, Order DEF Pasts
<1>7. heapState = "INIT" /\ heapState' = "INIT" /\ ~heapFinished'
  BY <1>1, <1>2, <1>3, HeapWaits DEF IInv
<1>8. ~taken /\ ~taken'
  BY <1>2, <1>6, <1>7 DEF taken
<1>9. Control'
  BY <1>1, <1>2, <1>3, <1>4, <1>5, <1>6, <1>7 DEF Control
<1>10. Bumped' /\ Ended' /\ Requested'
  BY <1>2, <1>3, <1>6, <1>8, NumbersKept
<1>11. Copying'
  BY <1>5, <1>6 DEF Copying
<1>12. cells' = cells
  <2>1. CellsClock(request) /\ ~wCopierEnabled
    BY <1>1, <1>2 DEF Edge, wCopierEnabled
  <2>2. oldPort(request) = Read(0)
    BY <1>2, <2>1 DEF oldPort
  <2>3. newPort(request) = NoAccess
    BY <1>2, <2>1 DEF newPort
  <2> QED
    BY <2>1, <2>2, <2>3, CellsWait, PortFacts DEF IInv
<1>13. Pointers'
  BY <1>2, <1>4, <1>6 DEF IInv, Pointers
<1>14. Cells'
  <2>1. ~popped /\ ~popped' /\ OldCell /\ OtherCells
    BY <1>3, <1>6 DEF IInv, Cells, popped
  <2> QED
    BY <1>1, <1>4, <1>6, <1>12, <2>1 DEF Cells, OldCell, NewCell, OtherCells
<1> QED
  BY <1>4, <1>9, <1>10, <1>11, <1>13, <1>14

\* The cell taken is none of those in use: the next one, or, when all have been
\* given out once, one that ended.
LEMMA AllocStep ==
    ASSUME IInv, Wait, Alloc
    PROVE  /\ Control' /\ Bumped' /\ Ended' /\ Requested'
           /\ Fits' /\ Pointers' /\ Copying' /\ Cells'
<1>1. /\ enabled /\ handler' = "busy" /\ Edge(request)
      /\ UNCHANGED <<request, live, freed, made, before>>
  BY DEF Wait
<1>2. /\ paState = "ALLOC" /\ ~paFinished'
      /\ rOldStackPointers' = rOldStackPointers
      /\ IF heapFinished
           THEN rAllocatedPid' = allocAddress /\ paState' = "WRITE_UPDATED_SP_0"
           ELSE rAllocatedPid' = rAllocatedPid /\ paState' = "ALLOC"
  BY DEF Alloc
<1>3. handler = "busy" /\ creating /\ ~freeing /\ request.create
  BY <1>1, <1>2, RequestTypes DEF IInv, Control, enabled, creating, freeing
<1>4. /\ Fits' /\ parent' = parent /\ sp' = sp /\ Issued' = Issued
      /\ creating' /\ ~freeing'
  BY <1>1, <1>3, BusyKeeps
<1>5. copierState' = "WAIT" /\ ~memoryCycle' /\ copyFrom' = oldStackPointer
  BY <1>1, <1>2, <1>3, CopierWaits DEF IInv
<1>6. /\ paState \notin Pasts /\ paState # "COPY" /\ paState' # "COPY"
      /\ paState' \in Pasts <=> heapFinished
      /\ paState' # "READ_OLD_STACK_POINTER"
      /\ paState' \notin {"INIT", "WAIT_FOR_HEAP_FREE"}
  BY <1>2, Order DEF Pasts
<1>7. taken <=> heapFinished
  BY <1>2, <1>3, <1>6 DEF taken
<1>8. cells' = cells
  <2>1. CellsClock(request) /\ ~wCopierEnabled
    BY <1>1, <1>2 DEF Edge, wCopierEnabled
  <2>2. oldPort(request) = NoAccess
    BY <1>2, <2>1 DEF oldPort
  <2>3. newPort(request) = NoAccess
    BY <1>2, <2>1 DEF newPort
  <2> QED
    BY <2>1, <2>2, <2>3, CellsWait, PortFacts DEF IInv
<1>9. Pointers'
  BY <1>2, <1>4, <1>5, <1>6, <1>3 DEF IInv, Pointers, sp, parent, oldStackPointer
<1>10. Copying'
  BY <1>5, <1>6 DEF Copying
<1>11. OldCell /\ OtherCells /\ ~popped
  BY <1>3, <1>6 DEF IInv, Cells, popped
<1>12. made \in Nat /\ HeapBase \in Nat /\ HeapMax \in Nat
       /\ CellCount = HeapMax - HeapBase /\ CellCount \in Nat
  BY Sizes DEF IInv, Types, CellCount
<1>13. CASE heapFinished
  <2>1. /\ heapState = "INIT" /\ ~heapFinished'
        /\ UNCHANGED <<heapState, heapFree, heapEnd, allocAddress>>
    BY <1>1, <1>3, <1>13, HeapWaits DEF IInv
  <2>2. taken /\ taken'
    BY <1>4, <1>6, <1>7, <1>13 DEF taken
  <2>3. Bumped' /\ Ended' /\ Requested'
    BY <1>2, <1>3, <1>13, <2>2, NumbersKept
  <2>4. Control'
    BY <1>1, <1>2, <1>3, <1>4, <1>5, <1>6, <2>1 DEF Control
  <2>5. rAllocatedPid' # request.pid /\ rAllocatedPid' \in CellNumbers
    BY <1>2, <1>13, <2>2, NewIsNotOld DEF IInv
  <2>6. ~popped' /\ ~started' /\ ~linked' /\ copied' = 0
    BY <1>2, <1>13 DEF popped, started, linked, copied
  <2>7. cells[rAllocatedPid'] = before[rAllocatedPid']
    BY <1>6, <1>11, <2>5 DEF OtherCells
  <2>8. NewCell'
    <3> SUFFICES ASSUME NEW k \in MemoryAddresses
                 PROVE  cells'[rAllocatedPid'][k] =
                          CASE k = 0 /\ started' -> Pair(newStackPointer(request'), 0)
                            [] k = 1 /\ linked' -> request'.pc
                            [] /\ k >= MemorySize - request'.words
                               /\ k < MemorySize - request'.words + copied' ->
                                  parent'[Plus(sp', k + request'.words)]
                            [] OTHER -> before'[rAllocatedPid'][k]
      BY DEF NewCell
    <3>1. ~(k >= MemorySize - request.words /\ k < MemorySize - request.words + 0)
      <4>1. request.words \in Nat /\ MemorySize - request.words \in Int /\ k \in Int
        BY RequestTypes, Sizes DEF IInv, MemoryAddresses
      <4> QED
        BY <4>1
    <3> QED
      BY <1>1, <1>8, <2>6, <2>7, <3>1
  <2>9. OldCell' /\ OtherCells'
    BY <1>1, <1>4, <1>6, <1>8, <1>11, <2>6 DEF OldCell, OtherCells
  <2>10. Cells'
    BY <2>8, <2>9 DEF Cells
  <2> QED
    BY <1>4, <1>9, <1>10, <2>3, <2>4, <2>10
<1>14. CASE ~heapFinished
  <2>1. ~taken
    BY <1>7, <1>14
  <2>2. made <= CellCount /\ heapEnd = HeapBase + made
    BY <1>3, <1>12, <2>1 DEF IInv, Bumped, answered
  <2>3. Cells'
    BY <1>1, <1>4, <1>6, <1>8, <1>11, <1>14
       DEF Cells, OldCell, NewCell, OtherCells, popped
  <2>4. paState' = "ALLOC" /\ paState' \notin Pasts /\ (taken' <=> heapFinished')
    BY <1>2, <1>4, <1>6, <1>14 DEF taken
  <2>5. HeapClock(wHeapAlloc, wHeapFree(TRUE, request), request.pid, heapOut)
    BY <1>1 DEF Edge, PartsClock
  <2>6. wHeapAlloc
    BY <1>2, <1>14 DEF wHeapAlloc
  <2>7. heapState \in {"INIT", "UPDATE_HEAP_FREE"}
    BY <1>3 DEF IInv, Control, Types, TypeOK
  <2>8. CASE AllocFromEnd(wHeapAlloc)
    <3>1. /\ heapState = "INIT" /\ heapState' = "INIT" /\ heapFinished'
          /\ heapEnd # HeapMax /\ heapEnd' = Plus(heapEnd, AllocSize)
          /\ allocAddress' = heapEnd /\ heapFree' = heapFree
      BY <2>8 DEF AllocFromEnd
    <3>2. made < CellCount /\ heapEnd' = HeapBase + made + 1
      <4>1. heapEnd + 1 < MemorySize
        BY <1>12, <2>2, <3>1, Sizes
      <4> QED
        BY <1>12, <2>2, <3>1, <4>1, Sums, Sizes
    <3>3. allocAddress' \notin live /\ allocAddress' \in HeapBase .. HeapMax - 1
      BY <1>12, <2>2, <3>1, <3>2 DEF IInv, Bumped, Issued
    <3>4. Control'
      BY <1>1, <1>2, <1>3, <1>4, <1>5, <1>6, <2>4, <3>1 DEF Control
    <3>5. Bumped'
      BY <1>1, <1>4, <1>12, <2>2, <2>4, <3>1, <3>2 DEF IInv, Bumped, answered
    <3>6. Ended'
      BY <1>1, <1>3, <1>4, <2>1, <3>1 DEF IInv, Ended
    <3>7. Requested'
      BY <1>1, <1>3, <1>4, <2>2, <2>4, <3>1, <3>3 DEF IInv, Requested
    <3> QED
      BY <1>4, <1>9, <1>10, <2>3, <3>4, <3>5, <3>6, <3>7
  <2>9. CASE AllocFromList(wHeapAlloc)
    <3>1. /\ heapState = "INIT" /\ heapState' = "UPDATE_HEAP_FREE" /\ ~heapFinished'
          /\ heapEnd = HeapMax /\ UNCHANGED <<heapFree, heapEnd, allocAddress>>
      BY <2>9 DEF AllocFromList
    <3>2. Control'
      BY <1>1, <1>2, <1>3, <1>4, <1>5, <1>6, <2>4, <3>1 DEF Control
    <3>3. Bumped'
      BY <1>1, <1>3, <1>4, <2>1, <2>4, <3>1 DEF IInv, Bumped, answered
    <3>4. Ended'
      BY <1>1, <1>3, <1>4, <2>1, <3>1 DEF IInv, Ended
    <3>5. Requested'
      BY <1>1, <1>3, <1>4, <2>4, <3>1 DEF IInv, Requested
    <3> QED
      BY <1>4, <1>9, <1>10, <2>3, <3>2, <3>3, <3>4, <3>5
  <2>10. CASE UpdateHeapFree(heapOut)
    <3>1. /\ heapState = "UPDATE_HEAP_FREE" /\ heapState' = "INIT" /\ heapFinished'
          /\ allocAddress' = heapFree /\ heapEnd' = heapEnd
      BY <2>10 DEF UpdateHeapFree
    <3>2. made = CellCount
      BY <1>12, <2>2, <3>1 DEF IInv, Control
    <3>3. heapFree \in Issued \ live
      BY <1>3, <2>1, <2>2, <3>2 DEF IInv, Ended, Requested
    <3>4. allocAddress' \notin live /\ allocAddress' \in HeapBase .. HeapMax - 1
      BY <1>12, <3>1, <3>2, <3>3 DEF Issued
    <3>5. Control'
      BY <1>1, <1>2, <1>3, <1>4, <1>5, <1>6, <2>4, <3>1 DEF Control
    <3>6. Bumped'
      BY <1>1, <1>3, <1>4, <1>12, <2>2, <2>4, <3>1, <3>2 DEF IInv, Bumped, answered
    <3>7. Ended'
      BY <1>1, <1>4, <2>4, <3>1, <3>2 DEF Ended
    <3>8. Requested'
      BY <1>1, <1>3, <1>4, <1>12, <2>4, <3>1, <3>2, <3>4 DEF IInv, Requested
    <3> QED
      BY <1>4, <1>9, <1>10, <2>3, <3>5, <3>6, <3>7, <3>8
  <2> QED
    BY <2>5, <2>6, <2>7, <2>8, <2>9, <2>10 DEF HeapClock, HeapIdle, StartFree, WriteFree
<1> QED
  BY <1>13, <1>14

\* Outside the words copied so far nothing is copied, at first nothing at all.
LEMMA NoneCopied ==
    ASSUME Types, NEW k \in MemoryAddresses
    PROVE  ~(k >= MemorySize - request.words /\ k < MemorySize - request.words + 0)
<1>1. request.words \in Nat /\ MemorySize - request.words \in Int /\ k \in Int
  BY RequestTypes, Sizes DEF MemoryAddresses
<1> QED
  BY <1>1

\* Each of the three pointers is written to its own word, once and once more.
LEMMA WriteStep ==
    ASSUME IInv, Wait, WritePointers
    PROVE  /\ Control' /\ Bumped' /\ Ended' /\ Requested'
           /\ Fits' /\ Pointers' /\ Copying' /\ Cells'
<1>1. /\ enabled /\ handler' = "busy" /\ Edge(request)
      /\ UNCHANGED <<request, live, freed, made, before>>
  BY DEF Wait
<1>2. /\ paState \in DOMAIN WriteOrder /\ paState' = WriteOrder[paState]
      /\ ~paFinished' /\ UNCHANGED <<rAllocatedPid, rOldStackPointers>>
  BY DEF WritePointers
<1>3. /\ paState \in Pasts /\ paState' \in Pasts
      /\ paState \notin {"INIT", "WAIT_FOR_HEAP_FREE", "READ_OLD_STACK_POINTER",
                         "ALLOC", "COPY"}
      /\ paState' \notin {"INIT", "WAIT_FOR_HEAP_FREE", "READ_OLD_STACK_POINTER"}
      /\ popped' /\ (paState' = "COPY" => paState = "WRITE_PC_1")
  BY <1>2, Order DEF Pasts, popped
<1>4. handler = "busy" /\ creating /\ ~freeing /\ request.create
  BY <1>1, <1>3, RequestTypes DEF IInv, Control, enabled, creating, freeing
<1>5. /\ Fits' /\ parent' = parent /\ sp' = sp /\ Issued' = Issued
      /\ creating' /\ ~freeing'
  BY <1>1, <1>4, BusyKeeps
<1>6. copierState' = "WAIT" /\ ~memoryCycle' /\ copyFrom' = oldStackPointer
  BY <1>1, <1>3, <1>4, CopierWaits DEF IInv
<1>7. heapState = "INIT" /\ heapState' = "INIT" /\ UNCHANGED allocAddress
  BY <1>1, <1>3, <1>4, HeapWaits DEF IInv
<1>8. taken /\ taken'
  BY <1>3, <1>4, <1>5 DEF taken
<1>9. Bumped' /\ Ended' /\ Requested'
  BY <1>2, <1>3, <1>4, <1>8, NumbersKept DEF IInv, Requested
<1>10. Control'
  BY <1>1, <1>2, <1>3, <1>4, <1>5, <1>6, <1>7 DEF Control
<1>11. rOldStackPointers = parent[0] /\ oldStackPointer = sp
  BY <1>3, <1>4 DEF IInv, Pointers, oldStackPointer, sp
<1>12. Pointers'
  BY <1>2, <1>3, <1>5, <1>6, <1>11 DEF Pointers
<1>13. Copying'
  BY <1>6 DEF Copying
<1>14. copied = 0 /\ copied' = 0
  BY <1>2, <1>3, <1>6 DEF copied
<1>15. OldCell /\ NewCell /\ OtherCells
  BY <1>4 DEF IInv, Cells
<1>16. /\ rAllocatedPid # request.pid
       /\ rAllocatedPid \in CellNumbers /\ request.pid \in CellNumbers
       /\ rAllocatedPid' = rAllocatedPid /\ request' = request
  BY <1>1, <1>2, <1>3, <1>8, NewIsNotOld, RequestTypes DEF IInv, Types, TypeOK
<1>17. CellsClock(request) /\ ~wCopierEnabled
  BY <1>1, <1>3 DEF Edge, wCopierEnabled
<1>18. /\ cells[request.pid] \in Cell /\ cells[rAllocatedPid] \in Cell
  BY <1>16 DEF IInv, Types, TypeOK, Cell, Word
<1>19. /\ cells'[request.pid] = Stored(cells[request.pid], oldPort(request))
       /\ cells'[rAllocatedPid] = Stored(cells[rAllocatedPid], newPort(request))
       /\ \A p \in CellNumbers :
            p # request.pid /\ p # rAllocatedPid => cells'[p] = cells[p]
  BY <1>16, <1>17, CellPorts DEF IInv
<1>20. OtherCells'
  BY <1>1, <1>3, <1>15, <1>16, <1>19 DEF OtherCells
<1>21. \A k \in MemoryAddresses :
         /\ ~(k >= MemorySize - request.words /\ k < MemorySize - request.words + copied)
         /\ ~(k >= MemorySize - request.words /\ k < MemorySize - request.words + copied')
  BY <1>14, NoneCopied DEF IInv
<1>22. SUFFICES OldCell' /\ NewCell'
  BY <1>5, <1>9, <1>10, <1>12, <1>13, <1>20 DEF Cells
<1>23. CASE paState \in {"WRITE_UPDATED_SP_0", "WRITE_UPDATED_SP_1"}
  <2>1. /\ oldPort(request) = Write(0, updatedStackPointers(request))
        /\ newPort(request) = NoAccess
    BY <1>17, <1>23 DEF oldPort, newPort
  <2>2. updatedStackPointers(request) = Pair(Plus(sp, request.words), Low(parent[0]))
    BY <1>11 DEF updatedStackPointers
  <2>3. /\ cells'[request.pid][0] = Pair(Plus(sp, request.words), Low(parent[0]))
        /\ \A k \in MemoryAddresses \ {0} : cells'[request.pid][k] = cells[request.pid][k]
        /\ cells'[rAllocatedPid] = cells[rAllocatedPid]
    BY <1>18, <1>19, <2>1, <2>2, StoredFacts, PortFacts, Addresses
  <2>4. OldCell'
    BY <1>3, <1>5, <1>15, <1>16, <2>3 DEF OldCell
  <2>5. ~started /\ ~started' /\ ~linked /\ ~linked'
    BY <1>2, <1>23, Order DEF started, linked
  <2>6. NewCell'
    BY <1>1, <1>3, <1>5, <1>15, <1>16, <1>21, <2>3, <2>5 DEF NewCell
  <2> QED
    BY <2>4, <2>6
<1>24. CASE paState \in {"WRITE_SP_0", "WRITE_SP_1"}
  <2>1. /\ oldPort(request) = NoAccess
        /\ newPort(request) = Write(0, Pair(newStackPointer(request), 0))
    BY <1>17, <1>24 DEF oldPort, newPort
  <2>2. /\ cells'[rAllocatedPid][0] = Pair(newStackPointer(request), 0)
        /\ \A k \in MemoryAddresses \ {0} : cells'[rAllocatedPid][k] = cells[rAllocatedPid][k]
        /\ cells'[request.pid] = cells[request.pid]
    BY <1>18, <1>19, <2>1, StoredFacts, PortFacts, Addresses
  <2>3. popped /\ started' /\ ~linked /\ ~linked'
    BY <1>2, <1>24, Order DEF popped, started, linked, Pasts
  <2>4. OldCell'
    BY <1>3, <1>5, <1>15, <1>16, <2>2, <2>3 DEF OldCell
  <2>5. NewCell'
    BY <1>1, <1>3, <1>5, <1>15, <1>16, <1>21, <2>2, <2>3 DEF NewCell
  <2> QED
    BY <2>4, <2>5
<1>25. CASE paState \in {"WRITE_PC_0", "WRITE_PC_1"}
  <2>1. oldPort(request) = NoAccess /\ newPort(request) = Write(1, request.pc)
    BY <1>17, <1>25 DEF oldPort, newPort
  <2>2. /\ cells'[rAllocatedPid][1] = request.pc
        /\ \A k \in MemoryAddresses \ {1} : cells'[rAllocatedPid][k] = cells[rAllocatedPid][k]
        /\ cells'[request.pid] = cells[request.pid]
    BY <1>18, <1>19, <2>1, StoredFacts, PortFacts, Addresses
  <2>3. popped /\ started /\ started' /\ linked'
    BY <1>2, <1>25, Order DEF popped, started, linked, Pasts
  <2>4. OldCell'
    BY <1>3, <1>5, <1>15, <1>16, <2>2, <2>3 DEF OldCell
  <2>5. NewCell'
    BY <1>1, <1>3, <1>5, <1>15, <1>16, <1>21, <2>2, <2>3 DEF NewCell
  <2> QED
    BY <2>4, <2>5
<1> QED
  BY <1>2, <1>23, <1>24, <1>25, Order

\* The words passed lie at the end of the parent's cell and of the new one.
LEMMA WordPlaces ==
    ASSUME IInv, creating, NEW i \in 0 .. request.words - 1
    PROVE  /\ sp \in Nat /\ sp + i < MemorySize
           /\ sp > 0
           /\ Plus(sp, i) = sp + i
           /\ sp + i \in MemoryAddresses \ {0}
           /\ MemorySize - request.words + i \in MemoryAddresses \ {0, 1}
           /\ Plus(sp, (MemorySize - request.words + i) + request.words) = sp + i
<1> DEFINE n == request.words
<1>1. n \in Nat /\ n <= MaxWords /\ i \in Nat /\ i < n
  BY RequestTypes, Sizes DEF IInv
<1>2. PICK s \in n .. MaxWords : sp = (MemorySize - s) % MemorySize
  BY DEF IInv, Fits, creating, sp, parent
<1>3. sp = MemorySize - s
  <2>1. MemorySize - s \in Nat /\ MemorySize - s < MemorySize
    BY <1>1, <1>2, Sizes
  <2> QED
    BY <1>2, <2>1, Remainders
<1>4. sp \in Nat /\ sp > 0 /\ sp + i < MemorySize
  BY <1>1, <1>2, <1>3, Sizes
<1>5. Plus(sp, i) = sp + i
  BY <1>1, <1>4, Sums
<1>6. sp + i \in MemoryAddresses \ {0}
  BY <1>1, <1>4, Sizes DEF MemoryAddresses
<1>7. MemorySize - n + i \in MemoryAddresses \ {0, 1}
  BY <1>1, Sizes DEF MemoryAddresses
<1>8. Plus(sp, (MemorySize - n + i) + n) = sp + i
  <2>1. PICK m \in Nat : m = sp + i
    BY <1>1, <1>4
  <2>2. (MemorySize + m) % MemorySize = m
    <3>1. MemorySize \in Nat \ {0} /\ MemorySize + m \in Nat
          /\ MemorySize + m < MemorySize + MemorySize
      BY <1>4, <2>1, Sizes
    <3>2. (MemorySize + m) % MemorySize
            = IF MemorySize + m < MemorySize THEN MemorySize + m
                                             ELSE (MemorySize + m) - MemorySize
      BY <3>1, WrapsOnce
    <3> QED
      BY <2>1, <3>1, <3>2, Sizes
  <2>3. sp + ((MemorySize - n + i) + n) = MemorySize + m
    BY <1>1, <1>4, <2>1, Sizes
  <2> QED
    BY <2>1, <2>2, <2>3 DEF Plus
<1> QED
  BY <1>4, <1>5, <1>6, <1>7, <1>8

\* Every edge in COPY keeps all but the copier and the cells.
LEMMA CopyKeeps ==
    ASSUME IInv, Wait, Copy
    PROVE  /\ Bumped' /\ Ended' /\ Requested' /\ Fits' /\ OtherCells'
           /\ OldCell /\ NewCell
           /\ creating /\ ~paFinished /\ parent' = parent /\ sp' = sp
           /\ creating' /\ ~freeing'
           /\ popped /\ popped' /\ started /\ started' /\ linked /\ linked'
           /\ paState = "COPY" /\ paState' = "COPY"
           /\ paFinished' = copierFinished
           /\ handler = "busy" /\ handler' = "busy"
           /\ UNCHANGED <<request, before, rAllocatedPid, rOldStackPointers>>
           /\ heapState' = "INIT"
           /\ rAllocatedPid # request.pid
           /\ rAllocatedPid \in CellNumbers /\ request.pid \in CellNumbers
           /\ cells[request.pid] \in Cell /\ cells[rAllocatedPid] \in Cell
           /\ cells'[request.pid] = Stored(cells[request.pid], oldPort(request))
           /\ cells'[rAllocatedPid] = Stored(cells[rAllocatedPid], newPort(request))
           /\ oldOut' = Answer(cells[request.pid], oldPort(request))
           /\ rOldStackPointers = parent[0] /\ oldStackPointer = sp
           /\ CopierClock(wCopierEnabled, oldOut, sp, newStackPointer(request), request.words)
<1>1. /\ enabled /\ handler' = "busy" /\ Edge(request)
      /\ UNCHANGED <<request, live, freed, made, before>>
  BY DEF Wait
<1>2. /\ paState = "COPY" /\ paState' = "COPY" /\ paFinished' = copierFinished
      /\ UNCHANGED <<rAllocatedPid, rOldStackPointers>>
  BY DEF Copy
<1>3. paState \in Pasts /\ paState' \in Pasts
  BY <1>2 DEF Pasts
<1>4. handler = "busy" /\ creating /\ ~freeing /\ request.create /\ ~paFinished
  BY <1>1, <1>2, RequestTypes DEF IInv, Control, enabled, creating, freeing
<1>5. /\ Fits' /\ parent' = parent /\ sp' = sp /\ Issued' = Issued
      /\ creating' /\ ~freeing'
  BY <1>1, <1>4, BusyKeeps
<1>6. heapState' = "INIT"
  BY <1>1, <1>2, <1>4, HeapWaits DEF IInv
<1>7. taken /\ taken'
  BY <1>3, <1>4, <1>5 DEF taken
<1>8. Bumped' /\ Ended' /\ Requested'
  BY <1>2, <1>3, <1>4, <1>7, NumbersKept DEF IInv, Requested
<1>9. OldCell /\ NewCell /\ OtherCells
  BY <1>4 DEF IInv, Cells
<1>10. rAllocatedPid # request.pid
       /\ rAllocatedPid \in CellNumbers /\ request.pid \in CellNumbers
  BY <1>3, <1>7, NewIsNotOld, RequestTypes DEF IInv, Types, TypeOK
<1>11. cells[request.pid] \in Cell /\ cells[rAllocatedPid] \in Cell
  BY <1>10 DEF IInv, Types, TypeOK, Cell, Word
<1>12. /\ cells'[request.pid] = Stored(cells[request.pid], oldPort(request))
       /\ cells'[rAllocatedPid] = Stored(cells[rAllocatedPid], newPort(request))
       /\ \A p \in CellNumbers :
            p # request.pid /\ p # rAllocatedPid => cells'[p] = cells[p]
       /\ oldOut' = Answer(cells[request.pid], oldPort(request))
  BY <1>1, <1>10, CellPorts DEF IInv, Edge
<1>13. OtherCells'
  BY <1>1, <1>2, <1>3, <1>9, <1>12 DEF OtherCells
<1>14. rOldStackPointers = parent[0] /\ oldStackPointer = sp
  BY <1>2, <1>4 DEF IInv, Pointers, oldStackPointer, sp
<1>15. CopierClock(wCopierEnabled, oldOut, sp, newStackPointer(request), request.words)
  BY <1>1, <1>14 DEF Edge, PartsClock
<1>16. popped /\ popped' /\ started /\ started' /\ linked /\ linked'
  BY <1>2, <1>3 DEF popped, started, linked
<1> QED
  BY <1>1, <1>2, <1>4, <1>5, <1>6, <1>8, <1>9, <1>10, <1>11, <1>12, <1>13, <1>14,
     <1>15, <1>16

\* An edge in COPY at which nothing is written.
LEMMA CopyReads ==
    ASSUME IInv, Wait, Copy, copied' = copied,
           oldPort(request) = NoAccess \/ \E a : oldPort(request) = Read(a),
           newPort(request) = NoAccess \/ \E a : newPort(request) = Read(a)
    PROVE  Cells'
<1>1. ~oldPort(request).write /\ ~newPort(request).write
  BY PortFacts
<1>2. cells' = cells
  BY <1>1, CellsWait DEF IInv, Wait, Edge
<1>3. /\ OldCell /\ NewCell /\ OtherCells'
      /\ popped /\ popped' /\ started /\ started' /\ linked /\ linked'
      /\ paState = "COPY" /\ paState' = "COPY" /\ parent' = parent /\ sp' = sp
      /\ UNCHANGED <<request, before, rAllocatedPid>>
  BY CopyKeeps
<1>4. paState \in Pasts
  BY <1>3 DEF Pasts
<1>5. OldCell'
  BY <1>2, <1>3 DEF OldCell
<1>6. NewCell'
  BY <1>2, <1>3, <1>4 DEF NewCell
<1> QED
  BY <1>3, <1>5, <1>6 DEF Cells

\* An edge in COPY that writes the next word, or writes it once more.
LEMMA CopyWrites ==
    ASSUME IInv, Wait, Copy,
           NEW w \in 1 .. request.words,
           copied = w - 1 \/ copied = w, copied' = w,
           \E a : oldPort(request) = Read(a),
           newPort(request) =
             Write(MemorySize - request.words + w - 1, parent[Plus(sp, w - 1)])
    PROVE  Cells'
<1> DEFINE n == request.words
           at == MemorySize - n + (w - 1)
<1>1. n \in Nat /\ w \in Nat /\ w - 1 \in 0 .. n - 1 /\ MemorySize \in Nat
  BY RequestTypes, Sizes DEF IInv
<1>2. /\ OldCell /\ NewCell /\ OtherCells' /\ creating
      /\ popped /\ popped' /\ started /\ started' /\ linked /\ linked'
      /\ paState = "COPY" /\ paState' = "COPY" /\ parent' = parent /\ sp' = sp
      /\ UNCHANGED <<request, before, rAllocatedPid>>
      /\ cells[request.pid] \in Cell /\ cells[rAllocatedPid] \in Cell
      /\ cells'[request.pid] = Stored(cells[request.pid], oldPort(request))
      /\ cells'[rAllocatedPid] = Stored(cells[rAllocatedPid], newPort(request))
  BY CopyKeeps
<1>3. paState \in Pasts
  BY <1>2 DEF Pasts
<1>4. /\ Plus(sp, w - 1) = sp + (w - 1)
      /\ at \in MemoryAddresses \ {0, 1}
      /\ Plus(sp, at + n) = sp + (w - 1)
  BY <1>1, <1>2, WordPlaces
<1>5. MemorySize - n + w - 1 = at
  BY <1>1
<1>6. /\ cells'[rAllocatedPid][at] = parent[Plus(sp, at + n)]
      /\ \A k \in MemoryAddresses \ {at} : cells'[rAllocatedPid][k] = cells[rAllocatedPid][k]
  BY <1>2, <1>4, <1>5, StoredFacts, PortFacts
<1>7. cells'[request.pid] = cells[request.pid]
  BY <1>2, StoredFacts, PortFacts
<1>8. OldCell'
  BY <1>2, <1>7 DEF OldCell
<1>9. ASSUME NEW k \in MemoryAddresses
      PROVE  /\ k # at => (k >= MemorySize - n /\ k < MemorySize - n + copied
                             <=> k >= MemorySize - n /\ k < MemorySize - n + w)
             /\ k = at => k >= MemorySize - n /\ k < MemorySize - n + w
  BY <1>1 DEF MemoryAddresses
<1> HIDE DEF at
<1>10. NewCell'
  <2> SUFFICES ASSUME NEW k \in MemoryAddresses
               PROVE  cells'[rAllocatedPid][k] =
                        CASE k = 0 -> Pair(newStackPointer(request), 0)
                          [] k = 1 -> request.pc
                          [] k >= MemorySize - n /\ k < MemorySize - n + w ->
                                parent[Plus(sp, k + n)]
                          [] OTHER -> before[rAllocatedPid][k]
    BY <1>2 DEF NewCell
  <2>1. CASE k = at
    BY <1>4, <1>6, <1>9, <2>1
  <2>2. CASE k # at
    BY <1>2, <1>3, <1>6, <1>9, <2>2 DEF NewCell
  <2> QED
    BY <2>1, <2>2
<1> QED
  BY <1>2, <1>8, <1>10 DEF Cells

LEMMA CopyStep ==
    ASSUME IInv, Wait, Copy
    PROVE  /\ Control' /\ Bumped' /\ Ended' /\ Requested'
           /\ Fits' /\ Pointers' /\ Copying' /\ Cells'
<1> DEFINE n == request.words
<1>1. /\ Bumped' /\ Ended' /\ Requested' /\ Fits'
      /\ OldCell /\ creating /\ ~paFinished /\ parent' = parent /\ sp' = sp
      /\ creating' /\ ~freeing'
      /\ paState = "COPY" /\ paState' = "COPY" /\ paFinished' = copierFinished
      /\ handler = "busy" /\ handler' = "busy"
      /\ UNCHANGED <<request, before, rOldStackPointers>>
      /\ heapState' = "INIT"
      /\ oldOut' = Answer(cells[request.pid], oldPort(request))
      /\ rOldStackPointers = parent[0]
      /\ CopierClock(wCopierEnabled, oldOut, sp, newStackPointer(request), n)
  BY CopyKeeps
<1>2. /\ n \in Nat /\ MemorySize \in Nat /\ n + 2 < MemorySize
      /\ wordsCopied \in Nat
  BY RequestTypes, Sizes DEF IInv, Types, TypeOK, MemoryAddresses
<1>3. /\ memoryCycle \in BOOLEAN
      /\ copierState \in {"WAIT", "READ_WRITE", "DONE"}
  BY DEF IInv, Types
<1>4. wCopierEnabled <=> copierState # "DONE"
  BY <1>1 DEF wCopierEnabled, copierFinished
<1>5. /\ oldPort(request) = IF wCopierEnabled THEN Read(copyFrom) ELSE NoAccess
      /\ newPort(request) =
           IF wCopierEnabled
             THEN IF copierWrites THEN Write(copyTo, copyWord) ELSE Read(copyTo)
             ELSE NoAccess
  BY <1>1 DEF oldPort, newPort
<1>6. ASSUME wCopierEnabled, copyFrom \in MemoryAddresses \ {0}
      PROVE  oldOut' = parent[copyFrom]
  BY <1>1, <1>5, <1>6, PortFacts, Addresses DEF Answer, OldCell
<1>7. ASSUME copierState' = "DONE" => ~memoryCycle',
             paFinished' => copierState' = "WAIT" /\ ~memoryCycle'
      PROVE  Control'
  BY <1>1, <1>7 DEF Control
<1>8. ASSUME copierState' = "WAIT" /\ ~paFinished' => copyFrom' = sp
      PROVE  Pointers'
  BY <1>1, <1>8 DEF Pointers
<1>9. CASE copierState = "WAIT" /\ ~memoryCycle
  <2>1. /\ copierState' = "WAIT" /\ memoryCycle' /\ copyFrom' = sp
        /\ wordsCopied' = 0 /\ ~paFinished'
    BY <1>1, <1>4, <1>9 DEF CopierClock, CopierFirstCycle, CopierSecondCycle, copierFinished
  <2>2. copyFrom = sp
    BY <1>1, <1>9 DEF IInv, Pointers, Pasts
  <2>3. n > 0 => oldOut' = parent[sp]
    <3>1. n > 0 => sp + 0 \in MemoryAddresses \ {0} /\ sp \in Nat
      BY <1>1, <1>2, WordPlaces
    <3> QED
      BY <1>4, <1>6, <1>9, <2>2, <3>1
  <2>4. Copying'
    BY <1>1, <2>1, <2>3 DEF Copying
  <2>5. copied = 0 /\ copied' = 0
    BY <1>1, <1>9, <2>1 DEF copied
  <2>6. Cells'
    BY <1>4, <1>5, <1>9, <2>5, CopyReads DEF copierWrites
  <2> QED
    BY <1>1, <1>7, <1>8, <2>1, <2>4, <2>6
<1>10. CASE copierState = "WAIT" /\ memoryCycle
  <2>1. /\ wordsCopied = 0 /\ copyFrom = sp /\ (n > 0 => oldOut = parent[sp])
    BY <1>1, <1>10 DEF IInv, Copying, Pointers, Pasts
  <2>2. /\ copyWord' = oldOut /\ copyFrom' = Plus(sp, 1)
        /\ wordsCopied' = Plus(0, 1) /\ copyTo' = newStackPointer(request)
        /\ copierState' = (IF 0 = n THEN "DONE" ELSE "READ_WRITE")
        /\ ~memoryCycle' /\ ~paFinished'
    BY <1>1, <1>4, <1>10, <2>1
       DEF CopierClock, CopierFirstCycle, CopierSecondCycle, copierFinished, copierWrites
  <2>3. wordsCopied' = 1
    BY <1>2, <2>2, Sums
  <2>4. Copying'
    <3>1. ASSUME n > 0
          PROVE  /\ copyTo' = MemorySize - n + 1 - 1
                 /\ copyWord' = parent[Plus(sp, 1 - 1)]
      <4>1. 0 \in 0 .. n - 1
        BY <1>2, <3>1
      <4>2. Plus(sp, 0) = sp + 0 /\ sp \in Nat
        BY <1>1, <4>1, WordPlaces
      <4>3. newStackPointer(request) = MemorySize - n
        <5>1. MemorySize - n \in Nat /\ MemorySize - n < MemorySize
          BY <1>2, <3>1
        <5> QED
          BY <5>1, Remainders DEF newStackPointer
      <4> QED
        BY <1>2, <2>1, <2>2, <3>1, <4>2, <4>3
    <3> QED
      BY <1>1, <1>2, <2>2, <2>3, <3>1 DEF Copying
  <2>5. copied = 0 /\ copied' = 0
    BY <1>1, <1>10, <2>2, <2>3 DEF copied
  <2>6. Cells'
    BY <1>4, <1>5, <1>10, <2>5, CopyReads DEF copierWrites
  <2> QED
    BY <1>1, <1>7, <1>8, <2>2, <2>4, <2>6
<1>11. ASSUME copierState = "READ_WRITE"
       PROVE  /\ wordsCopied \in 1 .. n
              /\ copyFrom = Plus(sp, wordsCopied)
              /\ copyTo = MemorySize - n + wordsCopied - 1
              /\ copyWord = parent[Plus(sp, wordsCopied - 1)]
              /\ newPort(request) = Write(copyTo, copyWord)
              /\ oldPort(request) = Read(copyFrom)
              /\ memoryCycle /\ wordsCopied < n => oldOut = parent[Plus(sp, wordsCopied)]
  BY <1>4, <1>5, <1>11 DEF IInv, Copying, copierWrites
<1>12. CASE copierState = "READ_WRITE" /\ ~memoryCycle
  <2>1. /\ copierState' = "READ_WRITE" /\ memoryCycle' /\ ~paFinished'
        /\ UNCHANGED <<copyFrom, copyTo, wordsCopied, copyWord>>
    BY <1>1, <1>4, <1>12 DEF CopierClock, CopierFirstCycle, CopierSecondCycle, copierFinished
  <2>2. wordsCopied < n => oldOut' = parent[Plus(sp, wordsCopied)]
    <3>1. ASSUME wordsCopied < n PROVE copyFrom \in MemoryAddresses \ {0}
      <4>1. wordsCopied \in 0 .. n - 1
        BY <1>2, <3>1
      <4> QED
        BY <1>1, <1>11, <1>12, <4>1, WordPlaces
    <3> QED
      BY <1>4, <1>6, <1>11, <1>12, <3>1
  <2>3. Copying'
    BY <1>1, <1>11, <1>12, <2>1, <2>2 DEF Copying
  <2>4. copied = wordsCopied - 1 /\ copied' = wordsCopied
    BY <1>1, <1>12, <2>1 DEF copied
  <2>5. Cells'
    BY <1>11, <1>12, <2>4, CopyWrites
  <2> QED
    BY <1>1, <1>7, <1>8, <2>1, <2>3, <2>5
<1>13. CASE copierState = "READ_WRITE" /\ memoryCycle
  <2>1. /\ copyWord' = oldOut /\ copyFrom' = Plus(copyFrom, 1)
        /\ wordsCopied' = Plus(wordsCopied, 1) /\ copyTo' = Plus(copyTo, 1)
        /\ copierState' = (IF wordsCopied = n THEN "DONE" ELSE "READ_WRITE")
        /\ ~memoryCycle' /\ ~paFinished'
    BY <1>1, <1>4, <1>13
       DEF CopierClock, CopierFirstCycle, CopierSecondCycle, copierFinished, copierWrites
  <2>2. wordsCopied' = wordsCopied + 1 /\ wordsCopied' - 1 = wordsCopied
    <3>1. wordsCopied + 1 < MemorySize
      BY <1>2, <1>11, <1>13
    <3> QED
      BY <1>2, <2>1, <3>1, Sums
  <2>3. Copying'
    <3>1. ASSUME wordsCopied < n
          PROVE  /\ copyFrom' = Plus(sp, wordsCopied + 1)
                 /\ copyTo' = MemorySize - n + (wordsCopied + 1) - 1
                 /\ copyWord' = parent[Plus(sp, wordsCopied)]
      <4>1. wordsCopied \in 0 .. n - 1
        BY <1>2, <3>1
      <4>2. sp \in Nat /\ copyFrom = sp + wordsCopied
        BY <1>1, <1>11, <1>13, <4>1, WordPlaces
      <4>3. Plus(copyFrom, 1) = Plus(sp, wordsCopied + 1)
        <5>1. (sp + wordsCopied) + 1 = sp + (wordsCopied + 1)
          BY <1>2, <4>2
        <5> QED
          BY <4>2, <5>1 DEF Plus
      <4>4. Plus(copyTo, 1) = copyTo + 1
        <5>1. copyTo \in Nat /\ copyTo + 1 < MemorySize
          BY <1>2, <1>11, <1>13, <3>1
        <5> QED
          BY <5>1, Sums
      <4> QED
        BY <1>2, <1>11, <1>13, <2>1, <3>1, <4>3, <4>4
    <3>2. copierState' = "READ_WRITE" => wordsCopied < n
      BY <1>2, <1>11, <1>13, <2>1
    <3> QED
      BY <1>1, <1>2, <2>1, <2>2, <3>1, <3>2 DEF Copying
  <2>4. copied = wordsCopied /\ copied' = wordsCopied
    BY <1>1, <1>13, <2>1, <2>2 DEF copied
  <2>5. Cells'
    BY <1>11, <1>13, <2>4, CopyWrites
  <2> QED
    BY <1>1, <1>7, <1>8, <2>1, <2>3, <2>5
<1>14. CASE copierState = "DONE"
  <2>1. ~memoryCycle
    BY <1>14 DEF IInv, Control
  <2>2. copierState' = "WAIT" /\ ~memoryCycle' /\ paFinished'
    BY <1>1, <1>4, <1>14, <2>1 DEF CopierClock, CopierFirstCycle, CopierSecondCycle, copierFinished
  <2>3. Copying'
    BY <2>2 DEF Copying
  <2>4. copied = n /\ copied' = n
    BY <1>1, <1>14, <2>2 DEF copied
  <2>5. Cells'
    BY <1>4, <1>5, <1>14, <2>4, CopyReads
  <2> QED
    BY <1>1, <1>7, <1>8, <2>2, <2>3, <2>5
<1> QED
  BY <1>3, <1>9, <1>10, <1>12, <1>13, <1>14

-----------------------------------------------------------------------------
(* The theorems.                                                           *)

\* Every cell is given out once, and then one of them a second time.
FirstReuse == MaxMade <= HeapMax - HeapBase + 1

LEMMA InitIInv == Init => IInv
<1> SUFFICES ASSUME Init PROVE IInv
  OBVIOUS
<1> USE DEF Init, AllocatorInit, HeapInit, CopierInit
<1>1. Types
  BY InitTypes
<1>2. paState \notin Pasts
  BY Order DEF Pasts
<1>3. ~taken /\ ~creating /\ ~freeing
  BY DEF taken, creating, freeing
<1>4. Control
  BY <1>3 DEF Control
<1>5. Bumped
  BY <1>3, Sizes DEF Bumped, answered, CellCount
<1>6. live = Issued
  BY Sizes DEF Issued
<1>7. Ended /\ Requested
  BY <1>2, <1>3, <1>6 DEF Ended, Requested
<1>8. Fits
  BY Addresses DEF Fits
<1>9. Pointers /\ Copying /\ Cells
  BY <1>2, <1>3 DEF Pointers, Copying, Cells
<1> QED
  BY <1>1, <1>4, <1>5, <1>7, <1>8, <1>9 DEF IInv

LEMMA StepIInv ==
    ASSUME FirstReuse, IInv, [Next]_vars
    PROVE  IInv'
<1>1. Types'
  BY NextTypes DEF IInv
<1> SUFFICES /\ Control' /\ Bumped' /\ Ended' /\ Requested'
             /\ Fits' /\ Pointers' /\ Copying' /\ Cells'
  BY <1>1 DEF IInv
<1>2. made \in Nat /\ CellCount \in Nat \ {0} /\ CellCount = HeapMax - HeapBase
  BY Sizes DEF IInv, Types, CellCount
<1>3. CASE AskFirst
  <2> DEFINE r == [create |-> TRUE, words |-> 0, pc |-> 0, pid |-> 0]
  <2>1. Ask(r) /\ made = 0 /\ cells' = cells /\ handler = "idle"
    BY <1>3 DEF AskFirst, Ask
  <2>2. cells[0] = SavedCell(0, 0)
    BY <2>1 DEF IInv, Fits
  <2>3. 0 \in 0 .. MaxWords
    BY Sizes
  <2>4. High(cells'[0][0]) = (MemorySize - 0) % MemorySize
    BY <2>1, <2>2, <2>3, Addresses, SavedCellType
  <2>5. \E s \in r.words .. MaxWords : High(cells'[r.pid][0]) = (MemorySize - s) % MemorySize
    BY <2>3, <2>4
  <2>6. r.create \in BOOLEAN /\ r.pid \in live \cup (IF r.create THEN {0} ELSE {})
        /\ made <= CellCount /\ made # CellCount
    BY <1>2, <2>1
  <2> QED
    BY <2>1, <2>5, <2>6, AskStep
<1>4. ASSUME NEW p \in live, NEW s \in 0 .. MaxWords, NEW n \in 0 .. MaxWords,
             AskCreate(p, s, n)
      PROVE  /\ Control' /\ Bumped' /\ Ended' /\ Requested'
             /\ Fits' /\ Pointers' /\ Copying' /\ Cells'
  <2> DEFINE r == [create |-> TRUE, words |-> n, pc |-> 1, pid |-> p]
  <2>1. /\ Ask(r) /\ made < MaxMade /\ n <= s
        /\ Cardinality(live) < HeapMax - HeapBase
        /\ cells' = [cells EXCEPT ![p] = SavedCell(p, s)]
    BY <1>4 DEF AskCreate
  <2>2. p \in CellNumbers /\ cells \in [CellNumbers -> Cell]
    BY DEF IInv, Types, TypeOK, Cell, Word
  <2>3. High(cells'[p][0]) = (MemorySize - s) % MemorySize
    BY <2>1, <2>2, SavedCellType
  <2>4. \E t \in r.words .. MaxWords : High(cells'[r.pid][0]) = (MemorySize - t) % MemorySize
    <3>1. s \in n .. MaxWords
      BY <2>1, Sizes
    <3> QED
      BY <2>3, <3>1
  <2>5. made <= CellCount
    BY <1>2, <2>1, Sizes DEF FirstReuse
  <2>6. made = CellCount => live # Issued
    <3> SUFFICES ASSUME made = CellCount, live = Issued PROVE FALSE
      OBVIOUS
    <3>1. Issued = HeapBase .. HeapMax - 1
      BY <1>2, Sizes DEF Issued
    <3>2. Cardinality(HeapBase .. HeapMax - 1)
            = IF HeapBase > HeapMax - 1 THEN 0 ELSE (HeapMax - 1) - HeapBase + 1
      BY Sizes, FS_Interval
    <3> QED
      BY <2>1, <3>1, <3>2, Sizes
  <2>7. r.create \in BOOLEAN /\ r.pid \in live \cup (IF r.create THEN {0} ELSE {})
    OBVIOUS
  <2> QED
    BY <2>1, <2>4, <2>5, <2>6, <2>7, AskStep
<1>5. ASSUME NEW p \in live, AskFree(p)
      PROVE  /\ Control' /\ Bumped' /\ Ended' /\ Requested'
             /\ Fits' /\ Pointers' /\ Copying' /\ Cells'
  <2> DEFINE r == [create |-> FALSE, words |-> 0, pc |-> 0, pid |-> p]
  <2>1. Ask(r)
    BY <1>5 DEF AskFree
  <2>2. r.create = FALSE /\ r.pid \in live \cup (IF r.create THEN {0} ELSE {})
    OBVIOUS
  <2> QED
    BY <2>1, <2>2, AskStep
<1>6. CASE Wait
  BY <1>6, BeginStep, FreeStep, ReadStep, AllocStep, WriteStep, CopyStep DEF Wait, Edge
<1>7. CASE Finished
  BY <1>7, FinishedStep
<1>8. CASE Elsewhere
  BY <1>8, ElsewhereStep
<1>9. CASE UNCHANGED vars
  <2> USE <1>9 DEF vars, allocatorVars, heapVars, copierVars
  <2>1. creating' = creating /\ freeing' = freeing /\ taken' = taken /\ Issued' = Issued
        /\ parent' = parent /\ sp' = sp /\ copied' = copied /\ answered' = answered
        /\ popped' = popped /\ started' = started /\ linked' = linked
    BY DEF creating, freeing, taken, Issued, parent, sp, copied, answered, popped, started, linked
  <2>2. Control' /\ Bumped' /\ Ended' /\ Requested'
    BY <2>1 DEF IInv, Control, Bumped, Ended, Requested
  <2>3. Fits' /\ Pointers' /\ Copying'
    BY <2>1 DEF IInv, Fits, Pointers, Copying
  <2>4. Cells'
    BY <2>1 DEF IInv, Cells, OldCell, NewCell, OtherCells
  <2> QED
    BY <2>2, <2>3, <2>4
<1> QED
  BY <1>3, <1>4, <1>5, <1>6, <1>7, <1>8, <1>9 DEF Next

\* What ProcessAllocator.v, Heap.v and Copier.v hold true together.
THEOREM ProcessAllocatorInvariance ==
    ASSUME FirstReuse
    PROVE  Spec => []IInv
<1>1. IInv /\ [Next]_vars => IInv'
  BY StepIInv
<1> QED
  BY <1>1, InitIInv, PTL DEF Spec

\* No process is given the number, and so the memory cell, of one that lives
\* (ProcessAllocator.v), up to the first that is given a used one.
THEOREM ProcessesAreNew ==
    ASSUME FirstReuse
    PROVE  Spec => []NewProcessIsNew
<1>1. IInv => NewProcessIsNew
  <2> SUFFICES ASSUME IInv, Made PROVE rAllocatedPid \notin live
    BY DEF NewProcessIsNew
  <2>1. creating /\ paState = "COPY"
    BY DEF Made, creating, IInv, Control
  <2>2. paState \in Pasts /\ taken
    BY <2>1 DEF Pasts, taken
  <2> QED
    BY <2>2 DEF IInv, Requested
<1> QED
  BY <1>1, ProcessAllocatorInvariance, PTL

\* A new process finds exactly the words its parent passed, the parent has
\* popped them, and no other word of any cell is touched (Copier.v).
THEOREM StacksAreHandedOver ==
    ASSUME FirstReuse
    PROVE  Spec => []StackHandedOver
<1>1. IInv => StackHandedOver
  <2> SUFFICES ASSUME IInv, Made PROVE StackHandedOver
    BY DEF StackHandedOver
  <2> DEFINE n == request.words
             new == [k \in MemoryAddresses |->
                       CASE k = 0 -> Pair(newStackPointer(request), 0)
                         [] k = 1 -> request.pc
                         [] k >= MemorySize - n -> parent[Plus(sp, k + n)]
                         [] OTHER -> before[rAllocatedPid][k]]
             left == Pair(Plus(sp, n), Low(parent[0]))
             after == [before EXCEPT ![request.pid][0] = left, ![rAllocatedPid] = new]
  <2>1. creating /\ paState = "COPY" /\ copierState = "WAIT" /\ paFinished
    BY DEF Made, creating, IInv, Control
  <2>2. paState \in Pasts /\ taken
    BY <2>1 DEF Pasts, taken
  <2>3. /\ rAllocatedPid # request.pid
        /\ rAllocatedPid \in CellNumbers /\ request.pid \in CellNumbers
    BY <2>2, NewIsNotOld, RequestTypes DEF IInv, Types, TypeOK
  <2>4. popped /\ started /\ linked /\ copied = n
    BY <2>1, <2>2 DEF popped, started, linked, copied
  <2>5. OldCell /\ NewCell /\ OtherCells
    BY <2>1 DEF IInv, Cells
  <2>6. /\ cells \in [CellNumbers -> Cell] /\ before \in [CellNumbers -> Cell]
        /\ n \in Nat /\ MemorySize \in Nat
    BY RequestTypes, Sizes DEF IInv, Types, TypeOK, Cell, Word
  <2>7. cells[rAllocatedPid] = new
    <3>1. ASSUME NEW k \in MemoryAddresses
          PROVE  k >= MemorySize - n /\ k < MemorySize - n + n <=> k >= MemorySize - n
      BY <2>6 DEF MemoryAddresses
    <3>2. ASSUME NEW k \in MemoryAddresses
          PROVE  cells[rAllocatedPid][k] = new[k]
      BY <2>2, <2>4, <2>5, <3>1 DEF NewCell
    <3>3. cells[rAllocatedPid] \in Cell
      BY <2>3, <2>6
    <3> QED
      BY <3>2, <3>3 DEF Cell
  <2>8. cells[request.pid] = [before[request.pid] EXCEPT ![0] = left]
    <3>1. cells[request.pid] \in Cell /\ before[request.pid] \in Cell
      BY <2>3, <2>6
    <3>2. /\ cells[request.pid][0] = left
          /\ \A k \in MemoryAddresses \ {0} : cells[request.pid][k] = before[request.pid][k]
      BY <2>4, <2>5 DEF OldCell, parent
    <3> HIDE DEF left
    <3> QED
      BY <3>1, <3>2, Addresses DEF Cell
  <2>9. \A p \in CellNumbers : p # request.pid /\ p # rAllocatedPid => cells[p] = before[p]
    BY <2>2, <2>5 DEF OtherCells
  <2> HIDE DEF new, left
  <2>10. cells = after
    BY <2>3, <2>6, <2>7, <2>8, <2>9
  <2> QED
    BY <2>10 DEF StackHandedOver, new, left, parent, sp
<1> QED
  BY <1>1, ProcessAllocatorInvariance, PTL
=============================================================================
