----------------------------- MODULE HeapClient -----------------------------
(***************************************************************************)
(* The heap under every client that keeps its side of the bargain: it      *)
(* writes only to blocks it holds and returns a block once.  What it       *)
(* writes may be 0 or look like the address of a block, since a channel's  *)
(* first word is where the free list keeps its links.                      *)
(***************************************************************************)
EXTENDS Heap, Sequences

CONSTANT Words         \* the values a client may store in a word

ASSUME WordsAssumption == Words \subseteq Nat

VARIABLES live,        \* history: the blocks handed out and not returned
          held,        \* history: allocations less returns
          freeList     \* history: the returned blocks, the last one first

vars == <<heapEnd, heapFree, memory, live, held, freeList>>

Init ==
  /\ HeapInit
  /\ memory = [a \in Addresses |-> 0]
  /\ live = {} /\ held = 0
  /\ freeList = <<>>

AllocateNew ==
  /\ AllocNew(heapEnd)
  /\ live' = live \cup {heapEnd} /\ held' = held + 1
  /\ UNCHANGED <<memory, freeList>>

AllocateFreed ==
  /\ AllocFreed(heapFree)
  /\ live' = live \cup {heapFree} /\ held' = held + 1
  /\ freeList' = SubSeq(freeList, 2, Len(freeList))
  /\ UNCHANGED memory

Free(a) ==
  /\ a \in live
  /\ FreeBlock(a)
  /\ live' = live \ {a} /\ held' = held - 1
  /\ freeList' = <<a>> \o freeList

Write(a, w) ==
  /\ a \in live
  /\ memory' = [memory EXCEPT ![a] = w]
  /\ UNCHANGED <<heapEnd, heapFree, live, held, freeList>>

Next ==
  \/ AllocateNew
  \/ AllocateFreed
  \/ \E a \in live : Free(a)
  \/ \E a \in live, w \in Words : Write(a, w)

Spec == Init /\ [][Next]_vars

-----------------------------------------------------------------------------
(* Every pointer the heap keeps is an address of the heap or 0.            *)
TypeOK ==
  /\ heapEnd \in Addresses
  /\ heapFree \in Addresses \cup {0}
  /\ memory \in [Addresses -> Nat]
  /\ live \subseteq Addresses
  /\ held \in Nat
  /\ freeList \in Seq(Addresses)

(***************************************************************************)
(* Two blocks a client holds never overlap and each lies inside the part   *)
(* of the heap handed out so far (heap.rs alloc and free): a channel's     *)
(* words belong to that channel only.                                      *)
(***************************************************************************)
LiveBlocksDisjoint ==
  /\ \A a \in live : a + AllocSize <= heapEnd
  /\ \A a, b \in live : a # b => a + AllocSize <= b \/ b + AllocSize <= a

(***************************************************************************)
(* Following the links from heap_free visits exactly the returned blocks,  *)
(* each once, and ends (heap.rs alloc and free): nothing a client wrote    *)
(* into a block and no order of frees corrupts the list.                   *)
(***************************************************************************)
FreeListThreaded ==
  /\ heapFree = (IF freeList = <<>> THEN 0 ELSE freeList[1])
  /\ \A i \in 1 .. Len(freeList) :
       memory[freeList[i]] = (IF i = Len(freeList) THEN 0 ELSE freeList[i + 1])
  /\ \A i, j \in 1 .. Len(freeList) : i # j => freeList[i] # freeList[j]
  /\ \A i \in 1 .. Len(freeList) : freeList[i] \notin live

(***************************************************************************)
(* No block leaks: every block below heap_end is held by the client or on  *)
(* the free list, so Heap::alloc says "Out of memory" only when every      *)
(* block of the heap is held.                                              *)
(***************************************************************************)
BlocksUpTo(end) ==
  {a \in Addresses : (a - HeapBase) % AllocSize = 0 /\ a + AllocSize <= end}

NoBlockLeaks ==
  /\ BlocksUpTo(heapEnd) = live \cup {freeList[i] : i \in 1 .. Len(freeList)}
  /\ OutOfMemory => live = BlocksUpTo(HeapMax)

(***************************************************************************)
(* The heap implements the allocator: what Heap::alloc hands out overlaps  *)
(* nothing that is held, although the heap knows only two pointers and the *)
(* links.                                                                  *)
(***************************************************************************)
Abstract == INSTANCE Allocator
              WITH Base <- HeapBase, Max <- HeapMax, Size <- AllocSize

ImplementsAllocator == Abstract!Spec
==============================================================================
