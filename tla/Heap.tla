-------------------------------- MODULE Heap --------------------------------
(***************************************************************************)
(* The heap of the simulator (memory/heap.rs), which hands out the         *)
(* channels of a Processor.  It first extends a bump pointer (heapEnd) and *)
(* then recycles a list of freed blocks that is threaded through the       *)
(* blocks themselves: the first word of a freed block is the address of    *)
(* the block freed before it, and 0 ends the list.                         *)
(*                                                                         *)
(* The module holds the operations alone.  HeapClient drives them with     *)
(* every client that returns only what it holds; Processor drives them     *)
(* with the processes of a program.                                        *)
(***************************************************************************)
EXTENDS Naturals

CONSTANTS HeapBase,    \* the first address of the heap
          HeapMax,     \* the address after the last one
          AllocSize    \* the size of every block

(***************************************************************************)
(* Heap::new asserts that base and max differ, that base is not the        *)
(* largest u16 and that a block can hold an address.  That base is not 0   *)
(* is not asserted, but 0 ends the free list: Processor::new passes the    *)
(* number of cells.  The sum keeps heap_end + alloc_size within a u16.     *)
(***************************************************************************)
ASSUME HeapAssumption ==
  /\ HeapBase \in Nat \ {0}
  /\ HeapMax \in Nat
  /\ AllocSize \in Nat
  /\ AllocSize >= 2
  /\ HeapBase < HeapMax
  /\ HeapMax + AllocSize <= 65535

VARIABLES heapEnd,     \* heap_end: the first address never handed out
          heapFree,    \* heap_free: the last block freed, or 0
          memory       \* the first word of every block

Addresses == HeapBase .. HeapMax

HeapInit ==
  /\ heapEnd = HeapBase
  /\ heapFree = 0

HasFresh == heapEnd + AllocSize <= HeapMax

(***************************************************************************)
(* The two ways Heap::alloc finds a block, and its error.  It sets the     *)
(* heap's fields and reads memory, which stays the caller's to write.      *)
(***************************************************************************)
AllocShort(a) ==      \* mutant: the pointer stops one word early
  /\ HasFresh
  /\ a = heapEnd
  /\ heapEnd' = heapEnd + AllocSize - 1
  /\ UNCHANGED heapFree

AllocNew(a) ==
  /\ HasFresh
  /\ a = heapEnd
  /\ heapEnd' = heapEnd + AllocSize
  /\ UNCHANGED heapFree

AllocUnlinks(a) ==    \* mutant: the rest of the list is dropped
  /\ ~HasFresh
  /\ heapFree # 0
  /\ a = heapFree
  /\ heapFree' = 0
  /\ UNCHANGED heapEnd

AllocStays(a) ==      \* mutant: the block stays on the list
  /\ ~HasFresh
  /\ heapFree # 0
  /\ a = heapFree
  /\ UNCHANGED <<heapEnd, heapFree>>

AllocFreed(a) ==
  /\ ~HasFresh
  /\ heapFree # 0
  /\ a = heapFree
  /\ heapFree' = memory[a]
  /\ UNCHANGED heapEnd

OutOfMemory == ~HasFresh /\ heapFree = 0

(***************************************************************************)
(* Heap::free links the block in front of the list, whatever it holds.     *)
(***************************************************************************)
FreeSwapped(a) ==     \* mutant: heap_free is set before it is written
  /\ heapFree' = a
  /\ memory' = [memory EXCEPT ![a] = a]
  /\ UNCHANGED heapEnd

FreeBlock(a) ==
  /\ heapFree' = a
  /\ memory' = [memory EXCEPT ![a] = heapFree]
  /\ UNCHANGED heapEnd
==============================================================================
