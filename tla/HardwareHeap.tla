---------------------------- MODULE HardwareHeap ----------------------------
(***************************************************************************)
(* The heap of the hardware, stannel/Heap.v.  It extends a bump pointer    *)
(* until that meets HeapMax, and then recycles the freed blocks, which are *)
(* linked through their first words.                                       *)
(*                                                                         *)
(* HeapClock is one rising clock edge with the given inputs.  The memory   *)
(* belongs to whoever contains the heap: HeapPort is what the heap asks of *)
(* it in this cycle.                                                       *)
(***************************************************************************)
EXTENDS Memory

CONSTANTS
    HeapBase,   \* the first block
    HeapMax,    \* where the bump pointer stops
    AllocSize   \* words in a block

\* The blocks lie in memory.
ASSUME HardwareHeapAssumption ==
    /\ HeapBase \in Nat /\ HeapMax \in Nat /\ MemorySize \in Nat
    /\ AllocSize \in Nat \ {0}
    /\ HeapBase < HeapMax /\ HeapMax < MemorySize

VARIABLES
    heapState,      \* rState of the heap
    heapFree,       \* the block freed last
    heapEnd,        \* the bump pointer
    heapFinished,   \* registered output: the request is done
    allocAddress    \* the block handed out last

heapVars == <<heapState, heapFree, heapEnd, heapFinished, allocAddress>>

-----------------------------------------------------------------------------
HeapInit ==
    /\ heapState = "INIT"
    /\ heapFree = 0
    /\ heapEnd = HeapBase
    /\ heapFinished = FALSE
    /\ allocAddress = 0

HeapPort(alloc, free, freeAddress) ==
    CASE heapState = "INIT" /\ alloc /\ heapEnd = HeapMax -> Read(heapFree)
      [] heapState = "INIT" /\ ~alloc /\ free -> Write(freeAddress, heapFree)
      [] heapState = "UPDATE_HEAP_FREE" -> Read(heapFree)
      [] heapState = "WRITE_FREE" -> Write(freeAddress, heapFree)
      [] OTHER -> NoAccess

HeapIdle(alloc, free) ==
    /\ heapState = "INIT"
    /\ ~alloc /\ ~free
    /\ heapFinished' = FALSE
    /\ UNCHANGED <<heapState, heapFree, heapEnd, allocAddress>>

\* mutant: the bump pointer forgets the size of the block.
AllocOneWord(alloc) ==
    /\ heapState = "INIT"
    /\ alloc
    /\ heapEnd # HeapMax
    /\ heapEnd' = Plus(heapEnd, 1)
    /\ allocAddress' = heapEnd
    /\ heapFinished' = TRUE
    /\ UNCHANGED <<heapState, heapFree>>

\* mutant: the bump pointer does not move.
AllocStays(alloc) ==
    /\ heapState = "INIT"
    /\ alloc
    /\ heapEnd # HeapMax
    /\ allocAddress' = heapEnd
    /\ heapFinished' = TRUE
    /\ UNCHANGED <<heapState, heapFree, heapEnd>>

AllocFromEnd(alloc) ==
    /\ heapState = "INIT"
    /\ alloc
    /\ heapEnd # HeapMax
    /\ heapEnd' = Plus(heapEnd, AllocSize)
    /\ allocAddress' = heapEnd
    /\ heapFinished' = TRUE
    /\ UNCHANGED <<heapState, heapFree>>

\* At the end of the heap nothing asks whether the list has a block.
AllocFromList(alloc) ==
    /\ heapState = "INIT"
    /\ alloc
    /\ heapEnd = HeapMax
    /\ heapState' = "UPDATE_HEAP_FREE"
    /\ heapFinished' = FALSE
    /\ UNCHANGED <<heapFree, heapEnd, allocAddress>>

\* mutant: the block stays at the head of the list.
UpdateNothing(ramOut) ==
    /\ heapState = "UPDATE_HEAP_FREE"
    /\ heapState' = "INIT"
    /\ allocAddress' = heapFree
    /\ heapFinished' = TRUE
    /\ UNCHANGED <<heapFree, heapEnd>>

UpdateHeapFree(ramOut) ==
    /\ heapState = "UPDATE_HEAP_FREE"
    /\ heapState' = "INIT"
    /\ allocAddress' = heapFree
    /\ heapFree' = ramOut
    /\ heapFinished' = TRUE
    /\ UNCHANGED heapEnd

\* mutant: heapFree is set in the first cycle of the write.
StartFreeAtOnce(alloc, free, freeAddress) ==
    /\ heapState = "INIT"
    /\ ~alloc /\ free
    /\ heapState' = "WRITE_FREE"
    /\ heapFree' = freeAddress
    /\ heapFinished' = FALSE
    /\ UNCHANGED <<heapEnd, allocAddress>>

StartFree(alloc, free, freeAddress) ==
    /\ heapState = "INIT"
    /\ ~alloc /\ free
    /\ heapState' = "WRITE_FREE"
    /\ heapFinished' = FALSE
    /\ UNCHANGED <<heapFree, heapEnd, allocAddress>>

\* The free input is not looked at again: the address of this cycle counts.
WriteFree(freeAddress) ==
    /\ heapState = "WRITE_FREE"
    /\ heapState' = "INIT"
    /\ heapFree' = freeAddress
    /\ heapFinished' = TRUE
    /\ UNCHANGED <<heapEnd, allocAddress>>

HeapClock(alloc, free, freeAddress, ramOut) ==
    \/ HeapIdle(alloc, free)
    \/ AllocFromEnd(alloc)
    \/ AllocFromList(alloc)
    \/ UpdateHeapFree(ramOut)
    \/ StartFree(alloc, free, freeAddress)
    \/ WriteFree(freeAddress)
=============================================================================
