------------------------- MODULE HardwareHeapClient -------------------------
(***************************************************************************)
(* The hardware heap under clients that keep the rule at the head of       *)
(* Heap.v: alloc and free are set to 0 as soon as the heap is finished.    *)
(* A client writes only to words of blocks it holds, and asks for a block  *)
(* only when one is left: the heap has no answer for any other case.       *)
(***************************************************************************)
EXTENDS HardwareHeap, Sequences

CONSTANT Words

\* The bump pointer meets HeapMax exactly.  It does so in ProcessAllocator.v;
\* in ChannelController.v the first 127 channels are as far as this goes.
ASSUME ClientAssumption ==
    /\ Words \subseteq MemoryAddresses
    /\ (HeapMax - HeapBase) % AllocSize = 0

VARIABLES
    ram, ramOut,    \* the memory and its answer
    request,        \* "none", "alloc" or "free"
    freeAddress,
    live, held,     \* history: the blocks held, and how many
    freed           \* history: the blocks returned, the last one first

vars == <<heapState, heapFree, heapEnd, heapFinished, allocAddress, ram, ramOut,
          request, freeAddress, live, held, freed>>

alloc == request = "alloc" /\ ~heapFinished
free == request = "free" /\ ~heapFinished

Init ==
    /\ HeapInit
    /\ ram = [k \in MemoryAddresses |-> 0]
    /\ ramOut = Undriven
    /\ request = "none"
    /\ freeAddress = 0
    /\ live = {} /\ held = 0
    /\ freed = <<>>

Clock(port) ==
    /\ HeapClock(alloc, free, freeAddress, ramOut)
    /\ RamClock(ram, ramOut, port)

Full == heapEnd = HeapMax /\ freed = <<>>

AskAlloc ==
    /\ request = "none"
    /\ ~Full
    /\ request' = "alloc"
    /\ Clock(NoAccess)
    /\ UNCHANGED <<freeAddress, live, held, freed>>

AskFree(a) ==
    /\ request = "none"
    /\ a \in live
    /\ request' = "free"
    /\ freeAddress' = a
    /\ Clock(NoAccess)
    /\ UNCHANGED <<live, held, freed>>

Store(k, w) ==
    /\ request = "none"
    /\ \E a \in live : a <= k /\ k < a + AllocSize
    /\ Clock(Write(k, w))
    /\ UNCHANGED <<request, freeAddress, live, held, freed>>

Wait ==
    /\ request # "none"
    /\ ~heapFinished
    /\ Clock(HeapPort(alloc, free, freeAddress))
    /\ UNCHANGED <<request, freeAddress, live, held, freed>>

Allocated ==
    /\ request = "alloc"
    /\ heapFinished
    /\ request' = "none"
    /\ live' = live \cup {allocAddress} /\ held' = held + 1
    /\ freed' = IF freed # <<>> /\ freed[1] = allocAddress THEN Tail(freed) ELSE freed
    /\ Clock(NoAccess)
    /\ UNCHANGED freeAddress

Freed ==
    /\ request = "free"
    /\ heapFinished
    /\ request' = "none"
    /\ live' = live \ {freeAddress} /\ held' = held - 1
    /\ freed' = <<freeAddress>> \o freed
    /\ Clock(NoAccess)
    /\ UNCHANGED freeAddress

Next ==
    \/ AskAlloc
    \/ \E a \in live : AskFree(a)
    \/ \E k \in MemoryAddresses, w \in Words : Store(k, w)
    \/ Wait
    \/ Allocated
    \/ Freed

Spec == Init /\ [][Next]_vars

-----------------------------------------------------------------------------
\* Types and widths of the registers.
TypeOK ==
    /\ heapState \in {"INIT", "UPDATE_HEAP_FREE", "WRITE_FREE"}
    /\ heapFree \in MemoryAddresses
    /\ heapEnd \in HeapBase .. HeapMax
    /\ heapFinished \in BOOLEAN
    /\ allocAddress \in MemoryAddresses
    /\ ram \in [MemoryAddresses -> MemoryAddresses]
    /\ ramOut \in MemoryAddresses
    /\ request \in {"none", "alloc", "free"}
    /\ freeAddress \in MemoryAddresses
    /\ live \subseteq MemoryAddresses
    /\ held \in Nat
    /\ freed \in Seq(MemoryAddresses)

\* Between requests, the links from heapFree visit exactly the blocks returned,
\* each once, whatever the clients wrote into them before (Heap.v, alloc and
\* free).  No word ends the list: that it has ended is the client's to know.
FreedBlocksLinked ==
    request = "none" /\ freed # <<>> =>
        /\ heapFree = freed[1]
        /\ \A i \in 1 .. Len(freed) - 1 : ram[freed[i]] = freed[i + 1]
        /\ \A i, j \in 1 .. Len(freed) : i # j => freed[i] # freed[j]
        /\ \A i \in 1 .. Len(freed) : freed[i] \notin live

\* Between requests no block has leaked: a block below the bump pointer is held
\* or linked (Heap.v).
NothingLeaks ==
    request = "none" =>
        {a \in HeapBase .. heapEnd - 1 : (a - HeapBase) % AllocSize = 0}
            = live \cup {freed[i] : i \in 1 .. Len(freed)}

\* A block handed out overlaps no block held (the two words of a channel in
\* ChannelController.v, the memory cell of a process in ProcessAllocator.v).
Abstract == INSTANCE Allocator
              WITH Base <- HeapBase, Max <- HeapMax, Size <- AllocSize
ImplementsAllocator == Abstract!Spec

=============================================================================
