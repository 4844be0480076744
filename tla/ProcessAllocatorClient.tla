----------------------- MODULE ProcessAllocatorClient -----------------------
(***************************************************************************)
(* The process allocator as the message handler uses it                    *)
(* (ProcessorMessageHandler.v): one request at a time, for a process that  *)
(* has saved its stack, the allocator being enabled until it is finished.  *)
(* Between requests the processes run and leave any stack in their cells.  *)
(***************************************************************************)
EXTENDS ProcessAllocator, FiniteSets, Sequences

CONSTANTS
    MaxWords,       \* the most words on a stack, and so passed to a process
    MaxMade         \* bound on the processes made

ASSUME RequestAssumption ==
    /\ MaxWords \in Nat /\ MaxWords + 2 < MemorySize
    /\ MaxMade \in Nat

VARIABLES
    handler,        \* "idle", "start" (the first enabled cycle) or "busy"
    request,        \* the message in hand
    live,           \* history: the processes made and not ended
    freed,          \* history: the processes that ended, the last one first
    made,           \* history: how many were made
    before          \* history: the cells when the request was made

vars == <<allocatorVars, cells, handler, request, live, freed, made, before>>

\* What the core of process p leaves in its cell: s words on the value stack,
\* each word of the cell different from every other.
SavedCell(p, s) ==
    [k \in MemoryAddresses |->
        IF k = 0 THEN Pair((MemorySize - s) % MemorySize, 2) ELSE Pair(p, k)]

Init ==
    /\ AllocatorInit
    /\ cells = [p \in CellNumbers |-> SavedCell(p, 0)]
    /\ handler = "idle"
    /\ request = [create |-> FALSE, words |-> 0, pc |-> 0, pid |-> 0]
    /\ live = {} /\ freed = <<>> /\ made = 0
    /\ before = cells

Ask(r) ==
    /\ handler = "idle"
    /\ handler' = "start"
    /\ request' = r
    /\ before' = cells'
    /\ DisabledEdge(request)
    /\ UNCHANGED <<live, freed, made>>

\* Out of reset the processor starts the first process, from cell 0.
AskFirst ==
    /\ made = 0
    /\ UNCHANGED cells
    /\ Ask([create |-> TRUE, words |-> 0, pc |-> 0, pid |-> 0])

\* A cell is left: with none, the heap would answer with whatever heapFree
\* holds, which is 0 out of reset.
AskCreate(p, s, n) ==
    /\ made > 0 /\ made < MaxMade
    /\ p \in live
    /\ n <= s
    /\ Cardinality(live) < HeapMax - HeapBase
    /\ cells' = [cells EXCEPT ![p] = SavedCell(p, s)]
    /\ Ask([create |-> TRUE, words |-> n, pc |-> 1, pid |-> p])

AskFree(p) ==
    /\ p \in live
    /\ UNCHANGED cells
    /\ Ask([create |-> FALSE, words |-> 0, pc |-> 0, pid |-> p])

enabled == handler = "start" \/ (handler = "busy" /\ ~paFinished)

Wait ==
    /\ enabled
    /\ handler' = "busy"
    /\ Edge(request)
    /\ UNCHANGED <<request, live, freed, made, before>>

Finished ==
    /\ handler = "busy"
    /\ paFinished
    /\ handler' = "idle"
    /\ \/ /\ request.create
          /\ live' = live \cup {rAllocatedPid}
          /\ freed' = SelectSeq(freed, LAMBDA p : p # rAllocatedPid)
          /\ made' = made + 1
       \/ /\ ~request.create
          /\ live' = live \ {request.pid}
          /\ freed' = <<request.pid>> \o freed
          /\ UNCHANGED made
    /\ DisabledEdge(request)
    /\ UNCHANGED <<request, cells, before>>

\* The handler has other messages in hand.
Elsewhere ==
    /\ handler = "idle"
    /\ DisabledEdge(request)
    /\ UNCHANGED <<cells, handler, request, live, freed, made, before>>

Next ==
    \/ AskFirst
    \/ \E p \in live, s, n \in 0 .. MaxWords : AskCreate(p, s, n)
    \/ \E p \in live : AskFree(p)
    \/ Wait
    \/ Finished
    \/ Elsewhere

Spec == Init /\ [][Next]_vars

\* The clock ticks for ever.
FairSpec == Spec /\ WF_vars(Wait) /\ WF_vars(Finished)

-----------------------------------------------------------------------------
\* Types and widths of the registers.
TypeOK ==
    /\ paState \in DOMAIN WriteOrder \cup {"INIT", "WAIT_FOR_HEAP_FREE",
                   "READ_OLD_STACK_POINTER", "ALLOC", "COPY"}
    /\ paFinished \in BOOLEAN
    /\ rAllocatedPid \in CellNumbers
    /\ rOldStackPointers \in 0 .. MemorySize * MemorySize - 1
    /\ heapState \in {"INIT", "UPDATE_HEAP_FREE", "WRITE_FREE"}
    /\ heapFree \in CellNumbers /\ allocAddress \in CellNumbers
    /\ heapEnd \in HeapBase .. HeapMax
    /\ copyFrom \in MemoryAddresses /\ copyTo \in MemoryAddresses
    /\ wordsCopied \in MemoryAddresses
    /\ cells \in [CellNumbers ->
                     [MemoryAddresses -> 0 .. MemorySize * MemorySize - 1]]

Made == handler = "busy" /\ paFinished /\ request.create

\* A process gets a number, and so a memory cell, that no live process has
\* (ProcessAllocator.v: the cells are wired by this number).  So until a cell
\* is given out a second time: once two are, what FreedCellsLinked shows of the
\* list decides.
NewProcessIsNew == Made => rAllocatedPid \notin live

\* A process starts with exactly the words its parent passed, in their order,
\* the parent has popped them, and no other word of any cell has changed
\* (ProcessAllocator.v and Copier.v).
StackHandedOver ==
    Made =>
      LET parent == before[request.pid]
          new == [k \in MemoryAddresses |->
                    CASE k = 0 -> Pair(newStackPointer(request), 0)
                      [] k = 1 -> request.pc
                      [] k >= MemorySize - request.words ->
                            parent[Plus(High(parent[0]), k + request.words)]
                      [] OTHER -> before[rAllocatedPid][k]]
          left == Pair(Plus(High(parent[0]), request.words), Low(parent[0]))
      IN  cells = [before EXCEPT ![request.pid][0] = left,
                                 ![rAllocatedPid] = new]

\* At rest, the links from heapFree visit the cells given back, the last one
\* first (Heap.v, and the frees of its test bench).
FreedCellsLinked ==
    handler = "idle" /\ heapState = "INIT" /\ freed # <<>> =>
        /\ heapFree = freed[1]
        /\ \A i \in 1 .. Len(freed) - 1 : heapRam[freed[i]] = freed[i + 1]
        /\ \A i \in 1 .. Len(freed) : heapRam[freed[i]] # freed[i]

\* Every request is answered.
RequestsAnswered == handler # "idle" ~> handler = "idle"
=============================================================================
