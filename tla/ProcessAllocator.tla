-------------------------- MODULE ProcessAllocator --------------------------
(***************************************************************************)
(* stannel/ProcessAllocator.v with its heap and its copier: it makes a     *)
(* process, by taking a memory cell and moving the top words of the        *)
(* parent's stack to it, and it takes back the cell of a process that      *)
(* ended.  Edge is a rising clock edge while it is enabled and DisabledEdge *)
(* one while it is not; its inputs are the fields of the record r.         *)
(*                                                                         *)
(* Word 0 of a cell holds the two stack pointers, word 1 the program       *)
(* counter.  The value stack grows down from the end of the cell, the call *)
(* stack up from word 2.                                                   *)
(***************************************************************************)
EXTENDS HardwareHeap, Copier

\* A block of its heap is the number of one cell, and cell 0 is not one of them.
ASSUME CellAssumption == AllocSize = 1 /\ HeapBase > 0

VARIABLES
    paState,            \* rState
    paFinished,         \* registered output: the request is done
    rAllocatedPid,      \* the cell taken, which is the number of the process
    rOldStackPointers,  \* word 0 of the parent
    heapRam, heapOut,   \* the memory of the heap and its answer
    cells,              \* cells[p]: the memory cell of process p
    oldOut              \* the answer of the parent's cell

allocatorVars == <<paState, paFinished, rAllocatedPid, rOldStackPointers,
                   heapRam, heapOut, oldOut, heapVars, copierVars>>

CellNumbers == 0 .. HeapMax - 1

\* A word of two halves.
Pair(high, low) == high * MemorySize + low
High(word) == (word \div MemorySize) % MemorySize
Low(word) == word % MemorySize

oldStackPointer == High(rOldStackPointers)
updatedStackPointers(r) ==
    Pair(Plus(oldStackPointer, r.words), Low(rOldStackPointers))
newStackPointer(r) == (MemorySize - r.words) % MemorySize

wHeapAlloc == paState = "ALLOC" /\ ~heapFinished
wCopierEnabled == paState = "COPY" /\ ~copierFinished

\* mutant: it asks only once it has been answered.
FreesWhenFinished(enabled, r) ==
    paState = "WAIT_FOR_HEAP_FREE" /\ heapFinished

\* In WAIT_FOR_HEAP_FREE this does not look at "finished" of the allocator.
wHeapFree(enabled, r) ==
    \/ paState = "INIT" /\ enabled /\ ~r.create
    \/ paState = "WAIT_FOR_HEAP_FREE" /\ ~heapFinished

\* The ports to the cell of the parent and to the cell of the new process.
oldPort(r) ==
    CASE wCopierEnabled -> Read(copyFrom)
      [] paState = "INIT" /\ r.create -> Read(0)
      [] paState = "READ_OLD_STACK_POINTER" -> Read(0)
      [] paState \in {"WRITE_UPDATED_SP_0", "WRITE_UPDATED_SP_1"} ->
            Write(0, updatedStackPointers(r))
      [] OTHER -> NoAccess

newPort(r) ==
    CASE wCopierEnabled ->
            IF copierWrites THEN Write(copyTo, copyWord) ELSE Read(copyTo)
      [] paState \in {"WRITE_SP_0", "WRITE_SP_1"} ->
            Write(0, Pair(newStackPointer(r), 0))
      [] paState \in {"WRITE_PC_0", "WRITE_PC_1"} -> Write(1, r.pc)
      [] OTHER -> NoAccess

\* While the allocator is enabled the cell of the parent is wired to the first
\* port, and the cell of the new process to the second unless it is the same.
CellsClock(r) ==
    /\ cells' = [p \in CellNumbers |->
                    CASE p = r.pid -> Stored(cells[p], oldPort(r))
                      [] p # r.pid /\ p = rAllocatedPid ->
                            Stored(cells[p], newPort(r))
                      [] OTHER -> cells[p]]
    /\ oldOut' = Answer(cells[r.pid], oldPort(r))

\* What every edge does to the heap and to the copier.
PartsClock(enabled, r) ==
    /\ HeapClock(wHeapAlloc, wHeapFree(enabled, r), r.pid, heapOut)
    /\ RamClock(heapRam, heapOut,
                HeapPort(wHeapAlloc, wHeapFree(enabled, r), r.pid))
    /\ CopierClock(wCopierEnabled, oldOut, oldStackPointer, newStackPointer(r),
                   r.words)

-----------------------------------------------------------------------------
AllocatorInit ==
    /\ HeapInit
    /\ CopierInit
    /\ paState = "INIT"
    /\ paFinished = FALSE
    /\ rAllocatedPid = 0
    /\ rOldStackPointers = 0
    /\ heapRam = [k \in MemoryAddresses |-> 0]
    /\ heapOut = Undriven
    /\ oldOut = Undriven

\* The finished register keeps its value: the first enabled edge clears it.
DisabledEdge(r) ==
    /\ paState' = "INIT"
    /\ rAllocatedPid' = 0
    /\ oldOut' = Undriven
    /\ PartsClock(FALSE, r)
    /\ UNCHANGED <<paFinished, rOldStackPointers>>

Begin(r) ==
    /\ paState = "INIT"
    /\ paState' = IF r.create THEN "READ_OLD_STACK_POINTER"
                              ELSE "WAIT_FOR_HEAP_FREE"
    /\ paFinished' = FALSE
    /\ UNCHANGED <<rAllocatedPid, rOldStackPointers>>

WaitForHeapFree ==
    /\ paState = "WAIT_FOR_HEAP_FREE"
    /\ paFinished' = heapFinished
    /\ UNCHANGED <<paState, rAllocatedPid, rOldStackPointers>>

ReadOldStackPointer ==
    /\ paState = "READ_OLD_STACK_POINTER"
    /\ paState' = "ALLOC"
    /\ rOldStackPointers' = oldOut
    /\ paFinished' = FALSE
    /\ UNCHANGED rAllocatedPid

Alloc ==
    /\ paState = "ALLOC"
    /\ \/ /\ heapFinished
          /\ rAllocatedPid' = allocAddress
          /\ paState' = "WRITE_UPDATED_SP_0"
       \/ /\ ~heapFinished
          /\ UNCHANGED <<rAllocatedPid, paState>>
    /\ paFinished' = FALSE
    /\ UNCHANGED rOldStackPointers

\* Each write takes two cycles, the second of which repeats it.
WriteOrder == [WRITE_UPDATED_SP_0 |-> "WRITE_UPDATED_SP_1",
               WRITE_UPDATED_SP_1 |-> "WRITE_SP_0",
               WRITE_SP_0 |-> "WRITE_SP_1",
               WRITE_SP_1 |-> "WRITE_PC_0",
               WRITE_PC_0 |-> "WRITE_PC_1",
               WRITE_PC_1 |-> "COPY"]

WritePointers ==
    /\ paState \in DOMAIN WriteOrder
    /\ paState' = WriteOrder[paState]
    /\ paFinished' = FALSE
    /\ UNCHANGED <<rAllocatedPid, rOldStackPointers>>

Copy ==
    /\ paState = "COPY"
    /\ paFinished' = copierFinished
    /\ UNCHANGED <<paState, rAllocatedPid, rOldStackPointers>>

Edge(r) ==
    /\ PartsClock(TRUE, r)
    /\ CellsClock(r)
    /\ \/ Begin(r)
       \/ WaitForHeapFree
       \/ ReadOldStackPointer
       \/ Alloc
       \/ WritePointers
       \/ Copy
=============================================================================
