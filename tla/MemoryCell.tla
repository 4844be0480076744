----------------------------- MODULE MemoryCell -----------------------------
(***************************************************************************)
(* The memory cell of a process (memory/memory_cell.rs with memory.rs and  *)
(* word_io.rs) and the two stacks in it (process/value_stack.rs,           *)
(* process/call_stack.rs): four words of header, a call stack that grows   *)
(* upwards behind them and a value stack that grows downwards from the     *)
(* end.  Nothing keeps the stacks apart.                                   *)
(*                                                                         *)
(* A cell is a function from word numbers to words; address a is byte a of *)
(* it.  The operations are chained as the code chains them with "?": each  *)
(* gives Fault when it fails, and on Fault.  Fault stands for the error    *)
(* results of the code and for its panics (an index out of range, a        *)
(* subtraction below zero) alike: either ends the simulation.              *)
(***************************************************************************)
EXTENDS Flags, Sequences

CONSTANT CellSize      \* MEMORY_CELL_SIZE: the bytes of a cell, 512

HeaderSize == 8
ASSUME CellSizeAssumption ==
  /\ CellSize \in Nat
  /\ CellSize % 2 = 0
  /\ CellSize >= HeaderSize
  /\ CellSize < WordSize

WordNumbers == 0 .. CellSize \div 2 - 1
Cell == [WordNumbers -> Word]
Fault == << >>

WordAddress(a) == a \in 0 .. CellSize - 1 /\ a % 2 = 0
ReadWord(cell, a) == cell[a \div 2]
WriteWord(cell, a, word) ==
  IF cell = Fault \/ ~WordAddress(a) THEN Fault ELSE [cell EXCEPT ![a \div 2] = word]

(***************************************************************************)
(* The header: program counter, call stack pointer, stack pointer, flags   *)
(* in the upper byte of the fourth word.                                   *)
(***************************************************************************)
ProgramCounter(cell) == ReadWord(cell, 0)
SetProgramCounter(cell, pc) == WriteWord(cell, 0, pc)
CallStackPointer(cell) == ReadWord(cell, 2)
StackPointer(cell) == ReadWord(cell, 4)
SetFlags(cell, flags) ==
  WriteWord(cell, 6, 256 * EncodeFlags(flags) + (ReadWord(cell, 6) % 256))

\* initialise_with_program_counter: an empty call stack and an empty stack;
\* the rest of the cell stays as the last process left it.
Initialised(cell, pc) ==
  SetFlags([cell EXCEPT ![0] = pc, ![1] = HeaderSize, ![2] = CellSize], NoFlags)
ZeroCell == [w \in WordNumbers |-> 0]

(***************************************************************************)
(* The value stack.  Popping reads first, so a pop of an empty stack reads *)
(* past the end of the cell and fails; pushing moves the pointer first.    *)
(***************************************************************************)
CanPop(cell) == cell # Fault /\ WordAddress(StackPointer(cell))
Top(cell) == IF CanPop(cell) THEN ReadWord(cell, StackPointer(cell)) ELSE 0
Pop(cell) ==
  IF CanPop(cell) THEN WriteWord(cell, 4, StackPointer(cell) + 2) ELSE Fault
PopMany(cell, count) == WriteWord(cell, 4, StackPointer(cell) + 2 * count)
Push(cell, value) ==
  IF cell = Fault \/ StackPointer(cell) < 2 THEN Fault
  ELSE LET sp == StackPointer(cell) - 2 IN WriteWord(WriteWord(cell, 4, sp), sp, value)

StackSize(cell) == (CellSize - StackPointer(cell)) \div 2
CanPeek(cell, offset) ==
  /\ cell # Fault
  /\ offset < StackSize(cell)
  /\ WordAddress(StackPointer(cell) + 2 * offset)
Peek(cell, offset) == ReadWord(cell, StackPointer(cell) + 2 * offset)
StackValues(cell) == [i \in 1 .. StackSize(cell) |-> Peek(cell, i - 1)]

\* The call stack.  Popping moves below the header only from an empty stack.
CallPush(cell, address) ==
  LET csp == CallStackPointer(cell)
  IN  IF cell = Fault THEN Fault
      ELSE WriteWord(WriteWord(cell, 2, csp + 2), csp, address)
CallTop(cell) == ReadWord(cell, CallStackPointer(cell) - 2)
CallPop(cell) == WriteWord(cell, 2, CallStackPointer(cell) - 2)

(***************************************************************************)
(* stack_block_copy: a new process gets a copy of the words on top of its  *)
(* parent's stack, in the same order.                                      *)
(***************************************************************************)
StackBlockCopy(cell, parent, count) ==
  LET new == StackPointer(cell) - 2 * count
      source == StackPointer(parent)
  IN  IF new < 0 \/ source + 2 * count > CellSize THEN Fault
      ELSE LET copied == new \div 2 .. StackPointer(cell) \div 2 - 1
               from(w) == source \div 2 + w - new \div 2
           IN  WriteWord([w \in WordNumbers |->
                            IF w \in copied THEN parent[from(w)] ELSE cell[w]],
                         4, new)
=============================================================================
