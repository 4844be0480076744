-------------------------------- MODULE Core --------------------------------
(***************************************************************************)
(* The simulated core (core/core_impl.rs): it fetches one instruction of   *)
(* its process, executes it on the process's memory cell and leaves a      *)
(* message for the processor; the processor's answers change the cell too. *)
(* Processor models what the processor does with the messages of several   *)
(* cores in one tick, and takes the instructions that send none together;  *)
(* here they are modelled one by one.                                      *)
(*                                                                         *)
(* One action per arm of the match in tick.  Processes are numbered, each  *)
(* runs on a core of its own, as it does while there are not more          *)
(* processes than cores.                                                   *)
(***************************************************************************)
EXTENDS MemoryCell, Isa, Bitwise

CONSTANT Pids           \* the process numbers

VARIABLES code,         \* the bytes of the program
          cells,        \* the memory cell of each process
          flags,        \* the flags of the core of each process
          hasAlternationValue,
          message       \* the CoreMessage each core last returned
coreVars == <<code, cells, flags, hasAlternationValue, message>>

(***************************************************************************)
(* Messages: what is asked, of which channel (or program address), with    *)
(* which value.                                                            *)
(***************************************************************************)
CoreMessage(kind, channel, value) ==
  [kind |-> kind, channel |-> channel, value |-> value]
Nothing == CoreMessage("nothing", 0, 0)

CoreInit(program) ==
  /\ code = program
  /\ cells = [p \in Pids |-> Initialised(ZeroCell, 0)]
  /\ flags = [p \in Pids |-> NoFlags]
  /\ hasAlternationValue = [p \in Pids |-> FALSE]
  /\ message = [p \in Pids |-> Nothing]

(***************************************************************************)
(* A core reads the program from a memory cell of its own: behind the last *)
(* byte there are zeroes, and behind the cell nothing.                     *)
(***************************************************************************)
InCode(pc) == pc < CellSize
Byte(pc) == IF pc < Len(code) THEN code[pc + 1] ELSE 0

PC(p) == ProgramCounter(cells[p])
Fetched(p) == SetProgramCounter(cells[p], PC(p) + 1)
Instr(p) == IF InCode(PC(p)) THEN Decode[Byte(PC(p))] ELSE Raw(0)

(***************************************************************************)
(* How an instruction ends: with a new cell and a message, or, on Fault,   *)
(* with the error that ends the simulation.                                *)
(***************************************************************************)
Finish(p, cell, m) ==
  /\ cells' = [cells EXCEPT ![p] = IF cell = Fault THEN @ ELSE cell]
  /\ message' = [message EXCEPT ![p] =
                   IF cell = Fault THEN CoreMessage("error", 0, 0) ELSE m]
  /\ UNCHANGED code
KeepFlags == UNCHANGED <<flags, hasAlternationValue>>

(***************************************************************************)
(* alu.  The second operand is on top.  A shift by more than the width of  *)
(* a word panics.                                                          *)
(***************************************************************************)
Bits == 16
Binary(op, a, b) ==
  CASE op = Op.add -> Sum(a, b)
    [] op \in {Op.sub, Op.compare} -> Difference(a, b)
    [] op \in {Op.asl, Op.lsl} -> (a * 2^b) % WordSize
    [] op = Op.asr -> Wrapped(Signed(a) \div 2^b)
    [] op = Op.lsr -> a \div 2^b
    [] op \in {Op.and, Op.test} -> a & b
    [] op = Op.or -> a | b
    [] op = Op.xor -> a ^^ b
AluFlags(op, a, b, result) ==
  CASE op = Op.add -> SumFlags(a, b)
    [] op \in {Op.sub, Op.compare} -> DifferenceFlags(a, b)
    [] OTHER -> ResultFlags(result, FALSE, FALSE)
Shifts == {Op.asl, Op.asr, Op.lsl, Op.lsr}
PushesNothing == {Op.test, Op.compare}

ArithmeticOrLogic(p) ==
  /\ Instr(p).op = "alu"
  /\ Instr(p).arg # Op.not
  /\ LET op == Instr(p).arg
         b == Top(Fetched(p))
         a == Top(Pop(Fetched(p)))
         popped == Pop(Pop(Fetched(p)))
         shiftFails == op \in Shifts /\ b >= Bits
         result == IF shiftFails THEN 0 ELSE Binary(op, a, b)
     IN  /\ Finish(p, IF shiftFails THEN Fault
                      ELSE IF op \in PushesNothing THEN popped
                      ELSE Push(popped, result), Nothing)
         /\ flags' = [flags EXCEPT ![p] = AluFlags(op, a, b, result)]
  /\ UNCHANGED hasAlternationValue

LogicalNot(p) ==
  /\ Instr(p) = Alu("not")
  /\ LET result == WordSize - 1 - Top(Fetched(p))
     IN  /\ Finish(p, Push(Pop(Fetched(p)), result), Nothing)
         /\ flags' = [flags EXCEPT ![p] = ResultFlags(result, FALSE, FALSE)]
  /\ UNCHANGED hasAlternationValue

(***************************************************************************)
(* push_small, add_small, and the pushes that read a second byte.          *)
(***************************************************************************)
PushImmediate(p) ==
  /\ Instr(p).op = "push"
  /\ Finish(p, Push(Fetched(p), Instr(p).arg), Nothing)
  /\ KeepFlags

AddImmediate(p) ==
  /\ Instr(p).op = "addSmall"
  /\ Finish(p, Push(Pop(Fetched(p)), Sum(Top(Fetched(p)), Instr(p).arg)), Nothing)
  /\ KeepFlags

PushNext(p) ==
  /\ Instr(p).op \in {"pushLower", "pushUpper"}
  /\ LET next == Byte(PC(p) + 1)
         value == IF Instr(p).op = "pushLower" THEN 256 * Instr(p).arg + next
                  ELSE 4096 * Instr(p).arg + 16 * next
     IN  Finish(p, IF InCode(PC(p) + 1)
                   THEN Push(SetProgramCounter(cells[p], PC(p) + 2), value)
                   ELSE Fault, Nothing)
  /\ KeepFlags

\* jump: only a jump that is never taken leaves its destination where it is.
TakeJump(p) ==
  /\ Instr(p).op = "jump"
  /\ LET condition == Instr(p).arg
         popped == IF condition = Never THEN Fetched(p) ELSE Pop(Fetched(p))
     IN  Finish(p, IF popped # Fault /\ MatchesCondition(flags[p], condition)
                   THEN SetProgramCounter(popped, Top(Fetched(p)))
                   ELSE popped, Nothing)
  /\ KeepFlags

(***************************************************************************)
(* process.  Send and receive leave the channel on the stack.              *)
(***************************************************************************)
PeekTop(cell) == IF CanPeek(cell, 0) THEN cell ELSE Fault
StartProcess(p) ==
  /\ Instr(p) = Process("start")
  /\ LET popped == Pop(Fetched(p))
     IN  Finish(p, Pop(popped), CoreMessage("start", Top(popped), Top(Fetched(p))))
  /\ KeepFlags
SendOnChannel(p) ==
  /\ Instr(p) = Process("send")
  /\ LET popped == Pop(Fetched(p))
     IN  Finish(p, PeekTop(popped),
                CoreMessage("send", Top(popped), Top(Fetched(p))))
  /\ KeepFlags
ReceiveOnChannel(p) ==
  /\ Instr(p) = Process("receive")
  /\ Finish(p, PeekTop(Fetched(p)), CoreMessage("receive", Top(Fetched(p)), 0))
  /\ KeepFlags
PopChannel(p) ==
  /\ Instr(p) \in {Process("destroy"), Process("enable")}
  /\ Finish(p, Pop(Fetched(p)),
            CoreMessage(IF Instr(p) = Process("destroy") THEN "destroy" ELSE "enable",
                        Top(Fetched(p)), 0))
  /\ KeepFlags
DisableChannel(p) ==
  /\ Instr(p) = Process("disable")
  /\ LET popped == Pop(Fetched(p))
     IN  Finish(p, Pop(popped), CoreMessage("disable", Top(popped), Top(Fetched(p))))
  /\ KeepFlags
PlainMessage ==
  [end |-> "halt", create |-> "create", yield |-> "yield",
   altWait |-> "altWait", altEnd |-> "altEnd", altStart |-> "altStart"]
SendPlainMessage(p) ==
  /\ \E op \in DOMAIN PlainMessage :
       /\ Instr(p) = Process(op)
       /\ Finish(p, Fetched(p), CoreMessage(PlainMessage[op], 0, 0))
       /\ hasAlternationValue' =
            [hasAlternationValue EXCEPT ![p] = @ /\ op # "altStart"]
  /\ UNCHANGED flags

(***************************************************************************)
(* function.  A return with nothing to return to ends the process.         *)
(***************************************************************************)
Call(p) ==
  /\ Instr(p) = Function("call")
  /\ LET called == CallPush(Pop(Fetched(p)), PC(p) + 1)
     IN  Finish(p, IF called = Fault THEN Fault
                   ELSE SetProgramCounter(called, Top(Fetched(p))), Nothing)
  /\ KeepFlags
Return(p) ==
  /\ Instr(p) = Function("return")
  /\ IF CallStackPointer(cells[p]) = HeaderSize
     THEN Finish(p, Fetched(p), CoreMessage("halt", 0, 0))
     ELSE Finish(p, SetProgramCounter(CallPop(cells[p]), CallTop(cells[p])), Nothing)
  /\ KeepFlags

(***************************************************************************)
(* stack: what each operation pops, top first, and pushes in turn.         *)
(***************************************************************************)
StackOperation(p) ==
  /\ Instr(p).op = "stack"
  /\ LET op == Instr(p).arg
         c0 == Fetched(p)
         c1 == Pop(c0)
         c2 == Pop(c1)
         c3 == Pop(c2)
         a == Top(c0)
         b == Top(c1)
         c == Top(c2)
     IN  Finish(p, CASE op = StackOp.drop -> c1
                     [] op = StackOp.dup -> Push(Push(c1, a), a)
                     [] op = StackOp.swap -> Push(Push(c2, a), b)
                     [] op = StackOp.tuck -> Push(Push(Push(c3, b), a), c)
                     [] op = StackOp.rot -> Push(Push(Push(c3, a), c), b),
                Nothing)
  /\ KeepFlags

(***************************************************************************)
(* read_local looks whether the stack is that deep; write_local does not,  *)
(* and takes its offset from the stack as its operands left it.            *)
(***************************************************************************)
ReadFrom(cell, offset) ==
  IF CanPeek(cell, offset) THEN Push(cell, Peek(cell, offset)) ELSE Fault
WriteTo(cell, offset, word) ==
  IF cell = Fault THEN Fault ELSE WriteWord(cell, StackPointer(cell) + 2 * offset, word)

ReadLocalWord(p) ==
  /\ Instr(p).op \in {"readLocal", "readOffset"}
  /\ Finish(p, IF Instr(p).op = "readOffset" THEN ReadFrom(Fetched(p), Instr(p).arg)
               ELSE ReadFrom(Pop(Fetched(p)), Top(Fetched(p))), Nothing)
  /\ KeepFlags
WriteLocalWord(p) ==
  /\ Instr(p).op \in {"writeLocal", "writeOffset"}
  /\ LET popped == Pop(Fetched(p))
     IN  Finish(p, IF Instr(p).op = "writeOffset"
                   THEN WriteTo(popped, Instr(p).arg, Top(Fetched(p)))
                   ELSE WriteTo(Pop(popped), Top(Fetched(p)), Top(popped)), Nothing)
  /\ KeepFlags

\* A byte that is no instruction, or a program counter behind the cell.
NotAnInstruction(p) ==
  /\ Instr(p).op = "raw"
  /\ Finish(p, Fault, Nothing)
  /\ KeepFlags

Tick(p) ==
  \/ ArithmeticOrLogic(p) \/ LogicalNot(p)
  \/ PushImmediate(p) \/ AddImmediate(p) \/ PushNext(p)
  \/ TakeJump(p) \/ Call(p) \/ Return(p)
  \/ StackOperation(p) \/ ReadLocalWord(p) \/ WriteLocalWord(p)
  \/ StartProcess(p) \/ SendOnChannel(p) \/ ReceiveOnChannel(p)
  \/ PopChannel(p) \/ DisableChannel(p) \/ SendPlainMessage(p)
  \/ NotAnInstruction(p)
=============================================================================
