--------------------------------- MODULE Isa ---------------------------------
(***************************************************************************)
(* The instructions of Stannel (isa/instruction.rs): one byte each, an     *)
(* operation in the upper four bits and an operand in the lower four, and  *)
(* the names by which the assembler reads and the compiler writes them.    *)
(* An instruction is a record of its operation and its operand; the        *)
(* operand of a group of instructions is the member of the group.          *)
(***************************************************************************)
EXTENDS Flags, Sequences, TLC

Operation ==
  [alu |-> 0, push |-> 1, addSmall |-> 2, pushLower |-> 3, pushUpper |-> 4,
   jump |-> 5, process |-> 6, function |-> 7, stack |-> 8, readLocal |-> 12,
   writeLocal |-> 13, readOffset |-> 14, writeOffset |-> 15]

Op ==
  [add |-> 0, sub |-> 1, asl |-> 4, asr |-> 5, lsl |-> 6, lsr |-> 7,
   not |-> 8, and |-> 9, or |-> 10, xor |-> 11, test |-> 14, compare |-> 15]
ProcessOp ==
  [start |-> 0, end |-> 1, send |-> 2, receive |-> 3, altStart |-> 4,
   altWait |-> 5, altEnd |-> 6, enable |-> 7, disable |-> 8, create |-> 9,
   destroy |-> 10, yield |-> 11]
FunctionOp == [call |-> 0, return |-> 1]
StackOp == [drop |-> 0, dup |-> 1, swap |-> 2, tuck |-> 3, rot |-> 4]

Instruction(op, arg) == [op |-> op, arg |-> arg]
Alu(name) == Instruction("alu", Op[name])
Process(name) == Instruction("process", ProcessOp[name])
Function(name) == Instruction("function", FunctionOp[name])
Stack(name) == Instruction("stack", StackOp[name])
Jump(condition) == Instruction("jump", condition)
PushSmall(n) == Instruction("push", n)
AddSmall(n) == Instruction("addSmall", n)
ReadLocal == Instruction("readLocal", 0)
WriteLocal == Instruction("writeLocal", 0)
Raw(byte) == Instruction("raw", byte)       \* a byte that is no instruction

FitsImmediate(n) == n \in 0 .. 15

(***************************************************************************)
(* encode: the byte of an instruction.  One whose operand does not fit has *)
(* none, and the assembler asks for none.                                  *)
(***************************************************************************)
Encodes(i) == IF i.op = "raw" THEN i.arg \in 0 .. 255 ELSE FitsImmediate(i.arg)
Encode(i) == IF i.op = "raw" THEN i.arg ELSE 16 * Operation[i.op] + i.arg

\* The operands that decode refuses, and the operations that have no operand.
Undecodable(op, operand) ==
  \/ op = "process" /\ operand > 11
  \/ op = "function" /\ operand > 2
  \/ op = "stack" /\ operand > 4
DecodeByte(byte) ==
  LET ops == {o \in DOMAIN Operation : Operation[o] = byte \div 16}
      operand == byte % 16
  IN  IF \E o \in ops : ~Undecodable(o, operand)
      THEN LET op == CHOOSE o \in ops : TRUE
           IN  Instruction(op, IF op \in {"readLocal", "writeLocal"} THEN 0 ELSE operand)
      ELSE Raw(byte)
Decode == [byte \in 0 .. 255 |-> DecodeByte(byte)]

\* encode_push: the shortest instructions that push a word.
EncodePush(value) ==
  CASE value < 16 -> <<PushSmall(value)>>
    [] value \in 16 .. 4095 ->
         <<Instruction("pushLower", value \div 256), Raw(value % 256)>>
    [] OTHER ->
         <<Instruction("pushUpper", value \div 4096), Raw((value \div 16) % 256),
           AddSmall(value % 16)>>

(***************************************************************************)
(* from_str: the instruction each word names, some by more than one.       *)
(***************************************************************************)
Mnemonics ==
  "+" :> Alu("add") @@ "add" :> Alu("add") @@ "-" :> Alu("sub") @@
  "sub" :> Alu("sub") @@ "asl" :> Alu("asl") @@ "asr" :> Alu("asr") @@
  "lsl" :> Alu("lsl") @@ "lsr" :> Alu("lsr") @@ "not" :> Alu("not") @@
  "or" :> Alu("or") @@ "|" :> Alu("or") @@ "and" :> Alu("and") @@
  "&" :> Alu("and") @@ "xor" :> Alu("xor") @@ "^" :> Alu("xor") @@
  "test" :> Alu("test") @@ "cmp" :> Alu("compare") @@
  "compare" :> Alu("compare") @@ "call" :> Function("call") @@
  "ret" :> Function("return") @@ "return" :> Function("return") @@
  "drop" :> Stack("drop") @@ "tuck" :> Stack("tuck") @@ "rot" :> Stack("rot") @@
  "swap" :> Stack("swap") @@ "dup" :> Stack("dup") @@
  "jeq" :> Jump(ZeroEqual) @@ "jz" :> Jump(ZeroEqual) @@
  "jneq" :> Jump(NotZeroNotEqual) @@ "jnz" :> Jump(NotZeroNotEqual) @@
  "jneg" :> Jump(Negative) @@ "jnneg" :> Jump(NonNegative) @@
  "ja" :> Jump(UnsignedGreater) @@ "jae" :> Jump(UnsignedGreaterOrEqual) @@
  "jbe" :> Jump(UnsignedLessOrEqual) @@ "jb" :> Jump(UnsignedLess) @@
  "jg" :> Jump(SignedGreater) @@ "jge" :> Jump(SignedGreaterOrEqual) @@
  "jl" :> Jump(SignedLess) @@ "jle" :> Jump(SignedLessOrEqual) @@
  "jo" :> Jump(Overflow) @@ "jno" :> Jump(NoOverflow) @@
  "nop" :> Jump(Never) @@ "j" :> Jump(Always) @@ "jump" :> Jump(Always) @@
  "get" :> ReadLocal @@ "put" :> WriteLocal @@ "start" :> Process("start") @@
  "end" :> Process("end") @@ "." :> Process("end") @@
  "chan" :> Process("create") @@ "del" :> Process("destroy") @@
  "!" :> Process("send") @@ "shriek" :> Process("send") @@
  "send" :> Process("send") @@ "?" :> Process("receive") @@
  "query" :> Process("receive") @@ "receive" :> Process("receive") @@
  "altstart" :> Process("altStart") @@ "altwait" :> Process("altWait") @@
  "altend" :> Process("altEnd") @@ "enable" :> Process("enable") @@
  "disable" :> Process("disable") @@ "yield" :> Process("yield")

(***************************************************************************)
(* Display: the word the compiler writes for an instruction it generates,  *)
(* where from_str knows several.  A jump that is never taken, the two long *)
(* pushes and a raw byte have no text.                                     *)
(***************************************************************************)
Aliases ==
  {"add", "sub", "|", "&", "^", "compare", "return", "jz", "jnz", "jump", ".",
   "shriek", "send", "query", "receive", "nop"}
Spelling ==
  [i \in {Mnemonics[w] : w \in DOMAIN Mnemonics \ Aliases} |->
     CHOOSE w \in DOMAIN Mnemonics \ Aliases : Mnemonics[w] = i]
=============================================================================
