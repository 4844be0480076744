------------------------------ MODULE Assembler ------------------------------
(***************************************************************************)
(* The assembler (assembler/mod.rs): tokens become blocks of instructions  *)
(* and of pushed labels, each block of instructions is shortened, and the  *)
(* blocks are laid out.  The push of a label takes one to three bytes by   *)
(* the address of the label, which is the sum of what lies before it, so   *)
(* the layout is repeated until no address changes.                        *)
(***************************************************************************)
EXTENDS Isa, SequencesExt

\* ParserToken.
AsmToken(kind, name, number) == [kind |-> kind, name |-> name, number |-> number]
Identifier(word) == AsmToken("identifier", word, 0)
NumberToken(n) == AsmToken("number", "", n)
Label(name) == AsmToken("label", name, 0)

Instructions(is) == [is |-> is, label |-> ""]
PushLabel(name) == [is |-> << >>, label |-> name]
PushesLabel(block) == block.label # ""

(***************************************************************************)
(* create_blocks.  A label names the block that follows it, the last one   *)
(* of several labels with one name counts, and a word that is no           *)
(* instruction is a label that is pushed.                                  *)
(***************************************************************************)
Flush(s) ==
  [s EXCEPT !.blocks = Append(@, Instructions(s.current)), !.current = << >>]
FlushSome(s) == IF s.current = << >> THEN s ELSE Flush(s)
ReadToken(s, token) ==
  CASE token.kind = "identifier" /\ token.name \in DOMAIN Mnemonics ->
         [s EXCEPT !.current = Append(@, Mnemonics[token.name])]
    [] token.kind = "identifier" /\ token.name \notin DOMAIN Mnemonics ->
         [Flush(s) EXCEPT !.blocks = Append(@, PushLabel(token.name))]
    [] token.kind = "label" ->
         LET flushed == FlushSome(s)
         IN  [flushed EXCEPT !.labels = (token.name :> Len(flushed.blocks) + 1) @@ @]
    [] token.kind = "number" ->
         [s EXCEPT !.current = @ \o EncodePush(token.number)]
CreateBlocks(tokens) ==
  LET start == [blocks |-> << >>, labels |-> << >>, current |-> << >>]
      read[i \in 0 .. Len(tokens)] ==
        IF i = 0 THEN start ELSE ReadToken(read[i - 1], tokens[i])
  IN  FlushSome(read[Len(tokens)])

(***************************************************************************)
(* peephole_optimise: instructions move through a buffer whose end is      *)
(* rewritten as long as it can be.                                         *)
(***************************************************************************)
Fused(n, i) ==
  CASE i = Alu("add") -> <<AddSmall(n)>>
    [] i = ReadLocal -> <<Instruction("readOffset", n)>>
    [] i = WriteLocal -> <<Instruction("writeOffset", n)>>
    [] i.op = "addSmall" -> EncodePush(n + i.arg)
    [] OTHER -> << >>
RECURSIVE Simplify(_)
Simplify(buffer) ==
  LET count == Len(buffer)
      fused == IF count >= 2 /\ buffer[count - 1].op = "push"
               THEN Fused(buffer[count - 1].arg, buffer[count]) ELSE << >>
  IN  IF count > 0 /\ buffer[count] = AddSmall(0) THEN Simplify(Front(buffer))
      ELSE IF fused # << >> THEN Simplify(SubSeq(buffer, 1, count - 2) \o fused)
      ELSE buffer
PeepholeOptimise(is) ==
  FoldLeft(LAMBDA buffer, i : Simplify(Append(buffer, i)), << >>, is)

(***************************************************************************)
(* flatten_blocks.                                                         *)
(***************************************************************************)
LowIndices(sizes) ==
  FoldLeft(LAMBDA lows, size : Append(lows, Last(lows) + size), <<0>>, sizes)
RECURSIVE Settle(_, _, _)
Settle(blocks, labels, ranges) ==
  LET next == LowIndices([i \in DOMAIN blocks |->
                IF PushesLabel(blocks[i])
                THEN Len(EncodePush(ranges[labels[blocks[i].label]]))
                ELSE Len(blocks[i].is)])
  IN  IF next = ranges THEN ranges ELSE Settle(blocks, labels, next)
FlattenBlocks(blocks, labels) ==
  LET ranges == Settle(blocks, labels,
                  LowIndices([i \in DOMAIN blocks |->
                    IF PushesLabel(blocks[i]) THEN 1 ELSE Len(blocks[i].is)]))
  IN  FlattenSeq([i \in DOMAIN blocks |->
        IF PushesLabel(blocks[i]) THEN EncodePush(ranges[labels[blocks[i].label]])
        ELSE blocks[i].is])

(***************************************************************************)
(* assemble.  A label that is not defined, or has no block behind it, ends *)
(* the assembler with a panic.                                             *)
(***************************************************************************)
Assembles(tokens) ==
  LET made == CreateBlocks(tokens)
  IN  \A b \in ToSet(made.blocks) : PushesLabel(b) =>
        /\ b.label \in DOMAIN made.labels
        /\ made.labels[b.label] <= Len(made.blocks)
Assemble(tokens) ==
  LET made == CreateBlocks(tokens)
      shortened == [i \in DOMAIN made.blocks |->
                      [made.blocks[i] EXCEPT !.is = PeepholeOptimise(@)]]
      is == FlattenBlocks(shortened, made.labels)
  IN  << >> \o [i \in DOMAIN is |-> Encode(is[i])]
=============================================================================
