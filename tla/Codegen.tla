------------------------------- MODULE Codegen -------------------------------
(***************************************************************************)
(* The code generator of Statick (statick/codegen.rs) and its peephole     *)
(* optimizer (codegen/optimizer.rs): every declaration, and every term     *)
(* that is pushed, becomes a function made of blocks; blocks that nobody   *)
(* jumps to are joined to the block before them, jumps to jumps are made   *)
(* one, and jumps to the next block are dropped.                           *)
(*                                                                         *)
(* A label names what it is the label of: a function, or a place in one,   *)
(* by the path of expressions and terms that leads there.  The code counts *)
(* them instead; either way no two are the same.                           *)
(***************************************************************************)
EXTENDS Statick, Isa, Bitwise

NoLabel == ""
FunctionLabel(name) == "f_" \o name
PlaceLabel(path, tag) == ToString(<<path, tag>>)

Block(label, tokens) == [label |-> label, tokens |-> tokens]
CodeToken(kind, n, label, i) == [kind |-> kind, n |-> n, label |-> label, i |-> i]
N(n) == CodeToken("N", n, NoLabel, Raw(0))
L(label) == CodeToken("L", 0, label, Raw(0))
I(i) == CodeToken("I", 0, NoLabel, i)

(***************************************************************************)
(* rename_quoted_standard_library_functions: a quoted word that is not     *)
(* declared becomes a function of its own.                                 *)
(***************************************************************************)
NameForQuotedTerm(name, k) ==
  "'" \o name \o "_" \o ToString(IF k = NoSubscript THEN 0 ELSE k)
Declares(program, name) == \E d \in ToSet(program) : d.name = name
QuotedDeclarations(program) ==
  {Declaration(NameForQuotedTerm(e.name, e.n), <<NamedTermApp(e.name, e.n)>>) :
     e \in {x \in UNION {ToSet(SubExpressions(d.term)) : d \in ToSet(program)} :
              x.kind = "ref" /\ ~Declares(program, x.name)}}
RECURSIVE Renamed(_, _)
Renamed(program, term) ==
  [i \in DOMAIN term |->
     LET e == [term[i] EXCEPT !.terms = [j \in DOMAIN @ |-> Renamed(program, @[j])]]
     IN  IF e.kind = "ref" /\ ~Declares(program, e.name)
         THEN NamedTermRef(NameForQuotedTerm(e.name, e.n), NoSubscript) ELSE e]
Functions(program) ==
  {Declaration(d.name, Renamed(program, d.term)) : d \in ToSet(program)}
    \union QuotedDeclarations(program)

(***************************************************************************)
(* The words that are instructions.                                        *)
(***************************************************************************)
Comparisons ==
  "==" :> ZeroEqual @@ "!=" :> NotZeroNotEqual @@ ">=" :> UnsignedGreaterOrEqual @@
  "<=" :> UnsignedLessOrEqual @@ "<" :> UnsignedLess @@ ">" :> UnsignedGreater

\* A channel at offset k is fetched before the operation and dropped after.
Fetch(k) == IF k > 0 THEN <<N(k), I(ReadLocal)>> ELSE << >>
WordCode(name, k) ==
  CASE name = "true" -> <<N(1)>>
    [] name = "false" -> <<N(0)>>
    [] name = "apply" -> <<I(Function("call"))>>
    [] name \in {"swap", "dup", "drop", "tuck", "rot"} -> <<I(Stack(name))>>
    [] name = "chan" -> <<I(Process("create")), I(Stack("dup"))>>
    [] name = "proc" -> <<N(k), I(Process("start"))>>
    [] name = "?" -> Fetch(k) \o <<I(Process("receive"))>>
         \o (IF k > 0 THEN <<I(Stack("swap")), I(Stack("drop"))>> ELSE << >>)
    [] name = "!" -> Fetch(k) \o (IF k > 0 THEN <<I(Stack("swap"))>> ELSE << >>)
         \o <<I(Process("send"))>> \o (IF k > 0 THEN <<I(Stack("drop"))>> ELSE << >>)
    [] name = "del" -> Fetch(k) \o <<I(Process("destroy"))>>
    [] name = "not" -> <<I(Alu("not")), N(1), I(Alu("and"))>>
    [] name = "and" -> <<I(Alu("and"))>>
    [] name = "or" -> <<I(Alu("or"))>>
    [] name = "+" -> <<I(Alu("add"))>>
    [] name = "-" -> <<I(Alu("sub"))>>
    [] name = "." -> << >>
    [] name = "toInt" -> <<I(Stack("dup"))>>
    [] OTHER -> <<L(FunctionLabel(name)), I(Function("call"))>>

(***************************************************************************)
(* How a piece of code ends, and where it goes: asFunction for a return,   *)
(* exit for a label to go on at, onTrue and onFalse for the places that a  *)
(* comparison jumps to.                                                    *)
(***************************************************************************)
Goal(asFunction, exit, onTrue, onFalse) ==
  [asFunction |-> asFunction, exit |-> exit, onTrue |-> onTrue, onFalse |-> onFalse]
AsFunction == Goal(TRUE, NoLabel, NoLabel, NoLabel)
Fallthrough == Goal(FALSE, NoLabel, NoLabel, NoLabel)
ExitTo(label) == Goal(FALSE, label, NoLabel, NoLabel)

JumpTo(label, condition) == <<L(label), I(Jump(condition))>>
Exit(goal) ==
  IF goal.asFunction THEN <<I(Function("return"))>>
  ELSE IF goal.exit # NoLabel THEN JumpTo(goal.exit, Always) ELSE << >>

TermLabel(path) ==
  IF Len(path) = 1 THEN FunctionLabel(path[1]) ELSE PlaceLabel(path, "term")

\* What stands inside the expression at path: its j-th term.
Inside(path, j) == Append(path, j)

(***************************************************************************)
(* assemble_expression, one operator for each kind that makes blocks.      *)
(***************************************************************************)
Compares == <<I(Alu("compare"))>>
AssembleComparison(condition, path, goal) ==
  IF goal.onTrue # NoLabel
  THEN <<Block(NoLabel, Compares \o JumpTo(goal.onTrue, condition))>>
  ELSE IF goal.onFalse # NoLabel
  THEN <<Block(NoLabel, Compares \o JumpTo(goal.onFalse, Invert(condition)))>>
  ELSE <<Block(NoLabel, Compares \o Compares \o <<N(0)>> \o Exit(goal)),
         Block(PlaceLabel(path, "true"), <<N(1)>> \o Exit(goal))>>
\* Whether a condition ends in a comparison, which jumps where it holds.
Jumps(condition) ==
  /\ condition # << >>
  /\ Last(condition).kind = "app"
  /\ Last(condition).name \in DOMAIN Comparisons

RECURSIVE AssembleTerm(_, _, _)
\* mutant: the counter stays on the stack.
AssembleRepeatKeeping(e, path, goal) ==
  LET check == PlaceLabel(path, "check")
  IN  <<Block(NoLabel, <<N(0)>>)>>
        \o AssembleTerm(e.terms[1], Inside(path, 1), ExitTo(check))
        \o <<Block(check, <<N(1), I(Alu("add")), I(Stack("dup")), N(e.n)>> \o Compares
                      \o JumpTo(TermLabel(Inside(path, 1)), NotZeroNotEqual)
                      \o Exit(goal))>>
AssembleRepeat(e, path, goal) ==
  LET check == PlaceLabel(path, "check")
  IN  <<Block(NoLabel, <<N(0)>>)>>
        \o AssembleTerm(e.terms[1], Inside(path, 1), ExitTo(check))
        \o <<Block(check, <<N(1), I(Alu("add")), I(Stack("dup")), N(e.n)>> \o Compares
                      \o JumpTo(TermLabel(Inside(path, 1)), NotZeroNotEqual)
                      \o <<I(Stack("drop"))>> \o Exit(goal))>>

\* The test of a condition that is on the stack.
TestBlock(label, target, condition) ==
  Block(label, <<N(0)>> \o Compares \o JumpTo(target, condition))
AssembleIf(e, path, goal) ==
  LET needsExit == goal.exit = NoLabel /\ ~goal.asFunction
      exit == IF needsExit THEN PlaceLabel(path, "exit") ELSE goal.exit
      branchGoal == Goal(goal.asFunction, exit, NoLabel, NoLabel)
      jump == PlaceLabel(path, "jump")
      otherwise == TermLabel(Inside(path, 3))
      condition == AssembleTerm(e.terms[1], Inside(path, 1),
                                Goal(FALSE, jump, NoLabel, otherwise))
  IN  condition
        \o (IF Jumps(e.terms[1]) THEN << >> ELSE <<TestBlock(jump, otherwise, ZeroEqual)>>)
        \o AssembleTerm(e.terms[2], Inside(path, 2), branchGoal)
        \o AssembleTerm(e.terms[3], Inside(path, 3), branchGoal)
        \o (IF needsExit THEN <<Block(exit, << >>)>> ELSE << >>)

AssembleWhile(e, path, goal) ==
  LET start == TermLabel(Inside(path, 1))
      body == TermLabel(Inside(path, 2))
      check == PlaceLabel(path, "check")
      condition == AssembleTerm(e.terms[1], Inside(path, 1),
                                Goal(FALSE, check, body, NoLabel))
  IN  <<Block(NoLabel, JumpTo(start, Always))>>
        \o AssembleTerm(e.terms[2], Inside(path, 2), ExitTo(start))
        \o condition
        \o (IF Jumps(e.terms[1]) THEN << >>
            ELSE <<TestBlock(check, body, NotZeroNotEqual)>>)
        \o <<Block(NoLabel, Exit(goal))>>

\* The exit of an alternation that is not last is a label nobody defines.
AssembleAlternation(e, path, goal) ==
  LET exit == IF goal.exit = NoLabel /\ ~goal.asFunction
              THEN PlaceLabel(path, "exit") ELSE goal.exit
      arms == DOMAIN e.terms
      enables == [j \in arms |-> <<N(e.offsets[j]), I(ReadLocal), I(Process("enable"))>>]
      disables == [j \in arms |->
        <<L(TermLabel(Inside(path, j))), N(e.offsets[j] + 1), I(ReadLocal),
          I(Process("disable"))>>]
      bodies == [j \in arms |->
        AssembleTerm(e.terms[j], Inside(path, j),
                     Goal(goal.asFunction, exit, NoLabel, NoLabel))]
  IN  <<Block(NoLabel, <<I(Process("altStart"))>> \o Joined(enables)
                \o <<I(Process("altWait"))>> \o Joined(disables)
                \o <<I(Process("altEnd"))>>)>>
        \o Joined(bodies)

AssembleExpression(e, path, goal) ==
  LET simple(tokens) == <<Block(NoLabel, tokens \o Exit(goal))>>
  IN  CASE e.kind = "number" -> simple(<<N(e.n)>>)
        [] e.kind = "offset" -> simple(<<N(e.n), I(ReadLocal)>>)
        [] e.kind = "ref" -> simple(<<L(FunctionLabel(e.name))>>)
        [] e.kind = "anonymous" -> simple(<<L(TermLabel(Inside(path, 1)))>>)
        [] e.kind = "app" /\ e.name \in DOMAIN Comparisons ->
             AssembleComparison(Comparisons[e.name], path, goal)
        [] e.kind = "app" /\ e.name \notin DOMAIN Comparisons ->
             simple(WordCode(e.name, IF e.n = NoSubscript THEN 0 ELSE e.n))
        [] e.kind = "forever" ->
             AssembleTerm(e.terms[1], Inside(path, 1),
                          ExitTo(TermLabel(Inside(path, 1))))
        [] e.kind = "repeat" -> AssembleRepeat(e, path, goal)
        [] e.kind = "if" -> AssembleIf(e, path, goal)
        [] e.kind = "while" -> AssembleWhile(e, path, goal)
        [] e.kind = "alternation" -> AssembleAlternation(e, path, goal)

\* assemble_term: only the last expression ends the way the term does.
AssembleTerm(term, path, goal) ==
  <<Block(TermLabel(path), << >>)>>
    \o (IF term = << >> THEN <<Block(NoLabel, Exit(goal))>>
        ELSE Joined([i \in DOMAIN term |->
               AssembleExpression(term[i], Append(path, i),
                                  IF i = Len(term) THEN goal ELSE Fallthrough)]))

(***************************************************************************)
(* assemble_program: main first, the other functions in the order of the   *)
(* hash map, the terms that are pushed behind them.  The visitor that      *)
(* looks for those does not look inside the ones it finds.                 *)
(***************************************************************************)
RECURSIVE PushedTerms(_, _)
PushedTerms(term, path) ==
  Joined([i \in DOMAIN term |->
    IF term[i].kind = "anonymous"
    THEN AssembleTerm(term[i].terms[1], path \o <<i, 1>>, AsFunction)
    ELSE Joined([j \in DOMAIN term[i].terms |->
           PushedTerms(term[i].terms[j], path \o <<i, j>>)])])
AssembleDeclaration(d) == AssembleTerm(d.term, <<d.name>>, AsFunction)
AssembleProgram(order) ==
  LET isMain(d) == d.name = "main"
      isOther(d) == d.name # "main"
      inOrder(ds) == Joined([i \in DOMAIN ds |-> AssembleDeclaration(ds[i])])
  IN  inOrder(SelectSeq(order, isMain)) \o inOrder(SelectSeq(order, isOther))
        \o Joined([i \in DOMAIN order |->
             PushedTerms(order[i].term, <<order[i].name>>)])

(***************************************************************************)
(* collapse_adjacent_blocks.  A block is kept apart only when its label is *)
(* used.                                                                   *)
(***************************************************************************)
LabelsIn(tokens) == {t.label : t \in {x \in ToSet(tokens) : x.kind = "L"}}
Collapsed(blocks) ==
  LET used == UNION {LabelsIn(b.tokens) : b \in ToSet(blocks)}
      join(kept, b) ==
        IF kept = << >> \/ b.label \in used THEN Append(kept, b)
        ELSE [kept EXCEPT ![Len(kept)].tokens = @ \o b.tokens]
  IN  FoldLeft(join, << >>, blocks)

(***************************************************************************)
(* The union-find table: the target of a block that only jumps, or of an   *)
(* empty one, points to that block, and the last of several counts.        *)
(***************************************************************************)
IsJump(tokens, at) ==
  at < Len(tokens) /\ tokens[at].kind = "L" /\ tokens[at + 1] = I(Jump(Always))
Target(blocks, i) ==
  LET tokens == blocks[i].tokens
  IN  IF IsJump(tokens, 1) THEN tokens[1].label
      ELSE IF tokens = << >> /\ i < Len(blocks) THEN blocks[i + 1].label
      ELSE blocks[i].label
Parents(blocks) ==
  LET point(parents, i) ==
        LET target == Target(blocks, i)
        IN  IF target = blocks[i].label THEN parents
            ELSE (target :> blocks[i].label) @@ parents
  IN  FoldLeft(point, << >>, [i \in DOMAIN blocks |-> i])
Added(blocks) ==
  {b.label : b \in ToSet(blocks)} \union {Target(blocks, i) : i \in DOMAIN blocks}

\* find, with the labels that were passed: on a circle it does not end.
RECURSIVE Find(_, _, _)
Find(parents, label, passed) ==
  IF label \in passed THEN NoLabel
  ELSE IF label \in DOMAIN parents
       THEN Find(parents, parents[label], passed \union {label})
       ELSE label
Representative(parents, label) == Find(parents, label, {})

\* mutant: a jump is dropped wherever it goes.
CutsAll(blocks, parents, i) ==
  {at \in DOMAIN blocks[i].tokens : i < Len(blocks) /\ IsJump(blocks[i].tokens, at)}
\* A block ends before its first jump to the next block, or behind its last return.
Cuts(blocks, parents, i) ==
  {at \in DOMAIN blocks[i].tokens :
     /\ i < Len(blocks)
     /\ IsJump(blocks[i].tokens, at)
     /\ LET target == Representative(parents, blocks[i].tokens[at].label)
        IN  /\ target = Representative(parents, blocks[i + 1].label)
            /\ target # Representative(parents, blocks[i].label)}
Returns(blocks, i) ==
  {at \in 2 .. Len(blocks[i].tokens) :
     i < Len(blocks) /\ blocks[i].tokens[at] = I(Function("return"))}
Kept(blocks, parents, i) ==
  LET cuts == Cuts(blocks, parents, i)
      returns == Returns(blocks, i)
      first(ats) == CHOOSE a \in ats : \A b \in ats : a <= b
      last(ats) == CHOOSE a \in ats : \A b \in ats : a >= b
      length == IF cuts # {} THEN first(cuts) - 1
                ELSE IF returns # {} THEN last(returns)
                ELSE Len(blocks[i].tokens)
  IN  SubSeq(blocks[i].tokens, 1, length)
Relabelled(parents, token) ==
  IF token.kind = "L" THEN L(Representative(parents, token.label)) ELSE token
CollapseAdjacentBlocks(blocks) ==
  LET parents == Parents(blocks)
      shorter == [i \in DOMAIN blocks |->
        LET kept == Kept(blocks, parents, i)
        IN  Block(Representative(parents, blocks[i].label),
                  [at \in DOMAIN kept |-> Relabelled(parents, kept[at])])]
      hasTokens(b) == b.tokens # << >>
  IN  SelectSeq(shorter, hasTokens)

\* No label is looked up that is not in the table, and every search ends.
Examined(blocks, parents, i) ==
  {blocks[i].tokens[at].label :
     at \in {a \in DOMAIN blocks[i].tokens :
              /\ i < Len(blocks)
              /\ IsJump(blocks[i].tokens, a)
              /\ \A cut \in Cuts(blocks, parents, i) : a <= cut}}
Collapses(blocks) ==
  LET parents == Parents(blocks)
      found(label) == label \in Added(blocks) /\ Representative(parents, label) # NoLabel
  IN  \A i \in DOMAIN blocks :
        /\ found(blocks[i].label)
        /\ \A label \in Examined(blocks, parents, i)
                          \union LabelsIn(Kept(blocks, parents, i)) : found(label)

(***************************************************************************)
(* optimizer::peephole.  The inversion of a constant is computed and kept. *)
(* Constants that do not fit a word end the compiler with a panic.         *)
(***************************************************************************)
IsAlu(token) == token.kind = "I" /\ token.i.op = "alu"
FitsWord(n) == n \in 0 .. 65535
Fold(op, a, b) ==
  CASE op = Op.add -> <<a + b>>
    [] op = Op.sub -> <<a - b>>
    [] op = Op.and -> <<a & b>>
    [] op = Op.or -> <<a | b>>
    [] op = Op.xor -> <<a ^^ b>>
    [] OTHER -> << >>
PeepholeStep(done, token) ==
  LET tokens == done.tokens
      count == Len(tokens)
      back == IF count = 0 THEN I(Raw(0)) ELSE tokens[count]
      second == IF count < 2 THEN I(Raw(0)) ELSE tokens[count - 1]
      folded == IF IsAlu(token) /\ back.kind = "N" /\ second.kind = "N"
                THEN Fold(token.i.arg, second.n, back.n) ELSE << >>
      keep(ts) == [done EXCEPT !.tokens = Append(ts, token)]
      drop == [done EXCEPT !.tokens = Front(@)]
  IN  CASE token = I(Stack("drop")) /\ (back.kind = "N" \/ back = I(Stack("dup"))) -> drop
        [] token = I(Stack("swap")) /\ back = token -> drop
        [] folded # << >> ->
             [tokens |-> Append(SubSeq(tokens, 1, count - 2), N(folded[1])),
              fits |-> done.fits /\ FitsWord(folded[1])]
        [] token = I(Alu("not")) /\ count >= 2 /\ back.kind = "N" ->
             keep(Append(Front(tokens), N(65535 - back.n)))
        [] OTHER -> keep(tokens)
Peephole(tokens) == FoldLeft(PeepholeStep, [tokens |-> << >>, fits |-> TRUE], tokens)

(***************************************************************************)
(* codegen, for one order of the functions.                                *)
(***************************************************************************)
Orders(program) == SetToSeqs(Functions(program))
CodegenSucceeds(order) ==
  LET blocks == Collapsed(AssembleProgram(order))
  IN  /\ Collapses(blocks)
      /\ \A b \in ToSet(CollapseAdjacentBlocks(blocks)) : Peephole(b.tokens).fits
Codegen(order) ==
  LET blocks == CollapseAdjacentBlocks(Collapsed(AssembleProgram(order)))
  IN  [i \in DOMAIN blocks |->
         Block(blocks[i].label, Peephole(blocks[i].tokens).tokens)]

=============================================================================
