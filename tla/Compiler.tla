------------------------------ MODULE Compiler ------------------------------
(***************************************************************************)
(* compile_str (statick/compiler.rs) from the words of a program to the    *)
(* bytes of it, with as (the assembler) behind it and the simulated        *)
(* machine that runs them.  Every stage takes what the stage before it     *)
(* made; a program may also be written for the assembler directly, as      *)
(* those under programs/ are.                                              *)
(***************************************************************************)
EXTENDS Parser, Types, Codegen, Assembler, Machine, Meaning

CONSTANT Sources        \* the programs

VARIABLES source,       \* the program this is about
          stage,        \* how far it has come
          made,         \* what the last stage made of it
          mainType      \* the type of main, when the program was checked
compilerVars == <<source, stage, made, mainType>>
vars == <<compilerVars, machineVars>>

\* The text that the code generator writes, as the assembler reads it.
TokenText(token) ==
  CASE token.kind = "N" -> NumberToken(token.n)
    [] token.kind = "L" -> Identifier(token.label)
    [] token.kind = "I" -> Identifier(Spelling[token.i])
CodeText(blocks) ==
  Joined([i \in DOMAIN blocks |->
    <<Label(blocks[i].label)>>
      \o [at \in DOMAIN blocks[i].tokens |-> TokenText(blocks[i].tokens[at])]])

(***************************************************************************)
(* A source: the words of a Statick program with the tree that they were   *)
(* written from, if there is one, or the tokens of an assembly program;    *)
(* and the final stack of each process, if that is known, from the top, as *)
(* the words that may lie there.                                           *)
(***************************************************************************)
Source(words, tree, tokens, expected) ==
  [words |-> words, tree |-> tree, tokens |-> tokens, expected |-> expected]
Unknown == << >>
Program(tree) == Source(Write(tree), tree, << >>, Unknown)
Text(words, expected) == Source(words, << >>, << >>, expected)
Assembly(tokens, expected) == Source(<< >>, << >>, tokens, expected)
IsStatick(s) == s.tokens = << >>

Init ==
  /\ source \in Sources
  /\ stage = "written"
  /\ made = << >>
  /\ mainType = Void
  /\ MachineInit(<< >>)

Become(next, product) ==
  /\ stage' = next
  /\ made' = product
  /\ UNCHANGED source
UnchangedMachine == UNCHANGED machineVars

LexAndParse ==
  /\ stage = "written"
  /\ IsStatick(source)
  /\ LET parsed == Parse(Lex(source.words))
     IN  CASE parsed.status = "ok" -> Become("parsed", parsed.value)
           [] parsed.status = "panic" -> Become("parser panicked", << >>)
           [] OTHER -> Become("syntax error", << >>)
  /\ UNCHANGED mainType
  /\ UnchangedMachine

CheckTypes ==
  /\ stage = "parsed"
  /\ LET checked == TypeCheck(made)
     IN  CASE checked.status = "ok" ->
                Become("checked", made) /\ mainType' = checked.env["main"]
           [] checked.status = "panic" ->
                Become("checker panicked", << >>) /\ UNCHANGED mainType
           [] OTHER -> Become("type error", << >>) /\ UNCHANGED mainType
  /\ UnchangedMachine

\* The functions stand in a hash map: any order of them may come out.
GenerateCode ==
  /\ stage = "checked"
  /\ \E order \in Orders(made) :
       IF CodegenSucceeds(order) THEN Become("generated", CodeText(Codegen(order)))
       ELSE Become("panicked", << >>)
  /\ UNCHANGED mainType
  /\ UnchangedMachine

(***************************************************************************)
(* assemble and set_instructions: the program goes into a cell, if it is   *)
(* not too long.                                                           *)
(***************************************************************************)
AssembleAndLoad ==
  /\ stage = "generated" \/ (stage = "written" /\ ~IsStatick(source))
  /\ LET tokens == IF stage = "written" THEN source.tokens ELSE made
         bytes == Assemble(tokens)
     IN  IF Assembles(tokens) /\ Len(bytes) < CellSize
         THEN Become("running", << >>) /\ code' = bytes
         ELSE Become("panicked", << >>) /\ UNCHANGED code
  /\ UNCHANGED <<mainType, cells, flags, hasAlternationValue, message, state,
                 channels, alternationReady, number, finalStacks, failure>>

RunProgram ==
  /\ stage = "running"
  /\ MachineStep
  /\ UNCHANGED compilerVars

\* A program that was refused, or has nothing left to run, stays as it is.
Refused == stage \in {"syntax error", "parser panicked", "type error",
                       "checker panicked", "panicked"}
Ended == stage = "running" /\ Stopped
Rest ==
  /\ Refused \/ Ended
  /\ UNCHANGED vars

(***************************************************************************)
(* The simulator goes on as long as a process runs.  Fairness is           *)
(* WF_vars(RunProgram) with its ENABLED written out: a machine that has    *)
(* not stopped can take a step (the runs check for deadlock).              *)
(***************************************************************************)
Next ==
  \/ LexAndParse \/ CheckTypes \/ GenerateCode \/ AssembleAndLoad
  \/ RunProgram
  \/ Rest
CanRun == stage = "running" /\ ~Stopped
Fairness == []<>~CanRun \/ []<><<RunProgram>>_vars
Spec == Init /\ [][Next]_vars /\ Fairness

-----------------------------------------------------------------------------
Halted(n) == n \in DOMAIN finalStacks

\* A program that is read is read as it was written: writing a tree and
\* reading the words back gives the tree, wherever terms, brackets, bars,
\* offsets and names with numbers follow each other (the look-ahead of
\* parse_expression_list and parse_alternation).
ParsedAsWritten ==
  source.tree # << >> => /\ stage \notin {"syntax error", "parser panicked"}
                         /\ stage = "parsed" => made = source.tree

\* What the type checker lets through makes neither the code generator nor
\* the assembler panic, runs into no error on any core, and never operates
\* on a word that is no channel, however its processes interleave.
WellTypedRunsClean ==
  IsStatick(source) => stage # "panicked" /\ failure \notin {"error", "misuse"}

\* No process of a well-typed program sends on, receives from, enables,
\* disables or deletes a word that is no channel.
ChannelOperationsAreSafe == IsStatick(source) => failure # "misuse"

\* When main ends, its stack has as many words as its type has items: the
\* type checker's account of every word, call, branch, loop and receive is
\* the account of the code that was generated for it.
StackAsTyped ==
  IsStatick(source) /\ Halted(0) =>
    Len(finalStacks[0]) = Len(mainType.outputs.items)

\* A sequential program leaves on the stack what its terms mean, whichever
\* order the hash map of functions had, and whatever was inlined, joined,
\* folded and dropped by the collapsing of blocks and the two peephole
\* optimizers.
SameWord(value, word) == value.kind = "word" => value.n = word
RunsAsWritten ==
  IsSequential(source.tree) /\ Ended =>
    LET meaning == MeaningOf(source.tree)
        stack == Reverse(meaning.stack)
    IN  meaning.status # "long" =>
          /\ IsReached(meaning)
          /\ Halted(0)
          /\ Len(stack) = Len(finalStacks[0])
          /\ \A i \in DOMAIN stack : SameWord(stack[i], finalStacks[0][i])

\* A program of the run that comes with the final stacks of its processes ends
\* with them in every interleaving.  They are the programs whose stacks the
\* repository states (programs/*.txt and the tests of compiler/test.rs and
\* processor/mod.rs) but for the six of MCCompiler!ContradictedTests, which do
\* not; the program of README.md; and one pipeline of our own.
RunsAsExpected ==
  source.expected # Unknown =>
    /\ ~Refused
    /\ Ended => \A n \in DOMAIN source.expected :
         /\ Halted(n - 1)
         /\ Len(finalStacks[n - 1]) = Len(source.expected[n])
         /\ \A i \in DOMAIN source.expected[n] :
              finalStacks[n - 1][i] \in source.expected[n][i]

\* A program that was started comes to an end: no process of a well-typed
\* program waits for ever for a partner, and every loop of the compiled code
\* is left.  The programs with a loop without end have none.
Endless(tree) ==
  \E d \in ToSet(tree) : \E e \in ToSet(SubExpressions(d.term)) : e.kind = "forever"
MustEnd(s) == IF IsStatick(s) THEN ~Endless(s.tree) ELSE s.expected # Unknown
AllEnded == failure # "none" \/ \A p \in Pids : state[p] = "dead"
EveryProgramEnds == (stage = "running" /\ MustEnd(source)) ~> AllEnded
=============================================================================
