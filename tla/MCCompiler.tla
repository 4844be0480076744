----------------------------- MODULE MCCompiler -----------------------------
(***************************************************************************)
(* The programs that the compiler is checked on: all short terms, all      *)
(* small nestings of branches and loops, small sets of functions that call *)
(* each other, all short uses of a channel by two processes, and the       *)
(* repository's own tests but for the six of ContradictedTests.            *)
(*                                                                         *)
(* Left out is what the README lists as wrong in the compiler: comparisons *)
(* whose result is not a condition, a constant before "not", differences   *)
(* of constants below zero, pushed terms inside pushed terms, alternations *)
(* and recursive functions whose branches differ in depth.                 *)
(***************************************************************************)
EXTENDS Compiler

W(name) == NamedTermApp(name, NoSubscript)
Q(name) == NamedTermRef(name, NoSubscript)
Main(term) == <<Declaration("main", term)>>

(***************************************************************************)
(* Terms of at most three words.                                           *)
(***************************************************************************)
Constants == {Number(3), W("true")}
Simple ==
  Constants \union {W(w) : w \in {"dup", "swap", "drop", "rot", "+", "-", "and", "toInt"}}
    \union {Offset(1)}
StraightTerms == {<<a, b, c>> : a \in Constants, b \in Simple, c \in Simple}
QuotedTerms ==
  {<<a, b>> \o q \o <<W("apply")>> :
     a \in {Number(3)}, b \in {Number(3), W("true")},
     q \in {<<Q(w)>> : w \in {"dup", "swap", "+", "or", "not", "."}}
             \union {<<AnonymousTerm(t)>> : t \in {<< >>, <<W("swap"), W("drop")>>}}}

(***************************************************************************)
(* Branches and loops, on a number that no term takes away.                *)
(***************************************************************************)
IsThree == <<W("dup"), Number(3), W("==")>>
NoBranch == {<< >>, <<Number(1), W("+")>>}
Counted(body) == Repeat(2, <<W("swap")>> \o body \o <<W("swap")>>)
Branches(bodies) ==
  {<<If(c, t, f)>> : c \in {IsThree, <<W("true"), W("dup"), W("and")>>}, t \in bodies, f \in bodies}
Loops(bodies) ==
  {<<Counted(b)>> : b \in bodies}
    \union {<<While(<<W("dup"), Number(6), W(w)>>, b \o <<Number(1), W("+")>>)>> :
              w \in {"<", "<="}, b \in bodies}
Flat == NoBranch \union Branches(NoBranch) \union Loops(NoBranch)
Nested ==
  Branches(Flat) \union Loops(Flat) \union {s \o t : s \in Flat, t \in Flat}
ControlTerms == {<<Number(3)>> \o t : t \in Nested}

(***************************************************************************)
(* Three functions.                                                        *)
(***************************************************************************)
Calls(name) == {<<W(name)>>, <<Q(name), W("apply")>>}
Countdown == <<If(<<Offset(0), Number(0), W("==")>>, << >>,
                  <<Number(1), W("-"), W("bb")>>)>>
FunctionPrograms ==
  {<<Declaration("main", <<Number(3)>> \o m), Declaration("aa", a), Declaration("bb", b)>> :
     m \in {x \o y : x \in Calls("aa"), y \in Calls("bb")} \union Calls("aa"),
     a \in {<< >>, <<W("dup")>>, <<W("bb")>>, <<W("bb"), W("bb")>>,
            <<If(IsThree, <<W("bb")>>, << >>)>>},
     b \in {<< >>, <<Number(1), W("+")>>, <<If(IsThree, << >>, <<W("dup"), W("drop")>>)>>,
            Countdown}}

(***************************************************************************)
(* Two processes and a channel.                                            *)
(***************************************************************************)
Times(n, term) == FlattenSeq([i \in 1 .. n |-> term])
Sent == {Times(n, <<Number(3), W("!")>>) : n \in 0 .. 2}
          \union {<<W("true"), NamedTermApp("!", 1)>>,
                  <<Repeat(2, <<W("swap"), Number(3), W("!"), W("swap")>>)>>}
ChannelPrograms ==
  {<<Declaration("main", <<NamedTermApp("chan", k), Q("sender"), NamedTermApp("proc", 1)>>
                           \o received \o end),
     Declaration("sender", used)>> :
     k \in 0 .. 2,
     received \in {Times(n, <<W("?"), W("drop")>>) : n \in 0 .. 2}
                    \union {<<W("?"), W("swap"), W("?"), W("rot")>>,
                            <<Number(3), NamedTermApp("?", 1), W("+"), W("swap")>>,
                            <<Repeat(2, <<W("swap"), W("?"), W("drop"), W("swap")>>)>>},
     end \in {<< >>, <<W("del")>>, <<W("drop")>>},
     used \in Sent \union {s \o <<W("drop")>> : s \in Sent \ {<< >>}}}
EndlessPrograms ==
  {<<Declaration("main", <<W("chan"), Q("other"), NamedTermApp("proc", 1),
                           Forever(<<W("?"), W("drop")>>)>>),
     Declaration("other", <<Forever(<<Number(1), W("!")>>)>>)>>}

(***************************************************************************)
(* compiler/test.rs: every program that it compiles and runs, word for     *)
(* word, with the stacks that it asserts.                                  *)
(***************************************************************************)
Exactly(stack) == [i \in DOMAIN stack |-> {stack[i]}]
Ends(stack) == <<Exactly(stack)>>
IfTest(condition, result) ==
  Text(<<"main", "=", "if", "(">> \o condition
         \o <<")", "then", "(", "13", ")", "else", "(", "12", ")">>, Ends(<<result>>))
IfTests ==
  {IfTest(c, 13) :
     c \in {<<"true">>, <<"0", "1", "!=">>, <<"0", "1", "<">>, <<"0", "1", "<=">>,
            <<"true", "true", "and">>, <<"true", "true", "or">>, <<"true", "false", "or">>,
            <<"false", "true", "or">>, <<"false", "not">>}}
    \union {IfTest(c, 12) :
     c \in {<<"false">>, <<"0", "1", "==">>, <<"0", "1", ">">>, <<"0", "1", ">=">>,
            <<"true", "false", "and">>, <<"false", "false", "and">>,
            <<"false", "false", "or">>, <<"true", "not">>}}
ComparisonTest(a, b, comparison, result) ==
  Text(<<"main", "=", a, b, "if", "(", comparison, ")", "then", "(", "7", ")",
         "else", "(", "13", ")">>, Ends(<<result>>))
ComparisonTests ==
  {ComparisonTest("1", "2", w, 7) : w \in {"!=", "<", "<="}}
    \union {ComparisonTest("1", "2", w, 13) : w \in {"==", ">", ">="}}
    \union {ComparisonTest("2", "2", w, 7) : w \in {"==", "<=", ">="}}
    \union {ComparisonTest("2", "2", "!=", 13), ComparisonTest("3", "2", "<=", 13),
            ComparisonTest("2", "3", ">=", 13)}
FibTests ==
  {Text(<<"main", "=", Numeral(n), "fib", "fib", "=", "if", "(", "@", "0", "0", "==", ")",
          "then", "(", ")", "else", "(", "if", "(", "@", "0", "1", "==", ")", "then", "(",
          ")", "else", "(", "@", "0", "1", "-", "fib", "swap", "2", "-", "fib", "+", ")",
          ")">>, Ends(<<<<0, 1, 1, 2, 3>>[n + 1]>>)) : n \in 0 .. 4}
CompilerTests ==
  IfTests \union ComparisonTests \union FibTests \union
  {Text(<<"main", "=", ".">>, Ends(<< >>)),
   Text(<<"main", "=", "1", "2", "+">>, Ends(<<3>>)),
   Text(<<"main", "=", "7", "1", "-">>, Ends(<<6>>)),
   Text(<<"main", "=", "while", "(", "false", ")", "do", "(", ")", "42">>,
        Ends(<<42>>)),
   Text(<<"main", "=", "0", "while", "(", "dup", "10", "!=", ")", "do", "(", "1",
          "+", ")">>, Ends(<<10>>)),
   Text(<<"main", "=", "7", "true", "while", "(", "dup", "true", "and", ")", "do",
          "(", "swap", "1", "+", "swap", "not", ")", "drop">>, Ends(<<8>>)),
   Text(<<"main", "=", "'", "other", "apply", "other", "=", "10">>, Ends(<<10>>)),
   Text(<<"main", "=", "other", "other", "=", "10">>, Ends(<<10>>)),
   Text(<<"main", "=", "true">>, Ends(<<1>>)),
   Text(<<"main", "=", "false">>, Ends(<<0>>)),
   Text(<<"main", "=", "1">>, Ends(<<1>>)),
   Text(<<"main", "=", "0", "(", "1", "+", ")", "apply">>, Ends(<<1>>)),
   Text(<<"main", "=", "true", "fn", "fn", "=", "if", "(", ")", "then", "(", "0",
          ")", "else", "(", "1", ")">>, Ends(<<0>>)),
   Text(<<"main", "=", "0", "rec", "rec", "=", "if", "(", "@", "0", "0", "==", ")",
          "then", "(", ")", "else", "(", "1", "-", "rec", ")">>, Ends(<<0>>)),
   Text(<<"main", "=", "(", ")", "proc">>, <<Exactly(<< >>), Exactly(<< >>)>>),
   Text(<<"main", "=", "chan", "_", "1", "(", "1", "!", "drop", ")", "proc", "_",
          "1", "?", "drop", "del">>, <<Exactly(<< >>), Exactly(<< >>)>>),
   Text(<<"main", "=", "0", "dupDup", "dupDup", "=", "dup", "dup">>, Ends(<<0, 0, 0>>)),
   Text(<<"main", "=", "0", "dupDrop", "dupDrop", "=", "dup", "drop">>, Ends(<<0>>)),
   Text(<<"main", "=", "myMakeOnce", "'", "sender", "proc", "_", "1", "?", "swap",
          "del", "myMakeOnce", "=", "chan", "_", "1", "sender", "=", "10", "!",
          "drop">>, <<Exactly(<<10>>), Exactly(<< >>)>>),
   Text(<<"main", "=", "chan", "_", "1", "'", "sender", "proc", "_", "1", "?",
          "drop", "drop", "sender", "=", "10", "!", "drop">>,
        <<Exactly(<< >>), Exactly(<< >>)>>),
   Text(<<"main", "=", "chan", "_", "1", "'", "sender", "proc", "_", "1", "2", "?",
          "_", "1", "+", "del", "_", "1", "swap", "drop", "sender", "=", "10", "!",
          "_", "1", "1", "swap", "drop">>, <<Exactly(<<12>>), Exactly(<<1>>)>>),
   Text(<<"main", "=", "1", "2", "'", "+", "apply">>, Ends(<<3>>)),
   Text(<<"main", "=", "1", "if", "(", "1", "==", ")", "then", "(", "10", "if", "(",
          "10", "==", ")", "then", "(", "13", ")", "else", "(", "14", ")", ")",
          "else", "(", "19", ")">>, Ends(<<13>>)),
   Text(<<"main", "=", "0", "repeat", "_", "10", "(", "repeat", "_", "10", "(",
          "tuck", "1", "+", "rot", ")", ")">>, Ends(<<100>>)),
   Text(<<"main", "=", "2", "repeat", "_", "1", "(", "swap", "1", "+", "swap", ")">>,
        Ends(<<3>>)),
   Text(<<"main", "=", "2", "repeat", "_", "2", "(", "swap", "2", "+", "swap", ")">>,
        Ends(<<6>>)),
   Text(<<"main", "=", "2", "repeat", "_", "10", "(", "swap", "2", "+", "swap",
          ")">>, Ends(<<22>>)),
   Text(<<"main", "=", "repeat", "_", "10", "(", "toInt", "swap", ")">>,
        Ends(<<9, 8, 7, 6, 5, 4, 3, 2, 1, 0>>)),
   Text(<<"main", "=", "chan", "_", "3", "'", "sender", "proc", "_", "1", "repeat",
          "_", "3", "(", "swap", "?", "drop", "swap", ")", "del", "sender", "=",
          "repeat", "_", "3", "(", "swap", "4", "!", "swap", ")", "drop">>,
        <<Exactly(<< >>), Exactly(<< >>)>>)}

\* The program of README.md with the value that it sends, and a pipeline of
\* three processes, which is not from the repository.
DocumentedPrograms ==
  {Text(<<"main", "=", "chan", "_", "1", "'", "sender", "proc", "_", "1", "?", "swap",
          "del", "sender", "=", "42", "!", "drop">>, <<Exactly(<<42>>), Exactly(<< >>)>>),
   Text(<<"main", "=", "chan", "_", "1", "'", "source", "proc", "_", "1",
          "chan", "_", "1", "tuck", "'", "stage", "proc", "_", "2", "?", "swap", "del",
          "stage", "=", "?", "swap", "del", "!", "drop",
          "source", "=", "7", "!", "drop">>,
        <<Exactly(<<7>>), Exactly(<< >>), Exactly(<< >>)>>)}

(***************************************************************************)
(* Assembly programs, as they stand: every one under programs/ that says   *)
(* what it expects, and the tests of processor/mod.rs that assert a stack. *)
(* A channel on a stack may have any address.                              *)
(***************************************************************************)
LabelNames ==
  {"_add", "_add2", "_double", "_end", "_fail", "_func", "_start",
   "_success", "case1", "case2", "cleanup", "done", "doneChan0", "doneChan1",
   "doneChanB0", "doneChanB1", "main", "next", "p0", "p1", "proc0", "proc1",
   "proc2", "proc3", "subsequent"}
AsmWord(word) ==
  IF \E l \in LabelNames : word = l \o ":"
  THEN Label(CHOOSE l \in LabelNames : word = l \o ":")
  ELSE IF LexWord(word).kind = "number" THEN NumberToken(LexWord(word).n)
  ELSE Identifier(word)
Asm(words) == [i \in DOMAIN words |-> AsmWord(words[i])]
AChannel == Channels
UpTo(n) == [i \in 1 .. n + 1 |-> i - 1]
Nops(n) == [i \in 1 .. n |-> "nop"]
ProgramTests ==
  {Assembly(Asm(<<"1", "15", "+", ".">>), Ends(<<16>>)),
   Assembly(Asm(<<"proc1:", "chan", "dup", "proc2", "1", "start", "altstart", "dup",
                  "enable", "altwait", "done", "disable", "altend", ".", "done:",
                  "1", "+", ".", "proc2:", "42", "!", "del", ".">>),
            <<Exactly(<<43>>), Exactly(<< >>)>>),
   Assembly(Asm(<<"proc1:", "chan", "chan", "1", "get", "proc2", "1", "start", "0",
                  "get", "proc3", "1", "start", "altstart", "1", "get", "enable",
                  "0", "get", "enable", "altwait", "1", "get", "doneChan0",
                  "disable", "0", "get", "doneChan1", "disable", "altend", ".",
                  "doneChan0:", "1", "+", ".", "doneChan1:", "2", "+", ".",
                  "proc2:", "42", "!", "del", ".", "proc3:", ".">>),
            << <<{43}, AChannel, AChannel>>, Exactly(<< >>), <<AChannel>> >>),
   Assembly(Asm(<<"proc1:", "chan", "chan", "1", "get", "proc2", "1", "start", "0",
                  "get", "proc3", "1", "start", "altstart", "0", "get", "enable",
                  "1", "get", "enable", "altwait", "0", "get", "doneChan1",
                  "disable", "1", "get", "doneChan0", "disable", "altend", ".",
                  "doneChan0:", "1", "+", ".", "doneChan1:", "2", "+", ".",
                  "proc2:", ".", "proc3:", "42", "!", "del", ".">>),
            << <<{44}, AChannel, AChannel>>, <<AChannel>>, Exactly(<< >>)>>),
   Assembly(Asm(<<"proc0:", "chan", "dup", "proc1", "1", "start", "3", "!", "del",
                  ".", "proc1:", "?", "swap", "drop", ".">>),
            <<Exactly(<< >>), Exactly(<<3>>)>>),
   Assembly(Asm(<<"_start:", "1", "_double", "call", ".", "_double:", "dup", "+",
                  "ret">>), Ends(<<2>>)),
   Assembly(Asm(<<"_start:", "_func", "call", ".", "_func:", "1", ".">>), Ends(<<1>>)),
   Assembly(Asm(<<"_start:", "_func", "call", "1", ".", "_func:", "ret">>),
            Ends(<<1>>)),
   Assembly(Asm(<<"_start:", "1", "1", "1", "_add", "call", ".", "_add:", "+",
                  "_add2", "call", "ret", "_add2:", "+", "ret">>), Ends(<<3>>)),
   Assembly(Asm(<<"_start:", "0", "1", "cmp", "_success", "jl", "_fail:", "0", ".",
                  "_success:", "1", ".">>), Ends(<<1>>)),
   Assembly(Asm(<<"0", "1", "2", "3", "cmp", ".">>), Ends(<<1, 0>>)),
   Assembly(Asm(<<"chan", ".">>), << <<AChannel>> >>),
   Assembly(Asm(<<"chan", "del", ".">>), Ends(<< >>)),
   Assembly(Asm(<<"proc1:", "1", "proc2", "0", "start", ".", "proc2:", "2", "3",
                  "proc3", "1", "start", ".", "proc3:", "4", "+", ".">>),
            <<Exactly(<<1>>), Exactly(<<2>>), Exactly(<<7>>)>>),
   Assembly(Asm(<<"1", "drop", ".">>), Ends(<< >>)),
   Assembly(Asm(<<"1", "2", "3", "drop", "drop", ".">>), Ends(<<1>>)),
   Assembly(Asm(<<"1", "dup", ".">>), Ends(<<1, 1>>)),
   Assembly(Asm(<<"5", "dup", "+", ".">>), Ends(<<10>>)),
   Assembly(Asm(<<".">>), Ends(<< >>)),
   Assembly(Asm(<<"_start:", "_end", "jump", ".", "_end:", "1", ".">>), Ends(<<1>>)),
   Assembly(Asm(<<"next", "j", "next:", "10", ".">>), Ends(<<10>>)),
   Assembly(Asm(<<"1", "nop", "2", "nop", "3", "nop", ".">>), Ends(<<3, 2, 1>>)),
   Assembly(Asm(<<"0", "1", "2", "3", "4", "5", "6", "7", "8", "9", "10", "11",
                  "12", "13", "14", "15", ".">>), Ends(Reverse(UpTo(15)))),
   Assembly(<<NumberToken(65520)>> \o Asm(<<".">>), Ends(<<65520>>)),
   Assembly(<<NumberToken(65521)>> \o Asm(<<".">>), Ends(<<65521>>)),
   Assembly(Asm(<<"17", ".">>), Ends(<<17>>)),
   Assembly(Asm(<<"1", ".">>), Ends(<<1>>)),
   Assembly(Asm(<<"1", "2", "3", "4", ".">>), Ends(<<4, 3, 2, 1>>)),
   Assembly(Asm(<<"1", "2", ".">>), Ends(<<2, 1>>)),
   Assembly(Asm(<<"10", "0", "get", "+", ".">>), Ends(<<20>>)),
   Assembly(Asm(<<"5", "10", "1", "get", "+", "+", ".">>), Ends(<<20>>)),
   Assembly(Asm(<<"7", "5", "10", "2", "get", ".">>), Ends(<<7, 10, 5, 7>>)),
   Assembly(Asm(<<"20", "19", "18", "17", "16", "15", "14", "13", "12", "11", "10",
                  "9", "8", "7", "6", "5", "4", "3", "2", "1", "0", "20", "get",
                  "20", "get", "20", "get", "20", "get", "20", "get", ".">>),
            Ends([i \in 1 .. 5 |-> 15 + i] \o UpTo(20))),
   Assembly(Asm(<<"3", "7", "5", "10", "3", "get", ".">>), Ends(<<3, 10, 5, 7, 3>>)),
   Assembly(Asm(<<"proc1:", "chan", "dup", "proc2", "1", "start", "?", "swap",
                  "drop", ".", "proc2:", "42">>
                \o Nops(21)
                \o <<"!", "drop", ".">>), <<Exactly(<<42>>), Exactly(<< >>)>>),
   Assembly(Asm(<<"7", "ret">>), Ends(<<7>>)),
   Assembly(Asm(<<"3", "2", "1", "rot", ".">>), Ends(<<2, 3, 1>>)),
   Assembly(Asm(<<"proc1:", "chan", "dup", "proc2", "1", "start", "2", "!", "drop",
                  ".", "proc2:", "?", "swap", "del", ".">>),
            <<Exactly(<< >>), Exactly(<<2>>)>>),
   Assembly(Asm(<<"15", "10", "-", ".">>), Ends(<<5>>)),
   Assembly(Asm(<<"1", "2", "swap", ".">>), Ends(<<1, 2>>)),
   Assembly(Asm(<<"3", "2", "1", "tuck", ".">>), Ends(<<3, 1, 2>>)),
   Assembly(Asm(<<"2", "1", "2", "0", "0", "put", ".">>), Ends(<<0, 1, 2>>)),
   Assembly(Asm(<<"1", "0", "0", "2", "1", "put", ".">>), Ends(<<0, 2, 1>>)),
   Assembly(Asm(<<"20", "18", "17", "16", "15", "14", "13", "12", "11", "10", "9",
                  "8", "7", "6", "5", "4", "3", "2", "1", "0", "19", "19", "put",
                  ".">>), Ends(UpTo(19))),
   Assembly(Asm(<<"0", "1", "0", "2", "2", "put", ".">>), Ends(<<0, 1, 2>>)),
   Assembly(Asm(<<"0", "2", "1", "0", "3", "3", "put", ".">>), Ends(<<0, 1, 2, 3>>))}
ProcessorTests ==
  {Assembly(Asm(<<"3", "7", "+", ".">>), Ends(<<10>>)),
   Assembly(Asm(<<"3", "5", "0", "start", ".", "7", ".">>),
            <<Exactly(<<3>>), Exactly(<<7>>)>>),
   Assembly(Asm(<<"p0:", "chan", "dup", "p1", "1", "start", "7", "!", "del", ".",
                  "p1:", "?", "swap", "drop", ".">>),
            <<Exactly(<< >>), Exactly(<<7>>)>>),
   Assembly(Asm(<<"p0:", "chan", "dup", "p1", "1", "start", "?", "swap", "?",
                  "swap", "del", "+", ".", "p1:", "3", "!", "7", "!", "drop", ".">>),
            <<Exactly(<<10>>), Exactly(<< >>)>>),
   Assembly(Asm(<<"p0:", "chan", "dup", "p1", "1", "start", "chan", "dup", "rot",
                  "!", "swap", "?", "swap", "del", "swap", "drop", ".", "p1:", "?",
                  "7", "!", "swap", "del", "drop", ".">>),
            <<Exactly(<<7>>), Exactly(<< >>)>>)}

(***************************************************************************)
(* Those that do not always end as the repository says, which MCSources    *)
(* leaves out: the two that yield, as nobody schedules a process that      *)
(* yielded; and the alternations after which a process uses a channel,     *)
(* and finds there what the jump of a disable left.                        *)
(***************************************************************************)
ContradictedTests ==
  {Assembly(Asm(<<"1", "yield", ".">>), Ends(<<1>>)),
   Assembly(Asm(<<"proc1:", "3", "proc2", "0", "start", "yield", "7", "+", ".",
                  "proc2:", "4", "proc3", "0", "start", ".", "proc3:", "12", ".">>),
            <<Exactly(<<10>>), Exactly(<<4>>), Exactly(<<12>>)>>),
   Assembly(Asm(<<"proc1:", "chan", "chan", "1", "get", "proc2", "1", "start", "0",
                  "get", "proc3", "1", "start", "altstart", "0", "get", "enable",
                  "1", "get", "enable", "altwait", "0", "get", "doneChan1",
                  "disable", "1", "get", "doneChan0", "disable", "altend",
                  "doneChan0:", "1", "+", "subsequent", "jump", "doneChan1:", "2",
                  "+", "subsequent:", "altstart", "1", "get", "enable", "2", "get",
                  "enable", "altwait", "1", "get", "doneChanB1", "disable", "2",
                  "get", "doneChanB0", "disable", "altend", "4", ".", "doneChanB0:",
                  "1", "+", ".", "doneChanB1:", "2", "+", ".", "proc2:", "39", "!",
                  "drop", ".", "proc3:", "42", "!", "drop", ".">>),
            << <<{40}, {44}, AChannel, AChannel>>, Exactly(<< >>), Exactly(<< >>)>>),
   Assembly(Asm(<<"main:", "chan", "chan", "0", "get", "proc1", "1", "start", "1",
                  "get", "proc2", "1", "start", "altstart", "0", "get", "enable",
                  "1", "get", "enable", "altwait", "0", "get", "case1", "disable",
                  "1", "get", "case2", "disable", "altend", "case1:", "1", "+", "2",
                  "get", "?", "swap", "drop", "-", "cleanup", "j", "case2:", "1",
                  "+", "1", "get", "?", "swap", "drop", "-", "cleanup", "j",
                  "cleanup:", "rot", "del", "del", ".", "proc1:", "3", "!", ".",
                  "proc2:", "7", "!", ".">>), Ends(<<65533>>)),
   Assembly(Asm(<<"main:", "chan", "chan", "0", "get", "proc1", "1", "start", "1",
                  "get", "proc2", "1", "start", "altstart", "0", "get", "enable",
                  "1", "get", "enable", "altwait", "0", "get", "case1", "disable",
                  "1", "get", "case2", "disable", "altend", "case1:", "1", "+", "2",
                  "get", "?", "swap", "drop", "-", "cleanup", "j", "case2:", "1",
                  "+", "1", "get", "?", "swap", "drop", "-", "cleanup", "j",
                  "cleanup:", "rot", "del", "del", ".", "proc1:">>
                \o Nops(21)
                \o <<"3", "!", ".", "proc2:", "7", "!", ".">>), Ends(<<5>>)),
   Assembly(Asm(<<"main:", "chan", "chan", "0", "get", "proc1", "1", "start", "1",
                  "get", "proc2", "1", "start", "altstart", "0", "get", "enable",
                  "1", "get", "enable", "altwait", "0", "get", "case1", "disable",
                  "1", "get", "case2", "disable", "altend", "case1:", "1", "+", "2",
                  "get", "?", "swap", "drop", "-", "cleanup", "j", "case2:", "1",
                  "+", "1", "get", "?", "swap", "drop", "-", "cleanup", "j",
                  "cleanup:", "rot", "del", "del", ".", "proc1:">>
                \o Nops(21)
                \o <<"3", "!", ".", "proc2:">>
                \o Nops(21)
                \o <<"7", "!", ".">>), << <<{5, 65533}>> >>)}

(***************************************************************************)
(* Programs whose end is not stated: they stop with an error, or yield.    *)
(***************************************************************************)
FailingTests ==
  {Assembly(Asm(words), Unknown) :
     words \in {<<"yield", ".">>, <<"chan", "chan", "chan", ".">>, <<"drop">>,
                <<"5", "?", ".">>, <<"20", "20", "lsl", ".">>,
                <<"proc2", "0", "start", "proc2", "0", "start", "proc2", "0", "start", ".",
                  "proc2:", ".">>}}
    \union {Assembly(Asm(<<"3", "jump">>) \o <<NumberToken(144)>>, Unknown)}

(***************************************************************************)
(* Programs that are refused: words that are no program, words that make   *)
(* the parser or the type checker panic, a label without a block; and      *)
(* alternations, which are parsed, but take channels that are not there.   *)
(***************************************************************************)
RefusedPrograms ==
  {Text(words, Unknown) :
     words \in {<<"main">>, <<"main", "=", "(">>, <<"main", "=", "if", "(", ")", "else">>,
                <<"main", "=", "@", "dup">>, <<"main", "=", "[", "@", "0", "]">>,
                <<"main", "=", "(", "'", ")">>, <<"main", "=", "repeat", "_", "2", "(", ")">>}}
    \union {Program(Main(<<Alternation(<<0, 1>>, <<s, t>>)>> \o end)) :
              s \in QuotedTerms, t \in NoBranch, end \in {<< >>, <<W("drop")>>}}
    \union {Assembly(Asm(<<"a", "call">>), Unknown)}

(***************************************************************************)
(* An alternation over the one channel it has a sender for, which is well  *)
(* typed.                                                                  *)
(***************************************************************************)
AlternationSources ==
  {Program(<<Declaration("main", <<NamedTermApp("chan", 1), Q("sender"),
                                   NamedTermApp("proc", 1),
                                   Alternation(<<0>>, <<<<W("swap"), W("del")>>>>)>>),
             Declaration("sender", <<Number(7), W("!"), W("drop")>>)>>)}

MCSources ==
  {Program(Main(t)) : t \in StraightTerms \union QuotedTerms \union ControlTerms}
    \union {Program(p) : p \in FunctionPrograms \union ChannelPrograms \union EndlessPrograms}
    \union RefusedPrograms
    \union CompilerTests \union DocumentedPrograms
    \union ProgramTests \union ProcessorTests \union FailingTests
=============================================================================
