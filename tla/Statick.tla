------------------------------- MODULE Statick -------------------------------
(***************************************************************************)
(* The syntax tree of Statick (statick/ast.rs), its tokens                 *)
(* (statick/lexer.rs) and how a program is written.  A program is written  *)
(* as a sequence of words, one for each token: how the lexer cuts lines    *)
(* into words is left out, what it makes of each word is not.              *)
(***************************************************************************)
EXTENDS Integers, SequencesExt

(***************************************************************************)
(* The tree.  A program is a sequence of declarations, a term a sequence   *)
(* of expressions, and an expression has a kind with the name, the number, *)
(* the terms inside it and the offsets of its arms, as far as its kind has *)
(* them.                                                                   *)
(***************************************************************************)
NoSubscript == -1
Expression(kind, name, n, terms, offsets) ==
  [kind |-> kind, name |-> name, n |-> n, terms |-> terms, offsets |-> offsets]
Declaration(name, term) == [name |-> name, term |-> term]

Number(n) == Expression("number", "", n, << >>, << >>)
Offset(n) == Expression("offset", "", n, << >>, << >>)
NamedTermApp(name, k) == Expression("app", name, k, << >>, << >>)
NamedTermRef(name, k) == Expression("ref", name, k, << >>, << >>)
AnonymousTerm(t) == Expression("anonymous", "", 0, <<t>>, << >>)
If(c, t, f) == Expression("if", "", 0, <<c, t, f>>, << >>)
While(c, b) == Expression("while", "", 0, <<c, b>>, << >>)
Forever(b) == Expression("forever", "", 0, <<b>>, << >>)
Repeat(k, b) == Expression("repeat", "", k, <<b>>, << >>)
Alternation(offsets, terms) == Expression("alternation", "", 0, terms, offsets)

\* The "?" of the code: go on with a result, or hand its error back.
Then(result, Next(_)) == IF result.status = "ok" THEN Next(result) ELSE result
\* Sequences one behind another.
Joined(seqs) == FoldLeft(LAMBDA s, t : s \o t, << >>, seqs)

\* AstVisitor: every expression of a term, outermost first.
RECURSIVE SubExpressions(_)
SubExpressions(term) ==
  Joined([i \in DOMAIN term |->
    <<term[i]>> \o Joined([j \in DOMAIN term[i].terms |->
                                 SubExpressions(term[i].terms[j])])])

(***************************************************************************)
(* lex.  A word that is neither punctuation nor a keyword nor a number is  *)
(* a name; the operators are names.                                        *)
(***************************************************************************)
Token(kind, name, n) == [kind |-> kind, name |-> name, n |-> n]
Plain(kind) == Token(kind, "", 0)
Keywords == {"if", "then", "else", "while", "do", "repeat"}
Punctuation == {"=", "(", ")", "[", "]", "|", "->", "'", "@", "_", "."}
MaxNumber == 64       \* the largest number that is written in a program
Numeral(n) == ToString(n)
Numerals == {Numeral(n) : n \in 0 .. MaxNumber}
NumberOf == [word \in Numerals |-> CHOOSE n \in 0 .. MaxNumber : Numeral(n) = word]
LexWord(word) ==
  IF word \in Keywords \union Punctuation THEN Plain(word)
  ELSE IF word \in Numerals THEN Token("number", "", NumberOf[word])
  ELSE Token("identifier", word, 0)
Lex(words) == << >> \o [i \in DOMAIN words |-> LexWord(words[i])]

(***************************************************************************)
(* How a tree is written.                                                  *)
(***************************************************************************)
Subscript(k) == IF k = NoSubscript THEN << >> ELSE <<"_", Numeral(k)>>
RECURSIVE WriteTerm(_)
Bracketed(term) == <<"(">> \o WriteTerm(term) \o <<")">>
WriteArms(e) ==
  Joined([j \in DOMAIN e.terms |->
    (IF j = 1 THEN << >> ELSE <<"|">>)
      \o <<"@", Numeral(e.offsets[j]), "->">> \o WriteTerm(e.terms[j])])
WriteExpression(e) ==
  CASE e.kind = "number" -> <<Numeral(e.n)>>
    [] e.kind = "offset" -> <<"@", Numeral(e.n)>>
    [] e.kind = "app" -> <<e.name>> \o Subscript(e.n)
    [] e.kind = "ref" -> <<"'", e.name>> \o Subscript(e.n)
    [] e.kind = "anonymous" -> Bracketed(e.terms[1])
    [] e.kind = "if" ->
         <<"if">> \o Bracketed(e.terms[1]) \o <<"then">> \o Bracketed(e.terms[2])
           \o <<"else">> \o Bracketed(e.terms[3])
    [] e.kind = "while" ->
         <<"while">> \o Bracketed(e.terms[1]) \o <<"do">> \o Bracketed(e.terms[2])
    [] e.kind = "forever" -> <<"repeat">> \o Bracketed(e.terms[1])
    [] e.kind = "repeat" ->
         <<"repeat", "_", Numeral(e.n)>> \o Bracketed(e.terms[1])
    [] e.kind = "alternation" -> <<"[">> \o WriteArms(e) \o <<"]">>
WriteTerm(term) ==
  Joined([i \in DOMAIN term |-> WriteExpression(term[i])])
Write(program) ==
  Joined([d \in DOMAIN program |->
    <<program[d].name, "=">> \o WriteTerm(program[d].term)])
=============================================================================
