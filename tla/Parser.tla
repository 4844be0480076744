------------------------------- MODULE Parser -------------------------------
(***************************************************************************)
(* The parser of Statick (statick/parser.rs): recursive descent over a     *)
(* sequence of tokens, with a look ahead at the places where a construct   *)
(* may end.  Each operator parses from position at and gives the position  *)
(* behind what it read; "none" is the code's Ok(None), "error" a           *)
(* ParserError and "panic" an unwrap of None.                              *)
(***************************************************************************)
EXTENDS Statick

Parsed(status, at, value) == [status |-> status, at |-> at, value |-> value]
Ok(at, value) == Parsed("ok", at, value)
None(at) == Parsed("none", at, << >>)
Error == Parsed("error", 0, << >>)
Panic == Parsed("panic", 0, << >>)
Succeeded(r) == r.status = "ok"

EndOfTokens == Plain("end")
TokenAt(tokens, at) == IF at <= Len(tokens) THEN tokens[at] ELSE EndOfTokens
Is(tokens, at, kind) == TokenAt(tokens, at).kind = kind
Consume(tokens, at, kind) ==
  IF Is(tokens, at, kind) THEN Ok(at + 1, TokenAt(tokens, at)) ELSE Error
ConsumeNumber(tokens, at) ==
  IF Is(tokens, at, "number") THEN Ok(at + 1, TokenAt(tokens, at).n) ELSE Error

RECURSIVE ParseExpressionList(_, _, _, _)
ParseTerm(tokens, at, topLevel) == ParseExpressionList(tokens, at, topLevel, << >>)
ParseAnonymousTerm(tokens, at) ==
  Then(Consume(tokens, at, "("), LAMBDA open :
  Then(ParseTerm(tokens, open.at, FALSE), LAMBDA term :
  Then(Consume(tokens, term.at, ")"), LAMBDA close : Ok(close.at, term.value))))

\* Terms in brackets, each behind its keyword.
RECURSIVE ParseTermsAfter(_, _, _)
ParseTermsAfter(tokens, at, keywords) ==
  IF keywords = << >> THEN Ok(at, << >>)
  ELSE Then(Consume(tokens, at, Head(keywords)), LAMBDA word :
       Then(ParseAnonymousTerm(tokens, word.at), LAMBDA first :
       Then(ParseTermsAfter(tokens, first.at, Tail(keywords)), LAMBDA rest :
         Ok(rest.at, <<first.value>> \o rest.value))))

\* mutant: the number behind the underscore is read, and read again.
ParseNameOnly(tokens, at) ==
  IF Is(tokens, at + 1, "_") /\ Is(tokens, at + 2, "number")
  THEN Ok(at + 2, NamedTermApp(TokenAt(tokens, at).name, TokenAt(tokens, at + 2).n))
  ELSE Ok(at + 1, NamedTermApp(TokenAt(tokens, at).name, NoSubscript))
\* An identifier with the number behind its underscore, if it has one.
ParseName(tokens, at) ==
  LET name == TokenAt(tokens, at).name
  IN  IF ~Is(tokens, at + 1, "_") THEN Ok(at + 1, NamedTermApp(name, NoSubscript))
      ELSE IF ~Is(tokens, at + 2, "number") THEN Error
      ELSE Ok(at + 3, NamedTermApp(name, TokenAt(tokens, at + 2).n))

ParseOffset(tokens, at) ==
  Then(Consume(tokens, at, "@"), LAMBDA sign : ConsumeNumber(tokens, sign.at))

\* repeat with a number of turns, or without end.
ParseRepeat(tokens, at) ==
  IF ~Is(tokens, at + 1, "_")
  THEN Then(ParseAnonymousTerm(tokens, at + 1), LAMBDA body :
         Ok(body.at, Forever(body.value)))
  ELSE Then(ConsumeNumber(tokens, at + 2), LAMBDA k :
       Then(ParseAnonymousTerm(tokens, k.at), LAMBDA body :
         Ok(body.at, Repeat(k.value, body.value))))

(***************************************************************************)
(* parse_alternation: arms as long as one begins with an offset, a bar     *)
(* between them; a bar may stand before the closing bracket too.           *)
(***************************************************************************)
RECURSIVE ParseArms(_, _, _, _)
AfterArm(tokens, at, offsets, terms) ==
  IF Is(tokens, at, "|") THEN ParseArms(tokens, at + 1, offsets, terms)
  ELSE IF Is(tokens, at, "end") THEN Error
  ELSE Ok(at, Alternation(offsets, terms))
ParseArms(tokens, at, offsets, terms) ==
  LET offset == ParseOffset(tokens, at)
  IN  IF ~Succeeded(offset) THEN Ok(at, Alternation(offsets, terms))
      ELSE Then(Consume(tokens, offset.at, "->"), LAMBDA arrow :
           Then(ParseTerm(tokens, arrow.at, FALSE), LAMBDA body :
             AfterArm(tokens, body.at, Append(offsets, offset.value),
                      Append(terms, body.value))))
ParseAlternation(tokens, at) ==
  Then(ParseArms(tokens, at + 1, << >>, << >>), LAMBDA arms :
  Then(Consume(tokens, arms.at, "]"), LAMBDA close : Ok(close.at, arms.value)))

RECURSIVE ParseExpression(_, _)
MustBeSome(r) == IF r.status = "none" THEN Panic ELSE r
ParseQuoted(tokens, at) ==
  Then(MustBeSome(ParseExpression(tokens, at)), LAMBDA quoted :
    IF quoted.value.kind # "app" THEN Error
    ELSE Ok(quoted.at, NamedTermRef(quoted.value.name, quoted.value.n)))
ParseControl(tokens, at, keywords) ==
  Then(ParseTermsAfter(tokens, at, keywords), LAMBDA ts :
    Ok(ts.at, Expression(Head(keywords), "", 0, ts.value, << >>)))
ParseExpression(tokens, at) ==
  LET token == TokenAt(tokens, at)
      kind == token.kind
  IN  CASE kind = "number" -> Ok(at + 1, Number(token.n))
        [] kind = "identifier" -> ParseName(tokens, at)
        [] kind = "." -> Ok(at + 1, NamedTermApp(".", NoSubscript))
        [] kind = "'" -> ParseQuoted(tokens, at + 1)
        [] kind = "@" ->
             Then(ParseOffset(tokens, at), LAMBDA n : Ok(n.at, Offset(n.value)))
        [] kind = "(" ->
             Then(ParseAnonymousTerm(tokens, at), LAMBDA term :
               Ok(term.at, AnonymousTerm(term.value)))
        [] kind = "[" -> ParseAlternation(tokens, at)
        [] kind = "if" -> ParseControl(tokens, at, <<"if", "then", "else">>)
        [] kind = "while" -> ParseControl(tokens, at, <<"while", "do">>)
        [] kind = "repeat" -> ParseRepeat(tokens, at)
        [] kind \in {"]", ")", "|", "end"} -> None(at)
        [] OTHER -> Error

(***************************************************************************)
(* parse_expression_list: a name with an assignment behind it is not part  *)
(* of the term but begins the next declaration.                            *)
(***************************************************************************)
AfterExpression(tokens, at, topLevel, exprs, next) ==
  LET declares == Succeeded(next) /\ next.value.kind = "app" /\ Is(tokens, next.at, "=")
  IN  IF next.status = "none" \/ (declares /\ topLevel) THEN Ok(at, exprs)
      ELSE IF declares THEN Error
      ELSE IF ~Succeeded(next) THEN next
      ELSE ParseExpressionList(tokens, next.at, topLevel, Append(exprs, next.value))
ParseExpressionList(tokens, at, topLevel, exprs) ==
  AfterExpression(tokens, at, topLevel, exprs, ParseExpression(tokens, at))

RECURSIVE ParseDeclarationList(_, _, _)
ParseDeclarationList(tokens, at, declarations) ==
  IF Is(tokens, at, "end") THEN Ok(at, declarations)
  ELSE IF ~Is(tokens, at, "identifier") \/ ~Is(tokens, at + 1, "=") THEN Error
  ELSE Then(ParseTerm(tokens, at + 2, TRUE), LAMBDA term :
         ParseDeclarationList(tokens, term.at,
           Append(declarations, Declaration(TokenAt(tokens, at).name, term.value))))
Parse(tokens) == ParseDeclarationList(tokens, 1, << >>)
=============================================================================
