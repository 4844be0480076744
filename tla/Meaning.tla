------------------------------- MODULE Meaning -------------------------------
(***************************************************************************)
(* What a sequential Statick program means, said without instructions,     *)
(* labels or addresses: a term takes a stack to a stack.  This is not a    *)
(* model of any code; the compiler and the simulator together are checked  *)
(* against it.                                                             *)
(*                                                                         *)
(* The meaning is "stuck" where a word does not find what it needs, and    *)
(* "long" when more than Fuel words were run.                              *)
(***************************************************************************)
EXTENDS Statick

Fuel == 400
WordLimit == 65536

WordValue(n) == [kind |-> "word", n |-> n % WordLimit, term |-> << >>]
TermValue(t) == [kind |-> "term", n |-> 0, term |-> t]
CounterValue(n) == [kind |-> "counter", n |-> n, term |-> << >>]
Truth(b) == WordValue(IF b THEN 1 ELSE 0)

Reached(status, stack, fuel) == [status |-> status, stack |-> stack, fuel |-> fuel]
IsReached(r) == r.status = "ok"
Stuck == Reached("stuck", << >>, 0)

Depth(r) == Len(r.stack)
FromTop(r, k) == r.stack[Depth(r) - k + 1]
\* The stack with its k topmost values replaced by others.
Give(r, k, values) == [r EXCEPT !.stack = SubSeq(@, 1, Depth(r) - k) \o values]
IsWord(v) == v.kind = "word"

Compared(word, a, b) ==
  CASE word = "==" -> a = b
    [] word = "!=" -> a # b
    [] word = "<" -> a < b
    [] word = "<=" -> a <= b
    [] word = ">" -> a > b
    [] word = ">=" -> a >= b
Orders2 == {"==", "!=", "<", "<=", ">", ">="}
Calculated(word, a, b) ==
  CASE word = "+" -> WordValue(a + b)
    [] word = "-" -> WordValue(a - b + WordLimit)
    [] word = "and" -> Truth(a = 1 /\ b = 1)
    [] word = "or" -> Truth(a = 1 \/ b = 1)
    [] word \in Orders2 -> Truth(Compared(word, a, b))
Binaries == Orders2 \union {"+", "-", "and", "or"}
Needs ==
  [w \in Binaries |-> 2]
    @@ [w \in {"dup", "drop", "not", "toInt", "apply"} |-> 1]
    @@ [w \in {"rot", "tuck"} |-> 3] @@ "swap" :> 2
    @@ [w \in {"true", "false", "."} |-> 0]

RECURSIVE Run(_, _, _)
\* A word of the language other than apply.
Step(word, r) ==
  LET a == FromTop(r, 1)
      b == FromTop(r, 2)
      c == FromTop(r, 3)
      words == \A k \in 1 .. Needs[word] : IsWord(FromTop(r, k))
  IN  CASE word \in {"true", "false"} -> Give(r, 0, <<Truth(word = "true")>>)
        [] word = "." -> r
        [] word = "dup" -> Give(r, 1, <<a, a>>)
        [] word = "drop" -> Give(r, 1, << >>)
        [] word = "swap" -> Give(r, 2, <<a, b>>)
        [] word = "tuck" -> Give(r, 3, <<b, a, c>>)
        [] word = "rot" -> Give(r, 3, <<a, c, b>>)
        [] word = "toInt" -> IF a.kind = "term" THEN Stuck
                             ELSE Give(r, 1, <<a, WordValue(a.n)>>)
        [] word = "not" -> IF words THEN Give(r, 1, <<Truth(a.n = 0)>>) ELSE Stuck
        [] word \in Binaries ->
             IF words THEN Give(r, 2, <<Calculated(word, b.n, a.n)>>) ELSE Stuck
\* A word, or a name that the program declares.
Perform(program, name, r) ==
  IF \E d \in ToSet(program) : d.name = name
  THEN Run(program, (CHOOSE d \in ToSet(program) : d.name = name).term, r)
  ELSE IF name \notin DOMAIN Needs \/ Depth(r) < Needs[name] THEN Stuck
  ELSE IF name # "apply" THEN Step(name, r)
  ELSE IF FromTop(r, 1).kind = "term"
       THEN Run(program, FromTop(r, 1).term, Give(r, 1, << >>)) ELSE Stuck

\* What the condition says that was just run.
Says(r, truth) ==
  IsReached(r) /\ Depth(r) > 0 /\ IsWord(FromTop(r, 1)) /\ (FromTop(r, 1).n = 1) = truth
RECURSIVE Loop(_, _, _)
Loop(program, e, r) ==
  LET tested == Run(program, e.terms[1], r)
      under == Give(tested, 1, << >>)
  IN  IF Says(tested, TRUE) THEN Loop(program, e, Run(program, e.terms[2], under))
      ELSE IF Says(tested, FALSE) THEN under
      ELSE IF IsReached(tested) THEN Stuck ELSE tested
\* Turn i finds i on top of the stack and leaves it there.
Turn(program, body, i, r) ==
  LET done == Run(program, body, Give(r, 0, <<CounterValue(i)>>))
  IN  IF ~IsReached(r) THEN r
      ELSE IF ~IsReached(done) THEN done
      ELSE IF Depth(done) = 0 \/ FromTop(done, 1) # CounterValue(i) THEN Stuck
      ELSE Give(done, 1, << >>)

Meaning(program, e, r) ==
  CASE e.kind = "number" -> Give(r, 0, <<WordValue(e.n)>>)
    [] e.kind = "offset" ->
         IF e.n < Depth(r) THEN Give(r, 0, <<FromTop(r, e.n + 1)>>) ELSE Stuck
    [] e.kind = "app" -> Perform(program, e.name, r)
    [] e.kind = "ref" -> Give(r, 0, <<TermValue(<<NamedTermApp(e.name, e.n)>>)>>)
    [] e.kind = "anonymous" -> Give(r, 0, <<TermValue(e.terms[1])>>)
    [] e.kind = "if" ->
         LET tested == Run(program, e.terms[1], r)
             under == Give(tested, 1, << >>)
         IN  IF Says(tested, TRUE) THEN Run(program, e.terms[2], under)
             ELSE IF Says(tested, FALSE) THEN Run(program, e.terms[3], under)
             ELSE IF IsReached(tested) THEN Stuck ELSE tested
    [] e.kind = "while" -> Loop(program, e, r)
    [] e.kind = "repeat" ->
         FoldLeft(LAMBDA s, i : Turn(program, e.terms[1], i - 1, s), r,
                  [i \in 1 .. e.n |-> i])
    [] OTHER -> Stuck
Run(program, term, r) ==
  LET perform(s, e) ==
        IF ~IsReached(s) THEN s
        ELSE IF s.fuel = 0 THEN Reached("long", << >>, 0)
        ELSE Meaning(program, e, [s EXCEPT !.fuel = @ - 1])
  IN  FoldLeft(perform, r, term)
IsSequential(program) ==
  /\ program # << >>
  /\ \A d \in ToSet(program) : \A e \in ToSet(SubExpressions(d.term)) :
       /\ e.kind \notin {"alternation", "forever"}
       /\ e.name \notin {"chan", "proc", "?", "!", "del"}
MeaningOf(program) ==
  Perform(program, "main", Reached("ok", << >>, Fuel))
=============================================================================
