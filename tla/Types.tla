-------------------------------- MODULE Types --------------------------------
(***************************************************************************)
(* The type checker of Statick (statick/types.rs and statick/types/).  A   *)
(* term has the type of a function from stacks to stacks, a channel type   *)
(* counts how often the channel must still be used, and the types of two   *)
(* terms in a row are unified where they meet.                             *)
(*                                                                         *)
(* Generic types, stack variables and channel variables are numbered from  *)
(* one counter, next, which is threaded through; the code keeps three.     *)
(***************************************************************************)
EXTENDS Statick

(***************************************************************************)
(* Type, ChannelUse and Stack.  A stack is what lies at its base and the   *)
(* items above it, the top one last.                                       *)
(***************************************************************************)
Boolean == [kind |-> "boolean"]
Integer == [kind |-> "integer"]
Void == [kind |-> "void"]
CounterType(n) == [kind |-> "counter", n |-> n]
GenericType(n, cs) == [kind |-> "generic", n |-> n, cs |-> cs]
ChannelType(use, dir, item) ==
  [kind |-> "channel", use |-> use, dir |-> dir, item |-> item]
FunctionType(inputs, outputs) ==
  [kind |-> "function", inputs |-> inputs, outputs |-> outputs]
Infinity == [kind |-> "infinity"]
Constant(k) == [kind |-> "constant", k |-> k]
Variable(n, o) == [kind |-> "variable", n |-> n, o |-> o]
Bottom == [kind |-> "bottom"]
StackVariable(n, cs) == [kind |-> "stack", n |-> n, cs |-> cs]
StackType(base, items) == [base |-> base, items |-> items]
BareStack(n) == StackType(StackVariable(n, {}), << >>)
Extended(stack, items) == [stack EXCEPT !.items = @ \o items]

(***************************************************************************)
(* What a type allows and demands.                                         *)
(***************************************************************************)
HasConstraint(t, c) ==
  CASE t.kind = "generic" -> c \in t.cs
    [] t.kind = "counter" -> c = "IntLike"
    [] t.kind = "channel" ->
         /\ t.use.kind = "constant"
         /\ \/ c = "MustConsume" /\ t.use.k > 0
            \/ c = "Droppable" /\ t.use.k = 0 /\ t.dir = "Rx"
    [] OTHER ->
         \/ c \in {"Droppable", "Duplicable"}
         \/ c = "IntLike" /\ t.kind \in {"boolean", "integer"}
SatisfiesStackConstraint(s, c) ==
  s.items = << >>
    \/ CASE c = "NoConsumableOrDroppableTypes" ->
              \A t \in ToSet(s.items) :
                ~HasConstraint(t, "MustConsume") /\ HasConstraint(t, "Droppable")
         [] c = "AllowBottom" -> TRUE
         [] c = "MustBeBase" -> FALSE

RECURSIVE ContainsType(_, _)
StackContains(s, a) == \E t \in ToSet(s.items) : ContainsType(t, a)
ContainsType(t, a) ==
  \/ t = a
  \/ t.kind = "channel" /\ ContainsType(t.item, a)
  \/ t.kind = "function" /\ (StackContains(t.inputs, a) \/ StackContains(t.outputs, a))
RECURSIVE TypeContainsStack(_, _)
ContainsStack(s, base) ==
  s.base = base \/ \E t \in ToSet(s.items) : TypeContainsStack(t, base)
TypeContainsStack(t, base) ==
  \/ t.kind = "channel" /\ TypeContainsStack(t.item, base)
  \/ t.kind = "function"
       /\ (ContainsStack(t.inputs, base) \/ ContainsStack(t.outputs, base))

\* What must still be consumed is not handed back as it was.
ValidExpressionType(t) ==
  \A i \in ToSet(t.inputs.items) :
    HasConstraint(i, "MustConsume") => ~StackContains(t.outputs, i)
ValidFunctionType(t) ==
  ContainsStack(t.inputs, t.outputs.base) \/ t.outputs = StackType(Bottom, << >>)

(***************************************************************************)
(* A unifier is a sequence of steps that are applied in turn.              *)
(***************************************************************************)
UnifierStep(on, n, with) == [on |-> on, n |-> n, with |-> with]
ApplyUse(step, use) ==
  IF step.on # "channel" \/ use.kind # "variable" THEN use
  ELSE IF use.n # step.n THEN use
  ELSE CASE step.with.kind = "infinity" -> Infinity
         [] step.with.kind = "constant" -> Constant(step.with.k + use.o)
         [] step.with.kind = "variable" -> Variable(step.with.n, use.o + step.with.o)
RECURSIVE ApplyStep(_, _)
ApplyStackStep(step, s) ==
  LET items == [i \in DOMAIN s.items |-> ApplyStep(step, s.items[i])]
      replaced == step.on = "stack" /\ s.base.kind = "stack" /\ s.base.n = step.n
  IN  Extended(IF replaced THEN step.with ELSE StackType(s.base, << >>), items)
ApplyStep(step, t) ==
  CASE t.kind = "channel" ->
         ChannelType(ApplyUse(step, t.use), t.dir, ApplyStep(step, t.item))
    [] t.kind = "generic" -> IF step.on = "type" /\ step.n = t.n THEN step.with ELSE t
    [] t.kind = "function" ->
         FunctionType(ApplyStackStep(step, t.inputs), ApplyStackStep(step, t.outputs))
    [] OTHER -> t
Apply(steps, t) == FoldLeft(LAMBDA s, step : ApplyStep(step, s), t, steps)
ApplyToStack(steps, s) == FoldLeft(LAMBDA r, step : ApplyStackStep(step, r), s, steps)

Unifier(steps) == [ok |-> TRUE, steps |-> steps]
Unified == Unifier(<< >>)
Replace(on, n, with) == Unifier(<<UnifierStep(on, n, with)>>)
NotUnifiable == [ok |-> FALSE, steps |-> << >>]
Compose(u, v) == [ok |-> u.ok /\ v.ok, steps |-> u.steps \o v.steps]

(***************************************************************************)
(* mgu: the most general unifier of two channel uses, types or stacks.     *)
(***************************************************************************)
RECURSIVE UnifyUses(_, _)
UnifyUses(a, b) ==
  CASE a = b -> Unified
    [] a # b /\ a.kind = "variable" ->
         (CASE b.kind = "infinity" -> Replace("channel", a.n, Infinity)
            [] b.kind = "constant" ->
                 IF b.k >= a.o THEN Replace("channel", a.n, Constant(b.k - a.o))
                 ELSE NotUnifiable
            [] b.kind = "variable" ->
                 Replace("channel", a.n, IF a.n = b.n THEN Infinity ELSE b))
    [] a.kind # "variable" /\ b.kind = "variable" -> UnifyUses(b, a)
    [] OTHER -> NotUnifiable

\* A channel that need not be used again may be dropped once that is known.
UnifyGeneric(a, b) ==
  LET missing == {c \in a.cs : ~HasConstraint(b, c)}
  IN  IF ContainsType(b, a) THEN IF a = b THEN Unified ELSE NotUnifiable
      ELSE IF b.kind = "generic"
      THEN Replace("type", a.n, GenericType(b.n, a.cs \union b.cs))
      ELSE IF missing = {} THEN Replace("type", a.n, b)
      ELSE IF /\ missing = {"Droppable"}
              /\ b.kind = "channel"
              /\ b.use.kind = "variable"
              /\ b.use = Variable(b.use.n, 0)
      THEN Replace("channel", b.use.n, Constant(0))
      ELSE NotUnifiable

UnifyBase(base, b) ==
  LET missing == {c \in base.cs : ~SatisfiesStackConstraint(b, c)}
      add(constrained) == IF constrained.kind = "stack"
                          THEN [constrained EXCEPT !.cs = @ \union base.cs]
                          ELSE constrained
  IN  IF ContainsStack(b, base)
      THEN IF b = StackType(base, << >>) THEN Unified ELSE NotUnifiable
      ELSE IF b = StackType(Bottom, << >>) /\ "AllowBottom" \notin base.cs
      THEN NotUnifiable
      ELSE IF missing # {} THEN NotUnifiable
      ELSE Replace("stack", base.n, [b EXCEPT !.base = add(@)])

RECURSIVE UnifyTypes(_, _)
RECURSIVE UnifyStacks(_, _)
ThenUnify(u, a, b) ==
  IF u.ok THEN Compose(u, UnifyStacks(ApplyToStack(u.steps, a), ApplyToStack(u.steps, b)))
  ELSE NotUnifiable
UnifyTypes(a, b) ==
  CASE a.kind = "generic" -> UnifyGeneric(a, b)
    [] a.kind # "generic" /\ b.kind = "generic" -> UnifyGeneric(b, a)
    [] a.kind = "channel" /\ b.kind = "channel" ->
         IF a.dir # b.dir THEN NotUnifiable
         ELSE Compose(UnifyUses(a.use, b.use), UnifyTypes(a.item, b.item))
    [] a.kind = "function" /\ b.kind = "function" ->
         ThenUnify(UnifyStacks(a.outputs, b.outputs), a.inputs, b.inputs)
    [] OTHER -> IF a = b THEN Unified ELSE NotUnifiable
Below(s) == [s EXCEPT !.items = Front(@)]
IsVariable(s) == s.items = << >> /\ s.base.kind = "stack"
UnifyStacks(a, b) ==
  CASE IsVariable(a) -> UnifyBase(a.base, b)
    [] ~IsVariable(a) /\ IsVariable(b) -> UnifyBase(b.base, a)
    [] a.items # << >> /\ b.items # << >> ->
         ThenUnify(UnifyTypes(Last(a.items), Last(b.items)), Below(a), Below(b))
    [] OTHER -> IF a = b THEN Unified ELSE NotUnifiable

(***************************************************************************)
(* deep_clone: new numbers for all variables of a type.  What is demanded  *)
(* of a variable is taken from the last place where it stands.             *)
(***************************************************************************)
RECURSIVE Places(_)
StackPlaces(s) ==
  Joined([i \in DOMAIN s.items |-> Places(Reverse(s.items)[i])])
    \o (IF s.base.kind = "stack" THEN <<s.base>> ELSE << >>)
Places(t) ==
  CASE t.kind = "generic" -> <<t>>
    [] t.kind = "channel" ->
         (IF t.use.kind = "variable" THEN <<t.use>> ELSE << >>) \o Places(t.item)
    [] t.kind = "function" -> StackPlaces(t.inputs) \o StackPlaces(t.outputs)
    [] OTHER -> << >>

Typed(status, type, next) == [status |-> status, type |-> type, next |-> next]
Rejected == Typed("error", Void, 0)
Renaming(place, n) ==
  CASE place.kind = "generic" -> UnifierStep("type", place.n, GenericType(n, place.cs))
    [] place.kind = "stack" ->
         UnifierStep("stack", place.n, StackType(StackVariable(n, place.cs), << >>))
    [] place.kind = "variable" -> UnifierStep("channel", place.n, Variable(n, 0))
DeepClone(t, next) ==
  LET lastFirst == Reverse(Places(t))
      renamings == [m \in DOMAIN lastFirst |-> Renaming(lastFirst[m], next + m)]
  IN  Typed("ok", Apply(renamings, t), next + Len(renamings) + 1)

(***************************************************************************)
(* elaborate_standard_library, and the types of the words with a number.   *)
(* They are cloned where they are used, all but the type of forever, so    *)
(* only its variable must be different from the others.                    *)
(***************************************************************************)
Generics(k) == [i \in 1 .. k |-> GenericType(i, {})]
From(inputs, outputs) ==
  FunctionType(Extended(BareStack(-1), inputs), Extended(BareStack(-1), outputs))
Demanding(c) == GenericType(0, {c})
A == GenericType(1, {})
B == GenericType(2, {})
C == GenericType(3, {})
BodyType(n) == FunctionType(BareStack(n), BareStack(n))
IfType ==
  LET branch == FunctionType(BareStack(-2), BareStack(-3))
      condition == FunctionType(BareStack(-1), Extended(BareStack(-2), <<Boolean>>))
  IN  FunctionType(Extended(BareStack(-1), <<condition, branch, branch>>), BareStack(-3))
ForeverType == FunctionType(Extended(BareStack(0), <<BodyType(0)>>), StackType(Bottom, << >>))
ApplyType ==
  LET f == FunctionType(BareStack(-1), BareStack(-2))
  IN  FunctionType(Extended(BareStack(-1), <<f>>), BareStack(-2))
StandardLibrary ==
  [name \in {"true", "false"} |-> From(<< >>, <<Boolean>>)]
    @@ [name \in {"+", "-"} |-> From(<<Integer, Integer>>, <<Integer>>)]
    @@ [name \in {">", ">=", "<", "<=", "==", "!="} |->
          From(<<Integer, Integer>>, <<Boolean>>)]
    @@ [name \in {"and", "or"} |-> From(<<Boolean, Boolean>>, <<Boolean>>)]
    @@ "not" :> From(<<Boolean>>, <<Boolean>>)
    @@ "swap" :> From(<<A, B>>, <<B, A>>)
    @@ "dup" :> From(<<Demanding("Duplicable")>>,
                     <<Demanding("Duplicable"), Demanding("Duplicable")>>)
    @@ "drop" :> From(<<Demanding("Droppable")>>, << >>)
    @@ "tuck" :> From(<<A, B, C>>, <<B, C, A>>)
    @@ "rot" :> From(<<A, B, C>>, <<C, A, B>>)
    @@ "toInt" :> From(<<Demanding("IntLike")>>, <<Demanding("IntLike"), Integer>>)
    @@ "." :> From(<< >>, << >>)
    @@ "if" :> IfType
    @@ "while" :> From(<<FunctionType(BareStack(-1), Extended(BareStack(-1), <<Boolean>>)),
                         BodyType(-1)>>, << >>)
    @@ "forever" :> ForeverType
    @@ "apply" :> ApplyType

Uses(o, dir) == ChannelType(Variable(0, o), dir, A)
ProcType(k) ==
  LET words == Generics(k)
      final == StackVariable(-3, {"NoConsumableOrDroppableTypes", "AllowBottom"})
      child == FunctionType(StackType(StackVariable(-2, {"MustBeBase"}), words),
                            StackType(final, << >>))
  IN  From(Append(words, child), << >>)
ReceiveType(k) ==
  LET above == [i \in 1 .. k |-> GenericType(i + 1, {})]
  IN  From(<<Uses(1, "Rx")>> \o above, <<Uses(0, "Rx")>> \o above \o <<A>>)
SendType(k) ==
  LET above == IF k = 0 THEN << >> ELSE [i \in 1 .. k - 1 |-> GenericType(i + 1, {})]
  IN  From(<<Uses(1, "Tx")>> \o above \o <<A>>, <<Uses(0, "Tx")>> \o above)
\* mutant: a channel that must still be used may be deleted.
DelTypeOfAny(k) ==
  LET used == ChannelType(Variable(0, 0), "Rx", GenericType(0, {}))
  IN  IF k = 0 THEN From(<<used>>, << >>)
      ELSE From(<<used>> \o Generics(k), <<Void>> \o Generics(k))
DelType(k) ==
  LET used == ChannelType(Constant(0), "Rx", GenericType(0, {}))
  IN  IF k = 0 THEN From(<<used>>, << >>)
      ELSE From(<<used>> \o Generics(k), <<Void>> \o Generics(k))
ChanType(use) == From(<< >>, <<ChannelType(use, "Rx", A), ChannelType(use, "Tx", A)>>)
OffsetType(k) ==
  From(<<Demanding("Duplicable")>> \o Generics(k),
       <<Demanding("Duplicable")>> \o Generics(k) \o <<Demanding("Duplicable")>>)
RepeatType(counter) ==
  LET body == FunctionType(Extended(BareStack(-1), <<counter>>),
                           Extended(BareStack(-2), <<counter>>))
  IN  FunctionType(Extended(BareStack(-1), <<body>>), BareStack(-2))

Parameterised == {"chan", "proc", "?", "!", "del"}
ParameterisedType(name, k) ==
  LET count == IF k = NoSubscript THEN 0 ELSE k
  IN  CASE name = "proc" -> ProcType(count)
        [] name = "chan" -> ChanType(IF k = NoSubscript THEN Infinity ELSE Constant(k))
        [] name = "?" -> ReceiveType(count)
        [] name = "!" -> SendType(count)
        [] name = "del" -> DelType(count)
FirstNumber == MaxNumber + 2     \* behind the numbers of the types above

\* get_environment_type and the clone that follows it.
NameType(name, k, env, next) ==
  IF name \in DOMAIN env
  THEN IF k # NoSubscript THEN Rejected ELSE DeepClone(env[name], next)
  ELSE IF name \in Parameterised THEN DeepClone(ParameterisedType(name, k), next)
  ELSE Rejected

(***************************************************************************)
(* type_after_application, and the types of terms and expressions.         *)
(***************************************************************************)
Joins(u, left, right, next) ==
  LET arguments == ToSet(ApplyToStack(u.steps, right.inputs).items)
      valid == \A t \in arguments : t.kind = "function" => ValidExpressionType(t)
  IN  IF ~u.ok \/ ~valid THEN Rejected
      ELSE Typed("ok", Apply(u.steps, FunctionType(left.inputs, right.outputs)), next)
AfterApplication(left, right, next) ==
  Joins(UnifyStacks(left.outputs, right.inputs), left, right, next)
Pushes(types, next) ==
  Typed("ok", FunctionType(BareStack(next), Extended(BareStack(next), types)), next + 1)

RECURSIVE TermType(_, _, _)
\* The types of several terms, each checked behind the one before.
TermTypes(terms, env, next) ==
  FoldLeft(LAMBDA r, term :
             Then(r, LAMBDA before :
             Then(TermType(term, env, before.next), LAMBDA made :
               Typed("ok", Append(before.type, made.type), made.next))),
           Typed("ok", << >>, next), terms)
\* The words if, while and forever, applied to the types of their terms.
ControlWord(word, env, next) ==
  IF word = "forever" THEN Typed("ok", env[word], next) ELSE DeepClone(env[word], next)
ControlType(word, terms, env, next) ==
  Then(TermTypes(terms, env, next), LAMBDA parts :
  Then(Pushes(parts.type, parts.next), LAMBDA pushed :
  Then(ControlWord(word, env, pushed.next), LAMBDA control :
    AfterApplication(pushed.type, control.type, control.next))))

(***************************************************************************)
(* repeat: one turn must be possible on a counter; the type of all turns   *)
(* is what is left when they are put one behind another, without the       *)
(* counter.  A body that leaves the stack alone ends the checker.          *)
(***************************************************************************)
AllTurns(k, one, next) ==
  FoldLeft(LAMBDA r, i :
             Then(r, LAMBDA before :
             Then(DeepClone(one.type, before.next), LAMBDA again :
               AfterApplication(before.type, again.type, again.next))),
           [one EXCEPT !.next = next], [i \in 1 .. k - 1 |-> i])
WithoutCounter(all) ==
  IF all.type.inputs.items = << >> \/ all.type.outputs.items = << >>
  THEN Typed("panic", Void, all.next)
  ELSE Typed("ok", FunctionType(Below(all.type.inputs), Below(all.type.outputs)), all.next)
RepeatedType(k, body, env, next) ==
  IF k = 0 THEN Rejected
  ELSE Then(TermType(body, env, next), LAMBDA one :
       Then(Pushes(<<one.type>>, one.next), LAMBDA pushed :
       Then(DeepClone(RepeatType(CounterType(pushed.next)), pushed.next + 1), LAMBDA turn :
       Then(AfterApplication(pushed.type, turn.type, turn.next), LAMBDA possible :
       Then(AllTurns(k, one, turn.next), LAMBDA all : WithoutCounter(all))))))

\* An arm receives from its channel, and then does what its term says.
ArmType(offset, term, env, next) ==
  Then(DeepClone(ReceiveType(offset), next), LAMBDA received :
  Then(TermType(term, env, received.next), LAMBDA made :
    AfterApplication(received.type, made.type, made.next)))
SameType(u, t, next) == IF u.ok THEN Typed("ok", Apply(u.steps, t), next) ELSE Rejected
AlternationType(offsets, terms, env, next) ==
  IF terms = << >> THEN Rejected
  ELSE FoldLeft(LAMBDA r, i :
                  Then(r, LAMBDA before :
                  Then(ArmType(offsets[i], terms[i], env, before.next), LAMBDA arm :
                    IF i = 1 THEN arm
                    ELSE SameType(UnifyTypes(before.type, arm.type), before.type, arm.next))),
                Typed("ok", Void, next), [i \in DOMAIN terms |-> i])

Quote(r) == Then(r, LAMBDA made : Pushes(<<made.type>>, made.next))
ExpressionTypeOf(e, env, next) ==
  CASE e.kind = "number" -> Pushes(<<Integer>>, next)
    [] e.kind = "offset" -> DeepClone(OffsetType(e.n), next)
    [] e.kind = "app" -> NameType(e.name, e.n, env, next)
    [] e.kind = "ref" -> Quote(NameType(e.name, e.n, env, next))
    [] e.kind = "anonymous" -> Quote(TermType(e.terms[1], env, next))
    [] e.kind \in {"if", "while", "forever"} -> ControlType(e.kind, e.terms, env, next)
    [] e.kind = "repeat" -> RepeatedType(e.n, e.terms[1], env, next)
    [] e.kind = "alternation" -> AlternationType(e.offsets, e.terms, env, next)
TermType(term, env, next) ==
  FoldLeft(LAMBDA r, e :
             Then(r, LAMBDA left :
             Then(ExpressionTypeOf(e, env, left.next), LAMBDA right :
             Then(AfterApplication(left.type, right.type, right.next), LAMBDA applied :
               IF ValidExpressionType(applied.type) THEN applied ELSE Rejected))),
           Pushes(<< >>, next), term)

(***************************************************************************)
(* sort_definitions_topologically: what a declaration names comes first,   *)
(* unless it is being visited already.                                     *)
(***************************************************************************)
DeclaredNames(program) == {d.name : d \in ToSet(program)}
NamesIn(term) ==
  LET named(e) == e.kind \in {"app", "ref"}
  IN  SelectSeq(SubExpressions(term), named)
RECURSIVE Visit(_, _, _)
Visit(program, s, name) ==
  IF name \notin DeclaredNames(program)
  THEN [s EXCEPT !.known = @ /\ name \in DOMAIN StandardLibrary \union Parameterised]
  ELSE IF name \in s.visited THEN s
  ELSE LET d == CHOOSE x \in ToSet(program) : x.name = name
           inner == FoldLeft(LAMBDA r, e : Visit(program, r, e.name),
                             [s EXCEPT !.visited = @ \union {name}], NamesIn(d.term))
       IN  [inner EXCEPT !.order = Append(@, d)]
Sorted(program) ==
  FoldLeft(LAMBDA s, d : Visit(program, s, d.name),
           [order |-> << >>, visited |-> {}, known |-> TRUE], program)

(***************************************************************************)
(* add_to_environment, and check.  What is said of main is that it leaves  *)
(* nothing behind that must be used, and that it takes nothing.            *)
(***************************************************************************)
Checked(status, env, next) == [status |-> status, env |-> env, next |-> next]
AddUnified(u, r, name, t, next, validate) ==
  LET added == Apply(u.steps, t)
  IN  IF ~u.ok \/ (validate /\ ~ValidFunctionType(added))
      THEN Checked("error", r.env, next)
      ELSE Checked("ok", (name :> added) @@ r.env, next)
AddToEnvironment(r, name, t, next, validate) ==
  AddUnified(IF name \in DOMAIN r.env THEN UnifyTypes(t, r.env[name]) ELSE Unified,
             r, name, t, next, validate)
Annotate(r, d) ==
  LET cs == IF d.name = "main" THEN {"NoConsumableOrDroppableTypes"} ELSE {}
      t(n) == FunctionType(StackType(StackVariable(n, cs), << >>),
                           StackType(StackVariable(n + 1, cs \union {"AllowBottom"}), << >>))
  IN  Then(r, LAMBDA s : AddToEnvironment(s, d.name, t(s.next), s.next + 2, FALSE))
Infer(r, d) ==
  Then(r, LAMBDA s :
  Then(TermType(d.term, s.env, s.next), LAMBDA made :
    AddToEnvironment(s, d.name, made.type, made.next, TRUE)))
MainTakesNothing(env) == "main" \in DOMAIN env /\ IsVariable(env["main"].inputs)
TypeCheck(program) ==
  LET sorted == Sorted(program)
      start == Checked("ok", StandardLibrary, FirstNumber)
  IN  IF Cardinality(DeclaredNames(program)) < Len(program) \/ ~sorted.known THEN Rejected
      ELSE Then(FoldLeft(Infer, FoldLeft(Annotate, start, program), sorted.order),
                LAMBDA r : IF MainTakesNothing(r.env) THEN r ELSE Rejected)
=============================================================================
