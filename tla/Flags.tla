-------------------------------- MODULE Flags --------------------------------
(***************************************************************************)
(* The flags of a core (core/flags.rs), the conditions a jump may ask of   *)
(* them (core/condition.rs) and the two operations of the ALU that set all *)
(* four (core_impl.rs).  The code compares words of 16 bits; the module    *)
(* takes the weight of the sign bit as a parameter.                        *)
(***************************************************************************)
EXTENDS Integers

CONSTANT SignBit      \* the weight of a word's highest bit: 2^15

ASSUME SignBitAssumption == SignBit \in Nat \ {0}

WordSize == 2 * SignBit
Word == 0 .. WordSize - 1

\* A word as i16 sees it.
Signed(a) == IF a < SignBit THEN a ELSE a - WordSize

Flags == [zero : BOOLEAN, overflow : BOOLEAN, sign : BOOLEAN, carry : BOOLEAN]
NoFlags == [zero |-> FALSE, overflow |-> FALSE, sign |-> FALSE, carry |-> FALSE]

Bit(b) == IF b THEN 1 ELSE 0
EncodeFlags(f) ==
  8 * Bit(f.zero) + 4 * Bit(f.overflow) + 2 * Bit(f.sign) + Bit(f.carry)
DecodeFlags(raw) ==
  [zero |-> (raw \div 8) % 2 = 1, overflow |-> (raw \div 4) % 2 = 1,
   sign |-> (raw \div 2) % 2 = 1, carry |-> raw % 2 = 1]

(***************************************************************************)
(* Conditions are the numbers that encode them in a Jump, and the lowest   *)
(* bit negates one.                                                        *)
(***************************************************************************)
Conditions == 0 .. 15
ZeroEqual == 0
NotZeroNotEqual == 1
Negative == 2
NonNegative == 3
UnsignedGreater == 4
UnsignedLessOrEqual == 5
UnsignedGreaterOrEqual == 6
UnsignedLess == 7
SignedGreater == 8
SignedLessOrEqual == 9
SignedGreaterOrEqual == 10
SignedLess == 11
Overflow == 12
NoOverflow == 13
Never == 14
Always == 15

Invert(c) == IF c % 2 = 0 THEN c + 1 ELSE c - 1

Lower(f) == f.sign # f.overflow
MatchesCondition(f, c) ==
  \/ c = ZeroEqual              /\ f.zero
  \/ c = NotZeroNotEqual        /\ ~f.zero
  \/ c = Negative               /\ f.sign
  \/ c = NonNegative            /\ ~f.sign
  \/ c = UnsignedGreater        /\ ~f.carry /\ ~f.zero
  \/ c = UnsignedLessOrEqual    /\ (f.carry \/ f.zero)
  \/ c = UnsignedGreaterOrEqual /\ ~f.carry
  \/ c = UnsignedLess           /\ f.carry
  \/ c = SignedGreater          /\ ~Lower(f) /\ ~f.zero
  \/ c = SignedLessOrEqual      /\ (Lower(f) \/ f.zero)
  \/ c = SignedGreaterOrEqual   /\ ~Lower(f)
  \/ c = SignedLess             /\ Lower(f)
  \/ c = Overflow               /\ f.overflow
  \/ c = NoOverflow             /\ ~f.overflow
  \/ c = Always

(***************************************************************************)
(* overflowing_add and overflowing_sub of u16 give the result and the      *)
(* carry, those of i16 the overflow.                                       *)
(***************************************************************************)
Wrapped(n) ==
  IF n < 0 THEN n + WordSize ELSE IF n >= WordSize THEN n - WordSize ELSE n
OutOfRange(n) == n < -SignBit \/ n >= SignBit

Sum(a, b) == Wrapped(a + b)
Difference(a, b) == Wrapped(a - b)

ResultFlags(result, carry, overflow) ==
  [zero |-> result = 0, overflow |-> overflow,
   sign |-> result >= SignBit, carry |-> carry]
SumFlags(a, b) ==
  ResultFlags(Sum(a, b), a + b >= WordSize, OutOfRange(Signed(a) + Signed(b)))
DifferenceFlags(a, b) ==
  ResultFlags(Difference(a, b), a < b, OutOfRange(Signed(a) - Signed(b)))
=============================================================================
