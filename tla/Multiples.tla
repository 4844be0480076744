----------------------------- MODULE Multiples -----------------------------
(***************************************************************************)
(* Facts about multiples and remainders, on which the proofs about memory  *)
(* rest: heaps cut it into blocks of one size, and addresses wrap.         *)
(***************************************************************************)
EXTENDS Integers, TLAPS

LEMMA Quotient ==
  ASSUME NEW s \in Nat \ {0}, NEW n \in Nat, n % s = 0
  PROVE  \E q \in Nat : n = s * q
<1>1. n \div s \in Nat
  BY SMT
<1>2. PICK q \in Nat : q = n \div s
  BY <1>1
<1>3. PICK r \in Int : r = n % s
  BY SMT
<1>4. n = s * q + r
  BY <1>2, <1>3, SMT
<1>5. n = s * q
  BY <1>3, <1>4, SMT
<1> QED
  BY <1>5

\* Two multiples of a number are at least that number apart.
LEMMA MultiplesApart ==
  ASSUME NEW s \in Nat \ {0}, NEW m \in Nat, NEW n \in Nat,
         m % s = 0, n % s = 0, m < n
  PROVE  m + s <= n
<1>1. PICK j \in Nat : m = s * j
  BY Quotient
<1>2. PICK k \in Nat : n = s * k
  BY Quotient
<1>3. j < k
  BY <1>1, <1>2, SMT
<1>4. PICK d \in Nat : k = j + 1 + d
  <2>1. k - j - 1 \in Nat
    BY <1>3
  <2> QED
    BY <2>1
<1>5. s * k = s * j + s + s * d
  BY <1>4, SMT
<1>6. s * d \in Nat
  BY SMT
<1> QED
  BY <1>1, <1>2, <1>5, <1>6, SMT

\* The next multiple.
LEMMA NextMultiple ==
  ASSUME NEW s \in Nat \ {0}, NEW m \in Nat, m % s = 0
  PROVE  (m + s) % s = 0
<1>1. PICK q \in Nat : m = s * q
  BY Quotient
<1>2. q + 1 \in Nat /\ m + s = s * (q + 1)
  BY <1>1, SMT
<1>3. \A k \in Nat : (s * k) % s = 0
  BY SMT
<1> QED
  BY <1>2, <1>3

\* A sum that passes the end of a memory once comes back at its start.
LEMMA WrapsOnce ==
  ASSUME NEW s \in Nat \ {0}, NEW n \in Nat, n < s + s
  PROVE  n % s = IF n < s THEN n ELSE n - s
<1>1. CASE n < s
  BY <1>1, SMT
<1>2. CASE n >= s
  <2>1. n - s \in Nat /\ n - s < s /\ n = s * 1 + (n - s)
    BY <1>2, SMT
  <2> QED
    BY <1>2, <2>1, SMT
<1> QED
  BY <1>1, <1>2
============================================================================
