------------------------------- MODULE NatLemmas -------------------------------
(***************************************************************************)
(* Facts about natural numbers that the proofs about several components     *)
(* rest on: least and greatest elements, and division.                     *)
(***************************************************************************)
EXTENDS Integers, WellFoundedInduction, TLAPS

LEMMA LessIsWellFounded ==
    \E R : IsWellFoundedOn(R, Nat) /\ \A x, y \in Nat : <<x, y>> \in R <=> x < y
<1> DEFINE R == OpToRel(<, Nat)
<1>1. \A x, y \in Nat : <<x, y>> \in R <=> x < y
  BY DEF OpToRel
<1>2. IsWellFoundedOn(R, Nat)
  BY NatLessThanWellFounded
<1> HIDE DEF R
<1> QED
  BY <1>1, <1>2

\* A set of natural numbers that is not empty has a least element.
LEMMA Least ==
    ASSUME NEW S, S \subseteq Nat, S # {}
    PROVE  \E n \in S : \A m \in S : n <= m
<1>1. PICK R : IsWellFoundedOn(R, Nat) /\ \A x, y \in Nat : <<x, y>> \in R <=> x < y
  BY LessIsWellFounded
<1>2. IsWellFoundedOn(R, Nat)
  BY <1>1
<1>3. PICK n \in S : \A m \in S : <<m, n>> \notin R
  BY <1>2, WFMin
<1>4. \A m \in S : m \in Nat /\ n \in Nat /\ ~(m < n)
  BY <1>1, <1>3
<1> QED
  BY <1>4

\* A bounded one has a greatest element.
LEMMA Greatest ==
    ASSUME NEW b \in Nat, NEW S, S \subseteq 0 .. b, S # {}
    PROVE  \E n \in S : \A m \in S : n >= m
<1> DEFINE T == {b - n : n \in S}
<1>1. T \subseteq Nat /\ T # {}
  <2>1. \A n \in S : n \in Nat /\ n <= b
    OBVIOUS
  <2>2. \A n \in S : b - n \in Nat
    BY <2>1
  <2> QED
    BY <2>2
<1> HIDE DEF T
<1>2. PICK t \in T : \A u \in T : t <= u
  BY <1>1, Least
<1>3. PICK n \in S : t = b - n
  BY DEF T
<1>4. \A m \in S : b - n <= b - m
  BY <1>2, <1>3 DEF T
<1> QED
  BY <1>4

\* Quotient and remainder.
LEMMA Division ==
    ASSUME NEW l \in Nat, NEW n \in Nat \ {0}
    PROVE  /\ l \div n \in Nat /\ l % n \in 0 .. n - 1
           /\ l = n * (l \div n) + (l % n)
  OBVIOUS

\* Quotient and remainder are unique.
LEMMA Remainder ==
    ASSUME NEW n \in Nat \ {0}, NEW q \in Nat, NEW r \in 0 .. n - 1
    PROVE  (n * q + r) % n = r
<1> DEFINE l == n * q + r
           p == l \div n
           s == l % n
<1>1. l \in Nat
  OBVIOUS
<1>2. p \in Nat /\ s \in 0 .. n - 1 /\ l = n * p + s
  <2>1. l \in Nat
    BY <1>1
  <2> HIDE DEF l
  <2> QED
    BY <2>1, Division
<1>3. n * q + r = n * p + s
  BY <1>2
<1> HIDE DEF l, p, s
<1>4. n * (q - p) = n * q - n * p /\ n * (q - p) = s - r
  BY <1>2, <1>3
<1>5. q - p < 1
  <2>1. SUFFICES ASSUME q - p >= 1 PROVE FALSE
    BY <1>2
  <2>2. n * (q - p) >= n
    BY <1>2, <2>1
  <2> QED
    BY <1>2, <1>4, <2>2
<1>6. q - p > -1
  <2>1. SUFFICES ASSUME p - q >= 1 PROVE FALSE
    BY <1>2
  <2>2. n * (p - q) >= n /\ n * (p - q) = n * p - n * q
    BY <1>2, <2>1
  <2> QED
    BY <1>2, <1>3, <2>2
<1>7. q = p
  BY <1>2, <1>5, <1>6
<1>8. s = r
  BY <1>2, <1>3, <1>7
<1> QED
  BY <1>8 DEF s, l

\* Counting modulo n.
LEMMA NextRemainder ==
    ASSUME NEW n \in Nat \ {0}, NEW i \in Nat
    PROVE  /\ i % n \in 0 .. n - 1
           /\ i % n = n - 1 => (i + 1) % n = 0
           /\ i % n # n - 1 => (i + 1) % n = (i % n) + 1
           /\ (n * i) % n = 0
<1> DEFINE q == i \div n
           r == i % n
<1>1. q \in Nat /\ r \in 0 .. n - 1 /\ i = n * q + r
  BY Division
<1>2. (n * i) % n = 0
  <2>1. 0 \in 0 .. n - 1 /\ n * i + 0 = n * i
    OBVIOUS
  <2> QED
    BY <2>1, Remainder
<1> HIDE DEF q, r
<1>3. r = n - 1 => (i + 1) % n = 0
  <2>1. SUFFICES ASSUME r = n - 1 PROVE (i + 1) % n = 0
    OBVIOUS
  <2>2. n * (q + 1) = n * q + n /\ q + 1 \in Nat /\ 0 \in 0 .. n - 1
    BY <1>1
  <2>3. i + 1 = n * (q + 1) + 0
    BY <1>1, <2>1, <2>2
  <2> QED
    BY <2>2, <2>3, Remainder
<1>4. r # n - 1 => (i + 1) % n = r + 1
  <2>1. SUFFICES ASSUME r # n - 1 PROVE (i + 1) % n = r + 1
    OBVIOUS
  <2>2. r + 1 \in 0 .. n - 1 /\ i + 1 = n * q + (r + 1)
    BY <1>1, <2>1
  <2> QED
    BY <1>1, <2>2, Remainder
<1> QED
  BY <1>1, <1>2, <1>3, <1>4 DEF r

================================================================================
