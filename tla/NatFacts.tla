------------------------------ MODULE NatFacts ------------------------------
(***************************************************************************)
(* Facts about the natural numbers that the proofs of several components    *)
(* use: induction for a set instead of a predicate, and remainders, which   *)
(* the machine's unsigned arithmetic is modelled with.                      *)
(***************************************************************************)
EXTENDS Integers, WellFoundedInduction, TLAPS

\* The order of the natural numbers as a well-founded relation.
LEMMA NatOrder ==
  \E R : IsWellFoundedOn(R, Nat) /\ \A x, y \in Nat : x < y => <<x, y>> \in R
<1>1. IsWellFoundedOn({p \in Nat \X Nat : p[1] < p[2]}, Nat)
  BY NatLessThanWellFounded DEF OpToRel
<1>2. \A x, y \in Nat : x < y => <<x, y>> \in {p \in Nat \X Nat : p[1] < p[2]}
  OBVIOUS
<1> QED
  BY <1>1, <1>2

\* A set of natural numbers that is not empty has a least element.
LEMMA LeastElement ==
  ASSUME NEW T, T \subseteq Nat, T # {}
  PROVE  \E x \in T : \A y \in T : x =< y
<1>1. PICK R : IsWellFoundedOn(R, Nat) /\ \A x, y \in Nat : x < y => <<x, y>> \in R
  BY NatOrder
<1>2. IsWellFoundedOn(R, Nat)
  BY <1>1
<1>3. \E x \in T : \A y \in T : ~ (<<y, x>> \in R)
  BY <1>2, WFMin, Zenon
<1>4. PICK x \in T : \A y \in T : ~ (<<y, x>> \in R)
  BY <1>3
<1>5. ASSUME NEW y \in T PROVE x =< y
  <2>1. x \in Nat /\ y \in Nat
    OBVIOUS
  <2>2. ~ (<<y, x>> \in R)
    BY <1>4
  <2>3. y < x => <<y, x>> \in R
    BY <1>1, <2>1
  <2> QED
    BY <2>1, <2>2, <2>3
<1> QED
  BY <1>5

\* Induction: a set with 0 and with the successor of each of its numbers has all.
LEMMA SetInduction ==
  ASSUME NEW S, 0 \in S, \A n \in Nat : n \in S => n + 1 \in S
  PROVE  \A n \in Nat : n \in S
<1> DEFINE T == {n \in Nat : n \notin S}
<1>1. SUFFICES ASSUME T # {} PROVE FALSE
  OBVIOUS
<1>2. PICK x \in T : \A y \in T : x =< y
  BY <1>1, LeastElement
<1>3. x - 1 \in Nat /\ x - 1 \in S
  BY <1>2
<1> QED
  BY <1>2, <1>3

\* There is one way to divide with remainder.
LEMMA RemainderUnique ==
  ASSUME NEW M \in Nat \ {0}, NEW a \in Nat, NEW q \in Nat, NEW r \in 0 .. M - 1,
         a = M * q + r
  PROVE  a % M = r
OBVIOUS

\* The remainder of a number that grows by the divisor, or by 1.
LEMMA RemainderOfMore ==
  ASSUME NEW M \in Nat \ {0}, NEW a \in Nat
  PROVE  /\ (a + M) % M = a % M
         /\ (a + 1) % M = IF (a % M) + 1 = M THEN 0 ELSE (a % M) + 1
<1> DEFINE q == a \div M
<1> DEFINE r == a % M
<1>1. q \in Nat /\ r \in 0 .. M - 1 /\ a = M * q + r
  OBVIOUS
<1> HIDE DEF q, r
<1>2. M * (q + 1) = M * q + M
  BY <1>1
<1>3. (a + M) % M = r
  <2>1. a + M = M * (q + 1) + r /\ q + 1 \in Nat /\ a + M \in Nat
    BY <1>1, <1>2
  <2> QED
    BY <1>1, <2>1, RemainderUnique
<1>4. (a + 1) % M = IF r + 1 = M THEN 0 ELSE r + 1
  <2>1. CASE r + 1 = M
    <3>1. a + 1 = M * (q + 1) + 0 /\ q + 1 \in Nat /\ a + 1 \in Nat /\ 0 \in 0 .. M - 1
      BY <1>1, <1>2, <2>1
    <3>2. (a + 1) % M = 0
      BY <3>1, RemainderUnique
    <3> QED
      BY <2>1, <3>2
  <2>2. CASE r + 1 # M
    <3>1. a + 1 = M * q + (r + 1) /\ a + 1 \in Nat /\ r + 1 \in 0 .. M - 1
      BY <1>1, <2>2
    <3>2. (a + 1) % M = r + 1
      BY <1>1, <3>1, RemainderUnique
    <3> QED
      BY <2>2, <3>2
  <2> QED
    BY <2>1, <2>2
<1> QED
  BY <1>3, <1>4 DEF r
=============================================================================
