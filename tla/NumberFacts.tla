------------------------------ MODULE NumberFacts ------------------------------
(***************************************************************************)
(* Least and greatest elements of sets of natural numbers.                 *)
(***************************************************************************)
EXTENDS Integers, WellFoundedInduction, TLAPS

\* A set of natural numbers that has an element has a least one.
LEMMA Least ==
    ASSUME NEW T \in SUBSET Nat, T # {}
    PROVE  \E x \in T : \A y \in T : x <= y
<1>1. \E x \in T : \A y \in T : <<y, x>> \notin OpToRel(<, Nat)
  BY NatLessThanWellFounded, WFMin
<1>2. ASSUME NEW x \in Nat, NEW y \in Nat, x < y PROVE <<x, y>> \in OpToRel(<, Nat)
  BY <1>2, Zenon DEF OpToRel
<1>3. PICK x \in T : \A y \in T : <<y, x>> \notin OpToRel(<, Nat)
  BY <1>1, Zenon
<1>4. ASSUME NEW y \in T PROVE ~ (y < x)
  BY <1>2, <1>3, Zenon
<1> QED
  BY <1>4

\* A bounded set of natural numbers that has an element has a greatest one.
LEMMA Greatest ==
    ASSUME NEW T \in SUBSET Nat, T # {}, NEW bound \in Nat, \A t \in T : t <= bound
    PROVE  \E x \in T : \A y \in T : y <= x
<1> DEFINE uppers == {u \in Nat : \A t \in T : t <= u}
<1>1. PICK u \in uppers : \A v \in uppers : u <= v
  BY Least
<1>2. CASE u \in T
  BY <1>1, <1>2
<1>3. CASE u \notin T
  <2>1. u \in Nat /\ \A t \in T : t \in Nat /\ t <= u /\ t # u
    <3>1. u \in Nat /\ \A t \in T : t <= u
      BY <1>1
    <3> QED
      BY <1>3, <3>1
  <2>2. \A t \in T : t <= u - 1
    BY <2>1
  <2>3. u - 1 \in Nat
    <3>1. PICK t : t \in T
      OBVIOUS
    <3>2. t \in Nat /\ t <= u /\ t # u
      BY <2>1, <3>1
    <3> QED
      BY <2>1, <3>2
  <2>4. u - 1 \in uppers
    BY <2>2, <2>3
  <2>5. u <= u - 1
    BY <1>1, <2>4
  <2> QED
    BY <2>1, <2>5
<1> QED
  BY <1>2, <1>3

=============================================================================
