---------------------------- MODULE NumberLemmas ----------------------------
(***************************************************************************)
(* Facts about numbers for the proofs: division by a constant of any value *)
(* (save intervals, update frequencies), and the first of a set of numbers *)
(* (the cell of a sweep at hand, the first request without an answer).     *)
(***************************************************************************)
EXTENDS Integers, WellFoundedInduction, TLAPS

(* A number has one quotient and one remainder. *)
LEMMA DivUnique ==
  ASSUME NEW p \in Nat \ {0}, NEW a \in Int, NEW b \in Int,
         NEW s \in 0 .. p - 1, NEW t \in 0 .. p - 1, p * a + s = p * b + t
  PROVE  a = b
<1>1. ASSUME NEW c \in Int, NEW d \in Int, c > d PROVE p * c >= p * d + p
  <2>1. PICK k \in Nat \ {0} : c = d + k
    <3>1. c - d \in Nat \ {0} /\ c = d + (c - d)
      BY <1>1
    <3> QED
      BY <3>1
  <2>2. p * k >= p /\ p * d \in Int /\ p * k \in Int
    OBVIOUS
  <2>3. p * (d + k) = p * d + p * k
    OBVIOUS
  <2> QED
    BY <2>1, <2>2, <2>3
<1>2. CASE a > b
  BY <1>1, <1>2
<1>3. CASE b > a
  BY <1>1, <1>3
<1> QED
  BY <1>2, <1>3

LEMMA DivMod ==
  ASSUME NEW p \in Nat \ {0}, NEW n \in Nat
  PROVE  /\ n \div p \in Nat /\ n % p \in 0 .. p - 1
         /\ n = p * (n \div p) + (n % p)
OBVIOUS

(* A set of numbers that is not empty has a smallest one, by the           *)
(* well-foundedness of the order.                                          *)
LEMMA SmallestNumber ==
  ASSUME NEW S \in SUBSET Nat, S # {}
  PROVE  \E i \in S : \A j \in S : i <= j
<1> DEFINE R == {p \in Nat \X Nat : p[1] < p[2]}
<1>1. IsWellFoundedOn(R, Nat)
  BY NatLessThanWellFounded DEF OpToRel
<1> HIDE DEF R
<1>2. PICK i \in S : \A j \in S : <<j, i>> \notin R
  BY <1>1, WFMin
<1>3. ASSUME NEW j \in S PROVE i <= j
  <2>1. i \in Nat /\ j \in Nat
    OBVIOUS
  <2>2. <<j, i>> \notin R
    BY <1>2
  <2>3. ~(j < i)
    BY <2>1, <2>2 DEF R
  <2> QED
    BY <2>1, <2>3
<1> QED
  BY <1>3

=============================================================================
