------------------------------ MODULE Induction ------------------------------
(***************************************************************************)
(* Induction over the natural numbers in a form without operators: about   *)
(* sets of numbers.  A predicate is proved of every number by naming the   *)
(* set of the numbers that satisfy it.                                     *)
(***************************************************************************)
EXTENDS WellFoundedInduction, TLAPS

Less == {pair \in Nat \X Nat : pair[1] < pair[2]}

\* Every set of natural numbers that is not empty has a least element.
LEMMA LeastElement ==
    ASSUME NEW T, T \subseteq Nat, T # {}
    PROVE  \E n \in T : \A m \in T : n <= m
<1>1. IsWellFoundedOn(Less, Nat)
  BY NatLessThanWellFounded DEF OpToRel, Less
<1>2. PICK n \in T : \A m \in T : ~ (<<m, n>> \in Less)
  BY <1>1, WFMin
<1>3. ASSUME NEW m \in T PROVE n <= m
  <2>1. m \in Nat /\ n \in Nat
    OBVIOUS
  <2>2. m < n => <<m, n>> \in Less
    BY <2>1 DEF Less
  <2>3. QED
    BY <1>2, <2>1, <2>2
<1>4. QED
  BY <1>3

\* A set with 0 that is closed under successors has every natural number.
LEMMA InductiveSet ==
    ASSUME NEW S, 0 \in S, \A n \in Nat : n \in S => n + 1 \in S
    PROVE  \A n \in Nat : n \in S
<1> DEFINE Missing == {n \in Nat : n \notin S}
<1>1. SUFFICES ASSUME Missing # {} PROVE FALSE
  OBVIOUS
<1>2. PICK n \in Missing : \A m \in Missing : n <= m
  <2>1. Missing \subseteq Nat
    OBVIOUS
  <2> HIDE DEF Missing
  <2>2. QED
    BY <1>1, <2>1, LeastElement
<1>3. n \in Nat /\ n \notin S /\ n # 0
  OBVIOUS
<1>4. n - 1 \in Nat /\ n - 1 \notin Missing
  BY <1>2, <1>3
<1>5. n - 1 \in S /\ (n - 1) + 1 = n
  BY <1>3, <1>4
<1>6. QED
  BY <1>3, <1>4, <1>5

=============================================================================
