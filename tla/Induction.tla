------------------------------- MODULE Induction -------------------------------
(***************************************************************************)
(* Induction on the naturals as facts about sets, which the provers can    *)
(* use where they cannot instantiate an operator parameter.                *)
(***************************************************************************)
EXTENDS Naturals, WellFoundedInduction, TLAPS

\* A non-empty set of naturals has a least element.
LEMMA Least ==
    ASSUME NEW T, T \subseteq Nat, T # {}
    PROVE  \E x \in T : \A y \in T : x <= y
<1> DEFINE R == {ss \in Nat \X Nat : ss[1] < ss[2]}
<1>1. IsWellFoundedOn(R, Nat)
  BY NatLessThanWellFounded DEF OpToRel
<1>2. PICK x \in T : \A y \in T : ~(<<y, x>> \in R)
  BY <1>1, WFMin
<1>3. ASSUME NEW y \in T PROVE x <= y
  <2>1. x \in Nat /\ y \in Nat
    OBVIOUS
  <2>2. <<y, x>> \in R <=> y < x
    BY <2>1
  <2>3. QED BY <1>2, <2>1, <2>2
<1>4. QED BY <1>2, <1>3

\* A set of naturals that has 0 and every successor has them all.
LEMMA Induct ==
    ASSUME NEW S, S \subseteq Nat, 0 \in S, \A n \in S : n + 1 \in S
    PROVE  S = Nat
<1> SUFFICES ASSUME Nat \ S # {} PROVE FALSE
  OBVIOUS
<1>1. PICK x \in Nat \ S : \A y \in Nat \ S : x <= y
  <2> DEFINE T == Nat \ S
  <2>1. T \subseteq Nat /\ T # {}
    OBVIOUS
  <2> HIDE DEF T
  <2>2. \E x \in T : \A y \in T : x <= y
    BY <2>1, Least
  <2>3. QED BY <2>2 DEF T
<1>2. x # 0
  OBVIOUS
<1>3. x - 1 \in Nat
  BY <1>2
<1>4. x - 1 \in S
  BY <1>3, <1>1
<1>5. QED BY <1>4

\* A non-empty set of naturals that is bounded has a greatest element.
LEMMA Greatest ==
    ASSUME NEW T, T \subseteq Nat, T # {}, NEW n \in Nat, \A x \in T : x <= n
    PROVE  \E x \in T : \A y \in T : x >= y
<1> DEFINE U == {b \in Nat : \A x \in T : x <= b}
<1>1. U \subseteq Nat /\ n \in U
  OBVIOUS
<1> HIDE DEF U
<1>2. PICK b \in U : \A c \in U : b <= c
  BY <1>1, Least
<1>3. b \in Nat /\ \A x \in T : x <= b
  BY <1>2 DEF U
<1>4. b \in T
  <2> SUFFICES ASSUME b \notin T PROVE FALSE
    OBVIOUS
  <2>1. \A x \in T : x < b
    BY <1>3
  <2>2. b - 1 \in Nat /\ \A x \in T : x <= b - 1
    <3>1. PICK x \in T : x \in Nat /\ x < b
      BY <2>1
    <3>2. QED BY <1>3, <2>1, <3>1
  <2>3. b - 1 \in U
    BY <2>2 DEF U
  <2>4. QED BY <1>2, <1>3, <2>3
<1>5. QED BY <1>3, <1>4

=============================================================================
