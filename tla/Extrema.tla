------------------------------- MODULE Extrema -------------------------------
(***************************************************************************)
(* Least and greatest elements of sets of naturals, which the proofs need  *)
(* wherever a model takes the newest, the oldest or the next of something. *)
(***************************************************************************)
EXTENDS Naturals, WellFoundedInduction, TLAPS

\* The numbers of a set are not all preceded by another: the order of the
\* naturals is well-founded.
LEMMA HasLeast ==
    ASSUME NEW T, T \subseteq Nat, T # {}
    PROVE  \E x \in T : \A y \in T : x <= y
<1> DEFINE R == {ss \in Nat \X Nat : ss[1] < ss[2]}
<1>1. R = OpToRel(<, Nat)
  BY DEF OpToRel
<1>2. IsWellFoundedOn(R, Nat)
  BY <1>1, NatLessThanWellFounded
<1>3. PICK x \in T : \A y \in T : <<y, x>> \notin R
  <2> HIDE DEF R
  <2> QED
    BY <1>2, WFMin
<1>4. \A y \in T : ~(y < x)
  BY <1>3
<1> QED
  BY <1>4

\* The distances to the bound have a least element.
LEMMA HasGreatest ==
    ASSUME NEW n \in Nat, NEW S, S \subseteq 0 .. n, S # {}
    PROVE  \E m \in S : \A s \in S : s <= m
<1> DEFINE T == {t \in Nat : \E s \in S : t = n - s}
<1>1. \A s \in S : n - s \in T
  OBVIOUS
<1>2. PICK x \in T : \A y \in T : x <= y
  <2>1. T \subseteq Nat /\ T # {}
    BY <1>1
  <2> QED
    BY <2>1, HasLeast
<1>3. PICK m \in S : x = n - m
  BY <1>2
<1>4. \A s \in S : x <= n - s
  BY <1>1, <1>2
<1>5. \A s \in S : s <= m
  <2> SUFFICES ASSUME NEW s \in S
               PROVE  s <= m
    OBVIOUS
  <2>1. n - m <= n - s /\ m \in Int /\ s \in Int
    BY <1>3, <1>4
  <2> QED
    BY <2>1
<1> QED
  BY <1>5

=============================================================================
