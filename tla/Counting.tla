------------------------------ MODULE Counting ------------------------------
(***************************************************************************)
(* What the proofs use of finite sets and of Cardinality, as formulas.  A  *)
(* lemma that counts assumes Counting; a module of proofs ends with the    *)
(* lemma that Counting holds, by the library's theorems about finite sets, *)
(* and with the theorems.  So those theorems are not in the context of     *)
(* every other obligation, which the provers pay for.                      *)
(***************************************************************************)
EXTENDS Integers, FiniteSets

\* The empty set, and no other, has no elements.
EmptyCounts ==
  /\ IsFiniteSet({}) /\ Cardinality({}) = 0
  /\ \A S : IsFiniteSet(S) /\ Cardinality(S) = 0 => S = {}

\* Any finite set.
NatCounts == \A S : IsFiniteSet(S) => Cardinality(S) \in Nat

\* A part of a finite set.
PartCounts ==
  \A S : \A T \in SUBSET S :
    IsFiniteSet(S) => IsFiniteSet(T) /\ Cardinality(T) <= Cardinality(S)

\* An element more, and one less.
MoreCounts ==
  \A S, x : IsFiniteSet(S) /\ x \notin S =>
    IsFiniteSet(S \cup {x}) /\ Cardinality(S \cup {x}) = Cardinality(S) + 1

LessCounts ==
  \A S : \A x \in S : IsFiniteSet(S) =>
    IsFiniteSet(S \ {x}) /\ Cardinality(S \ {x}) = Cardinality(S) - 1

Counting == EmptyCounts /\ NatCounts /\ PartCounts /\ MoreCounts /\ LessCounts
=============================================================================
