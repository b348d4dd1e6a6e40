---------------------------- MODULE Enumeration ----------------------------
(* The ascending order of finite sets of numbers, and what is left of a    *)
(* sequence.  Functions, no recursion: the provers can reason about them.  *)
EXTENDS Integers, FiniteSets, Sequences

\* The members of S from the least to the greatest.
InOrder(S) ==
  CHOOSE q \in [1..Cardinality(S) -> S] : \A m, n \in DOMAIN q : m < n => q[m] < q[n]

\* What is left of s, in its order, without the members of S.
Without(s, S) ==
  LET kept == {i \in DOMAIN s : s[i] \notin S}
  IN  [n \in 1..Cardinality(kept) |-> s[InOrder(kept)[n]]]
=============================================================================
