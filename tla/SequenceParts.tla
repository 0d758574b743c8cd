--------------------------- MODULE SequenceParts ----------------------------
(***************************************************************************)
(* What Python's comprehensions [x for x in s if ...] return: the part of  *)
(* a sequence that stands at some of its places, in the same order.        *)
(***************************************************************************)
EXTENDS Integers, Sequences, FiniteSets

\* The places of a set in their order, and what stands there.
Ascending(I) ==
  CHOOSE f \in [1..Cardinality(I) -> I] :
    /\ \A j, k \in 1..Cardinality(I) : j < k => f[j] < f[k]
    /\ \A i \in I : \E k \in 1..Cardinality(I) : f[k] = i

AtPlaces(s, I) == [k \in 1..Cardinality(I) |-> s[Ascending(I)[k]]]
=============================================================================
