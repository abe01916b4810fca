------------------------------- MODULE Places -------------------------------
(***************************************************************************)
(* Numbers in order, and what stands at some places of a sequence: what a  *)
(* sort and a filter of the code leave.                                    *)
(***************************************************************************)
EXTENDS Naturals, FiniteSets

\* By rank: the library sorts through all permutations.
InOrder(nums) ==
    [i \in 1 .. Cardinality(nums) |-> CHOOSE n \in nums : Cardinality({k \in nums : k < n}) = i - 1]

\* What stands at some places of a sequence, in its order.
AtPlaces(seq, places) == [k \in 1 .. Cardinality(places) |-> seq[InOrder(places)[k]]]
=============================================================================
