------------------------------ MODULE Sorting -------------------------------
(* What a sort returns: the members of S in an order, which has <<a, b>>   *)
(* where a comes before b.  Each is at the place that the number of those  *)
(* before it gives.                                                        *)
EXTENDS Integers, FiniteSets

Rank(a, S, before) == Cardinality({b \in S : <<b, a>> \in before})

Sorted(S, before) ==
    [i \in 1 .. Cardinality(S) |-> CHOOSE a \in S : Rank(a, S, before) = i - 1]
=============================================================================
