-------------------------------- MODULE Places --------------------------------
(***************************************************************************)
(* What the code filters or sorts, as the places it takes: a set of        *)
(* numbers in ascending order, and the members of a sequence at some of    *)
(* its places, in the order they have there.                               *)
(***************************************************************************)
EXTENDS Integers, Sequences, FiniteSets

\* The k-th of a set of places.
Nth(places, k) == CHOOSE i \in places : Cardinality({j \in places : j <= i}) = k

Ascending(places) == [k \in 1..Cardinality(places) |-> Nth(places, k)]

Those(seq, places) == [k \in 1..Cardinality(places) |-> seq[Nth(places, k)]]
===============================================================================
