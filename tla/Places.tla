------------------------------- MODULE Places -------------------------------
(***************************************************************************)
(* The items of a sequence at some of its places, in order: what is left   *)
(* when an array is filtered, entry by entry.                              *)
(***************************************************************************)
EXTENDS Naturals, FiniteSets

\* The k-th of a set of places.
Place(places, k) == CHOOSE i \in places : Cardinality({j \in places : j < i}) = k - 1

ItemsAt(items, places) == [k \in 1 .. Cardinality(places) |-> items[Place(places, k)]]
=============================================================================
