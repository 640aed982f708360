------------------------------- MODULE Places -------------------------------
(***************************************************************************)
(* Entries picked from a list by their places: what filter leaves of an    *)
(* array of payments, and what replace and trim leave of a text.  They are *)
(* found by rank, which proofs can speak of without recursion.             *)
(***************************************************************************)
EXTENDS Naturals, FiniteSets

\* The n-th of some places has n of them up to itself.
PlaceOf(places, n) == CHOOSE i \in places : Cardinality({ j \in places : j <= i }) = n

\* The entries at some places, in their order.
Picked(list, places) == [ n \in 1 .. Cardinality(places) |-> list[PlaceOf(places, n)] ]
=============================================================================
