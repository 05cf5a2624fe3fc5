----------------------------- MODULE Selections ------------------------------
(***************************************************************************)
(* What a filter leaves of a list: the items at chosen places, in the      *)
(* order they have in the list.                                            *)
(***************************************************************************)
EXTENDS Naturals, FiniteSets, Sequences

(* The places from the first to the last: the n-th has n of them up to it. *)
Ascending(places) ==
  [n \in 1..Cardinality(places) |->
     CHOOSE i \in places : Cardinality({j \in places : j <= i}) = n]

Picked(row, places) ==
  LET order == Ascending(places) IN [n \in DOMAIN order |-> row[order[n]]]
=============================================================================
