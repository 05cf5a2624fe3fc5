--------------------------- MODULE MCKBDocuments ---------------------------
(* Model checking of KBDocuments: constants only. *)
EXTENDS KBDocuments, TLC

Symmetry == Permutations(Callers) \cup Permutations(Versions)
=============================================================================
