---------------------------- MODULE MCEventQueue ----------------------------
(* Model checking of EventQueue: constants only. *)
EXTENDS EventQueue, TLC

Symmetry == Permutations(Events) \cup Permutations(Workers)
=============================================================================
