---------------------------- MODULE MCFileCatalog ----------------------------
(* Model checking of FileCatalog: its cfgs give every constant a value. *)
EXTENDS FileCatalog
=============================================================================
