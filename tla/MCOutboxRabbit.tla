--------------------------- MODULE MCOutboxRabbit ---------------------------
(* Model checking of what OutboxRabbit does not keep: constants in the cfg. *)
EXTENDS OutboxRabbit
=============================================================================
