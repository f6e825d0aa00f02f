------------------------------ MODULE MCDerive ------------------------------
(* Derive on small instances: two aggregates over two source rows. *)
EXTENDS Derive
=============================================================================
