------------------------------ MODULE MCStore ------------------------------
(* An instance of IsnsStore for TLC. *)
EXTENDS IsnsStore
=============================================================================
