----------------------------- MODULE MCCircuit ------------------------------
(* A small instance of Circuit for TLC. *)
EXTENDS Circuit
=============================================================================
