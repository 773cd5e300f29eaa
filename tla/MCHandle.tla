------------------------------ MODULE MCHandle ------------------------------
(* Instances of Handle for TLC. *)
EXTENDS Handle
=============================================================================
