------------------------------ MODULE MCButton ------------------------------
(* One button and its timer. *)
EXTENDS Button
=============================================================================
