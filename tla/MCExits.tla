------------------------------ MODULE MCExits ------------------------------
(* Exits for model checking; the bounds are in the configurations.         *)
EXTENDS Exits
=============================================================================
