------------------------------ MODULE MCStream ------------------------------
(* Instance of Stream.                                                     *)
EXTENDS Stream
=============================================================================
