----------------------------- MODULE MCSession -----------------------------
(* Session for model checking; the bounds are in the configuration.        *)
EXTENDS Session
=============================================================================
