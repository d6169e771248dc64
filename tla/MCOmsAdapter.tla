---------------------------- MODULE MCOmsAdapter ----------------------------
(* Model instances of OmsAdapter: two exits of a held position, or one     *)
(* entry.                                                                  *)
EXTENDS OmsAdapter

CONSTANTS b1, s1, s2

Exits == {s1, s2}
Entry == {b1}
StopExit == {s2}
=============================================================================
