-------------------------------- MODULE Sums --------------------------------
(***************************************************************************)
(* The sum of a function, as the number of the units that it counts: the   *)
(* theorems on cardinality then say how a sum changes, without induction.  *)
(***************************************************************************)
EXTENDS Integers, FiniteSets

(* Of natural numbers.                                                     *)
Units(f) == UNION {{x} \X (1 .. f[x]) : x \in DOMAIN f}
Total(f) == Cardinality(Units(f))

(* Of integers.                                                            *)
Above(n) == IF n > 0 THEN n ELSE 0
SignedTotal(f) ==
    Total([x \in DOMAIN f |-> Above(f[x])]) - Total([x \in DOMAIN f |-> Above(-f[x])])
=============================================================================
