---------------------------- MODULE MCKillSwitch ----------------------------
(* Model instances of KillSwitch: one strategy and two exits of it.  A     *)
(* loss of 2% is the daily limit, one of 5% the drawdown limit.            *)
EXTENDS KillSwitch

CONSTANTS m, x1, x2

MCStrategies == {m}
OneExit == {x1}
TwoExits == {x1, x2}
MCOwner == [x \in Exits |-> m]

Mark(equity, losing, storm) == [equity |-> equity, losing |-> losing, storm |-> storm]

(* The book falls to its daily limit and then to its drawdown limit.       *)
Falling == {Mark(100, {}, FALSE), Mark(98, {}, FALSE), Mark(94, {m}, TRUE)}
(* It falls to its daily limit over two marks, and recovers.               *)
Sliding == {Mark(100, {}, FALSE), Mark(99, {m}, FALSE), Mark(98, {}, FALSE)}
=============================================================================
