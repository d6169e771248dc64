------------------------------- MODULE Orders -------------------------------
(***************************************************************************)
(* Vocabulary shared by the OMS and the simulated broker of one book: the  *)
(* order statuses, the intents, and the number of shares that a set of     *)
(* orders still has to trade.  One instrument, CNC, lot size 1: orders and *)
(* positions of different instruments never read each other.               *)
(*                                                                         *)
(* A month-1 book is long-only: every BUY intent opens, and every SELL     *)
(* intent (stop, target, time exit, flatten) is reduce-only.               *)
(***************************************************************************)
EXTENDS Integers, FiniteSets

CONSTANTS
    Intents,    \* intents of the run; client_order_id is a function of the intent
    Buys,       \* the intents whose side is BUY; the others are reduce-only SELLs
    Stops,      \* the intents whose order type is SL-M; the others are MARKET
    MaxQty      \* bound: the largest quantity of one order

ASSUME IntentsAssumption ==
    /\ IsFiniteSet(Intents)
    /\ Buys \subseteq Intents
    /\ Stops \subseteq Intents \ Buys

ASSUME MaxQtyAssumption == MaxQty \in Nat \ {0}

Sells == Intents \ Buys

(* An order that a dictionary does not hold has status "NONE".             *)
Terminal == {"FILLED", "CANCELLED", "REJECTED", "EXPIRED"}
Live == {"OPEN", "PARTIALLY_FILLED", "TRIGGER_PENDING"}
Status == {"NONE", "SUBMITTED", "UNKNOWN"} \cup Live \cup Terminal

(* Fill.fill_id is "<broker_order_id>-F<n>", and each intent has at most   *)
(* one broker order: the pair identifies the fill.                         *)
FillIds == Intents \X (Nat \ {0})
FillId(f) == <<f.order, f.n>>
FillType == [order : Intents, n : Nat \ {0}, qty : 1 .. MaxQty]

Remaining(o) == o.quantity - o.filled

(* The sum of f[c] over the intents (each f[c] in 0..MaxQty), as the size  *)
(* of the set of the shares it counts.                                     *)
Shares(f) == Cardinality({s \in Intents \X (1 .. MaxQty) : s[2] <= f[s[1]]})

(* The shares that the orders in C still have to trade, and have traded.   *)
Outstanding(orders, C) ==
    Shares([c \in Intents |-> IF c \in C THEN Remaining(orders[c]) ELSE 0])
Traded(orders, C) ==
    Shares([c \in Intents |-> IF c \in C THEN orders[c].filled ELSE 0])

(* Orders of C in a dictionary that are still working.                     *)
Working(orders, C) ==
    {c \in C : orders[c].status \notin Terminal \cup {"NONE"}}

(* Broker orders of C that the exchange may still fill.                    *)
Resting(orders, C) == {c \in C : orders[c].status \in Live}

AtMost(a, b) == IF a <= b THEN a ELSE b
=============================================================================
