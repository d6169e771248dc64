--------------------------- MODULE SimulatedBroker --------------------------
(***************************************************************************)
(* The simulated exchange of one book (src/brokers/simulated/broker.py),   *)
(* as operators on its state, a record                                     *)
(*    orders   client_order_id -> broker order                             *)
(*    position holdings of the instrument                                  *)
(*    fills    every fill executed                                         *)
(*    next     the number of the next broker_order_id                      *)
(* Prices, charges and cash are abstracted: whether an order is eligible,  *)
(* crosses its trigger, passes the price and funds checks or finds         *)
(* liquidity is the environment's choice.  The holdings check of CNC sells *)
(* and the quantities are exact.                                           *)
(***************************************************************************)
EXTENDS Orders

CONSTANTS
    MaxFillQuotes,  \* FillModelConfig.max_fill_quotes
    MaxDay          \* bound: trading days

ASSUME FillModelAssumption == MaxFillQuotes \in Nat \ {0}
ASSUME MaxDayAssumption == MaxDay \in Nat \ {0}

NotPlaced ==
    [status |-> "NONE", quantity |-> 0, filled |-> 0, fillCount |-> 0,
     eligibleQuotes |-> 0, number |-> 0, day |-> 0]

(* eligibleQuotes saturates: the code only compares it with the limit.     *)
SimOrderType ==
    [status : {"NONE"} \cup Live \cup Terminal, quantity : 0 .. MaxQty, filled : 0 .. MaxQty,
     fillCount : Nat, eligibleQuotes : 0 .. MaxFillQuotes, number : Nat, day : 0 .. MaxDay]

BrokerType ==
    [orders : [Intents -> SimOrderType], position : Int, fills : SUBSET FillType, next : Nat]

EmptyBroker ==
    [orders |-> [c \in Intents |-> NotPlaced], position |-> 0, fills |-> {}, next |-> 1]

-----------------------------------------------------------------------------
(* Mutant: the holdings check forgets the sells that are already working.  *)
MaySellHoldings(bro, c, qty) == c \in Buys \/ qty <= bro.position

(* The holdings check of _validate: no sell beyond what is held and not    *)
(* already promised to another live sell.  Clipping the holdings at zero,  *)
(* as the code does, changes nothing: qty >= 1.                            *)
MaySell(bro, c, qty) ==
    c \in Buys \/ qty <= bro.position - Outstanding(bro.orders, Resting(bro.orders, Sells))

(* place_order after validation and (for a BUY) reservation of the cash.   *)
Placed(bro, c, qty, day) ==
    [bro EXCEPT
        !.orders[c] = [status |-> IF c \in Stops THEN "TRIGGER_PENDING" ELSE "OPEN",
                       quantity |-> qty, filled |-> 0, fillCount |-> 0,
                       eligibleQuotes |-> 0, number |-> bro.next, day |-> day],
        !.next = @ + 1]

(* _finish                                                                 *)
Finish(bro, c, status) == [bro EXCEPT !.orders[c].status = status]

(* Stop trigger in _match.                                                 *)
Triggered(bro, c) == [bro EXCEPT !.orders[c].status = "OPEN"]

(* _match counts the quote before it looks for liquidity.                  *)
CountQuote(bro, c) ==
    [bro EXCEPT !.orders[c].eligibleQuotes = AtMost(@ + 1, MaxFillQuotes)]

(* The fill that _execute makes of qty shares.                             *)
FillOf(bro, c, qty) == [order |-> c, n |-> bro.orders[c].fillCount + 1, qty |-> qty]

(* _execute with enough funds, and _apply_position.                        *)
Executed(bro, c, qty) ==
    LET o == bro.orders[c]
        filled == o.filled + qty
    IN  [bro EXCEPT
            !.orders[c] = [o EXCEPT
                !.filled = filled,
                !.fillCount = @ + 1,
                !.status = IF filled = o.quantity THEN "FILLED" ELSE "PARTIALLY_FILLED"],
            !.position = IF c \in Buys THEN @ + qty ELSE @ - qty,
            !.fills = @ \cup {FillOf(bro, c, qty)}]

(* The unfilled remainder of a MARKET order that has had its quotes.       *)
GivesUp(o, c) ==
    /\ c \notin Stops
    /\ Remaining(o) > 0
    /\ o.status \in Live
    /\ o.eligibleQuotes >= MaxFillQuotes

(* Orders are visited in broker_order_id order.                            *)
IsFirst(bro, c, C) ==
    /\ c \in C
    /\ \A d \in C : bro.orders[c].number <= bro.orders[d].number

(* Mutant: only the orders are written, not the core row.                  *)
SavedOrders(disk, bro, dirty) ==
    [disk EXCEPT !.orders = [c \in Intents |-> IF c \in dirty THEN bro.orders[c] ELSE @[c]],
                 !.fills = bro.fills]

(* _save: the core row (position, next number), the new fills and the      *)
(* rows of the dirty orders, in one transaction.                           *)
Saved(disk, bro, dirty) ==
    [bro EXCEPT !.orders = [c \in Intents |-> IF c \in dirty THEN @[c] ELSE disk.orders[c]]]
=============================================================================
