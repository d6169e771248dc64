-------------------------- MODULE TradingBookProofs -------------------------
(***************************************************************************)
(* The book's safety theorems, for every number of intents, quantity, day  *)
(* and crash; then, as long as no crash has torn a handler, that the OMS   *)
(* and the broker hold the same orders, fills and position, that reduce    *)
(* orders never add up to more than the position, and that statuses only   *)
(* move forward.                                                           *)
(***************************************************************************)
EXTENDS TradingBook, OMSProofs

-----------------------------------------------------------------------------
(* The broker's operators.                                                 *)

(* What one order may still take from the holdings.                        *)
Owed(r, c) == IF c \in Sells /\ r.status \in Live THEN Remaining(r) ELSE 0

SameRow(r, q) == r.status = q.status /\ r.quantity = q.quantity /\ r.filled = q.filled

SimOrders == [Intents -> SimOrderType]

GoodBroker(b) == b \in BrokerType /\ WellFilled(b.orders) /\ Covered(b)

(* Two order tables that differ in one row owe the difference.             *)
LEMMA OutstandingStep ==
    ASSUME NEW x \in SimOrders, NEW y \in SimOrders, WellFilled(x), WellFilled(y),
           NEW c \in Intents, \A d \in Intents : d # c => SameRow(x[d], y[d])
    PROVE  /\ Outstanding(x, Resting(x, Sells)) \in Nat
           /\ Owed(x[c], c) \in Nat /\ Owed(y[c], c) \in Nat
           /\ Owed(x[c], c) <= Outstanding(x, Resting(x, Sells))
           /\ Outstanding(y, Resting(y, Sells))
                = Outstanding(x, Resting(x, Sells)) - Owed(x[c], c) + Owed(y[c], c)
<1> DEFINE f == [d \in Intents |-> IF d \in Resting(x, Sells) THEN Remaining(x[d]) ELSE 0]
           g == [d \in Intents |-> IF d \in Resting(y, Sells) THEN Remaining(y[d]) ELSE 0]
<1>0. Sells \subseteq Intents
  BY DEF Sells
<1>1. \A d \in Intents : f[d] = Owed(x[d], d) /\ g[d] = Owed(y[d], d)
  BY <1>0 DEF Owed, Resting
<1>2. \A d \in Intents : Owed(x[d], d) \in 0 .. MaxQty /\ Owed(y[d], d) \in 0 .. MaxQty
  BY MaxQtyAssumption DEF Owed, Remaining, SimOrders, SimOrderType, WellFilled
<1>3. f \in Counts /\ g \in Counts
  BY <1>1, <1>2 DEF Counts
<1>4. \A d \in Intents : d # c => f[d] = g[d]
  BY <1>1 DEF SameRow, Owed, Remaining
<1>5. Shares(f) = Outstanding(x, Resting(x, Sells)) /\ Shares(g) = Outstanding(y, Resting(y, Sells))
  BY DEF Outstanding
<1>6. f[c] = Owed(x[c], c) /\ g[c] = Owed(y[c], c)
  BY <1>1
<1>6a. f[c] \in 0 .. MaxQty /\ g[c] \in 0 .. MaxQty
  BY <1>3 DEF Counts
<1> HIDE DEF f, g
<1>7. g = [f EXCEPT ![c] = g[c]]
  BY <1>3, <1>4 DEF Counts
<1>8. /\ Shares(f) \in Nat /\ f[c] <= Shares(f)
      /\ Shares([f EXCEPT ![c] = g[c]]) = Shares(f) - f[c] + g[c]
  BY <1>3, <1>6a, SharesUpdate
<1>9. f[c] \in Nat /\ g[c] \in Nat
  BY <1>6a, MaxQtyAssumption
<1>10. Shares(g) = Shares(f) - f[c] + g[c]
  BY <1>7, <1>8
<1> QED
  BY <1>5, <1>6, <1>8, <1>9, <1>10

(* One row is replaced: the broker stays covered if the row owes no more   *)
(* than the position gained.                                               *)
LEMMA RowStep ==
    ASSUME NEW b, GoodBroker(b), NEW b2 \in BrokerType, NEW c \in Intents,
           NEW r \in SimOrderType, r.filled <= r.quantity,
           b2.orders = [b.orders EXCEPT ![c] = r],
           \/ Owed(r, c) - Owed(b.orders[c], c) <= b2.position - b.position
           \/ Outstanding(b.orders, Resting(b.orders, Sells)) + Owed(r, c) <= b2.position
    PROVE  GoodBroker(b2) /\ \A d \in Intents : d # c => SameRow(b.orders[d], b2.orders[d])
<1>1. /\ b.orders \in SimOrders /\ b2.orders \in SimOrders
      /\ b.position \in Int /\ b2.position \in Int
  BY DEF GoodBroker, BrokerType, SimOrders
<1>2. /\ b2.orders[c] = r
      /\ \A d \in Intents : d # c => b2.orders[d] = b.orders[d]
  BY <1>1 DEF SimOrders
<1>3. WellFilled(b.orders) /\ WellFilled(b2.orders)
  BY <1>2 DEF GoodBroker, WellFilled
<1>4. \A d \in Intents : d # c => SameRow(b.orders[d], b2.orders[d])
  BY <1>2 DEF SameRow
<1>5. Outstanding(b.orders, Resting(b.orders, Sells)) <= b.position
  BY DEF GoodBroker, Covered
<1>6. Outstanding(b2.orders, Resting(b2.orders, Sells)) <= b2.position
  <2>1. /\ Outstanding(b.orders, Resting(b.orders, Sells)) \in Nat
        /\ Owed(b.orders[c], c) \in Nat /\ Owed(r, c) \in Nat
        /\ Outstanding(b2.orders, Resting(b2.orders, Sells))
             = Outstanding(b.orders, Resting(b.orders, Sells)) - Owed(b.orders[c], c) + Owed(r, c)
    <3> DEFINE x == b.orders
               y == b2.orders
    <3>1. /\ x \in SimOrders /\ y \in SimOrders /\ WellFilled(x) /\ WellFilled(y)
          /\ \A d \in Intents : d # c => SameRow(x[d], y[d])
          /\ y[c] = r
      BY <1>1, <1>2, <1>3, <1>4
    <3> HIDE DEF x, y
    <3>2. /\ Outstanding(x, Resting(x, Sells)) \in Nat
          /\ Owed(x[c], c) \in Nat /\ Owed(y[c], c) \in Nat
          /\ Outstanding(y, Resting(y, Sells))
               = Outstanding(x, Resting(x, Sells)) - Owed(x[c], c) + Owed(y[c], c)
      BY <3>1, OutstandingStep
    <3> QED
      BY <3>1, <3>2 DEF x, y
  <2> QED
    BY <1>1, <1>5, <2>1
<1> QED
  BY <1>3, <1>4, <1>6 DEF GoodBroker, Covered

LEMMA SetRow ==
    ASSUME NEW b \in BrokerType, NEW c \in Intents, NEW r \in SimOrderType
    PROVE  /\ [b EXCEPT !.orders[c] = r] \in BrokerType
           /\ [b EXCEPT !.orders[c] = r].orders = [b.orders EXCEPT ![c] = r]
           /\ [b EXCEPT !.orders[c] = r].position = b.position
           /\ [b EXCEPT !.orders[c] = r].fills = b.fills
BY DEF BrokerType

(* What every broker operator on order c keeps.                            *)
Keeps(b, b2, c) ==
    /\ GoodBroker(b2)
    /\ \A d \in Intents : d # c => SameRow(b.orders[d], b2.orders[d])

LEMMA SimStatuses ==
    /\ Terminal \cap Live = {}
    /\ Terminal \subseteq Status /\ Live \subseteq Status
BY DEF Terminal, Live, Status

LEMMA OwedType ==
    ASSUME NEW r \in SimOrderType, r.filled <= r.quantity, NEW c
    PROVE  Owed(r, c) \in Nat
BY MaxQtyAssumption DEF Owed, Remaining, SimOrderType

(* A row of a good broker.                                                 *)
LEMMA GoodRow ==
    ASSUME NEW b, GoodBroker(b), NEW c \in Intents
    PROVE  /\ b.orders[c] \in SimOrderType
           /\ b.orders[c].filled <= b.orders[c].quantity
           /\ b \in BrokerType
           /\ b.position \in Int
BY DEF GoodBroker, BrokerType, WellFilled

LEMMA FinishStep ==
    ASSUME NEW b, GoodBroker(b), NEW c \in Intents, NEW s \in Terminal
    PROVE  Keeps(b, Finish(b, c, s), c) /\ Finish(b, c, s).fills = b.fills
<1> DEFINE r == [b.orders[c] EXCEPT !.status = s]
<1>1. Finish(b, c, s) = [b EXCEPT !.orders[c] = r]
  BY GoodRow DEF Finish, BrokerType
<1>2. r \in SimOrderType /\ r.filled <= r.quantity /\ r.status = s
  BY GoodRow DEF SimOrderType
<1>3. Owed(r, c) = 0
  BY <1>2, SimStatuses DEF Owed
<1>4. Owed(b.orders[c], c) \in Nat
  BY GoodRow, OwedType
<1> HIDE DEF r
<1> DEFINE b2 == [b EXCEPT !.orders[c] = r]
<1>5. /\ b2 \in BrokerType /\ b2.orders = [b.orders EXCEPT ![c] = r]
      /\ b2.position = b.position /\ b2.fills = b.fills
  BY <1>2, GoodRow, SetRow
<1> HIDE DEF b2
<1>6. Owed(r, c) - Owed(b.orders[c], c) <= b2.position - b.position
  BY <1>3, <1>4, <1>5, GoodRow
<1>7. Keeps(b, b2, c)
  BY <1>2, <1>5, <1>6, RowStep DEF Keeps
<1> QED
  BY <1>1, <1>5, <1>7 DEF b2

(* Replacing a row by one that owes as much.                               *)
LEMMA SameOwedStep ==
    ASSUME NEW b, GoodBroker(b), NEW c \in Intents, NEW r \in SimOrderType,
           r.filled <= r.quantity, Owed(r, c) = Owed(b.orders[c], c)
    PROVE  /\ Keeps(b, [b EXCEPT !.orders[c] = r], c)
           /\ [b EXCEPT !.orders[c] = r].fills = b.fills
           /\ [b EXCEPT !.orders[c] = r].position = b.position
           /\ [b EXCEPT !.orders[c] = r].orders[c] = r
<1> DEFINE b2 == [b EXCEPT !.orders[c] = r]
<1>1. /\ b2 \in BrokerType /\ b2.orders = [b.orders EXCEPT ![c] = r]
      /\ b2.position = b.position /\ b2.fills = b.fills
  BY GoodRow, SetRow
<1>2. Owed(b.orders[c], c) \in Nat
  BY GoodRow, OwedType
<1>3. b.orders \in SimOrders
  BY DEF GoodBroker, BrokerType, SimOrders
<1> HIDE DEF b2
<1>4. b2.orders[c] = r
  BY <1>1, <1>3 DEF SimOrders
<1>5. Owed(r, c) - Owed(b.orders[c], c) <= b2.position - b.position
  BY <1>1, <1>2, GoodRow
<1>6. Keeps(b, b2, c)
  BY <1>1, <1>5, RowStep DEF Keeps
<1> QED
  BY <1>1, <1>4, <1>6 DEF b2

LEMMA TriggeredStep ==
    ASSUME NEW b, GoodBroker(b), NEW c \in Intents, b.orders[c].status \in Live
    PROVE  /\ Keeps(b, Triggered(b, c), c)
           /\ Triggered(b, c).fills = b.fills
           /\ Triggered(b, c).orders[c].status = "OPEN"
<1> DEFINE r == [b.orders[c] EXCEPT !.status = "OPEN"]
<1>1. Triggered(b, c) = [b EXCEPT !.orders[c] = r]
  BY GoodRow DEF Triggered, BrokerType
<1>2. /\ r \in SimOrderType /\ r.filled = b.orders[c].filled
      /\ r.quantity = b.orders[c].quantity /\ r.status = "OPEN"
  BY GoodRow DEF SimOrderType, Live
<1>3. Owed(r, c) = Owed(b.orders[c], c) /\ r.filled <= r.quantity
  BY <1>2, GoodRow DEF Owed, Remaining, Live
<1> HIDE DEF r
<1> QED
  BY <1>1, <1>2, <1>3, SameOwedStep

LEMMA CountQuoteStep ==
    ASSUME NEW b, GoodBroker(b), NEW c \in Intents
    PROVE  /\ Keeps(b, CountQuote(b, c), c)
           /\ CountQuote(b, c).fills = b.fills
           /\ CountQuote(b, c).position = b.position
           /\ SameRow(b.orders[c], CountQuote(b, c).orders[c])
           /\ CountQuote(b, c).orders[c].fillCount = b.orders[c].fillCount
<1> DEFINE n == AtMost(b.orders[c].eligibleQuotes + 1, MaxFillQuotes)
           r == [b.orders[c] EXCEPT !.eligibleQuotes = n]
<1>1. n \in 0 .. MaxFillQuotes
  BY GoodRow, FillModelAssumption DEF SimOrderType, AtMost
<1>2. CountQuote(b, c) = [b EXCEPT !.orders[c] = r]
  BY GoodRow DEF CountQuote, BrokerType, SimOrderType
<1> HIDE DEF n
<1>3. /\ r \in SimOrderType /\ SameRow(b.orders[c], r) /\ r.filled <= r.quantity
      /\ r.fillCount = b.orders[c].fillCount
  BY <1>1, GoodRow DEF SimOrderType, SameRow
<1>4. Owed(r, c) = Owed(b.orders[c], c)
  BY <1>3 DEF Owed, Remaining, SameRow
<1> HIDE DEF r
<1> QED
  BY <1>2, <1>3, <1>4, SameOwedStep

(* A fill takes from a sell's promise what it takes from the holdings.     *)
LEMMA ExecutedStep ==
    ASSUME NEW b, GoodBroker(b), NEW c \in Intents, b.orders[c].status \in Live,
           NEW qty \in Nat, 0 < qty, qty <= Remaining(b.orders[c])
    PROVE  /\ Keeps(b, Executed(b, c, qty), c)
           /\ FillOf(b, c, qty) \in FillType
           /\ Executed(b, c, qty).fills = b.fills \cup {FillOf(b, c, qty)}
<1> DEFINE o == b.orders[c]
           n == o.filled + qty
           k == o.fillCount + 1
           st == IF n = o.quantity THEN "FILLED" ELSE "PARTIALLY_FILLED"
           pos == IF c \in Buys THEN b.position + qty ELSE b.position - qty
           fl == b.fills \cup {FillOf(b, c, qty)}
           r == [o EXCEPT !.filled = n, !.fillCount = k, !.status = st]
           b2 == [b EXCEPT !.orders[c] = r, !.position = pos, !.fills = fl]
<1>0. o \in SimOrderType /\ o.filled <= o.quantity /\ b \in BrokerType /\ b.position \in Int
  BY GoodRow
<1>1. n \in 0 .. MaxQty /\ n <= o.quantity /\ qty \in 1 .. MaxQty /\ k \in Nat \ {0}
  BY <1>0, MaxQtyAssumption DEF Remaining, SimOrderType
<1>2. FillOf(b, c, qty) \in FillType
  BY <1>1 DEF FillOf, FillType
<1>3. Executed(b, c, qty) = b2
  BY <1>0 DEF Executed, BrokerType, SimOrderType
<1>4. st \in Live \cup Terminal /\ (st \in Live <=> n # o.quantity)
  BY DEF Live, Terminal
<1>5. pos \in Int
  BY <1>0
<1>6. fl \in SUBSET FillType
  BY <1>0, <1>2 DEF BrokerType
<1> HIDE DEF o
<1>7. /\ r \in SimOrderType /\ r.filled = n /\ r.quantity = o.quantity /\ r.status = st
  <2> HIDE DEF n, k, st
  <2> QED
    BY <1>0, <1>1, <1>4 DEF SimOrderType
<1>8. o \in SimOrderType /\ o.status \in Live /\ o.quantity \in Int /\ o.filled \in Int
  BY <1>0 DEF o, SimOrderType
<1>9. Owed(r, c) - Owed(o, c) <= pos - b.position
  <2>1. CASE c \in Buys
    <3>1. Owed(r, c) = 0 /\ Owed(o, c) = 0
      BY <2>1 DEF Owed, Sells
    <3> QED
      BY <2>1, <3>1, <1>0
  <2>2. CASE c \notin Buys
    <3>1. Owed(o, c) = o.quantity - o.filled
      BY <2>2, <1>8 DEF Owed, Sells, Remaining
    <3>2. Owed(r, c) = IF st \in Live THEN o.quantity - n ELSE 0
      <4> HIDE DEF r, n, st
      <4> QED
        BY <2>2, <1>7 DEF Owed, Sells, Remaining
    <3>3. Owed(r, c) = o.quantity - o.filled - qty
      BY <3>2, <1>4, <1>8
    <3> QED
      BY <2>2, <3>1, <3>3, <1>0, <1>8
  <2> QED
    BY <2>1, <2>2
<1>10. r.filled <= r.quantity
  BY <1>1, <1>7
<1> HIDE DEF r, pos, fl
<1>11. /\ b2 \in BrokerType /\ b2.orders = [b.orders EXCEPT ![c] = r]
       /\ b2.position = pos /\ b2.fills = fl
  BY <1>0, <1>5, <1>6, <1>7 DEF BrokerType
<1> HIDE DEF b2
<1>12. Keeps(b, b2, c)
  BY <1>7, <1>9, <1>10, <1>11, RowStep DEF Keeps, o
<1> QED
  BY <1>2, <1>3, <1>11, <1>12 DEF fl

(* The holdings check covers a new sell.                                   *)
LEMMA PlacedStep ==
    ASSUME NEW b, GoodBroker(b), NEW c \in Intents, NEW qty \in 0 .. MaxQty,
           NEW day \in 0 .. MaxDay, MaySell(b, c, qty)
    PROVE  Keeps(b, Placed(b, c, qty, day), c) /\ Placed(b, c, qty, day).fills = b.fills
<1> DEFINE st == IF c \in Stops THEN "TRIGGER_PENDING" ELSE "OPEN"
           r == [status |-> st, quantity |-> qty, filled |-> 0, fillCount |-> 0,
                 eligibleQuotes |-> 0, number |-> b.next, day |-> day]
           k == b.next + 1
           b2 == [b EXCEPT !.orders[c] = r, !.next = k]
<1>0. b \in BrokerType /\ b.position \in Int /\ b.next \in Nat /\ b.orders \in SimOrders
  BY DEF GoodBroker, BrokerType, SimOrders
<1>1. st \in Live
  BY DEF Live
<1>2. Placed(b, c, qty, day) = b2
  BY DEF Placed
<1> HIDE DEF st
<1>3. /\ r \in SimOrderType /\ r.filled = 0 /\ r.quantity = qty /\ r.status = st
  BY <1>0, <1>1, FillModelAssumption, MaxQtyAssumption DEF SimOrderType
<1>4. k \in Nat
  BY <1>0
<1> HIDE DEF r, k
<1>5. /\ b2 \in BrokerType /\ b2.orders = [b.orders EXCEPT ![c] = r]
      /\ b2.position = b.position /\ b2.fills = b.fills
  BY <1>0, <1>3, <1>4 DEF BrokerType
<1> HIDE DEF b2
<1>6. \/ Owed(r, c) - Owed(b.orders[c], c) <= b2.position - b.position
      \/ Outstanding(b.orders, Resting(b.orders, Sells)) + Owed(r, c) <= b2.position
  <2>1. CASE c \in Buys
    <3>1. Owed(r, c) = 0 /\ Owed(b.orders[c], c) = 0
      BY <2>1 DEF Owed, Sells
    <3> QED
      BY <3>1, <1>0, <1>5
  <2>2. CASE c \notin Buys
    <3>1. Owed(r, c) = qty
      BY <2>2, <1>1, <1>3, MaxQtyAssumption DEF Owed, Sells, Remaining
    <3>2. qty <= b.position - Outstanding(b.orders, Resting(b.orders, Sells))
      BY <2>2 DEF MaySell
    <3>3. Outstanding(b.orders, Resting(b.orders, Sells)) \in Nat
      BY <1>0, OutstandingStep DEF GoodBroker, SameRow
    <3> QED
      BY <3>1, <3>2, <3>3, <1>0, <1>5, MaxQtyAssumption
  <2> QED
    BY <2>1, <2>2
<1>7. r.filled <= r.quantity
  BY <1>3, MaxQtyAssumption
<1>8. Keeps(b, b2, c)
  BY <1>3, <1>5, <1>6, <1>7, RowStep DEF Keeps
<1> QED
  BY <1>2, <1>5, <1>8

(* The stored rows of the orders that are not dirty are up to date.        *)
Clean(d, b, D) == \A c \in Intents \ D : SameRow(d.orders[c], b.orders[c])

LEMMA SavedStep ==
    ASSUME NEW d, GoodBroker(d), NEW b, GoodBroker(b), NEW D, Clean(d, b, D)
    PROVE  /\ GoodBroker(Saved(d, b, D))
           /\ Clean(Saved(d, b, D), b, {})
           /\ Saved(d, b, D).fills = b.fills
<1> DEFINE x == [c \in Intents |-> IF c \in D THEN b.orders[c] ELSE d.orders[c]]
           b2 == [b EXCEPT !.orders = x]
<1>0. /\ b \in BrokerType /\ b.orders \in SimOrders /\ d.orders \in SimOrders
      /\ WellFilled(b.orders) /\ WellFilled(d.orders)
  BY DEF GoodBroker, BrokerType, SimOrders
<1>1. Saved(d, b, D) = b2
  BY DEF Saved
<1>2. x \in SimOrders /\ WellFilled(x)
  BY <1>0 DEF SimOrders, WellFilled
<1>3. \A c \in Intents : SameRow(x[c], b.orders[c])
  BY <1>0 DEF Clean, SameRow
<1> HIDE DEF x
<1>4. /\ b2 \in BrokerType /\ b2.orders = x /\ b2.position = b.position /\ b2.fills = b.fills
  BY <1>0, <1>2 DEF BrokerType, SimOrders
<1> HIDE DEF b2
<1>5. Outstanding(x, Resting(x, Sells)) = Outstanding(b.orders, Resting(b.orders, Sells))
  <2> DEFINE f == [c \in Intents |-> IF c \in Resting(x, Sells) THEN Remaining(x[c]) ELSE 0]
             g == [c \in Intents |->
                     IF c \in Resting(b.orders, Sells) THEN Remaining(b.orders[c]) ELSE 0]
  <2>1. \A c \in Intents : f[c] = g[c]
    BY <1>3 DEF SameRow, Resting, Remaining
  <2>2. f = g
    BY <2>1
  <2>3. Shares(f) = Outstanding(x, Resting(x, Sells))
        /\ Shares(g) = Outstanding(b.orders, Resting(b.orders, Sells))
    BY DEF Outstanding
  <2> HIDE DEF f, g
  <2> QED
    BY <2>2, <2>3
<1>6. Covered(b2)
  BY <1>4, <1>5 DEF GoodBroker, Covered
<1> QED
  BY <1>1, <1>2, <1>3, <1>4, <1>6 DEF GoodBroker, Clean

-----------------------------------------------------------------------------
(* The inductive invariant.  RestoreIsFaithful and the coverage of the     *)
(* stored rows are not inductive alone: a restart replaces what is in      *)
(* memory by what is stored, so the invariant says how the two relate.     *)

(* Memory and the stored events agree, and no order is overfilled.         *)
OmsInv ==
    /\ oms \in OmsType
    /\ image \in OmsType
    /\ RestoreIsFaithful
    /\ WellFilled(oms.orders)

(* The broker is covered in memory and in its rows, and the rows that the  *)
(* next _save leaves alone need not be written.                            *)
BroInv ==
    /\ GoodBroker(bro)
    /\ GoodBroker(disk)
    /\ Clean(disk, bro, dirty)

(* The OMS has seen every fill that the broker has made or stored: the     *)
(* callback records it before _save does.                                  *)
FillsKnown == \A f \in bro.fills \cup disk.fills : FillId(f) \in oms.seen

(* An order that has been triggered is live until it is executed.          *)
ExecLive == pc = "exec" => \A c \in cur : bro.orders[c].status \in Live

CtlInv ==
    /\ checks \in [Intents -> 0 .. 2]
    /\ dirty \in SUBSET Intents
    /\ changed \in BOOLEAN
    /\ pc \in PCs
    /\ cur \in SUBSET Intents
    /\ todo \in SUBSET Intents
    /\ liquidity \in 0 .. MaxLiquidity
    /\ today \in 1 .. MaxDay
    /\ drift \in BOOLEAN
    /\ stops \in 0 .. MaxStops
    /\ torn \in BOOLEAN

BookInv == OmsInv /\ BroInv /\ FillsKnown /\ ExecLive /\ CtlInv

LEMMA BookInvImplies ==
    BookInv => TypeOK /\ RestoreIsFaithful /\ BrokerNeverShort
BY DEF BookInv, OmsInv, BroInv, CtlInv, TypeOK, GoodBroker, BrokerNeverShort

LEMMA NoShares ==
    ASSUME NEW b, b.position = 0, \A c \in Intents : b.orders[c].status = "NONE"
    PROVE  Covered(b)
<1> DEFINE f == [c \in Intents |-> IF c \in Resting(b.orders, Sells) THEN Remaining(b.orders[c]) ELSE 0]
<1>1. Resting(b.orders, Sells) = {}
  BY DEF Resting, Sells, Live
<1>2. \A c \in Intents : f[c] = 0
  BY <1>1
<1> HIDE DEF f
<1>3. Shares(f) = 0
  BY <1>2, ZeroShares
<1> QED
  BY <1>3 DEF Covered, Outstanding, f

LEMMA InitInv == Init => BookInv
<1> SUFFICES ASSUME Init PROVE BookInv
  OBVIOUS
<1> USE DEF Init
<1>1. EmptyOms \in OmsType
  BY MaxQtyAssumption DEF EmptyOms, OmsType, NoOrder, OrderType, Status
<1>2. OmsInv
  BY <1>1 DEF OmsInv, RestoreIsFaithful, Agree, WellFilled, EmptyOms, NoOrder
<1>3. EmptyBroker \in BrokerType
  BY MaxQtyAssumption, MaxDayAssumption, FillModelAssumption
  DEF EmptyBroker, BrokerType, NotPlaced, SimOrderType
<1>4. Covered(EmptyBroker)
  <2>1. EmptyBroker.position = 0 /\ \A c \in Intents : EmptyBroker.orders[c].status = "NONE"
    BY DEF EmptyBroker, NotPlaced
  <2> QED
    BY <2>1, NoShares
<1>5. WellFilled(EmptyBroker.orders)
  BY DEF WellFilled, EmptyBroker, NotPlaced
<1>6. BroInv
  BY <1>3, <1>4, <1>5 DEF BroInv, GoodBroker, Clean, SameRow
<1>7. FillsKnown
  BY DEF FillsKnown, EmptyBroker
<1>8. ExecLive
  BY DEF ExecLive
<1>9. /\ checks \in [Intents -> 0 .. 2] /\ liquidity \in 0 .. MaxLiquidity
      /\ today \in 1 .. MaxDay /\ stops \in 0 .. MaxStops
  BY MaxDayAssumption, TradingBookAssumption
<1>10. changed \in BOOLEAN /\ drift \in BOOLEAN
  OBVIOUS
<1>11. pc \in PCs /\ dirty \subseteq Intents /\ cur \subseteq Intents /\ todo \subseteq Intents
  BY DEF PCs
<1>12. CtlInv
  BY <1>9, <1>10, <1>11, Zenon DEF CtlInv
<1> QED
  BY <1>2, <1>6, <1>7, <1>8, <1>12 DEF BookInv

-----------------------------------------------------------------------------
(* One lemma per kind of step: what it does to each part of the invariant. *)

(* The OMS hears of a status.                                              *)
LEMMA NotifyStep ==
    ASSUME OmsInv, NEW c \in Intents, NEW s \in Status, Notify(c, s)
    PROVE  OmsInv' /\ oms'.seen = oms.seen /\ checks' = checks
<1> DEFINE u == [order |-> c, status |-> s]
<1>1. /\ oms \in OmsType /\ image \in OmsType /\ Agree(image, oms) /\ WellFilled(oms.orders)
  BY DEF OmsInv, RestoreIsFaithful
<1>2. oms' = OnUpdate(oms, u) /\ image' = StoreUpdate(image, oms, u) /\ checks' = checks
  BY DEF Notify
<1>3. u = [order |-> c, status |-> s]
  OBVIOUS
<1> HIDE DEF u
<1>4. /\ OnUpdate(oms, u) \in OmsType
      /\ StoreUpdate(image, oms, u) \in OmsType
      /\ OnUpdate(oms, u).seen = oms.seen
      /\ Agree(StoreUpdate(image, oms, u), OnUpdate(oms, u))
      /\ WellFilled(OnUpdate(oms, u).orders)
  BY <1>1, <1>3, UpdateBoth
<1> QED
  BY <1>2, <1>4 DEF OmsInv, RestoreIsFaithful

(* The broker's order c changes in memory, and its row becomes dirty.      *)
LEMMA TouchStep ==
    ASSUME BroInv, NEW c \in Intents, Keeps(bro, bro', c), disk' = disk, dirty' = dirty \cup {c}
    PROVE  BroInv'
<1>1. GoodBroker(bro') /\ GoodBroker(disk')
  BY DEF Keeps, BroInv
<1>2. ASSUME NEW d \in Intents \ dirty'
      PROVE  SameRow(disk'.orders[d], bro'.orders[d])
  <2>1. SameRow(disk.orders[d], bro.orders[d]) /\ SameRow(bro.orders[d], bro'.orders[d])
    BY <1>2 DEF BroInv, Clean, Keeps
  <2> QED
    BY <2>1 DEF SameRow
<1> QED
  BY <1>1, <1>2 DEF BroInv, Clean

(* A broker order ends, with or without having counted the quote.          *)
LEMMA EndStep ==
    ASSUME OmsInv, BroInv, FillsKnown, NEW c \in Intents, NEW s \in Terminal,
           NEW before, before = bro \/ before = CountQuote(bro, c), End(before, c, s)
    PROVE  /\ OmsInv' /\ BroInv' /\ FillsKnown'
           /\ checks' = checks /\ dirty' = dirty \cup {c} /\ changed' = TRUE
<1>0. s \in Status
  BY SimStatuses
<1>1. OmsInv' /\ oms'.seen = oms.seen /\ checks' = checks
  BY <1>0, NotifyStep DEF End
<1>2. Keeps(bro, before, c) /\ before.fills = bro.fills
  BY CountQuoteStep DEF Keeps, SameRow, BroInv
<1>3. Keeps(before, Finish(before, c, s), c) /\ Finish(before, c, s).fills = before.fills
  BY <1>2, FinishStep DEF Keeps
<1>4. Keeps(bro, bro', c) /\ bro'.fills = bro.fills
  BY <1>2, <1>3 DEF End, Keeps, SameRow
<1>5. disk' = disk /\ dirty' = dirty \cup {c} /\ changed' = TRUE
  BY DEF End, Touch
<1>6. BroInv'
  BY <1>4, <1>5, TouchStep
<1> QED
  BY <1>1, <1>4, <1>5, <1>6 DEF FillsKnown

(* Nothing changes at the broker.                                          *)
LEMMA BrokerStays ==
    ASSUME BroInv, FillsKnown, UNCHANGED broVars, oms.seen \subseteq oms'.seen
    PROVE  BroInv' /\ FillsKnown'
BY DEF BroInv, FillsKnown, broVars

-----------------------------------------------------------------------------
(* The actions, one lemma each.                                            *)

LEMMA SubmitInv ==
    ASSUME BookInv, NEW c \in Intents, NEW qty \in 1 .. MaxQty, Submit(c, qty)
    PROVE  BookInv'
<1> USE DEF BookInv, Submit
<1>1. OmsInv' /\ oms'.seen = oms.seen
  BY RegisterBoth DEF OmsInv, RestoreIsFaithful
<1>2. BroInv' /\ FillsKnown'
  BY <1>1, BrokerStays
<1>3. ExecLive'
  BY DEF ExecLive
<1>4. CtlInv'
  BY DEF CtlInv, PCs, broVars, envVars
<1> QED
  BY <1>1, <1>2, <1>3, <1>4

LEMMA PlaceRefusedInv ==
    ASSUME BookInv, NEW c \in Intents, PlaceRejected(c) \/ PlaceUnknown(c)
    PROVE  BookInv'
<1> USE DEF BookInv, PlaceRejected, PlaceUnknown, HandlerEnds
<1>0. "REJECTED" \in Status /\ "UNKNOWN" \in Status
  BY DEF Status, Terminal
<1>1. OmsInv' /\ oms'.seen = oms.seen
  BY <1>0, SetStatusBoth DEF OmsInv, RestoreIsFaithful
<1>2. BroInv' /\ FillsKnown'
  BY <1>1, BrokerStays
<1>3. ExecLive'
  BY DEF ExecLive
<1>4. CtlInv'
  BY DEF CtlInv, PCs, broVars, envVars
<1> QED
  BY <1>1, <1>2, <1>3, <1>4

LEMMA PlaceAcceptedInv ==
    ASSUME BookInv, NEW c \in Intents, PlaceAccepted(c)
    PROVE  BookInv'
<1> USE DEF BookInv, PlaceAccepted
<1> DEFINE qty == oms.orders[c].quantity
<1>1. OmsInv' /\ oms' = oms
  BY DEF OmsInv, RestoreIsFaithful, omsVars
<1>2. qty \in 0 .. MaxQty
  BY DEF OmsInv, OmsType, OrderType
<1>3. today \in 0 .. MaxDay
  BY MaxDayAssumption DEF CtlInv
<1>4. Keeps(bro, bro', c) /\ bro'.fills = bro.fills
  BY <1>2, <1>3, PlacedStep DEF BroInv
<1>5. GoodBroker(disk) /\ GoodBroker(bro') /\ Clean(disk, bro', dirty \cup {c})
  BY <1>4 DEF BroInv, Keeps, Clean, SameRow
<1>6. GoodBroker(disk') /\ Clean(disk', bro', {}) /\ disk'.fills = bro'.fills
  BY <1>5, SavedStep
<1>7. BroInv'
  BY <1>5, <1>6 DEF BroInv
<1>8. FillsKnown'
  BY <1>1, <1>4, <1>6 DEF FillsKnown
<1>9. ExecLive'
  BY DEF ExecLive
<1>10. CtlInv'
  BY DEF CtlInv, PCs, omsVars, envVars
<1> QED
  BY <1>1, <1>7, <1>8, <1>9, <1>10

(* The acknowledgement, delivered or not: only the row's dirt changes at   *)
(* the broker.                                                             *)
LEMMA PlaceAckInv ==
    ASSUME BookInv, NEW c \in Intents, PlaceAcked(c) \/ PlaceAckFailed(c)
    PROVE  BookInv'
<1> USE DEF BookInv, PlaceAcked, PlaceAckFailed, HandlerEnds
<1>1. OmsInv' /\ oms'.seen = oms.seen /\ checks' \in [Intents -> 0 .. 2]
  <2>1. CASE PlaceAcked(c)
    <3>1. bro.orders[c].status \in Status
      BY SimStatuses, GoodRow DEF BroInv, SimOrderType, Status
    <3> QED
      BY <2>1, <3>1, NotifyStep DEF CtlInv
  <2>2. CASE PlaceAckFailed(c)
    <3>1. checks' \in [Intents -> 0 .. 2]
      BY <2>2 DEF CtlInv
    <3> QED
      BY <2>2, <3>1, AckFailedBoth DEF OmsInv, RestoreIsFaithful
  <2> QED
    BY <2>1, <2>2
<1>2. bro' = bro /\ disk' = disk /\ dirty' = dirty \cup {c} /\ changed' = changed
  OBVIOUS
<1>3. BroInv'
  BY <1>2 DEF BroInv, Clean
<1>4. FillsKnown'
  BY <1>1, <1>2 DEF FillsKnown
<1>5. ExecLive'
  BY DEF ExecLive
<1>6. CtlInv'
  BY <1>1, <1>2 DEF CtlInv, PCs, envVars
<1> QED
  BY <1>1, <1>3, <1>4, <1>5, <1>6

(* Cancelled, expired by a quote, unfunded, or expired at the close.       *)
LEMMA EndsInv ==
    ASSUME BookInv, NEW c \in Intents,
           Cancel(c) \/ QuoteExpires(c) \/ QuoteUnfunded(c) \/ ExpireOrder(c)
    PROVE  BookInv'
<1> USE DEF BookInv
<1>1. PICK before \in {bro, CountQuote(bro, c)}, s \in Terminal : End(before, c, s)
  <2>0. "CANCELLED" \in Terminal /\ "EXPIRED" \in Terminal
    BY DEF Terminal
  <2>1. CASE Cancel(c)
    BY <2>0, <2>1 DEF Cancel
  <2>2. CASE QuoteExpires(c) \/ ExpireOrder(c)
    BY <2>0, <2>2 DEF QuoteExpires, ExpireOrder
  <2>3. CASE QuoteUnfunded(c)
    BY <2>0, <2>3 DEF QuoteUnfunded
  <2> QED
    BY <2>1, <2>2, <2>3
<1>2. /\ OmsInv' /\ BroInv' /\ FillsKnown'
      /\ checks' = checks /\ dirty' = dirty \cup {c} /\ changed' = TRUE
  BY <1>1, EndStep
<1>3. /\ liquidity' = liquidity /\ today' = today /\ drift' = drift /\ stops' = stops /\ torn' = torn
  BY <1>1 DEF End, envVars
<1>4. pc' \in {"save", "pick", "cap", "expire"} /\ cur' \in SUBSET Intents /\ todo' \in SUBSET Intents
  BY DEF Cancel, QuoteExpires, QuoteUnfunded, ExpireOrder, ThenCap, Visits, CtlInv
<1>5. ExecLive'
  BY <1>4 DEF ExecLive
<1>6. CtlInv'
  BY <1>2, <1>3, <1>4 DEF CtlInv, PCs
<1> QED
  BY <1>2, <1>5, <1>6

LEMMA QuoteTriggersInv ==
    ASSUME BookInv, NEW c \in Intents, QuoteTriggers(c)
    PROVE  BookInv'
<1> USE DEF BookInv, QuoteTriggers
<1>0. "OPEN" \in Status /\ bro.orders[c].status \in Live
  BY DEF Status, Live
<1>1. OmsInv' /\ oms'.seen = oms.seen /\ checks' = checks
  BY <1>0, NotifyStep
<1>2. Keeps(bro, bro', c) /\ bro'.fills = bro.fills /\ bro'.orders[c].status = "OPEN"
  BY <1>0, TriggeredStep DEF BroInv
<1>3. disk' = disk /\ dirty' = dirty \cup {c} /\ changed' = TRUE
  BY DEF Touch
<1>4. BroInv'
  BY <1>2, <1>3, TouchStep
<1>5. FillsKnown'
  BY <1>1, <1>2, <1>3 DEF FillsKnown
<1>6. ExecLive'
  BY <1>2 DEF ExecLive, Live
<1>7. CtlInv'
  BY <1>1, <1>3 DEF CtlInv, PCs, envVars
<1> QED
  BY <1>1, <1>4, <1>5, <1>6, <1>7

LEMMA QuoteDryInv ==
    ASSUME BookInv, NEW c \in Intents, QuoteDry(c)
    PROVE  BookInv'
<1> USE DEF BookInv, QuoteDry, ThenCap
<1>1. OmsInv' /\ oms' = oms /\ checks' = checks
  BY DEF OmsInv, RestoreIsFaithful, omsVars
<1>2. /\ Keeps(bro, bro', c) /\ bro'.fills = bro.fills
      /\ SameRow(bro.orders[c], bro'.orders[c])
  BY CountQuoteStep DEF BroInv
<1>3. BroInv'
  BY <1>2 DEF BroInv, Keeps, Clean, SameRow
<1>4. FillsKnown'
  BY <1>1, <1>2 DEF FillsKnown
<1>5. ExecLive'
  BY DEF ExecLive
<1>6. CtlInv'
  BY <1>1 DEF CtlInv, PCs, envVars
<1> QED
  BY <1>1, <1>3, <1>4, <1>5, <1>6

LEMMA QuoteFillsInv ==
    ASSUME BookInv, NEW c \in Intents, QuoteFills(c)
    PROVE  BookInv'
<1> USE DEF BookInv
<1> DEFINE qty == Tradable(c)
           f == FillOf(bro, c, qty)
           b == CountQuote(bro, c)
<1>1. bro.orders[c].status \in Live
  BY DEF QuoteFills, AtExecution, ExecLive, Live
<1>2. bro.orders[c] \in SimOrderType /\ bro.orders[c].filled <= bro.orders[c].quantity
  BY GoodRow DEF BroInv
<1>3. qty \in Nat /\ 0 < qty /\ qty <= Remaining(bro.orders[c]) /\ qty <= liquidity
  <2>1. Remaining(bro.orders[c]) \in Nat
    BY <1>2, MaxQtyAssumption DEF Remaining, SimOrderType
  <2>2. liquidity \in Nat
    BY TradingBookAssumption DEF CtlInv
  <2>3. qty > 0
    BY DEF QuoteFills
  <2> QED
    BY <2>1, <2>2, <2>3 DEF Tradable, AtMost
<1> HIDE DEF qty
<1>4. /\ Keeps(bro, b, c) /\ b.fills = bro.fills /\ SameRow(bro.orders[c], b.orders[c])
      /\ b.orders[c].fillCount = bro.orders[c].fillCount
  BY CountQuoteStep DEF BroInv
<1>5. f = FillOf(b, c, qty)
  BY <1>4 DEF FillOf
<1>6. GoodBroker(b) /\ b.orders[c].status \in Live /\ qty <= Remaining(b.orders[c])
  BY <1>1, <1>3, <1>4 DEF SameRow, Keeps, Remaining
<1> HIDE DEF b, f
<1>7. /\ Keeps(b, Executed(b, c, qty), c) /\ f \in FillType
      /\ Executed(b, c, qty).fills = b.fills \cup {f}
  BY <1>3, <1>5, <1>6, ExecutedStep
<1>8. /\ bro' = Executed(b, c, qty) /\ oms' = OnFill(oms, f)
      /\ image' = StoreOnFill(image, oms, f) /\ liquidity' = liquidity - qty
      /\ checks' = checks /\ disk' = disk /\ dirty' = dirty \cup {c} /\ changed' = TRUE
      /\ pc' = "cap" /\ cur' = {c} /\ todo' = todo
      /\ today' = today /\ drift' = drift /\ stops' = stops /\ torn' = torn
  BY DEF QuoteFills, qty, f, b, Touch, ThenCap, envVars
<1>9. OmsInv' /\ oms'.seen = oms.seen \cup {FillId(f)}
  BY <1>7, <1>8, FillBoth DEF OmsInv, RestoreIsFaithful
<1>10. Keeps(bro, bro', c)
  BY <1>4, <1>7, <1>8 DEF Keeps, SameRow
<1>11. BroInv'
  BY <1>8, <1>10, TouchStep
<1>12. FillsKnown'
  BY <1>4, <1>7, <1>8, <1>9 DEF FillsKnown
<1>13. ExecLive'
  BY <1>8 DEF ExecLive
<1>14. liquidity' \in 0 .. MaxLiquidity
  BY <1>3, <1>8, TradingBookAssumption DEF CtlInv
<1>15. CtlInv'
  BY <1>8, <1>14 DEF CtlInv, PCs
<1> QED
  BY <1>9, <1>11, <1>12, <1>13, <1>15

LEMMA QuoteCapInv ==
    ASSUME BookInv, NEW c \in Intents, QuoteCap(c)
    PROVE  BookInv'
<1> USE DEF BookInv
<1>1. pc' = "pick" /\ cur' = {} /\ todo' = todo \ {c}
  BY DEF QuoteCap
<1>2. ExecLive'
  BY <1>1 DEF ExecLive
<1>3. CASE GivesUp(bro.orders[c], c)
  <2>0. "CANCELLED" \in Terminal /\ End(bro, c, "CANCELLED")
    BY <1>3 DEF QuoteCap, Terminal
  <2>1. /\ OmsInv' /\ BroInv' /\ FillsKnown'
        /\ checks' = checks /\ dirty' = dirty \cup {c} /\ changed' = TRUE
    BY <2>0, EndStep
  <2>2. CtlInv'
    BY <1>1, <2>0, <2>1 DEF End, CtlInv, PCs, envVars
  <2> QED
    BY <1>2, <2>1, <2>2
<1>4. CASE ~GivesUp(bro.orders[c], c)
  <2>0. UNCHANGED <<omsVars, broVars, liquidity, envVars>>
    BY <1>4 DEF QuoteCap
  <2>1. OmsInv' /\ oms' = oms
    BY <2>0 DEF OmsInv, RestoreIsFaithful, omsVars
  <2>2. BroInv' /\ FillsKnown'
    BY <2>0, <2>1, BrokerStays
  <2>3. CtlInv'
    BY <1>1, <2>0 DEF CtlInv, PCs, omsVars, broVars, envVars
  <2> QED
    BY <1>2, <2>1, <2>2, <2>3
<1> QED
  BY <1>3, <1>4

(* Steps that only move the handler on.                                    *)
LEMMA ControlInv ==
    ASSUME BookInv,
           \/ \E shares \in 0 .. MaxLiquidity : Quote(shares)
           \/ \E c \in Intents : QuotePasses(c)
           \/ QuoteEnds \/ ExpireSession \/ NextDay
    PROVE  BookInv'
<1> USE DEF BookInv
<1>1. UNCHANGED omsVars /\ UNCHANGED broVars /\ drift' = drift /\ stops' = stops /\ torn' = torn
  BY DEF Quote, QuotePasses, QuoteEnds, ExpireSession, NextDay, envVars
<1>2. OmsInv' /\ oms' = oms
  BY <1>1 DEF OmsInv, RestoreIsFaithful, omsVars
<1>3. BroInv' /\ FillsKnown'
  BY <1>1, <1>2, BrokerStays
<1>4. /\ pc' \in {"pick", "save", "idle", "expire", "down"}
      /\ cur' = cur /\ todo' \in SUBSET Intents
  BY DEF Quote, QuotePasses, QuoteEnds, ExpireSession, NextDay, Visits, Resting, CtlInv
<1>5. liquidity' \in 0 .. MaxLiquidity /\ today' \in 1 .. MaxDay
  BY TradingBookAssumption, MaxDayAssumption
  DEF Quote, QuotePasses, QuoteEnds, ExpireSession, NextDay, envVars, CtlInv
<1>6. ExecLive'
  BY <1>4 DEF ExecLive
<1>7. CtlInv'
  BY <1>1, <1>4, <1>5 DEF CtlInv, PCs, omsVars, broVars
<1> QED
  BY <1>2, <1>3, <1>6, <1>7

LEMMA SaveInv ==
    ASSUME BookInv, Save
    PROVE  BookInv'
<1> USE DEF BookInv, Save
<1>1. OmsInv' /\ oms' = oms
  BY DEF OmsInv, RestoreIsFaithful, omsVars
<1>2. GoodBroker(disk') /\ Clean(disk', bro, {}) /\ disk'.fills = bro.fills
  BY SavedStep DEF BroInv
<1>3. BroInv'
  BY <1>2 DEF BroInv
<1>4. FillsKnown'
  BY <1>1, <1>2 DEF FillsKnown
<1>5. ExecLive'
  BY DEF ExecLive
<1>6. CtlInv'
  BY DEF CtlInv, PCs, omsVars, envVars
<1> QED
  BY <1>1, <1>3, <1>4, <1>5, <1>6

LEMMA ResolveInv ==
    ASSUME BookInv, NEW c \in Intents,
           ResolveUnknown(c) \/ \E timedOut \in BOOLEAN : ResolveAbsent(c, timedOut)
    PROVE  BookInv'
<1> USE DEF BookInv
<1>1. OmsInv' /\ oms'.seen = oms.seen /\ checks' \in [Intents -> 0 .. 2]
  <2>1. CASE ResolveUnknown(c)
    <3>1. bro.orders[c].status \in Status
      BY SimStatuses, GoodRow DEF BroInv, SimOrderType, Status
    <3>2. \A f \in bro.fills : FillId(f) \in oms.seen
      BY DEF FillsKnown
    <3>3. checks' \in [Intents -> 0 .. 2]
      BY <2>1 DEF ResolveUnknown, CtlInv
    <3> QED
      BY <2>1, <3>1, <3>2, <3>3, ResolveBoth DEF ResolveUnknown, OmsInv, RestoreIsFaithful
  <2>2. ASSUME NEW timedOut \in BOOLEAN, ResolveAbsent(c, timedOut)
        PROVE  OmsInv' /\ oms'.seen = oms.seen /\ checks' \in [Intents -> 0 .. 2]
    <3> DEFINE n == AtMost(checks[c] + 1, 2)
    <3>1. n \in 0 .. 2
      BY DEF AtMost, CtlInv
    <3>2. checks' \in [Intents -> 0 .. 2]
      BY <2>2, <3>1 DEF ResolveAbsent, CtlInv
    <3>3. CASE oms' = oms /\ image' = image
      BY <3>2, <3>3 DEF OmsInv, RestoreIsFaithful
    <3>4. CASE oms' = SetStatus(oms, c, "REJECTED") /\ image' = StoreStatus(image, c, "REJECTED")
      <4>1. "REJECTED" \in Status
        BY DEF Status, Terminal
      <4> QED
        BY <3>2, <3>4, <4>1, SetStatusBoth DEF OmsInv, RestoreIsFaithful
    <3> QED
      BY <2>2, <3>3, <3>4 DEF ResolveAbsent
  <2> QED
    BY <2>1, <2>2
<1>2. UNCHANGED <<broVars, pc, cur, todo, liquidity, envVars>> /\ pc = "idle"
  BY DEF ResolveUnknown, ResolveAbsent
<1>3. BroInv' /\ FillsKnown'
  BY <1>1, <1>2, BrokerStays
<1>4. ExecLive'
  BY <1>2 DEF ExecLive
<1>5. CtlInv'
  BY <1>1, <1>2 DEF CtlInv, broVars, envVars
<1> QED
  BY <1>1, <1>3, <1>4, <1>5

(* Every fill is known already: reconciling adopts nothing.                *)
LEMMA ReconcileInv ==
    ASSUME BookInv, Reconcile \/ Restart
    PROVE  BookInv'
<1> USE DEF BookInv
<1>1. \A f \in bro.fills : FillId(f) \in oms.seen
  BY DEF FillsKnown
<1>2. AdoptFills(oms, bro.fills) = oms /\ StoreAdopted(image, oms, bro.fills) = image
  BY <1>1, NothingToAdopt
<1>3. oms' = oms /\ image' = image /\ checks' = checks
  BY <1>2 DEF Reconcile, Restart, Reconciled
<1>4. OmsInv'
  BY <1>3 DEF OmsInv, RestoreIsFaithful
<1>5. UNCHANGED <<broVars, cur, todo, liquidity, today, stops, torn>> /\ pc' = "idle"
  BY DEF Reconcile, Restart
<1>6. BroInv' /\ FillsKnown'
  BY <1>3, <1>5, BrokerStays
<1>7. ExecLive'
  BY <1>5 DEF ExecLive
<1>8. drift' \in BOOLEAN
  BY DEF Reconcile, Restart, Reconciled, InSync
<1>9. CtlInv'
  BY <1>3, <1>5, <1>8 DEF CtlInv, PCs, broVars
<1> QED
  BY <1>4, <1>6, <1>7, <1>9

(* Between handlers or in the middle of one: memory becomes what is stored.*)
LEMMA DiesInv ==
    ASSUME BookInv, Stop \/ Crash
    PROVE  BookInv'
<1> USE DEF BookInv
<1>0. Dies
  BY DEF Stop, Crash
<1> USE DEF Dies
<1>1. OmsInv' /\ oms'.seen = oms.seen
  <2>1. oms' = image /\ image' = image /\ image \in OmsType
    BY <1>0 DEF OmsInv
  <2>2. Agree(image, image) /\ WellFilled(image.orders) /\ image.seen = oms.seen
    BY DEF OmsInv, RestoreIsFaithful, Agree, WellFilled
  <2> QED
    BY <2>1, <2>2 DEF OmsInv, RestoreIsFaithful
<1>2. BroInv'
  BY <1>0 DEF BroInv, Clean, SameRow
<1>3. FillsKnown'
  BY <1>0, <1>1 DEF FillsKnown
<1>4. ExecLive'
  BY <1>0 DEF ExecLive
<1>5. stops' \in 0 .. MaxStops /\ liquidity' \in 0 .. MaxLiquidity
  BY <1>0, TradingBookAssumption DEF CtlInv
<1>6. checks' \in [Intents -> 0 .. 2] /\ today' \in 1 .. MaxDay
  BY <1>0 DEF CtlInv
<1>7. changed' \in BOOLEAN /\ drift' \in BOOLEAN /\ torn' \in BOOLEAN
  BY <1>0
<1>8. /\ pc' \in PCs /\ dirty' \subseteq Intents /\ cur' \subseteq Intents
      /\ todo' \subseteq Intents
  BY <1>0 DEF PCs
<1>9. CtlInv'
  BY <1>5, <1>6, <1>7, <1>8, Zenon DEF CtlInv
<1> QED
  BY <1>1, <1>2, <1>3, <1>4, <1>9

LEMMA StutterInv ==
    ASSUME BookInv, UNCHANGED vars
    PROVE  BookInv'
BY DEF BookInv, OmsInv, RestoreIsFaithful, BroInv, FillsKnown, ExecLive, CtlInv, vars

(* BookInv is inductive.                                                   *)
LEMMA NextInv == BookInv /\ [Next]_vars => BookInv'
<1> SUFFICES ASSUME BookInv, [Next]_vars PROVE BookInv'
  OBVIOUS
<1>1. CASE Continue
  <2>1. CASE QuoteEnds
    BY <2>1, ControlInv
  <2>2. CASE Save
    BY <2>2, SaveInv
  <2>3. ASSUME NEW c \in Intents,
               \/ PlaceRejected(c) \/ PlaceUnknown(c) \/ PlaceAccepted(c)
               \/ PlaceAcked(c) \/ PlaceAckFailed(c)
               \/ QuoteExpires(c) \/ QuotePasses(c) \/ QuoteTriggers(c) \/ QuoteDry(c)
               \/ QuoteFills(c) \/ QuoteUnfunded(c) \/ QuoteCap(c)
               \/ ExpireOrder(c)
        PROVE  BookInv'
    BY <2>3, PlaceRefusedInv, PlaceAcceptedInv, PlaceAckInv, EndsInv, ControlInv,
       QuoteTriggersInv, QuoteDryInv, QuoteFillsInv, QuoteCapInv
  <2> QED
    BY <1>1, <2>1, <2>2, <2>3 DEF Continue
<1>2. ASSUME NEW c \in Intents,
             \/ \E qty \in 1 .. MaxQty : Submit(c, qty)
             \/ Cancel(c) \/ ResolveUnknown(c)
             \/ \E timedOut \in BOOLEAN : ResolveAbsent(c, timedOut)
      PROVE  BookInv'
  BY <1>2, SubmitInv, EndsInv, ResolveInv
<1>3. CASE (\E shares \in 0 .. MaxLiquidity : Quote(shares)) \/ ExpireSession \/ NextDay
  BY <1>3, ControlInv
<1>4. CASE Reconcile \/ Restart
  BY <1>4, ReconcileInv
<1>5. CASE Stop \/ Crash
  BY <1>5, DiesInv
<1>6. CASE UNCHANGED vars
  BY <1>6, StutterInv
<1> QED
  BY <1>1, <1>2, <1>3, <1>4, <1>5, <1>6 DEF Next

LEMMA BookInvHolds == Spec => []BookInv
BY InitInv, NextInv, PTL DEF Spec

(* The state of the book is well-typed in every run, crashes included: no  *)
(* order is filled beyond what the types allow, and every handler leaves   *)
(* the control state in one of its positions (TradingBook.TypeOK).         *)
THEOREM TypeCorrect == Spec => []TypeOK
BY BookInvHolds, BookInvImplies, PTL

(* Whatever the process was doing when it died, restore() rebuilds the OMS *)
(* that was in memory: every handler records an event for each change it   *)
(* makes, and restore() reads each event as the handler meant it.          *)
THEOREM RestartLosesNothing == Spec => []RestoreIsFaithful
BY BookInvHolds, BookInvImplies, PTL

(* The simulated broker never owes more shares than it holds, in memory or *)
(* in its stored rows, even when a crash cuts a handler short of _save.    *)
THEOREM NeverShort == Spec => []BrokerNeverShort
BY BookInvHolds, BookInvImplies, PTL

-----------------------------------------------------------------------------
(* The whole book: the inductive invariant, on top of BookInv.             *)

(* One order at the OMS (m) and at the broker (t).  Only the order being   *)
(* placed is SUBMITTED, and the OMS is behind the broker only on it.       *)
Pair(c) ==
    LET m == oms.orders[c]
        t == bro.orders[c]
        placing == pc = "placing" /\ cur = {c}
        acking == pc = "acking" /\ cur = {c}
    IN  /\ m.status = "SUBMITTED" <=> placing \/ acking
        /\ t.status = "NONE" => /\ t.fillCount = 0 /\ m.filled = 0
                                /\ m.status \in {"NONE", "SUBMITTED", "REJECTED", "UNKNOWN"}
        /\ t.status # "NONE" => /\ m.quantity = t.quantity /\ m.filled = t.filled
                                /\ m.status \in {t.status, "UNKNOWN", "SUBMITTED"}
        /\ placing => t.status = "NONE"
        /\ acking => t.status \in {"OPEN", "TRIGGER_PENDING"}

Pairs == \A c \in Intents : Pair(c)

(* The fills that the OMS has booked are fills the broker has made.        *)
SeenMade == \A c \in Intents, n \in Nat : <<c, n>> \in oms.seen => n <= bro.orders[c].fillCount

SamePosition == oms.position = bro.position

(* What is stored of an order as far as the OMS can see it.                *)
Stored(c) ==
    /\ SameRow(disk.orders[c], bro.orders[c])
    /\ disk.orders[c].fillCount = bro.orders[c].fillCount

(* Between handlers, and up to the first change within one, the rows are   *)
(* those of the broker in memory.                                          *)
DiskFollows ==
    /\ \A c \in Intents \ dirty : Stored(c)
    /\ ~changed => disk.position = bro.position /\ \A c \in Intents : Stored(c)
    /\ pc \in {"idle", "placing", "acking", "down"} => ~changed

(* The orders still to visit are live.                                     *)
Visiting ==
    /\ pc \in {"pick", "exec", "cap", "expire"} =>
          \A c \in todo \ cur : bro.orders[c].status \in Live
    /\ pc \notin {"placing", "acking", "exec", "cap"} => cur = {}

(* ExitsNeverFlip, as one number against another.                          *)
ExitsFit == Outstanding(oms.orders, Working(oms.orders, Sells)) <= oms.position

LinkInv == Pairs /\ SeenMade /\ SamePosition /\ DiskFollows /\ Visiting /\ ExitsFit

WholeInv == ~torn => LinkInv

-----------------------------------------------------------------------------
(* What the operators do to the row of one order.                          *)

(* resolve_unknown when every fill is known already.                       *)
LEMMA ResolveRow ==
    ASSUME NEW o \in OmsType, NEW c \in Intents, NEW s \in Status, o.orders[c].status = "UNKNOWN",
           NEW fills, \A f \in fills : FillId(f) \in o.seen
    PROVE  /\ OnlyRow(o, ResolveFound(o, c, s, fills), c)
           /\ ResolveFound(o, c, s, fills).orders[c].status
                = IF s \notin DrivenByFills /\ Advances("UNKNOWN", s) THEN s ELSE "UNKNOWN"
           /\ ResolveFound(o, c, s, fills).orders[c].quantity = o.orders[c].quantity
           /\ ResolveFound(o, c, s, fills).orders[c].filled = o.orders[c].filled
           /\ ResolveFound(o, c, s, fills).position = o.position
           /\ ResolveFound(o, c, s, fills).seen = o.seen
<1> DEFINE r == [o.orders[c] EXCEPT !.atBroker = TRUE]
           found == [o EXCEPT !.orders[c] = r]
<1>1. /\ r \in OrderType /\ r.status = "UNKNOWN"
      /\ r.quantity = o.orders[c].quantity /\ r.filled = o.orders[c].filled
  BY DEF OmsType, OrderType
<1>2. found = [o EXCEPT !.orders[c].atBroker = TRUE]
  BY DEF OmsType
<1>2a. found = [o EXCEPT !.orders[c] = r]
  OBVIOUS
<1> HIDE DEF r, found
<1>3. /\ OnlyRow(o, found, c) /\ found.orders[c] = r
      /\ found.position = o.position /\ found.seen = o.seen /\ found \in OmsType
  BY <1>1, <1>2a DEF OmsType, OnlyRow
<1>4. AdoptFills(found, fills) = found
  BY <1>3, NothingToAdopt
<1>5. r.status \notin Terminal
  BY <1>1 DEF Terminal
<1>6. ResolveFound(o, c, s, fills)
        = IF s \in DrivenByFills THEN found ELSE [found EXCEPT !.orders[c] = Advance(r, s)]
  BY <1>2, <1>3, <1>4, <1>5 DEF ResolveFound
<1>7. /\ Advance(r, s) \in OrderType /\ Advance(r, s).filled = r.filled
      /\ Advance(r, s).quantity = r.quantity
      /\ Advance(r, s).status = IF Advances(r.status, s) THEN s ELSE r.status
  BY <1>1, AdvanceType
<1>8. CASE s \in DrivenByFills
  BY <1>1, <1>3, <1>6, <1>8
<1>9. CASE s \notin DrivenByFills
  <2>1. ResolveFound(o, c, s, fills) = [found EXCEPT !.orders[c] = Advance(r, s)]
    BY <1>6, <1>9
  <2>2. /\ OnlyRow(found, ResolveFound(o, c, s, fills), c)
        /\ ResolveFound(o, c, s, fills).orders[c] = Advance(r, s)
        /\ ResolveFound(o, c, s, fills).position = found.position
        /\ ResolveFound(o, c, s, fills).seen = found.seen
    <3> DEFINE a == Advance(r, s)
               res == ResolveFound(o, c, s, fills)
    <3>1. a \in OrderType /\ res = [found EXCEPT !.orders[c] = a]
      BY <1>7, <2>1
    <3> HIDE DEF a, res
    <3>2. /\ OnlyRow(found, res, c) /\ res.orders[c] = a
          /\ res.position = found.position /\ res.seen = found.seen
      BY <1>3, <3>1 DEF OmsType, OnlyRow
    <3> QED
      BY <3>2 DEF a, res
  <2> QED
    BY <1>1, <1>3, <1>7, <1>9, <2>2 DEF OnlyRow
<1> QED
  BY <1>8, <1>9

LEMMA FinishRow ==
    ASSUME NEW b \in BrokerType, NEW c \in Intents, NEW s
    PROVE  /\ OnlyRow(b, Finish(b, c, s), c)
           /\ Finish(b, c, s).orders[c].status = s
           /\ Finish(b, c, s).orders[c].quantity = b.orders[c].quantity
           /\ Finish(b, c, s).orders[c].filled = b.orders[c].filled
           /\ Finish(b, c, s).orders[c].fillCount = b.orders[c].fillCount
           /\ Finish(b, c, s).position = b.position
BY DEF BrokerType, SimOrderType, OnlyRow, Finish

LEMMA CountRow ==
    ASSUME NEW b \in BrokerType, NEW c \in Intents
    PROVE  /\ OnlyRow(b, CountQuote(b, c), c)
           /\ CountQuote(b, c).orders[c].status = b.orders[c].status
           /\ CountQuote(b, c).orders[c].quantity = b.orders[c].quantity
           /\ CountQuote(b, c).orders[c].filled = b.orders[c].filled
           /\ CountQuote(b, c).orders[c].fillCount = b.orders[c].fillCount
           /\ CountQuote(b, c).position = b.position
BY DEF BrokerType, SimOrderType, OnlyRow, CountQuote

LEMMA PlacedRow ==
    ASSUME NEW b \in BrokerType, NEW c \in Intents, NEW qty, NEW day
    PROVE  /\ OnlyRow(b, Placed(b, c, qty, day), c)
           /\ Placed(b, c, qty, day).orders[c].status \in {"OPEN", "TRIGGER_PENDING"}
           /\ Placed(b, c, qty, day).orders[c].quantity = qty
           /\ Placed(b, c, qty, day).orders[c].filled = 0
           /\ Placed(b, c, qty, day).orders[c].fillCount = 0
           /\ Placed(b, c, qty, day).position = b.position
BY DEF BrokerType, OnlyRow, Placed

LEMMA ExecutedRow ==
    ASSUME NEW b \in BrokerType, NEW c \in Intents, NEW qty \in Nat
    PROVE  /\ OnlyRow(b, Executed(b, c, qty), c)
           /\ Executed(b, c, qty).orders[c].quantity = b.orders[c].quantity
           /\ Executed(b, c, qty).orders[c].filled = b.orders[c].filled + qty
           /\ Executed(b, c, qty).orders[c].fillCount = b.orders[c].fillCount + 1
           /\ Executed(b, c, qty).orders[c].status
                = IF b.orders[c].filled + qty = b.orders[c].quantity THEN "FILLED"
                  ELSE "PARTIALLY_FILLED"
           /\ Executed(b, c, qty).position
                = b.position + (IF c \in Buys THEN qty ELSE -qty)
BY DEF BrokerType, SimOrderType, OnlyRow, Executed

LEMMA SavedRow ==
    ASSUME NEW d \in BrokerType, NEW b \in BrokerType, NEW D
    PROVE  /\ \A c \in Intents : Saved(d, b, D).orders[c]
                                   = IF c \in D THEN b.orders[c] ELSE d.orders[c]
           /\ Saved(d, b, D).position = b.position
BY DEF BrokerType, Saved

-----------------------------------------------------------------------------
(* The working reduce orders.                                              *)

(* What one order of the OMS may still take off the position.              *)
Takes(r, c) ==
    IF c \in Sells /\ r.status \notin Terminal \cup {"NONE"} THEN Remaining(r) ELSE 0

(* Two OMS states that differ in one order: the sum of what is working     *)
(* differs by what that order takes.                                       *)
LEMMA WorkingStep ==
    ASSUME NEW a \in OmsType, NEW b \in OmsType, WellFilled(a.orders), WellFilled(b.orders),
           NEW c \in Intents,
           \A d \in Intents : d # c => /\ b.orders[d].status = a.orders[d].status
                                       /\ b.orders[d].quantity = a.orders[d].quantity
                                       /\ b.orders[d].filled = a.orders[d].filled
    PROVE  /\ Outstanding(a.orders, Working(a.orders, Sells)) \in Nat
           /\ Takes(a.orders[c], c) \in Nat /\ Takes(b.orders[c], c) \in Nat
           /\ Outstanding(b.orders, Working(b.orders, Sells))
                = Outstanding(a.orders, Working(a.orders, Sells))
                    - Takes(a.orders[c], c) + Takes(b.orders[c], c)
<1> DEFINE x == a.orders
           y == b.orders
<1>0. /\ x \in [Intents -> OrderType] /\ y \in [Intents -> OrderType]
      /\ WellFilled(x) /\ WellFilled(y) /\ Sells \subseteq Intents
      /\ \A d \in Intents : d # c => /\ y[d].status = x[d].status
                                     /\ y[d].quantity = x[d].quantity
                                     /\ y[d].filled = x[d].filled
  BY DEF OmsType, Sells
<1> HIDE DEF x, y
<1> DEFINE f == [d \in Intents |-> IF d \in Working(x, Sells) THEN Remaining(x[d]) ELSE 0]
           g == [d \in Intents |-> IF d \in Working(y, Sells) THEN Remaining(y[d]) ELSE 0]
<1>1. \A d \in Intents : f[d] = Takes(x[d], d) /\ g[d] = Takes(y[d], d)
  BY <1>0 DEF Takes, Working
<1>2. \A d \in Intents : Takes(x[d], d) \in 0 .. MaxQty /\ Takes(y[d], d) \in 0 .. MaxQty
  BY <1>0, MaxQtyAssumption DEF Takes, Remaining, OrderType, WellFilled
<1>3. f \in Counts /\ g \in Counts
  BY <1>1, <1>2 DEF Counts
<1>4. \A d \in Intents : d # c => f[d] = g[d]
  BY <1>0, <1>1 DEF Takes, Remaining
<1>5. /\ Shares(f) = Outstanding(x, Working(x, Sells))
      /\ Shares(g) = Outstanding(y, Working(y, Sells))
  BY DEF Outstanding
<1>6. /\ f[c] = Takes(x[c], c) /\ g[c] = Takes(y[c], c)
      /\ f[c] \in 0 .. MaxQty /\ g[c] \in 0 .. MaxQty
  BY <1>1, <1>2
<1> HIDE DEF f, g
<1>7. g = [f EXCEPT ![c] = g[c]]
  BY <1>3, <1>4 DEF Counts
<1>8. Shares(f) \in Nat /\ Shares([f EXCEPT ![c] = g[c]]) = Shares(f) - f[c] + g[c]
  BY <1>3, <1>6, SharesUpdate
<1>9. f[c] \in Nat /\ g[c] \in Nat
  BY <1>6, MaxQtyAssumption
<1>10. Shares(g) = Shares(f) - f[c] + g[c]
  BY <1>7, <1>8
<1> QED
  BY <1>5, <1>6, <1>8, <1>9, <1>10 DEF x, y

(* One order changes: the exits still fit if it takes no more than the     *)
(* position gained.                                                        *)
LEMMA ExitsStep ==
    ASSUME OmsInv, OmsInv', ExitsFit, NEW c \in Intents,
           \A d \in Intents : d # c => /\ oms'.orders[d].status = oms.orders[d].status
                                       /\ oms'.orders[d].quantity = oms.orders[d].quantity
                                       /\ oms'.orders[d].filled = oms.orders[d].filled,
           Takes(oms'.orders[c], c) - Takes(oms.orders[c], c) <= oms'.position - oms.position
    PROVE  ExitsFit'
<1>1. /\ oms \in OmsType /\ oms' \in OmsType /\ WellFilled(oms.orders) /\ WellFilled(oms'.orders)
      /\ oms.position \in Int /\ oms'.position \in Int
  BY DEF OmsInv, OmsType
<1> DEFINE a == Outstanding(oms.orders, Working(oms.orders, Sells))
           b == Outstanding(oms'.orders, Working(oms'.orders, Sells))
<1>2. /\ a \in Nat /\ Takes(oms.orders[c], c) \in Nat /\ Takes(oms'.orders[c], c) \in Nat
      /\ b = a - Takes(oms.orders[c], c) + Takes(oms'.orders[c], c)
  BY <1>1, WorkingStep
<1>3. a <= oms.position
  BY DEF ExitsFit
<1> HIDE DEF a, b
<1>4. b <= oms'.position
  BY <1>1, <1>2, <1>3
<1> QED
  BY <1>4 DEF ExitsFit, b

-----------------------------------------------------------------------------
(* What the steps have in common.                                          *)

(* The step of ForwardOnly for one order.                                  *)
Forward(c) ==
    LET old == oms.orders[c].status
        new == oms'.orders[c].status
    IN  \/ new = old
        \/ old = "NONE" /\ new = "SUBMITTED"
        \/ new \in NextStatus[old]

AllForward == \A c \in Intents : Forward(c)

(* The moves of the state machine that the proofs need.                    *)
LEMMA Table ==
    /\ NextStatus["SUBMITTED"] = {"PARTIALLY_FILLED", "FILLED", "CANCELLED", "EXPIRED", "OPEN",
                                  "TRIGGER_PENDING", "REJECTED", "UNKNOWN"}
    /\ NextStatus["UNKNOWN"] = {"PARTIALLY_FILLED", "FILLED", "CANCELLED", "EXPIRED", "OPEN",
                                "TRIGGER_PENDING", "REJECTED"}
    /\ NextStatus["TRIGGER_PENDING"] = {"PARTIALLY_FILLED", "FILLED", "CANCELLED", "EXPIRED", "OPEN"}
    /\ NextStatus["OPEN"] = {"PARTIALLY_FILLED", "FILLED", "CANCELLED", "EXPIRED"}
    /\ NextStatus["PARTIALLY_FILLED"] = {"PARTIALLY_FILLED", "FILLED", "CANCELLED", "EXPIRED"}
BY DEF NextStatus, Status, Live, Terminal

LEMMA Types ==
    ASSUME BookInv
    PROVE  /\ oms \in OmsType /\ bro \in BrokerType /\ disk \in BrokerType
           /\ WellFilled(oms.orders) /\ WellFilled(bro.orders)
           /\ oms.position \in Int /\ bro.position \in Int
           /\ \A c \in Intents : /\ oms.orders[c] \in OrderType
                                 /\ bro.orders[c] \in SimOrderType
                                 /\ bro.orders[c].status \in Status
                                 /\ bro.orders[c].fillCount \in Nat
BY SimStatuses DEF BookInv, OmsInv, BroInv, GoodBroker, OmsType, BrokerType, SimOrderType, Status

(* Only order c and the handler's place change.                            *)
LEMMA PairsStep ==
    ASSUME Pairs, NEW c \in Intents, cur \subseteq {c}, cur' \subseteq {c},
           OnlyRow(oms, oms', c), OnlyRow(bro, bro', c), Pair(c)'
    PROVE  Pairs'
<1> SUFFICES ASSUME NEW d \in Intents, d # c PROVE Pair(d)'
  BY DEF Pairs
<1>1. cur # {d} /\ cur' # {d}
  OBVIOUS
<1>2. oms'.orders[d] = oms.orders[d] /\ bro'.orders[d] = bro.orders[d]
  BY DEF OnlyRow
<1>3. Pair(d)
  BY DEF Pairs
<1> QED
  BY <1>1, <1>2, <1>3 DEF Pair

(* Statuses of the other orders stay.                                      *)
LEMMA ForwardStep ==
    ASSUME NEW c \in Intents, OnlyRow(oms, oms', c), Forward(c)
    PROVE  AllForward
BY DEF AllForward, Forward, OnlyRow

(* No fill is booked and the counts of fills stay.                         *)
LEMMA SeenStep ==
    ASSUME SeenMade, oms'.seen = oms.seen,
           \A c \in Intents : bro'.orders[c].fillCount = bro.orders[c].fillCount
    PROVE  SeenMade'
BY DEF SeenMade

(* The broker's order c has changed in memory.                             *)
LEMMA DiskStep ==
    ASSUME DiskFollows, NEW c \in Intents, OnlyRow(bro, bro', c), disk' = disk,
           dirty' = dirty \cup {c}, changed' = TRUE, pc' \notin {"idle", "placing", "acking", "down"}
    PROVE  DiskFollows'
BY DEF DiskFollows, Stored, OnlyRow

(* The OMS's order c changes with nothing at the broker but, perhaps, the  *)
(* dirt of its row: its quantities stay.                                   *)
LEMMA OmsOnlyStep ==
    ASSUME BookInv, BookInv', LinkInv, NEW c \in Intents, OnlyRow(oms, oms', c),
           oms'.position = oms.position, oms'.seen = oms.seen,
           bro' = bro, disk' = disk, changed' = changed, dirty \subseteq dirty',
           cur \subseteq {c}, cur' \subseteq {c}, pc' \in {"idle", "placing"},
           pc \in {"idle", "placing", "acking"},
           Takes(oms'.orders[c], c) - Takes(oms.orders[c], c) <= 0,
           Pair(c)', Forward(c)
    PROVE  Pairs' /\ SeenMade' /\ SamePosition' /\ DiskFollows' /\ ExitsFit' /\ AllForward
<1>1. Pairs'
  BY PairsStep DEF LinkInv, OnlyRow
<1>2. SeenMade'
  BY DEF LinkInv, SeenMade
<1>3. SamePosition'
  BY DEF LinkInv, SamePosition
<1>4. DiskFollows'
  BY DEF LinkInv, DiskFollows, Stored
<1>5. ExitsFit'
  <2>1. oms.position \in Int
    BY Types
  <2>2. Takes(oms'.orders[c], c) - Takes(oms.orders[c], c) <= oms'.position - oms.position
    BY <2>1
  <2> QED
    BY <2>2, ExitsStep DEF LinkInv, BookInv, OnlyRow
<1> QED
  BY <1>1, <1>2, <1>3, <1>4, <1>5, ForwardStep

(* A working order that stops working, or keeps what it has, takes no more.*)
LEMMA TakesNoMore ==
    ASSUME NEW r \in OrderType, NEW q \in OrderType, r.filled <= r.quantity,
           q.quantity = r.quantity, q.filled = r.filled,
           q.status \in Terminal \cup {"NONE"} \/ r.status \notin Terminal \cup {"NONE"}, NEW c
    PROVE  Takes(q, c) - Takes(r, c) <= 0
<1>1. Remaining(r) \in Nat /\ Remaining(q) = Remaining(r)
  BY MaxQtyAssumption DEF Remaining, OrderType
<1> QED
  BY <1>1 DEF Takes

-----------------------------------------------------------------------------
(* The actions.                                                            *)

LEMMA SubmitLink ==
    ASSUME BookInv, BookInv', LinkInv, NEW c \in Intents, NEW qty \in 1 .. MaxQty, Submit(c, qty)
    PROVE  LinkInv' /\ AllForward
<1>1. /\ pc = "idle" /\ cur = {} /\ cur' = {c} /\ pc' = "placing"
      /\ oms' = Register(oms, c, qty) /\ oms.orders[c].status = "NONE"
      /\ c \in Buys \/ qty <= Reducible(oms)
      /\ UNCHANGED <<bro, disk, dirty, changed, todo>>
  BY DEF Submit, LinkInv, Visiting, broVars
<1>2. /\ OnlyRow(oms, oms', c) /\ oms'.position = oms.position /\ oms'.seen = oms.seen
      /\ oms'.orders[c].status = "SUBMITTED" /\ oms'.orders[c].quantity = qty
      /\ oms'.orders[c].filled = 0
  BY <1>1, RegisterRow, Types
<1>3. Pair(c)'
  <2>1. bro.orders[c].status = "NONE" /\ bro.orders[c].fillCount = 0
    BY <1>1 DEF LinkInv, Pairs, Pair
  <2> QED
    BY <1>1, <1>2, <2>1 DEF Pair
<1>4. Pairs'
  BY <1>1, <1>2, <1>3, PairsStep DEF LinkInv, OnlyRow
<1>5. SeenMade' /\ SamePosition' /\ DiskFollows' /\ Visiting'
  BY <1>1, <1>2 DEF LinkInv, SeenMade, SamePosition, DiskFollows, Stored, Visiting
<1>6. ExitsFit'
  <2> DEFINE a == Outstanding(oms.orders, Working(oms.orders, Sells))
             b == Outstanding(oms'.orders, Working(oms'.orders, Sells))
  <2>1. /\ oms \in OmsType /\ oms' \in OmsType /\ oms.position \in Int
        /\ WellFilled(oms.orders) /\ WellFilled(oms'.orders)
    BY Types DEF BookInv, OmsInv
  <2>2. a \in Nat /\ b = a - Takes(oms.orders[c], c) + Takes(oms'.orders[c], c)
    BY <1>2, <2>1, WorkingStep DEF OnlyRow
  <2>3. Takes(oms.orders[c], c) = 0
    BY <1>1 DEF Takes
  <2>4. a <= oms.position
    BY DEF LinkInv, ExitsFit
  <2>5. Takes(oms'.orders[c], c) <= oms.position - a /\ Takes(oms'.orders[c], c) \in Int
    <3>1. CASE c \in Buys
      BY <3>1, <2>1, <2>2, <2>4 DEF Takes, Sells
    <3>2. CASE c \notin Buys
      <4>1. Takes(oms'.orders[c], c) = qty
        BY <1>2, <3>2 DEF Takes, Sells, Terminal, Remaining
      <4>2. qty <= Reducible(oms) /\ qty \in Nat /\ qty >= 1
        BY <1>1, <3>2
      <4> QED
        BY <4>1, <4>2, <2>1, <2>2 DEF Reducible
    <3> QED
      BY <3>1, <3>2
  <2> HIDE DEF a, b
  <2>6. b <= oms.position
    BY <2>1, <2>2, <2>3, <2>5
  <2> QED
    BY <1>2, <2>6 DEF ExitsFit, b
<1>7. AllForward
  BY <1>1, <1>2, ForwardStep DEF Forward
<1> QED
  BY <1>4, <1>5, <1>6, <1>7 DEF LinkInv

LEMMA PlaceRefusedLink ==
    ASSUME BookInv, BookInv', LinkInv, NEW c \in Intents, PlaceRejected(c) \/ PlaceUnknown(c)
    PROVE  LinkInv' /\ AllForward
<1>1. /\ pc = "placing" /\ cur = {c} /\ pc' = "idle" /\ cur' = {}
      /\ UNCHANGED <<bro, disk, dirty, changed, todo>>
      /\ \E s \in {"REJECTED", "UNKNOWN"} : oms' = SetStatus(oms, c, s)
  BY DEF PlaceRejected, PlaceUnknown, HandlerEnds, broVars
<1>2. PICK s \in {"REJECTED", "UNKNOWN"} : oms' = SetStatus(oms, c, s)
  BY <1>1
<1>3. s \in Status
  BY DEF Status, Terminal
<1>4. /\ OnlyRow(oms, oms', c) /\ oms'.position = oms.position /\ oms'.seen = oms.seen
      /\ oms'.orders[c].status = s /\ oms'.orders[c].quantity = oms.orders[c].quantity
      /\ oms'.orders[c].filled = oms.orders[c].filled
  BY <1>2, <1>3, SetStatusRow, Types
<1>5. /\ oms.orders[c].status = "SUBMITTED" /\ bro.orders[c].status = "NONE"
      /\ oms.orders[c].filled = 0 /\ bro.orders[c].fillCount = 0
  BY <1>1 DEF LinkInv, Pairs, Pair
<1>6. Pair(c)'
  BY <1>1, <1>4, <1>5 DEF Pair
<1>7. Forward(c)
  BY <1>4, <1>5, Table DEF Forward
<1>8. Takes(oms'.orders[c], c) - Takes(oms.orders[c], c) <= 0
  <2>1. oms.orders[c] \in OrderType /\ oms'.orders[c] \in OrderType
        /\ oms.orders[c].filled <= oms.orders[c].quantity
    BY Types DEF BookInv, OmsInv, OmsType, WellFilled
  <2>2. oms.orders[c].status \notin Terminal \cup {"NONE"}
    BY <1>5 DEF Terminal
  <2> QED
    BY <1>4, <2>1, <2>2, TakesNoMore
<1>9. Visiting'
  BY <1>1 DEF Visiting
<1>10. Pairs' /\ SeenMade' /\ SamePosition' /\ DiskFollows' /\ ExitsFit' /\ AllForward
  BY <1>1, <1>4, <1>6, <1>7, <1>8, OmsOnlyStep
<1> QED
  BY <1>9, <1>10 DEF LinkInv

(* The broker has the order before the OMS hears of it.                    *)
LEMMA PlaceAcceptedLink ==
    ASSUME BookInv, BookInv', LinkInv, NEW c \in Intents, PlaceAccepted(c)
    PROVE  LinkInv' /\ AllForward
<1> DEFINE qty == oms.orders[c].quantity
<1>1. /\ pc = "placing" /\ cur = {c} /\ pc' = "acking" /\ cur' = {c} /\ oms' = oms
      /\ bro' = Placed(bro, c, qty, today) /\ disk' = Saved(disk, bro', dirty \cup {c})
      /\ dirty' = {} /\ changed' = FALSE /\ todo' = todo
  BY DEF PlaceAccepted, omsVars
<1>2. /\ OnlyRow(bro, bro', c) /\ bro'.position = bro.position
      /\ bro'.orders[c].status \in {"OPEN", "TRIGGER_PENDING"}
      /\ bro'.orders[c].quantity = qty /\ bro'.orders[c].filled = 0
      /\ bro'.orders[c].fillCount = 0
  BY <1>1, PlacedRow, Types
<1>3. /\ oms.orders[c].status = "SUBMITTED" /\ oms.orders[c].filled = 0
      /\ bro.orders[c].fillCount = 0
  BY <1>1 DEF LinkInv, Pairs, Pair
<1>4. Pair(c)'
  BY <1>1, <1>2, <1>3 DEF Pair
<1>5. Pairs'
  BY <1>1, <1>2, <1>4, PairsStep DEF LinkInv, OnlyRow
<1>6. SeenMade'
  BY <1>1, <1>2, <1>3, SeenStep DEF LinkInv, OnlyRow
<1>7. SamePosition' /\ ExitsFit' /\ Visiting'
  BY <1>1, <1>2 DEF LinkInv, SamePosition, ExitsFit, Visiting
<1>8. DiskFollows'
  <2>1. /\ \A d \in Intents : disk'.orders[d] = IF d \in dirty \cup {c} THEN bro'.orders[d]
                                               ELSE disk.orders[d]
        /\ disk'.position = bro'.position
    <3>1. bro' \in BrokerType /\ disk \in BrokerType
      BY Types DEF BookInv, BroInv, GoodBroker
    <3> QED
      BY <1>1, <3>1, SavedRow
  <2>2. \A d \in Intents : Stored(d)'
    BY <1>2, <2>1 DEF LinkInv, DiskFollows, Stored, SameRow, OnlyRow
  <2> QED
    BY <1>1, <2>1, <2>2 DEF DiskFollows
<1>9. AllForward
  BY <1>1 DEF AllForward, Forward
<1> QED
  BY <1>5, <1>6, <1>7, <1>8, <1>9 DEF LinkInv

LEMMA PlaceAckLink ==
    ASSUME BookInv, BookInv', LinkInv, NEW c \in Intents, PlaceAcked(c) \/ PlaceAckFailed(c)
    PROVE  LinkInv' /\ AllForward
<1> DEFINE s == bro.orders[c].status
<1>1. /\ pc = "acking" /\ cur = {c} /\ pc' = "idle" /\ cur' = {}
      /\ UNCHANGED <<bro, disk, changed, todo>> /\ dirty' = dirty \cup {c}
  BY DEF PlaceAcked, PlaceAckFailed, HandlerEnds
<1>2. /\ oms.orders[c].status = "SUBMITTED" /\ s \in {"OPEN", "TRIGGER_PENDING"}
      /\ oms.orders[c].quantity = bro.orders[c].quantity
      /\ oms.orders[c].filled = bro.orders[c].filled
  BY <1>1 DEF LinkInv, Pairs, Pair
<1>3. /\ OnlyRow(oms, oms', c) /\ oms'.position = oms.position /\ oms'.seen = oms.seen
      /\ oms'.orders[c].quantity = oms.orders[c].quantity
      /\ oms'.orders[c].filled = oms.orders[c].filled
      /\ oms'.orders[c].status \in {s, "UNKNOWN"}
  <2>1. CASE PlaceAcked(c)
    <3> DEFINE u == [order |-> c, status |-> s]
    <3>1. oms' = OnUpdate(oms, u)
      BY <2>1 DEF PlaceAcked, Notify
    <3>2. s \in Status /\ s \notin DrivenByFills
      BY <1>2, Types DEF DrivenByFills
    <3>3. Advances("SUBMITTED", s)
      BY <1>2, Table DEF Advances
    <3>4. u = [order |-> c, status |-> s]
      OBVIOUS
    <3> HIDE DEF u, s
    <3> QED
      BY <1>2, <3>1, <3>2, <3>3, <3>4, UpdateRow, Types
  <2>2. CASE PlaceAckFailed(c)
    <3>1. oms' = [oms EXCEPT !.orders[c] = [@ EXCEPT !.atBroker = TRUE, !.status = "UNKNOWN"]]
      BY <2>2 DEF PlaceAckFailed
    <3> QED
      BY <3>1, Types DEF OmsType, OrderType, OnlyRow
  <2> QED
    BY <2>1, <2>2
<1>4. Pair(c)'
  BY <1>1, <1>2, <1>3 DEF Pair
<1>5. Forward(c)
  BY <1>2, <1>3, Table DEF Forward
<1>6. Takes(oms'.orders[c], c) - Takes(oms.orders[c], c) <= 0
  <2>1. oms.orders[c] \in OrderType /\ oms'.orders[c] \in OrderType
        /\ oms.orders[c].filled <= oms.orders[c].quantity
    BY Types DEF BookInv, OmsInv, OmsType, WellFilled
  <2>2. oms.orders[c].status \notin Terminal \cup {"NONE"}
    BY <1>2 DEF Terminal
  <2> QED
    BY <1>3, <2>1, <2>2, TakesNoMore
<1>7. Visiting'
  BY <1>1 DEF Visiting
<1>8. Pairs' /\ SeenMade' /\ SamePosition' /\ DiskFollows' /\ ExitsFit' /\ AllForward
  BY <1>1, <1>3, <1>4, <1>5, <1>6, OmsOnlyStep
<1> QED
  BY <1>7, <1>8 DEF LinkInv

(* The broker ends a live order, or triggers a stop, and tells the OMS:    *)
(* whatever the OMS thought of the order, it takes the new status.         *)
LEMMA EndLink ==
    ASSUME BookInv, BookInv', LinkInv, NEW c \in Intents,
           NEW b, b = bro \/ b = CountQuote(bro, c),
           NEW s \in {"CANCELLED", "EXPIRED", "OPEN"}, End(b, c, s),
           bro.orders[c].status \in Live,
           s = "OPEN" => bro.orders[c].status = "TRIGGER_PENDING",
           pc \notin {"placing", "acking"}, pc' \notin {"idle", "placing", "acking", "down"},
           cur \subseteq {c}, cur' \subseteq {c}
    PROVE  /\ OnlyRow(bro, bro', c) /\ bro'.orders[c].status = s
           /\ Pairs' /\ SeenMade' /\ SamePosition' /\ DiskFollows' /\ ExitsFit' /\ AllForward
<1> DEFINE u == [order |-> c, status |-> s]
           m == oms.orders[c]
           t == bro.orders[c]
<1>1. /\ bro' = Finish(b, c, s) /\ oms' = OnUpdate(oms, u) /\ dirty' = dirty \cup {c}
      /\ changed' = TRUE /\ disk' = disk
  BY DEF End, Notify, Touch
<1>2. /\ b \in BrokerType /\ OnlyRow(bro, b, c) /\ b.position = bro.position
      /\ b.orders[c].quantity = t.quantity /\ b.orders[c].filled = t.filled
      /\ b.orders[c].fillCount = t.fillCount
  <2>1. CASE b = bro
    BY <2>1, Types DEF OnlyRow
  <2>2. CASE b = CountQuote(bro, c)
    <3>1. bro \in BrokerType /\ GoodBroker(bro)
      BY Types DEF BookInv, BroInv
    <3>2. b \in BrokerType
      BY <2>2, <3>1, CountQuoteStep DEF Keeps, GoodBroker
    <3> QED
      BY <2>2, <3>1, <3>2, CountRow
  <2> QED
    BY <2>1, <2>2
<1>3. /\ OnlyRow(bro, bro', c) /\ bro'.position = bro.position /\ bro'.orders[c].status = s
      /\ bro'.orders[c].quantity = t.quantity /\ bro'.orders[c].filled = t.filled
      /\ bro'.orders[c].fillCount = t.fillCount
  BY <1>1, <1>2, FinishRow DEF OnlyRow
<1>4. /\ m.status = t.status \/ m.status = "UNKNOWN"
      /\ m.quantity = t.quantity /\ m.filled = t.filled
  BY DEF LinkInv, Pairs, Pair, Live
<1>5. Advances(m.status, s)
  BY <1>4, Table DEF Advances, Live
<1>6. s \in Status /\ s \notin DrivenByFills /\ m.status # "NONE"
  BY <1>4 DEF Status, Live, Terminal, DrivenByFills
<1>7. u = [order |-> c, status |-> s]
  OBVIOUS
<1> HIDE DEF u
<1>8. /\ OnlyRow(oms, oms', c) /\ oms'.position = oms.position /\ oms'.seen = oms.seen
      /\ oms'.orders[c].status = s /\ oms'.orders[c].quantity = m.quantity
      /\ oms'.orders[c].filled = m.filled
  BY <1>1, <1>5, <1>6, <1>7, UpdateRow, Types
<1>9. Pair(c)'
  BY <1>3, <1>4, <1>8 DEF Pair
<1>10. Pairs'
  BY <1>3, <1>8, <1>9, PairsStep DEF LinkInv
<1>11. SeenMade'
  BY <1>3, <1>8, SeenStep DEF LinkInv, OnlyRow
<1>12. SamePosition'
  BY <1>3, <1>8 DEF LinkInv, SamePosition
<1>13. DiskFollows'
  BY <1>1, <1>3, DiskStep DEF LinkInv
<1>14. ExitsFit'
  <2>1. m \in OrderType /\ oms'.orders[c] \in OrderType /\ m.filled <= m.quantity
    BY Types DEF BookInv, OmsInv, OmsType, WellFilled
  <2>2. m.status \notin Terminal \cup {"NONE"}
    BY <1>4 DEF Terminal, Live
  <2>3. Takes(oms'.orders[c], c) - Takes(m, c) <= 0
    BY <1>8, <2>1, <2>2, TakesNoMore
  <2>4. Takes(oms'.orders[c], c) - Takes(m, c) <= oms'.position - oms.position
    BY <1>8, <2>3, Types
  <2> QED
    BY <1>8, <2>4, ExitsStep DEF LinkInv, BookInv, OnlyRow
<1>15. AllForward
  BY <1>5, <1>8, ForwardStep DEF Forward, Advances
<1> QED
  BY <1>3, <1>10, <1>11, <1>12, <1>13, <1>14, <1>15

(* The handlers that end an order, and the one that triggers a stop.       *)
LEMMA EndsLink ==
    ASSUME BookInv, BookInv', LinkInv, NEW c \in Intents,
           \/ Cancel(c) \/ QuoteExpires(c) \/ ExpireOrder(c)
           \/ QuoteUnfunded(c) \/ QuoteTriggers(c)
    PROVE  LinkInv' /\ AllForward
<1> DEFINE Rest == /\ OnlyRow(bro, bro', c)
                   /\ Pairs' /\ SeenMade' /\ SamePosition' /\ DiskFollows' /\ ExitsFit' /\ AllForward
<1>1. CASE Cancel(c)
  <2>1. cur = {} /\ cur' = {} /\ pc = "idle" /\ pc' = "save"
    BY <1>1 DEF Cancel, LinkInv, Visiting
  <2>2. Rest
    BY <1>1, <2>1, EndLink DEF Cancel
  <2> QED
    BY <2>1, <2>2 DEF LinkInv, Visiting
<1>2. CASE QuoteExpires(c)
  <2>1. cur = {} /\ cur' = {} /\ pc = "pick" /\ pc' = "pick" /\ c \in todo /\ todo' = todo \ {c}
    BY <1>2 DEF QuoteExpires, Visits, IsFirst, LinkInv, Visiting
  <2>2. \A d \in todo : bro.orders[d].status \in Live
    BY <2>1 DEF LinkInv, Visiting
  <2>3. Rest
    BY <1>2, <2>1, <2>2, EndLink DEF QuoteExpires, Live
  <2>4. todo \subseteq Intents
    BY DEF BookInv, CtlInv
  <2> QED
    BY <2>1, <2>2, <2>3, <2>4 DEF LinkInv, Visiting, OnlyRow
<1>3. CASE ExpireOrder(c)
  <2>1. /\ cur = {} /\ cur' = {} /\ pc = "expire" /\ pc' \in {"save", "expire"}
        /\ c \in todo /\ todo' = todo \ {c}
    BY <1>3 DEF ExpireOrder, IsFirst, LinkInv, Visiting
  <2>2. \A d \in todo : bro.orders[d].status \in Live
    BY <2>1 DEF LinkInv, Visiting
  <2>3. Rest
    BY <1>3, <2>1, <2>2, EndLink DEF ExpireOrder, Live
  <2>4. todo \subseteq Intents
    BY DEF BookInv, CtlInv
  <2> QED
    BY <2>1, <2>2, <2>3, <2>4 DEF LinkInv, Visiting, OnlyRow
<1>4. CASE QuoteUnfunded(c)
  <2>1. /\ pc \in {"pick", "exec"} /\ cur \subseteq {c} /\ cur' = {c} /\ pc' = "cap"
        /\ todo' = todo /\ bro.orders[c].status \in Live
        /\ \A d \in todo \ {c} : bro.orders[d].status \in Live
    BY <1>4 DEF QuoteUnfunded, AtExecution, Visits, ThenCap, LinkInv, Visiting, BookInv, ExecLive, Live
  <2>2. Rest
    BY <1>4, <2>1, EndLink DEF QuoteUnfunded
  <2>3. todo \subseteq Intents
    BY DEF BookInv, CtlInv
  <2> QED
    BY <2>1, <2>2, <2>3 DEF LinkInv, Visiting, OnlyRow
<1>5. CASE QuoteTriggers(c)
  <2>1. /\ pc = "pick" /\ cur = {} /\ cur' = {c} /\ pc' = "exec"
        /\ todo' = todo /\ bro.orders[c].status = "TRIGGER_PENDING"
        /\ \A d \in todo \ {c} : bro.orders[d].status \in Live
    BY <1>5 DEF QuoteTriggers, Visits, LinkInv, Visiting
  <2>2. End(bro, c, "OPEN")
    BY <1>5 DEF QuoteTriggers, End, Triggered, Finish
  <2>3. Rest
    BY <2>1, <2>2, EndLink DEF Live
  <2>4. todo \subseteq Intents
    BY DEF BookInv, CtlInv
  <2> QED
    BY <2>1, <2>3, <2>4 DEF LinkInv, Visiting, OnlyRow
<1> QED
  BY <1>1, <1>2, <1>3, <1>4, <1>5

(* The participation cap: the order is given up, or stays as it is.        *)
LEMMA QuoteCapLink ==
    ASSUME BookInv, BookInv', LinkInv, NEW c \in Intents, QuoteCap(c)
    PROVE  LinkInv' /\ AllForward
<1>1. /\ pc = "cap" /\ cur = {c} /\ cur' = {} /\ pc' = "pick" /\ todo' = todo \ {c}
      /\ \A d \in todo \ {c} : bro.orders[d].status \in Live
  BY DEF QuoteCap, LinkInv, Visiting
<1>2. todo \subseteq Intents
  BY DEF BookInv, CtlInv
<1>3. CASE GivesUp(bro.orders[c], c)
  <2>1. End(bro, c, "CANCELLED") /\ bro.orders[c].status \in Live
    BY <1>3 DEF QuoteCap, GivesUp
  <2>2. /\ OnlyRow(bro, bro', c)
        /\ Pairs' /\ SeenMade' /\ SamePosition' /\ DiskFollows' /\ ExitsFit' /\ AllForward
    BY <1>1, <2>1, EndLink
  <2> QED
    BY <1>1, <1>2, <2>2 DEF LinkInv, Visiting, OnlyRow
<1>4. CASE ~GivesUp(bro.orders[c], c)
  <2>1. UNCHANGED <<oms, bro, disk, dirty, changed>>
    BY <1>4 DEF QuoteCap, omsVars, broVars
  <2>2. Pairs'
    BY <1>1, <2>1 DEF LinkInv, Pairs, Pair
  <2>3. SeenMade' /\ SamePosition' /\ DiskFollows' /\ ExitsFit'
    BY <1>1, <2>1 DEF LinkInv, SeenMade, SamePosition, DiskFollows, Stored, ExitsFit
  <2> QED
    BY <1>1, <1>2, <2>1, <2>2, <2>3 DEF LinkInv, Visiting, AllForward, Forward
<1> QED
  BY <1>3, <1>4

(* Where _execute stands: the order is live, and so are those to visit.    *)
LEMMA AtExecutionLink ==
    ASSUME BookInv, LinkInv, NEW c \in Intents, AtExecution(c)
    PROVE  /\ pc \in {"pick", "exec"} /\ cur \subseteq {c} /\ bro.orders[c].status \in Live
           /\ \A d \in todo \ {c} : bro.orders[d].status \in Live
           /\ todo \subseteq Intents
<1>1. pc \in {"pick", "exec"} /\ cur \subseteq {c} /\ bro.orders[c].status \in Live
  BY DEF AtExecution, Visits, LinkInv, Visiting, BookInv, ExecLive, Live
<1> QED
  BY <1>1 DEF LinkInv, Visiting, BookInv, CtlInv

(* A quote without liquidity only counts.                                  *)
LEMMA QuoteDryLink ==
    ASSUME BookInv, BookInv', LinkInv, NEW c \in Intents, QuoteDry(c)
    PROVE  LinkInv' /\ AllForward
<1>1. /\ pc \in {"pick", "exec"} /\ cur \subseteq {c}
      /\ \A d \in todo \ {c} : bro.orders[d].status \in Live
      /\ todo \subseteq Intents
  BY AtExecutionLink DEF QuoteDry
<1>2. /\ bro' = CountQuote(bro, c) /\ UNCHANGED <<oms, disk, dirty, changed, todo>>
      /\ pc' = "cap" /\ cur' = {c}
  BY DEF QuoteDry, ThenCap, omsVars
<1>3. /\ OnlyRow(bro, bro', c) /\ bro'.orders[c].status = bro.orders[c].status
      /\ bro'.orders[c].quantity = bro.orders[c].quantity
      /\ bro'.orders[c].filled = bro.orders[c].filled
      /\ bro'.orders[c].fillCount = bro.orders[c].fillCount
      /\ bro'.position = bro.position
  BY <1>2, CountRow, Types
<1>4. Pair(c)'
  <2>1. Pair(c)
    BY DEF LinkInv, Pairs
  <2> QED
    BY <1>1, <1>2, <1>3, <2>1 DEF Pair
<1>5. Pairs'
  BY <1>1, <1>2, <1>3, <1>4, PairsStep DEF LinkInv, OnlyRow
<1>6. SeenMade'
  BY <1>2, <1>3, SeenStep DEF LinkInv, OnlyRow
<1>7. SamePosition' /\ ExitsFit' /\ AllForward
  BY <1>2, <1>3 DEF LinkInv, SamePosition, ExitsFit, AllForward, Forward
<1>8. \A d \in Intents : Stored(d) => Stored(d)'
  BY <1>2, <1>3 DEF Stored, SameRow, OnlyRow
<1>9. DiskFollows'
  BY <1>2, <1>3, <1>8 DEF LinkInv, DiskFollows
<1>10. Visiting'
  BY <1>1, <1>2, <1>3 DEF Visiting, OnlyRow
<1> QED
  BY <1>5, <1>6, <1>7, <1>9, <1>10 DEF LinkInv

(* A fill: both sides book the same shares, under an id not yet seen.      *)
LEMMA QuoteFillsLink ==
    ASSUME BookInv, BookInv', LinkInv, NEW c \in Intents, QuoteFills(c)
    PROVE  LinkInv' /\ AllForward
<1> DEFINE qty == Tradable(c)
           f == FillOf(bro, c, qty)
           b == CountQuote(bro, c)
           m == oms.orders[c]
           t == bro.orders[c]
<1>1. /\ pc \in {"pick", "exec"} /\ cur \subseteq {c} /\ t.status \in Live
      /\ \A d \in todo \ {c} : bro.orders[d].status \in Live
      /\ todo \subseteq Intents
  BY AtExecutionLink DEF QuoteFills
<1>2. t \in SimOrderType /\ t.filled <= t.quantity /\ m \in OrderType
  BY Types DEF WellFilled
<1>3. qty \in Nat /\ 0 < qty /\ qty <= Remaining(t)
  <2>1. Remaining(t) \in Nat
    BY <1>2, MaxQtyAssumption DEF Remaining, SimOrderType
  <2>2. liquidity \in Nat
    BY TradingBookAssumption DEF BookInv, CtlInv
  <2>3. qty > 0
    BY DEF QuoteFills
  <2> QED
    BY <2>1, <2>2, <2>3 DEF Tradable, AtMost
<1>4. /\ m.status = t.status \/ m.status = "UNKNOWN"
      /\ m.quantity = t.quantity /\ m.filled = t.filled
  BY <1>1 DEF LinkInv, Pairs, Pair, Live
<1>5. /\ bro' = Executed(b, c, qty) /\ oms' = OnFill(oms, f)
      /\ disk' = disk /\ dirty' = dirty \cup {c} /\ changed' = TRUE
      /\ pc' = "cap" /\ cur' = {c} /\ todo' = todo
  BY DEF QuoteFills, Touch, ThenCap
<1>6. /\ f.order = c /\ f.qty = qty /\ f.n = t.fillCount + 1 /\ FillId(f) = <<c, t.fillCount + 1>>
      /\ f \in FillType
  BY <1>2, <1>3, MaxQtyAssumption DEF FillOf, FillId, FillType, SimOrderType, Remaining
<1> HIDE DEF qty, f
<1>7. b \in BrokerType
  <2>1. GoodBroker(bro)
    BY DEF BookInv, BroInv
  <2> QED
    BY <2>1, CountQuoteStep DEF Keeps, GoodBroker
<1>8. /\ OnlyRow(bro, b, c) /\ b.position = bro.position
      /\ b.orders[c].quantity = t.quantity /\ b.orders[c].filled = t.filled
      /\ b.orders[c].fillCount = t.fillCount
  BY CountRow, Types
<1> HIDE DEF b
<1>9. /\ OnlyRow(bro, bro', c)
      /\ bro'.orders[c].quantity = t.quantity /\ bro'.orders[c].filled = t.filled + qty
      /\ bro'.orders[c].fillCount = t.fillCount + 1
      /\ bro'.orders[c].status = IF t.filled + qty = t.quantity THEN "FILLED"
                                 ELSE "PARTIALLY_FILLED"
      /\ bro'.position = bro.position + (IF c \in Buys THEN qty ELSE -qty)
  BY <1>3, <1>5, <1>7, <1>8, ExecutedRow DEF OnlyRow
<1>10. FillId(f) \notin oms.seen
  <2>1. t.fillCount + 1 \in Nat /\ ~(t.fillCount + 1 <= t.fillCount)
    BY <1>2 DEF SimOrderType
  <2> QED
    BY <1>6, <2>1 DEF LinkInv, SeenMade
<1>11. /\ OnlyRow(oms, oms', c)
       /\ oms'.orders[c].quantity = m.quantity /\ oms'.orders[c].filled = m.filled + qty
       /\ oms'.orders[c].status = IF m.filled + qty = m.quantity THEN "FILLED"
                                  ELSE "PARTIALLY_FILLED"
       /\ oms'.position = oms.position + Signed(f)
       /\ oms'.seen = oms.seen \cup {FillId(f)}
  <2>1. m.status # "NONE"
    BY <1>1, <1>4 DEF Live
  <2>2. m.filled + f.qty <= m.quantity
    BY <1>2, <1>3, <1>4, <1>6 DEF Remaining, SimOrderType
  <2>3. oms \in OmsType /\ WellFilled(oms.orders)
    BY Types
  <2> QED
    BY <1>5, <1>6, <1>10, <2>1, <2>2, <2>3, FillRow
<1>12. Pair(c)'
  BY <1>4, <1>5, <1>9, <1>11 DEF Pair
<1>13. Pairs'
  BY <1>1, <1>5, <1>9, <1>11, <1>12, PairsStep DEF LinkInv
<1>14. SeenMade'
  <2> SUFFICES ASSUME NEW d \in Intents, NEW n \in Nat, <<d, n>> \in oms'.seen
               PROVE  n <= bro'.orders[d].fillCount
    BY DEF SeenMade
  <2>1. CASE <<d, n>> \in oms.seen
    <3>1. n <= bro.orders[d].fillCount /\ bro.orders[d].fillCount \in Nat
      BY <2>1, Types DEF LinkInv, SeenMade
    <3>2. bro'.orders[d].fillCount \in {bro.orders[d].fillCount, bro.orders[d].fillCount + 1}
      BY <1>9 DEF OnlyRow
    <3> QED
      BY <3>1, <3>2
  <2>2. CASE <<d, n>> = FillId(f)
    <3>1. d = c /\ n = t.fillCount + 1
      BY <1>6, <2>2
    <3> QED
      BY <1>9, <3>1
  <2> QED
    BY <1>11, <2>1, <2>2
<1>15. Signed(f) = IF c \in Buys THEN qty ELSE -qty
  BY <1>6 DEF Signed
<1>16. SamePosition'
  BY <1>9, <1>11, <1>15 DEF LinkInv, SamePosition
<1>17. DiskFollows'
  BY <1>5, <1>9, DiskStep DEF LinkInv
<1>18. ExitsFit'
  <2>1. oms.position \in Int
    BY Types
  <2>2. oms'.position - oms.position = IF c \in Buys THEN qty ELSE -qty
    BY <1>3, <1>11, <1>15, <2>1
  <2>3. Takes(oms'.orders[c], c) - Takes(m, c) <= IF c \in Buys THEN qty ELSE -qty
    <3>1. CASE c \in Buys
      BY <1>3, <3>1 DEF Takes, Sells
    <3>2. CASE c \notin Buys
      <4>1. Takes(m, c) = Remaining(t)
        BY <1>1, <1>4, <3>2 DEF Takes, Sells, Live, Terminal, Remaining
      <4>2. Remaining(oms'.orders[c]) = Remaining(t) - qty
        BY <1>2, <1>3, <1>4, <1>11 DEF Remaining, SimOrderType
      <4>3. Remaining(t) \in Nat
        BY <1>2, MaxQtyAssumption DEF Remaining, SimOrderType
      <4>4. CASE m.filled + qty = m.quantity
        <5>1. Takes(oms'.orders[c], c) = 0 /\ Remaining(t) = qty
          BY <1>2, <1>3, <1>4, <1>11, <4>4 DEF Takes, Terminal, Remaining, SimOrderType
        <5> QED
          BY <1>3, <3>2, <4>1, <5>1
      <4>5. CASE m.filled + qty # m.quantity
        <5>1. Takes(oms'.orders[c], c) = Remaining(t) - qty
          BY <1>11, <3>2, <4>2, <4>5 DEF Takes, Sells, Terminal
        <5> QED
          BY <1>3, <3>2, <4>1, <4>3, <5>1
      <4> QED
        BY <4>4, <4>5
    <3> QED
      BY <3>1, <3>2
  <2> QED
    BY <1>11, <2>2, <2>3, ExitsStep DEF LinkInv, BookInv, OnlyRow
<1>19. Forward(c)
  BY <1>1, <1>4, <1>11, Table DEF Forward, Live
<1>20. Visiting'
  BY <1>1, <1>5, <1>9 DEF Visiting, OnlyRow
<1> QED
  BY <1>11, <1>13, <1>14, <1>16, <1>17, <1>18, <1>19, <1>20, ForwardStep DEF LinkInv

(* Steps that only move the handler on.                                    *)
LEMMA ControlLink ==
    ASSUME BookInv, BookInv', LinkInv,
           \/ \E shares \in 0 .. MaxLiquidity : Quote(shares)
           \/ \E c \in Intents : QuotePasses(c)
           \/ QuoteEnds \/ ExpireSession \/ NextDay
    PROVE  LinkInv' /\ AllForward
<1>1. /\ UNCHANGED <<oms, bro, disk, dirty, changed, cur>>
      /\ pc \in {"idle", "pick", "down"} /\ pc' \in {"pick", "save", "idle", "expire", "down"}
      /\ pc' \in {"idle", "down"} => ~changed
      /\ pc' \in {"pick", "expire"} => \A d \in todo' : bro.orders[d].status \in Live
  BY DEF Quote, QuotePasses, QuoteEnds, ExpireSession, NextDay, Visits, Resting, omsVars, broVars,
         LinkInv, DiskFollows, Visiting
<1>2. Pairs'
  BY <1>1 DEF LinkInv, Pairs, Pair
<1>3. DiskFollows'
  BY <1>1 DEF LinkInv, DiskFollows, Stored
<1>4. SeenMade' /\ SamePosition' /\ ExitsFit' /\ AllForward
  BY <1>1 DEF LinkInv, SeenMade, SamePosition, ExitsFit, AllForward, Forward
<1>5. Visiting'
  BY <1>1 DEF LinkInv, Visiting
<1> QED
  BY <1>2, <1>3, <1>4, <1>5 DEF LinkInv

LEMMA SaveLink ==
    ASSUME BookInv, BookInv', LinkInv, Save
    PROVE  LinkInv' /\ AllForward
<1>1. /\ pc = "save" /\ pc' = "idle" /\ disk' = Saved(disk, bro, dirty) /\ dirty' = {}
      /\ changed' = FALSE /\ UNCHANGED <<oms, bro, cur, todo>>
  BY DEF Save, omsVars
<1>2. Pairs'
  BY <1>1 DEF LinkInv, Pairs, Pair
<1>3. /\ \A d \in Intents : disk'.orders[d] = IF d \in dirty THEN bro.orders[d] ELSE disk.orders[d]
      /\ disk'.position = bro.position
  BY <1>1, SavedRow, Types
<1>4. \A d \in Intents : Stored(d)'
  BY <1>1, <1>3 DEF LinkInv, DiskFollows, Stored, SameRow
<1>5. DiskFollows'
  BY <1>1, <1>3, <1>4 DEF DiskFollows
<1>6. SeenMade' /\ SamePosition' /\ ExitsFit' /\ AllForward /\ Visiting'
  BY <1>1 DEF LinkInv, SeenMade, SamePosition, ExitsFit, AllForward, Forward, Visiting
<1> QED
  BY <1>2, <1>5, <1>6 DEF LinkInv

(* The answer to "what became of it" is the broker's status.               *)
LEMMA ResolveLink ==
    ASSUME BookInv, BookInv', LinkInv, NEW c \in Intents,
           ResolveUnknown(c) \/ \E timedOut \in BOOLEAN : ResolveAbsent(c, timedOut)
    PROVE  LinkInv' /\ AllForward
<1> DEFINE m == oms.orders[c]
           s == bro.orders[c].status
<1>1. /\ pc = "idle" /\ cur = {} /\ m.status = "UNKNOWN"
      /\ UNCHANGED <<bro, disk, dirty, changed, pc, cur, todo>>
  BY DEF ResolveUnknown, ResolveAbsent, LinkInv, Visiting, broVars
<1>2. /\ OnlyRow(oms, oms', c) /\ oms'.position = oms.position /\ oms'.seen = oms.seen
      /\ oms'.orders[c].quantity = m.quantity /\ oms'.orders[c].filled = m.filled
      /\ IF s = "NONE" THEN oms'.orders[c].status \in {"UNKNOWN", "REJECTED"}
         ELSE oms'.orders[c].status \in {"UNKNOWN", s}
      /\ oms'.orders[c].status = "UNKNOWN" \/ oms'.orders[c].status \in NextStatus["UNKNOWN"]
  <2>1. CASE ResolveUnknown(c)
    <3>1. \A f \in bro.fills : FillId(f) \in oms.seen
      BY DEF BookInv, FillsKnown
    <3>2. s \in Status /\ s # "NONE" /\ oms' = ResolveFound(oms, c, s, bro.fills)
      BY <2>1, Types DEF ResolveUnknown
    <3> HIDE DEF s
    <3> QED
      BY <1>1, <3>1, <3>2, ResolveRow, Types DEF Advances
  <2>2. CASE \E timedOut \in BOOLEAN : ResolveAbsent(c, timedOut)
    <3>1. s = "NONE" /\ (oms' = oms \/ oms' = SetStatus(oms, c, "REJECTED"))
      BY <2>2 DEF ResolveAbsent
    <3>2. CASE oms' = oms
      BY <1>1, <3>1, <3>2 DEF OnlyRow
    <3>3. CASE oms' = SetStatus(oms, c, "REJECTED")
      <4>1. "REJECTED" \in Status
        BY DEF Status, Terminal
      <4> QED
        BY <3>1, <3>3, <4>1, SetStatusRow, Types, Table
    <3> QED
      BY <3>1, <3>2, <3>3
  <2> QED
    BY <2>1, <2>2
<1>3. Pair(c)'
  <2>1. Pair(c) /\ s # "SUBMITTED"
    BY <1>1, Types DEF LinkInv, Pairs, BrokerType, SimOrderType, Live, Terminal
  <2> QED
    BY <1>1, <1>2, <2>1 DEF Pair
<1>4. Forward(c)
  BY <1>1, <1>2 DEF Forward
<1>5. Takes(oms'.orders[c], c) - Takes(m, c) <= 0
  <2>1. m \in OrderType /\ oms'.orders[c] \in OrderType /\ m.filled <= m.quantity
    BY Types DEF BookInv, OmsInv, OmsType, WellFilled
  <2>2. m.status \notin Terminal \cup {"NONE"}
    BY <1>1 DEF Terminal
  <2> QED
    BY <1>2, <2>1, <2>2, TakesNoMore
<1>6. Pairs' /\ SeenMade' /\ SamePosition' /\ DiskFollows' /\ ExitsFit' /\ AllForward
  BY <1>1, <1>2, <1>3, <1>4, <1>5, OmsOnlyStep
<1> QED
  BY <1>1, <1>6 DEF LinkInv, Visiting

(* Every fill is known already: reconciling adopts nothing.                *)
LEMMA ReconcileLink ==
    ASSUME BookInv, LinkInv, Reconcile \/ Restart
    PROVE  LinkInv' /\ AllForward
<1>1. AdoptFills(oms, bro.fills) = oms
  BY NothingToAdopt DEF BookInv, FillsKnown
<1>2. /\ UNCHANGED <<oms, bro, disk, dirty, changed, cur, todo>>
      /\ pc \in {"idle", "down"} /\ pc' = "idle"
  BY <1>1 DEF Reconcile, Restart, Reconciled, broVars
<1>3. Pairs'
  BY <1>2 DEF LinkInv, Pairs, Pair
<1>4. DiskFollows'
  BY <1>2 DEF LinkInv, DiskFollows, Stored
<1> QED
  BY <1>2, <1>3, <1>4
  DEF LinkInv, SeenMade, SamePosition, ExitsFit, AllForward, Forward, Visiting

(* Whenever the process dies, the stored statuses are those in memory.     *)
LEMMA DiesForward ==
    ASSUME BookInv, Dies
    PROVE  AllForward
BY DEF Dies, BookInv, OmsInv, RestoreIsFaithful, Agree, AllForward, Forward

(* Between handlers the stored rows are those in memory, too.              *)
LEMMA StopLink ==
    ASSUME BookInv, LinkInv, Stop
    PROVE  LinkInv'
<1>1. /\ pc = "idle" /\ oms' = image /\ bro' = disk /\ disk' = disk /\ dirty' = {}
      /\ changed' = FALSE /\ pc' = "down" /\ cur' = {} /\ todo' = {}
  BY DEF Stop, Dies
<1>2. /\ image.position = oms.position /\ image.seen = oms.seen
      /\ \A c \in Intents : /\ image.orders[c].status = oms.orders[c].status
                            /\ image.orders[c].quantity = oms.orders[c].quantity
                            /\ image.orders[c].filled = oms.orders[c].filled
  BY DEF BookInv, OmsInv, RestoreIsFaithful, Agree
<1>3. disk.position = bro.position /\ \A c \in Intents : Stored(c)
  BY <1>1 DEF LinkInv, DiskFollows
<1>4. Pairs'
  <2> SUFFICES ASSUME NEW c \in Intents PROVE Pair(c)'
    BY DEF Pairs
  <2>1. Pair(c) /\ Stored(c)
    BY <1>3 DEF LinkInv, Pairs
  <2> QED
    BY <1>1, <1>2, <2>1 DEF Pair, Stored, SameRow
<1>5. SeenMade' /\ SamePosition'
  BY <1>1, <1>2, <1>3 DEF LinkInv, SeenMade, SamePosition, Stored
<1>6. DiskFollows' /\ Visiting'
  BY <1>1 DEF DiskFollows, Stored, SameRow, Visiting
<1>7. ExitsFit'
  <2>1. Sells \subseteq Intents
    BY DEF Sells
  <2>2. Working(image.orders, Sells) = Working(oms.orders, Sells)
    BY <1>2, <2>1 DEF Working
  <2> DEFINE W == Working(oms.orders, Sells)
  <2>3. \A c \in Intents : Remaining(image.orders[c]) = Remaining(oms.orders[c])
    BY <1>2 DEF Remaining
  <2> HIDE DEF W
  <2>4. [c \in Intents |-> IF c \in W THEN Remaining(image.orders[c]) ELSE 0]
          = [c \in Intents |-> IF c \in W THEN Remaining(oms.orders[c]) ELSE 0]
    BY <2>3
  <2>5. Outstanding(image.orders, W) = Outstanding(oms.orders, W)
    BY <2>4 DEF Outstanding
  <2>6. Outstanding(oms.orders, W) <= oms.position
    BY DEF LinkInv, ExitsFit, W
  <2> QED
    BY <1>1, <1>2, <2>2, <2>5, <2>6 DEF ExitsFit, W
<1> QED
  BY <1>4, <1>5, <1>6, <1>7 DEF LinkInv

LEMMA StutterLink ==
    ASSUME LinkInv, UNCHANGED vars
    PROVE  LinkInv' /\ AllForward
<1>1. UNCHANGED <<oms, bro, disk, dirty, changed, pc, cur, todo>>
  BY DEF vars
<1>2. Pairs'
  BY <1>1 DEF LinkInv, Pairs, Pair
<1>3. DiskFollows'
  BY <1>1 DEF LinkInv, DiskFollows, Stored
<1> QED
  BY <1>1, <1>2, <1>3
  DEF LinkInv, SeenMade, SamePosition, ExitsFit, AllForward, Forward, Visiting

-----------------------------------------------------------------------------
(* The theorems.                                                           *)

LEMMA WholeInit == Init => WholeInv
<1> SUFFICES ASSUME Init PROVE LinkInv
  BY DEF WholeInv
<1> USE DEF Init, EmptyOms, EmptyBroker
<1>1. Pairs
  BY DEF Pairs, Pair, NoOrder, NotPlaced
<1>2. SeenMade /\ SamePosition /\ Visiting
  BY DEF SeenMade, SamePosition, Visiting
<1>3. DiskFollows
  BY DEF DiskFollows, Stored, SameRow
<1>4. ExitsFit
  <2>1. Working(oms.orders, Sells) = {}
    BY DEF Working, Sells, NoOrder
  <2> DEFINE f == [c \in Intents |-> IF c \in {} THEN Remaining(oms.orders[c]) ELSE 0]
  <2>2. \A c \in Intents : f[c] = 0
    OBVIOUS
  <2>3. Outstanding(oms.orders, {}) = Shares(f)
    BY DEF Outstanding
  <2> HIDE DEF f
  <2>4. Shares(f) = 0
    BY <2>2, ZeroShares
  <2> QED
    BY <2>1, <2>3, <2>4 DEF ExitsFit
<1> QED
  BY <1>1, <1>2, <1>3, <1>4 DEF LinkInv

(* No step heals a torn book.                                              *)
LEMMA TornStays ==
    ASSUME BookInv, [Next]_vars
    PROVE  torn => torn'
BY DEF Next, Continue, vars, envVars, Submit, HandlerEnds, PlaceRejected, PlaceUnknown,
       PlaceAccepted, PlaceAcked, PlaceAckFailed, End, Cancel, Quote, QuoteExpires, QuotePasses,
       QuoteTriggers, QuoteDry, QuoteFills, QuoteUnfunded, QuoteCap, QuoteEnds, Save,
       ExpireSession, ExpireOrder, ResolveUnknown, ResolveAbsent, Reconcile, Stop, Crash, Dies,
       NextDay, Restart

(* The step that both the invariant and ForwardOnly need.                  *)
LEMMA LinkNext ==
    ASSUME BookInv, BookInv', LinkInv, [Next]_vars
    PROVE  (~torn' => LinkInv') /\ AllForward
<1>1. CASE Continue
  <2>1. CASE QuoteEnds
    BY <2>1, ControlLink
  <2>2. CASE Save
    BY <2>2, SaveLink
  <2>3. ASSUME NEW c \in Intents,
               \/ PlaceRejected(c) \/ PlaceUnknown(c) \/ PlaceAccepted(c)
               \/ PlaceAcked(c) \/ PlaceAckFailed(c)
        PROVE  LinkInv' /\ AllForward
    BY <2>3, PlaceRefusedLink, PlaceAcceptedLink, PlaceAckLink
  <2>4. ASSUME NEW c \in Intents,
               \/ QuoteExpires(c) \/ QuotePasses(c) \/ QuoteTriggers(c) \/ QuoteDry(c)
               \/ QuoteFills(c) \/ QuoteUnfunded(c) \/ QuoteCap(c)
               \/ ExpireOrder(c)
        PROVE  LinkInv' /\ AllForward
    BY <2>4, EndsLink, ControlLink, QuoteDryLink, QuoteFillsLink, QuoteCapLink
  <2> QED
    BY <1>1, <2>1, <2>2, <2>3, <2>4 DEF Continue
<1>2. ASSUME NEW c \in Intents,
             \/ \E qty \in 1 .. MaxQty : Submit(c, qty)
             \/ Cancel(c) \/ ResolveUnknown(c)
             \/ \E timedOut \in BOOLEAN : ResolveAbsent(c, timedOut)
      PROVE  LinkInv' /\ AllForward
  BY <1>2, SubmitLink, EndsLink, ResolveLink
<1>3. CASE (\E shares \in 0 .. MaxLiquidity : Quote(shares)) \/ ExpireSession \/ NextDay
  BY <1>3, ControlLink
<1>4. CASE Reconcile \/ Restart
  BY <1>4, ReconcileLink
<1>5. CASE Stop
  BY <1>5, StopLink, DiesForward DEF Stop
<1>6. CASE Crash
  BY <1>6, DiesForward DEF Crash, Dies
<1>7. CASE UNCHANGED vars
  BY <1>7, StutterLink
<1> QED
  BY <1>1, <1>2, <1>3, <1>4, <1>5, <1>6, <1>7 DEF Next

LEMMA WholeNext ==
    ASSUME BookInv, BookInv', WholeInv, [Next]_vars
    PROVE  WholeInv' /\ (~torn => AllForward)
BY TornStays, LinkNext DEF WholeInv

LEMMA WholeInvHolds == Spec => [](BookInv /\ WholeInv)
<1>1. Init => BookInv /\ WholeInv
  BY InitInv, WholeInit
<1>2. BookInv /\ WholeInv /\ [Next]_vars => BookInv' /\ WholeInv'
  BY NextInv, WholeNext
<1> QED
  BY <1>1, <1>2, PTL DEF Spec

(* Between handlers the OMS and the broker hold the same orders, filled    *)
(* quantities and position (TradingBook.SameBook): the callbacks of        *)
(* place_order, cancel_order, on_quote and expire_session keep both sides  *)
(* in step, and a restart between handlers reads back what both held.      *)
THEOREM OmsMatchesBroker == Spec => []SameBook
<1>1. BookInv /\ WholeInv => SameBook
  BY DEF BookInv, WholeInv, LinkInv, Pairs, Pair, SamePosition, SameBook
<1> QED
  BY <1>1, WholeInvHolds, PTL

(* The working reduce orders never add up to more than the position        *)
(* (TradingBook.ExitsNeverFlip): reducible(), read before the order is     *)
(* registered, is enough, whatever fills, cancels or is lost afterwards.   *)
THEOREM ExitsStayCovered == Spec => []ExitsNeverFlip
<1>1. WholeInv => ExitsNeverFlip
  BY DEF WholeInv, LinkInv, ExitsFit, ExitsNeverFlip
<1> QED
  BY <1>1, WholeInvHolds, PTL

(* Statuses only move along _NEXT (TradingBook.ForwardOnly), also where    *)
(* the code sets them without asking _advance: a fill, a refusal, an       *)
(* UNKNOWN outcome, its resolution and a restart.                          *)
THEOREM StatusesMoveForward == Spec => ForwardOnly
<1>1. BookInv /\ WholeInv /\ BookInv' /\ [Next]_vars =>
        [~torn => \A c \in Intents :
            LET old == oms.orders[c].status
                new == oms'.orders[c].status
            IN  \/ new = old
                \/ old = "NONE" /\ new = "SUBMITTED"
                \/ new \in NextStatus[old]]_vars
  BY WholeNext DEF AllForward, Forward
<1> QED
  BY <1>1, WholeInvHolds, PTL DEF Spec, ForwardOnly
=============================================================================
