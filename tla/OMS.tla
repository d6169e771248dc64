-------------------------------- MODULE OMS ---------------------------------
(***************************************************************************)
(* The order-management system of one book (src/oms/oms.py), as operators  *)
(* on its state, a record                                                  *)
(*    orders   client_order_id -> order (status "NONE": not in the dict)   *)
(*    position the PositionBook's signed quantity of the instrument        *)
(*    seen     the ids of the fills the PositionBook has applied           *)
(* The same record type also describes the durable image of the OMS: what  *)
(* restore() would rebuild from the events stored so far.  Emitting an     *)
(* event applies restore()'s clause for that event to the image, so the    *)
(* image is the fold of restore() over the event log, kept incrementally.  *)
(***************************************************************************)
EXTENDS Orders, FiniteSetsExt

NoOrder == [status |-> "NONE", quantity |-> 0, filled |-> 0, atBroker |-> FALSE]

(* atBroker: order.broker_order_id is not None.                            *)
OrderType ==
    [status : Status, quantity : 0 .. MaxQty, filled : 0 .. MaxQty, atBroker : BOOLEAN]

OmsType == [orders : [Intents -> OrderType], position : Int, seen : SUBSET FillIds]

EmptyOms == [orders |-> [c \in Intents |-> NoOrder], position |-> 0, seen |-> {}]

(* Mutant: the table has no way from a working order to EXPIRED.           *)
NextStatusNoExpiry ==
    [s \in Status |-> IF s \in Terminal \cup {"NONE"} THEN {}
                      ELSE {"OPEN", "TRIGGER_PENDING", "PARTIALLY_FILLED", "FILLED", "CANCELLED",
                            "REJECTED", "UNKNOWN"} \ {s}]

(* _NEXT: the allowed status moves.  The rows of PENDING_NEW,              *)
(* PENDING_CANCEL and PENDING_MODIFY are left out: no code sets them.      *)
NextStatus ==
    LET ends == {"PARTIALLY_FILLED", "FILLED", "CANCELLED", "EXPIRED"}
    IN  [s \in Status |->
            CASE s = "SUBMITTED" -> ends \cup {"OPEN", "TRIGGER_PENDING", "REJECTED", "UNKNOWN"}
              [] s = "UNKNOWN" -> ends \cup {"OPEN", "TRIGGER_PENDING", "REJECTED"}
              [] s = "TRIGGER_PENDING" -> ends \cup {"OPEN"}
              [] s \in {"OPEN", "PARTIALLY_FILLED"} -> ends
              [] OTHER -> {}]

-----------------------------------------------------------------------------
(* _advance                                                                *)

(* Mutant: a stale update overwrites whatever the order has become.        *)
AdvancesAnywhere(current, status) == status # current

Advances(current, status) ==
    /\ status # current \/ status = "PARTIALLY_FILLED"
    /\ status \in NextStatus[current]

Advance(o, status) ==
    IF Advances(o.status, status) THEN [o EXCEPT !.status = status] ELSE o

(* reducible(): how much a reduce-only intent may still take off.          *)
ReducibleIgnoringOthers(oms) == IF oms.position > 0 THEN oms.position ELSE 0

Reducible(oms) ==
    LET free == oms.position - Outstanding(oms.orders, Working(oms.orders, Sells))
    IN  IF oms.position > 0 /\ free > 0 THEN free ELSE 0

(* SYS_UNKNOWN_ORDER: the gate opens nothing in an instrument that has an  *)
(* order of unknown outcome.                                               *)
NoUnknown(oms) == \A c \in Intents : oms.orders[c].status # "UNKNOWN"

(* The order that _submit() registers, and the durable effect of its       *)
(* OrderSubmitted event, before the broker is called.                      *)
Register(oms, c, qty) ==
    [oms EXCEPT !.orders[c] = [status |-> "SUBMITTED", quantity |-> qty,
                               filled |-> 0, atBroker |-> FALSE]]

(* A status set without asking _advance: NOT_PLACED -> REJECTED in         *)
(* _submit(), _mark_unknown(), and NOT_FOUND_AT_BROKER.                    *)
SetStatus(oms, c, status) == [oms EXCEPT !.orders[c].status = status]

-----------------------------------------------------------------------------
(* Broker callbacks.  An update is [order, status]; FILLED and             *)
(* PARTIALLY_FILLED are driven by fills.                                   *)

DrivenByFills == {"FILLED", "PARTIALLY_FILLED"}

Moves(oms, u) ==
    /\ oms.orders[u.order].status # "NONE"
    /\ u.status \notin DrivenByFills
    /\ Advances(oms.orders[u.order].status, u.status)

OnUpdate(oms, u) ==
    LET o == [oms.orders[u.order] EXCEPT !.atBroker = TRUE]
    IN  IF o.status = "NONE" THEN oms   \* an alert, nothing else
        ELSE [oms EXCEPT !.orders[u.order] =
                 IF u.status \in DrivenByFills THEN o ELSE Advance(o, u.status)]

Signed(f) == IF f.order \in Buys THEN f.qty ELSE -f.qty

(* PositionBook.apply, reduced to the quantity and the dedup set.          *)
ApplyFill(oms, f) ==
    IF FillId(f) \in oms.seen THEN oms
    ELSE [oms EXCEPT !.position = @ + Signed(f), !.seen = @ \cup {FillId(f)}]

(* The order after the fill: overfills are clipped (and alerted), and the  *)
(* status is forced whatever the state machine says.                       *)
FilledOrder(o, f) ==
    LET filled == AtMost(o.filled + f.qty, o.quantity)
    IN  [o EXCEPT !.filled = filled, !.atBroker = TRUE,
                  !.status = IF filled = o.quantity THEN "FILLED" ELSE "PARTIALLY_FILLED"]

(* Mutant: a fill delivered twice is counted twice on its order.           *)
OnFillEachTime(oms, f) ==
    [ApplyFill(oms, f) EXCEPT !.orders[f.order] = FilledOrder(@, f)]

OnFill(oms, f) ==
    IF FillId(f) \in oms.seen THEN oms
    ELSE IF oms.orders[f.order].status = "NONE" THEN ApplyFill(oms, f)
    ELSE [ApplyFill(oms, f) EXCEPT !.orders[f.order] = FilledOrder(@, f)]

(* _adopt_fills: book the broker's trades that the book has not seen.      *)
AdoptFills(oms, fills) ==
    LET missing == {f \in fills : FillId(f) \notin oms.seen}
    IN  IF missing = {} THEN oms
        ELSE FoldSet(LAMBDA f, acc : OnFill(acc, f), oms, missing)

(* resolve_unknown() when find_order_by_tag answers with the order: adopt  *)
(* its fills, then take the broker's status unless fills drive it.         *)
ResolveFound(oms, c, status, fills) ==
    LET found == [oms EXCEPT !.orders[c].atBroker = TRUE]
        adopted == AdoptFills(found, fills)
        o == adopted.orders[c]
    IN  IF o.status \in Terminal \/ status \in DrivenByFills THEN adopted
        ELSE [adopted EXCEPT !.orders[c] = Advance(o, status)]

-----------------------------------------------------------------------------
(* The durable image: restore()'s clause for each stored event.            *)

(* Mutant: restore() books the fill and forgets the order's status.        *)
StoreFillNoStatus(image, f, o) ==
    [ApplyFill(image, f) EXCEPT !.orders[f.order].filled = o.filled]

(* FillReceived carries the order's status and filled quantity.            *)
StoreFill(image, f, o) ==
    LET applied == ApplyFill(image, f)
    IN  IF image.orders[f.order].status = "NONE" THEN applied
        ELSE [applied EXCEPT !.orders[f.order] =
                 [@ EXCEPT !.filled = o.filled, !.status = o.status, !.atBroker = TRUE]]

(* OrderAcked never moves an order that is already terminal.               *)
AckedOrder(o, status) ==
    [o EXCEPT !.atBroker = TRUE, !.status = IF o.status \in Terminal THEN o.status ELSE status]

StoreAcked(image, c, status) ==
    [image EXCEPT !.orders[c] = AckedOrder(image.orders[c], status)]

(* OrderRejected, OrderUnknown, OrderCancelled and OrderExpired.           *)
StoreStatus(image, c, status) == SetStatus(image, c, status)

(* Mutant: the trigger of a stop is not recorded.                          *)
StoreTerminalUpdate(image, oms, u) ==
    IF Moves(oms, u) /\ u.status \in Terminal THEN StoreStatus(image, u.order, u.status)
    ELSE image

(* The event that _on_update emits, if any.                                *)
StoreUpdate(image, oms, u) ==
    IF ~Moves(oms, u) THEN image
    ELSE IF u.status \in Terminal THEN StoreStatus(image, u.order, u.status)
    ELSE StoreAcked(image, u.order, u.status)

(* The event that _on_fill emits, if any.                                  *)
StoreOnFill(image, oms, f) ==
    IF FillId(f) \in oms.seen THEN image
    ELSE StoreFill(image, f, OnFill(oms, f).orders[f.order])

StoreAdopted(image, oms, fills) ==
    LET missing == {f \in fills : FillId(f) \notin oms.seen}
        both == FoldSet(LAMBDA f, acc : <<StoreOnFill(acc[1], acc[2], f), OnFill(acc[2], f)>>,
                        <<image, oms>>, missing)
    IN  IF missing = {} THEN image ELSE both[1]

StoreResolved(image, oms, c, status, fills) ==
    StoreAcked(StoreAdopted(image, oms, fills), c,
               ResolveFound(oms, c, status, fills).orders[c].status)

(* Two OMS states with the same orders (but for whether the broker's id is *)
(* known), the same position and the same fill ids.                        *)
Agree(a, b) ==
    /\ a.position = b.position
    /\ a.seen = b.seen
    /\ \A c \in Intents : /\ a.orders[c].status = b.orders[c].status
                          /\ a.orders[c].quantity = b.orders[c].quantity
                          /\ a.orders[c].filled = b.orders[c].filled
=============================================================================
