----------------------------- MODULE TradingBook ----------------------------
(***************************************************************************)
(* One paper-trading book: its OMS and its simulated broker in one process *)
(* on one event loop, with the two durable stores that survive a restart   *)
(* (the OMS's events, the broker's rows).                                  *)
(*                                                                         *)
(* A handler of this code runs without yielding (none of its awaits really *)
(* suspends), so while pc is not "idle" only the handler's next step is    *)
(* enabled.  The handlers are nevertheless cut into the steps between      *)
(* their durable writes, because the process can die between two of them:  *)
(* Crash.  With Torn = FALSE the process only stops between handlers.      *)
(***************************************************************************)
EXTENDS OMS, SimulatedBroker

CONSTANTS
    MaxLiquidity,   \* bound: shares one quote can fill
    MaxStops,       \* bound: process stops and crashes
    Torn            \* whether a crash may hit the middle of a handler

ASSUME TradingBookAssumption ==
    MaxLiquidity \in Nat /\ MaxStops \in Nat /\ Torn \in BOOLEAN

VARIABLES
    oms,        \* the OMS in memory
    checks,     \* OMS._unknown_checks
    image,      \* what restore() would rebuild from the stored events
    bro,        \* the broker in memory
    disk,       \* the broker's stored rows
    dirty,      \* SimulatedBroker._dirty_orders: rows to write at the next _save
    changed,    \* SimulatedBroker._dirty: this handler changed something durable
    pc,         \* where the running handler is
    cur,        \* the order the running handler is at: a singleton, or empty
    todo,       \* the broker orders the running handler still has to visit
    liquidity,  \* shares left in the quote being matched
    today,      \* the trading day
    drift,      \* RiskGate.flags.recon_drift
    stops,      \* process stops so far
    torn        \* history: a crash has hit the middle of a handler

vars == <<oms, checks, image, bro, disk, dirty, changed, pc, cur, todo, liquidity, today, drift, stops, torn>>
omsVars == <<oms, checks, image>>
broVars == <<bro, disk, dirty, changed>>
envVars == <<today, drift, stops, torn>>

PCs == {"idle", "placing", "acking", "pick", "exec", "cap", "expire", "save", "down"}

(* Values are in their types; the type of a running handler's position.    *)
TypeOK ==
    /\ oms \in OmsType
    /\ image \in OmsType
    /\ checks \in [Intents -> 0 .. 2]
    /\ bro \in BrokerType
    /\ disk \in BrokerType
    /\ dirty \in SUBSET Intents
    /\ changed \in BOOLEAN
    /\ pc \in PCs
    /\ cur \in SUBSET Intents
    /\ todo \in SUBSET Intents
    /\ liquidity \in 0 .. MaxLiquidity
    /\ today \in 1 .. MaxDay
    /\ drift \in BOOLEAN
    /\ stops \in 0 .. MaxStops
    /\ torn \in BOOLEAN

Init ==
    /\ oms = EmptyOms
    /\ image = EmptyOms
    /\ checks = [c \in Intents |-> 0]
    /\ bro = EmptyBroker
    /\ disk = EmptyBroker
    /\ dirty = {}
    /\ changed = FALSE
    /\ pc = "idle"
    /\ cur = {}
    /\ todo = {}
    /\ liquidity = 0
    /\ today = 1
    /\ drift = FALSE
    /\ stops = 0
    /\ torn = FALSE

(* A status update delivered to _on_update, with the event it records.     *)
Notify(c, status) ==
    LET u == [order |-> c, status |-> status]
    IN  /\ oms' = OnUpdate(oms, u)
        /\ image' = StoreUpdate(image, oms, u)
        /\ UNCHANGED checks

(* A change of the broker's order c that must reach the store.             *)
Touch(c) ==
    /\ dirty' = dirty \cup {c}
    /\ changed' = TRUE

-----------------------------------------------------------------------------
(* OMS.submit.  The gate may shrink the quantity; it refuses an opening    *)
(* order while the last reconciliation found drift or an order's outcome   *)
(* is UNKNOWN.  A duplicate, blocked or refused intent changes nothing.    *)
Submit(c, qty) ==
    /\ pc = "idle"
    /\ oms.orders[c].status = "NONE"
    /\ IF c \in Buys THEN ~drift /\ NoUnknown(oms) ELSE qty <= Reducible(oms)
    /\ oms' = Register(oms, c, qty)
    /\ image' = Register(image, c, qty)
    /\ pc' = "placing"
    /\ cur' = {c}
    /\ UNCHANGED <<checks, broVars, todo, liquidity, envVars>>

HandlerEnds ==
    /\ pc' = "idle"
    /\ cur' = {}
    /\ UNCHANGED <<todo, liquidity, envVars>>

(* place_order raises a NOT_PLACED error: market closed, no quote, off     *)
(* tick, price band, funds, or more than there is to sell.                 *)
PlaceRejected(c) ==
    /\ pc = "placing" /\ cur = {c}
    /\ oms' = SetStatus(oms, c, "REJECTED")
    /\ image' = StoreStatus(image, c, "REJECTED")
    /\ HandlerEnds
    /\ UNCHANGED <<checks, broVars>>

(* place_order raises anything else before the broker has the order.       *)
PlaceUnknown(c) ==
    /\ pc = "placing" /\ cur = {c}
    /\ oms' = SetStatus(oms, c, "UNKNOWN")
    /\ image' = StoreStatus(image, c, "UNKNOWN")
    /\ checks' = [checks EXCEPT ![c] = 0]
    /\ HandlerEnds
    /\ UNCHANGED broVars

(* The broker accepts: the order is durable before it is acknowledged.     *)
PlaceAccepted(c) ==
    LET qty == oms.orders[c].quantity
    IN  /\ pc = "placing" /\ cur = {c}
        /\ MaySell(bro, c, qty)
        /\ bro' = Placed(bro, c, qty, today)
        /\ disk' = Saved(disk, bro', dirty \cup {c})
        /\ dirty' = {}
        /\ changed' = FALSE
        /\ pc' = "acking"
        /\ UNCHANGED <<omsVars, cur, todo, liquidity, envVars>>

(* _notify_update inside place_order reaches the OMS before the response.  *)
(* It also marks the order dirty again, for the next _save.                *)
PlaceAcked(c) ==
    /\ pc = "acking" /\ cur = {c}
    /\ Notify(c, bro.orders[c].status)
    /\ dirty' = dirty \cup {c}
    /\ HandlerEnds
    /\ UNCHANGED <<bro, disk, changed>>

(* The update callback fails inside place_order (its event cannot be       *)
(* recorded): the broker has the order, and _mark_unknown records UNKNOWN. *)
PlaceAckFailed(c) ==
    /\ pc = "acking" /\ cur = {c}
    /\ oms' = [oms EXCEPT !.orders[c] = [@ EXCEPT !.atBroker = TRUE, !.status = "UNKNOWN"]]
    /\ image' = StoreStatus(image, c, "UNKNOWN")
    /\ checks' = [checks EXCEPT ![c] = 0]
    /\ dirty' = dirty \cup {c}
    /\ HandlerEnds
    /\ UNCHANGED <<bro, disk, changed>>

(* A broker order ends, and the OMS is told.                               *)
End(before, c, status) ==
    /\ bro' = Finish(before, c, status)
    /\ Notify(c, status)
    /\ Touch(c)
    /\ UNCHANGED <<disk, liquidity, envVars>>

(* OMS.cancel and the broker's cancel_order, up to its _save.              *)
Cancel(c) ==
    /\ pc = "idle"
    /\ c \in Working(oms.orders, Intents)
    /\ oms.orders[c].atBroker
    /\ bro.orders[c].status \in Live
    /\ End(bro, c, "CANCELLED")
    /\ pc' = "save"
    /\ UNCHANGED <<cur, todo>>

-----------------------------------------------------------------------------
(* SimulatedBroker.on_quote visits the orders that are live when the quote *)
(* arrives, one at a time.                                                 *)
Quote(shares) ==
    /\ pc = "idle"
    /\ Resting(bro.orders, Intents) # {}
    /\ todo' = Resting(bro.orders, Intents)
    /\ liquidity' = shares
    /\ pc' = "pick"
    /\ UNCHANGED <<omsVars, broVars, cur, envVars>>

(* The loop of on_quote arrives at order c.                                *)
Visits(c) == pc = "pick" /\ IsFirst(bro, c, todo)

(* An order of an earlier day expires on the first quote of a new one.     *)
QuoteExpires(c) ==
    /\ Visits(c)
    /\ bro.orders[c].day < today
    /\ End(bro, c, "EXPIRED")
    /\ todo' = todo \ {c}
    /\ UNCHANGED <<pc, cur>>

(* Not at the exchange yet (latency), or a stop whose trigger is not hit.  *)
QuotePasses(c) ==
    /\ Visits(c)
    /\ bro.orders[c].day = today
    /\ bro.orders[c].eligibleQuotes = 0
    /\ todo' = todo \ {c}
    /\ UNCHANGED <<omsVars, broVars, pc, cur, liquidity, envVars>>

QuoteTriggers(c) ==
    /\ Visits(c)
    /\ bro.orders[c].day = today
    /\ bro.orders[c].status = "TRIGGER_PENDING"
    /\ bro' = Triggered(bro, c)
    /\ Notify(c, "OPEN")
    /\ Touch(c)
    /\ pc' = "exec"
    /\ cur' = {c}
    /\ UNCHANGED <<disk, todo, liquidity, envVars>>

AtExecution(c) ==
    \/ pc = "exec" /\ cur = {c}
    \/ /\ Visits(c)
       /\ bro.orders[c].day = today
       /\ bro.orders[c].status \in {"OPEN", "PARTIALLY_FILLED"}

(* Mutant: the remaining quantity does not cap the execution.              *)
TradableUncapped(c) == liquidity

(* What the quote's liquidity lets order c trade.                          *)
Tradable(c) == AtMost(Remaining(bro.orders[c]), liquidity)

ThenCap(c) ==
    /\ pc' = "cap"
    /\ cur' = {c}
    /\ UNCHANGED todo

QuoteDry(c) ==
    /\ AtExecution(c)
    /\ Tradable(c) = 0
    /\ bro' = CountQuote(bro, c)
    /\ ThenCap(c)
    /\ UNCHANGED <<omsVars, disk, dirty, changed, liquidity, envVars>>

(* _execute: the fill callback books and records the fill at the OMS; the  *)
(* status update that follows it is driven by fills and adds nothing.      *)
QuoteFills(c) ==
    LET qty == Tradable(c)
        f == FillOf(bro, c, qty)
    IN  /\ AtExecution(c)
        /\ qty > 0
        /\ bro' = Executed(CountQuote(bro, c), c, qty)
        /\ oms' = OnFill(oms, f)
        /\ image' = StoreOnFill(image, oms, f)
        /\ Touch(c)
        /\ liquidity' = liquidity - qty
        /\ ThenCap(c)
        /\ UNCHANGED <<checks, disk, envVars>>

(* _execute of a BUY that has become too expensive for the cash.           *)
QuoteUnfunded(c) ==
    /\ AtExecution(c)
    /\ c \in Buys
    /\ Tradable(c) > 0
    /\ End(CountQuote(bro, c), c, "CANCELLED")
    /\ ThenCap(c)

(* The participation cap, the last part of _match.                         *)
QuoteCap(c) ==
    /\ pc = "cap" /\ cur = {c}
    /\ IF GivesUp(bro.orders[c], c)
       THEN End(bro, c, "CANCELLED")
       ELSE UNCHANGED <<omsVars, broVars, liquidity, envVars>>
    /\ pc' = "pick"
    /\ cur' = {}
    /\ todo' = todo \ {c}

(* on_quote persists at its end, and only if an order changed.             *)
QuoteEnds ==
    /\ pc = "pick"
    /\ todo = {}
    /\ pc' = IF changed THEN "save" ELSE "idle"
    /\ liquidity' = 0
    /\ UNCHANGED <<omsVars, broVars, cur, todo, envVars>>

Save ==
    /\ pc = "save"
    /\ disk' = Saved(disk, bro, dirty)
    /\ dirty' = {}
    /\ changed' = FALSE
    /\ pc' = "idle"
    /\ UNCHANGED <<omsVars, bro, cur, todo, liquidity, envVars>>

(* expire_session, called by the CLOSE hook.                               *)
ExpireSession ==
    /\ pc = "idle"
    /\ Resting(bro.orders, Intents) # {}
    /\ todo' = Resting(bro.orders, Intents)
    /\ pc' = "expire"
    /\ UNCHANGED <<omsVars, broVars, cur, liquidity, envVars>>

ExpireOrder(c) ==
    /\ pc = "expire" /\ IsFirst(bro, c, todo)
    /\ End(bro, c, "EXPIRED")
    /\ todo' = todo \ {c}
    /\ pc' = IF todo = {c} THEN "save" ELSE "expire"
    /\ UNCHANGED cur

-----------------------------------------------------------------------------
(* resolve_unknown for one UNKNOWN order (the monitor's step).             *)
ResolveUnknown(c) ==
    /\ pc = "idle"
    /\ oms.orders[c].status = "UNKNOWN"
    /\ bro.orders[c].status # "NONE"
    /\ oms' = ResolveFound(oms, c, bro.orders[c].status, bro.fills)
    /\ image' = StoreResolved(image, oms, c, bro.orders[c].status, bro.fills)
    /\ checks' = [checks EXCEPT ![c] = 0]
    /\ UNCHANGED <<broVars, pc, cur, todo, liquidity, envVars>>

(* Mutant: the count of the checks starts again at each one.               *)
ResolveAbsentRestarts(c, timedOut) ==
    /\ pc = "idle"
    /\ oms.orders[c].status = "UNKNOWN"
    /\ bro.orders[c].status = "NONE"
    /\ checks' = [checks EXCEPT ![c] = 1]
    /\ UNCHANGED <<oms, image, broVars, pc, cur, todo, liquidity, envVars>>

(* Absent: rejected at the second check that also comes after the timeout. *)
ResolveAbsent(c, timedOut) ==
    /\ pc = "idle"
    /\ oms.orders[c].status = "UNKNOWN"
    /\ bro.orders[c].status = "NONE"
    /\ LET n == AtMost(checks[c] + 1, 2)
       IN  IF n = 2 /\ timedOut
           THEN /\ oms' = SetStatus(oms, c, "REJECTED")
                /\ image' = StoreStatus(image, c, "REJECTED")
                /\ checks' = [checks EXCEPT ![c] = 0]
           ELSE /\ checks' = [checks EXCEPT ![c] = n]
                /\ UNCHANGED <<oms, image>>
    /\ UNCHANGED <<broVars, pc, cur, todo, liquidity, envVars>>

(* The comparison of OMS.reconcile, cash left out.                         *)
InSync(o, b) ==
    /\ \A c \in Intents : o.orders[c].status # "NONE" =>
          IF b.orders[c].status = "NONE"
          THEN o.orders[c].status \in {"REJECTED", "UNKNOWN"}
          ELSE o.orders[c].status = b.orders[c].status
    /\ \A c \in Intents : b.orders[c].status # "NONE" => o.orders[c].status # "NONE"
    /\ o.position = b.position

Reconciled ==
    /\ oms' = AdoptFills(oms, bro.fills)
    /\ image' = StoreAdopted(image, oms, bro.fills)
    /\ drift' = ~InSync(oms', bro)
    /\ UNCHANGED checks

(* The reconciler's step.                                                  *)
Reconcile ==
    /\ pc = "idle"
    /\ Reconciled
    /\ UNCHANGED <<broVars, pc, cur, todo, liquidity, today, stops, torn>>

-----------------------------------------------------------------------------
(* The process ends; the next one will load the stored rows and restore    *)
(* the OMS from the stored events.                                         *)
Dies ==
    /\ stops < MaxStops
    /\ oms' = image
    /\ checks' = [c \in Intents |-> 0]
    /\ bro' = disk
    /\ dirty' = {}
    /\ changed' = FALSE
    /\ drift' = FALSE
    /\ pc' = "down"
    /\ cur' = {}
    /\ todo' = {}
    /\ liquidity' = 0
    /\ stops' = stops + 1
    /\ torn' = (torn \/ pc # "idle")
    /\ UNCHANGED <<image, disk, today>>

Stop == pc = "idle" /\ Dies

Crash == Torn /\ pc \notin {"idle", "down"} /\ Dies

NextDay ==
    /\ pc = "down"
    /\ today < MaxDay
    /\ today' = today + 1
    /\ UNCHANGED <<omsVars, broVars, pc, cur, todo, liquidity, drift, stops, torn>>

(* A new process reconciles in PRE_OPEN before anything trades.            *)
Restart ==
    /\ pc = "down"
    /\ Reconciled
    /\ pc' = "idle"
    /\ UNCHANGED <<broVars, cur, todo, liquidity, today, stops, torn>>

(* The steps of a handler that is running.                                 *)
Continue ==
    \/ \E c \in Intents :
          \/ PlaceRejected(c) \/ PlaceUnknown(c) \/ PlaceAccepted(c)
          \/ PlaceAcked(c) \/ PlaceAckFailed(c)
          \/ QuoteExpires(c) \/ QuotePasses(c) \/ QuoteTriggers(c) \/ QuoteDry(c)
          \/ QuoteFills(c) \/ QuoteUnfunded(c) \/ QuoteCap(c)
          \/ ExpireOrder(c)
    \/ QuoteEnds \/ Save

Next ==
    \/ Continue
    \/ \E c \in Intents :
          \/ \E qty \in 1 .. MaxQty : Submit(c, qty)
          \/ Cancel(c) \/ ResolveUnknown(c)
          \/ \E timedOut \in BOOLEAN : ResolveAbsent(c, timedOut)
    \/ \E shares \in 0 .. MaxLiquidity : Quote(shares)
    \/ ExpireSession \/ Reconcile \/ Stop \/ Crash \/ NextDay \/ Restart

Spec == Init /\ [][Next]_vars

(* A handler that has started finishes and a stopped engine is started     *)
(* again (weak fairness).  The monitor's resolve_unknown and the close     *)
(* of the session come up again and again between the other handlers, and  *)
(* the event loop runs its ready tasks in turn (strong fairness); the      *)
(* clock passes the 30 s timeout.                                          *)
FairSpec ==
    /\ Spec
    /\ WF_vars(Continue)
    /\ WF_vars(Restart)
    /\ SF_vars(ExpireSession)
    /\ \A c \in Intents : SF_vars(ResolveUnknown(c)) /\ SF_vars(ResolveAbsent(c, TRUE))

-----------------------------------------------------------------------------
(* Restarting loses nothing (OMS.restore): in every state, the image that  *)
(* restore() rebuilds from the stored events agrees with the OMS in memory.*)
RestoreIsFaithful == Agree(image, oms)

(* The broker never owes more shares than it holds, in memory or in its    *)
(* stored rows (_validate's holdings check, _save): no delivery short,     *)
(* whatever is filled, cancelled or lost in a crash.                       *)
Covered(b) == Outstanding(b.orders, Resting(b.orders, Sells)) <= b.position
BrokerNeverShort == Covered(bro) /\ Covered(disk)

(* An exit can never open or flip a position (OMS._submit, step 1): the    *)
(* reduce orders that are working never add up to more than the position,  *)
(* unless a crash has torn a handler.                                      *)
ExitsNeverFlip ==
    ~torn => Outstanding(oms.orders, Working(oms.orders, Sells)) <= oms.position

(* Between handlers the OMS and the broker hold the same orders, filled    *)
(* quantities and position: the only order the OMS may be wrong about is   *)
(* one whose outcome it knows to be UNKNOWN.  A torn handler may leave     *)
(* them apart.                                                             *)
SameBook ==
    ~torn /\ pc \in {"idle", "down"} =>
        /\ oms.position = bro.position
        /\ \A c \in Intents :
              LET mine == oms.orders[c]
                  theirs == bro.orders[c]
              IN  IF theirs.status = "NONE"
                  THEN mine.status \in {"NONE", "REJECTED", "UNKNOWN"}
                  ELSE /\ mine.status \in {theirs.status, "UNKNOWN"}
                       /\ mine.quantity = theirs.quantity
                       /\ mine.filled = theirs.filled

(* Statuses only move forward along the state machine, fills and restarts  *)
(* included (_advance, _on_fill's forced move, restore), unless a crash    *)
(* has torn a handler.                                                     *)
ForwardOnly ==
    [][~torn => \A c \in Intents :
          LET old == oms.orders[c].status
              new == oms'.orders[c].status
          IN  \/ new = old
              \/ old = "NONE" /\ new = "SUBMITTED"
              \/ new \in NextStatus[old]]_vars

(* Every order that was submitted comes to an end: an UNKNOWN outcome is   *)
(* resolved, and a DAY order does not outlive its session.                 *)
OrdersEnd ==
    \A c \in Intents :
        oms.orders[c].status # "NONE" ~> oms.orders[c].status \in Terminal

(* The position never goes negative (OMS docstring: "an exit can never     *)
(* open or flip a position").  Only a torn handler breaks this (README,    *)
(* section 6); ExitsNeverFlip is what holds without one.                   *)
NeverFlipped == oms.position >= 0
=============================================================================
