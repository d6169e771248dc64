----------------------------- MODULE OmsAdapter -----------------------------
(***************************************************************************)
(* The OMS against the broker contract of src/brokers/base.py instead of   *)
(* the simulated broker: place_order really takes time, its outcome can be *)
(* lost, and the status updates and fills of the order stream come while   *)
(* it is pending, late, twice, or never.  The venue is external.           *)
(*                                                                         *)
(* Assumptions on the venue: a request that has not arrived when the OMS's *)
(* unknown_timeout_s is over is lost; and (InOrder) the fills of an order  *)
(* are delivered before the update that ends it.                           *)
(***************************************************************************)
EXTENDS OMS

CONSTANTS
    Held,       \* the position that restore() brought from earlier sessions
    InOrder     \* whether the stream keeps the order of an order's messages

ASSUME OmsAdapterAssumption == Held \in Nat /\ InOrder \in BOOLEAN

Restored == [EmptyOms EXCEPT !.position = Held]

VARIABLES
    oms,        \* the OMS in memory
    checks,     \* OMS._unknown_checks
    image,      \* what restore() would rebuild from the stored events
    venue,      \* the broker's orders and trades
    sent,       \* the status updates that the venue has published
    request,    \* where the place_order request of an intent is
    call,       \* where _submit's await of place_order is
    pass,       \* resolve_unknown: the orders of this pass still to look up
    lookup      \* the answer of find_order_by_tag it is resuming with, if any

vars == <<oms, checks, image, venue, sent, request, call, pass, lookup>>
omsVars == <<oms, checks, image>>
venueVars == <<venue, sent>>
resolveVars == <<pass, lookup>>

VenueStatus == {"NONE"} \cup Live \cup Terminal
Absent == [status |-> "NONE", quantity |-> 0, filled |-> 0, fillCount |-> 0]

VenueType ==
    [orders : [Intents -> [status : VenueStatus, quantity : 0 .. MaxQty, filled : 0 .. MaxQty,
                           fillCount : 0 .. MaxQty]],
     fills : SUBSET FillType]

(* Values are in their types.                                              *)
TypeOK ==
    /\ oms \in OmsType
    /\ image \in OmsType
    /\ checks \in [Intents -> 0 .. 2]
    /\ venue \in VenueType
    /\ sent \subseteq [order : Intents, status : VenueStatus]
    /\ request \in [Intents -> {"none", "flying", "landed", "lost"}]
    /\ call \in [Intents -> {"none", "waiting", "over"}]
    /\ pass \subseteq Intents
    /\ lookup \subseteq [order : Intents, status : VenueStatus]

Init ==
    /\ oms = Restored
    /\ checks = [c \in Intents |-> 0]
    /\ image = Restored
    /\ venue = [orders |-> [c \in Intents |-> Absent], fills |-> {}]
    /\ sent = {}
    /\ request = [c \in Intents |-> "none"]
    /\ call = [c \in Intents |-> "none"]
    /\ pass = {}
    /\ lookup = {}

-----------------------------------------------------------------------------
(* OMS.submit, up to its await of place_order.                             *)
Submit(c, qty) ==
    /\ oms.orders[c].status = "NONE"
    /\ IF c \in Buys THEN NoUnknown(oms) ELSE qty <= Reducible(oms)
    /\ oms' = Register(oms, c, qty)
    /\ image' = Register(image, c, qty)
    /\ request' = [request EXCEPT ![c] = "flying"]
    /\ call' = [call EXCEPT ![c] = "waiting"]
    /\ UNCHANGED <<checks, venueVars, resolveVars>>

Returns(c) ==
    /\ call[c] = "waiting"
    /\ call' = [call EXCEPT ![c] = "over"]
    /\ UNCHANGED <<venueVars, resolveVars>>

(* place_order returns its acknowledgement; an update may have beaten it.  *)
Acked(c) ==
    LET status == IF c \in Stops THEN "TRIGGER_PENDING" ELSE "OPEN"
        o == Advance([oms.orders[c] EXCEPT !.atBroker = TRUE], status)
    IN  /\ request[c] = "landed"
        /\ Returns(c)
        /\ IF oms.orders[c].status = "SUBMITTED"
           THEN /\ oms' = [oms EXCEPT !.orders[c] = o]
                /\ image' = StoreAcked(image, c, o.status)
           ELSE UNCHANGED <<oms, image>>
        /\ UNCHANGED <<checks, request>>

(* A NOT_PLACED error: the venue has refused the request.                  *)
Refused(c) ==
    /\ request[c] = "flying"
    /\ request' = [request EXCEPT ![c] = "lost"]
    /\ Returns(c)
    /\ oms' = SetStatus(oms, c, "REJECTED")
    /\ image' = StoreStatus(image, c, "REJECTED")
    /\ UNCHANGED checks

(* An UNKNOWN outcome, wherever the request is: _mark_unknown.             *)
TimesOut(c) ==
    /\ Returns(c)
    /\ oms' = SetStatus(oms, c, "UNKNOWN")
    /\ image' = StoreStatus(image, c, "UNKNOWN")
    /\ checks' = [checks EXCEPT ![c] = 0]
    /\ UNCHANGED request

-----------------------------------------------------------------------------
(* The venue (external).                                                   *)

Publish(c, status) ==
    /\ venue' = [venue EXCEPT !.orders[c].status = status]
    /\ sent' = sent \cup {[order |-> c, status |-> status]}

VenueStep == UNCHANGED <<omsVars, call, resolveVars>>

Arrives(c) ==
    LET status == IF c \in Stops THEN "TRIGGER_PENDING" ELSE "OPEN"
    IN  /\ request[c] = "flying"
        /\ request' = [request EXCEPT ![c] = "landed"]
        /\ venue' = [venue EXCEPT !.orders[c] =
               [status |-> status, quantity |-> oms.orders[c].quantity, filled |-> 0, fillCount |-> 0]]
        /\ sent' = sent \cup {[order |-> c, status |-> status]}
        /\ VenueStep

Lost(c) ==
    /\ request[c] = "flying"
    /\ request' = [request EXCEPT ![c] = "lost"]
    /\ VenueStep
    /\ UNCHANGED venueVars

VenueTriggers(c) ==
    /\ venue.orders[c].status = "TRIGGER_PENDING"
    /\ Publish(c, "OPEN")
    /\ VenueStep
    /\ UNCHANGED request

VenueFills(c, qty) ==
    LET v == venue.orders[c]
    IN  /\ v.status \in {"OPEN", "PARTIALLY_FILLED"}
        /\ qty <= Remaining(v)
        /\ venue' = [venue EXCEPT
               !.orders[c] = [v EXCEPT
                   !.filled = @ + qty, !.fillCount = @ + 1,
                   !.status = IF qty = Remaining(v) THEN "FILLED" ELSE "PARTIALLY_FILLED"],
               !.fills = @ \cup {[order |-> c, n |-> v.fillCount + 1, qty |-> qty]}]
        /\ VenueStep
        /\ UNCHANGED <<sent, request>>

(* Cancelled (by OMS.cancel or by the exchange) or expired.                *)
VenueEnds(c, status) ==
    /\ venue.orders[c].status \in Live
    /\ Publish(c, status)
    /\ VenueStep
    /\ UNCHANGED request

-----------------------------------------------------------------------------
(* The order stream: any published update or fill, any number of times.    *)

DeliverUpdate(u) ==
    /\ InOrder /\ u.status \in Terminal =>
          \A f \in venue.fills : f.order = u.order => FillId(f) \in oms.seen
    /\ oms' = OnUpdate(oms, u)
    /\ image' = StoreUpdate(image, oms, u)
    /\ UNCHANGED <<checks, venueVars, request, call, resolveVars>>

DeliverFill(f) ==
    /\ oms' = OnFill(oms, f)
    /\ image' = StoreOnFill(image, oms, f)
    /\ UNCHANGED <<checks, venueVars, request, call, resolveVars>>

-----------------------------------------------------------------------------
(* resolve_unknown: the pass is fixed when it starts, and every lookup is  *)
(* an await, so an order may have moved when its answer is acted upon.     *)

ResolveStarts ==
    /\ pass = {} /\ lookup = {}
    /\ pass' = {c \in Intents : oms.orders[c].status = "UNKNOWN"}
    /\ pass' # {}
    /\ UNCHANGED <<omsVars, venueVars, request, call, lookup>>

Lookup(c) ==
    /\ c \in pass /\ lookup = {}
    /\ lookup' = {[order |-> c, status |-> venue.orders[c].status]}
    /\ pass' = pass \ {c}
    /\ UNCHANGED <<omsVars, venueVars, request, call>>

Found(c) ==
    /\ \E l \in lookup :
          /\ l.order = c /\ l.status # "NONE"
          /\ oms' = ResolveFound(oms, c, l.status, venue.fills)
          /\ image' = StoreResolved(image, oms, c, l.status, venue.fills)
    /\ checks' = [checks EXCEPT ![c] = 0]
    /\ lookup' = {}
    /\ UNCHANGED <<venueVars, request, call, pass>>

NotFound(c, timedOut) ==
    LET n == AtMost(checks[c] + 1, 2)
    IN  /\ [order |-> c, status |-> "NONE"] \in lookup
        /\ timedOut => request[c] = "lost"
        /\ IF n = 2 /\ timedOut
           THEN /\ oms' = SetStatus(oms, c, "REJECTED")
                /\ image' = StoreStatus(image, c, "REJECTED")
                /\ checks' = [checks EXCEPT ![c] = 0]
           ELSE /\ checks' = [checks EXCEPT ![c] = n]
                /\ UNCHANGED <<oms, image>>
        /\ lookup' = {}
        /\ UNCHANGED <<venueVars, request, call, pass>>

(* reconcile's _adopt_fills (its comparison only reports).                 *)
Reconcile ==
    /\ oms' = AdoptFills(oms, venue.fills)
    /\ image' = StoreAdopted(image, oms, venue.fills)
    /\ UNCHANGED <<checks, venueVars, request, call, resolveVars>>

Next ==
    \/ \E c \in Intents :
          \/ \E qty \in 1 .. MaxQty : Submit(c, qty) \/ VenueFills(c, qty)
          \/ Acked(c) \/ Refused(c) \/ TimesOut(c)
          \/ Arrives(c) \/ Lost(c) \/ VenueTriggers(c)
          \/ \E status \in {"CANCELLED", "EXPIRED"} : VenueEnds(c, status)
          \/ Lookup(c) \/ Found(c) \/ \E timedOut \in BOOLEAN : NotFound(c, timedOut)
    \/ \E u \in sent : DeliverUpdate(u)
    \/ \E f \in venue.fills : DeliverFill(f)
    \/ ResolveStarts \/ Reconcile

Spec == Init /\ [][Next]_vars

(* The monitor keeps resolving and the reconciler keeps reconciling (they  *)
(* are periodic tasks), a request arrives or is lost, a call returns, and  *)
(* the timeout passes.                                                     *)
FairSpec ==
    /\ Spec
    /\ WF_vars(ResolveStarts)
    /\ WF_vars(Reconcile)
    /\ \A c \in Intents :
          /\ WF_vars(Arrives(c) \/ Lost(c))
          /\ WF_vars(Acked(c) \/ Refused(c) \/ TimesOut(c))
          /\ WF_vars(Lookup(c))
          /\ WF_vars(Found(c) \/ NotFound(c, FALSE))
          /\ SF_vars(NotFound(c, TRUE))

-----------------------------------------------------------------------------
(* Every fill is booked at most once, however often it is delivered or     *)
(* adopted (_on_fill's dedup): an order has been filled by exactly the     *)
(* fills that were seen, and the position is what was bought less sold;    *)
(* and the stored events rebuild the same, whatever the order in which     *)
(* answers, updates and fills came in (OMS.restore).                       *)
BookedOnce ==
    /\ \A c \in Intents :
          LET seen == {f \in venue.fills : f.order = c /\ FillId(f) \in oms.seen}
          IN  oms.orders[c].filled = MapThenSumSet(LAMBDA f : f.qty, seen)
    /\ oms.position = Held + Traded(oms.orders, Buys) - Traded(oms.orders, Sells)
    /\ Agree(image, oms)

(* An exit can never open or flip a position (reducible), although the OMS *)
(* learns late what the venue does: the sells that can still trade there,  *)
(* or are on their way, never exceed what the account holds.               *)
Tradable(c) ==
    CASE request[c] = "flying" -> oms.orders[c].quantity
      [] venue.orders[c].status \in Live -> Remaining(venue.orders[c])
      [] OTHER -> 0
ExitsCovered ==
    Shares([c \in Intents |-> IF c \in Sells THEN Tradable(c) ELSE 0])
        <= Held + Traded(venue.orders, Buys) - Traded(venue.orders, Sells)

(* Once place_order is over, a terminal status is final (_advance): late,  *)
(* repeated and stale updates and lookups do not revive the order.         *)
FinalAfterCall ==
    [][\A c \in Intents :
          call[c] = "over" /\ oms.orders[c].status \in Terminal
          => oms'.orders[c].status = oms.orders[c].status]_vars

(* An UNKNOWN order is "resolved by its tag (adopted) or rejected after    *)
(* two checks" (docs/runbooks/incident.md).  The code does not keep this   *)
(* (README, section 6).                                                    *)
UnknownIsResolved ==
    \A c \in Intents :
        oms.orders[c].status = "UNKNOWN" ~> oms.orders[c].status # "UNKNOWN"
=============================================================================
