---------------------------- MODULE Projections -----------------------------
(***************************************************************************)
(* The catalogue of events (src/domain/events.py) and the projections the  *)
(* event store keeps of them (src/store/projections.py).                   *)
(*                                                                         *)
(* An event is a record: its kind, the key its payload names, and what the *)
(* projections store of it.  Tables whose projector replaces a row by key  *)
(* differ only in the kind they handle, so they are one table here, keyed  *)
(* by kind and key; so are the two tables keyed by seq.                    *)
(***************************************************************************)
EXTENDS Integers, Sequences, FiniteSetsExt

MarketEvents == {"QuoteReceived", "QuoteRejected", "BarClosed", "DataSourceChanged",
                 "FeedStale", "FeedRecovered"}
SessionEvents == {"SessionStateChanged", "HolidaySkipped"}
NewsEvents == {"AnnouncementReceived", "AnnouncementCoverageGap", "TypedEvent"}
SignalEvents == {"RegimeComputed", "SignalGenerated", "AdvisorRequested", "AdvisorVerdict",
                 "AdvisorFallback", "SignalDisposition", "OrderIntentProposed"}
ShadowEvents == {"ShadowTradeOpened", "ShadowTradeClosed", "ShadowAlphaSettled"}
RiskEvents == {"RiskDecision", "KillSwitchChanged", "LimitBreached", "DailyRiskStateRolled"}
OrderEvents == {"OrderSubmitted", "OrderAcked", "OrderRejected", "OrderUnknown",
                "OrderCancelled", "OrderExpired", "FillReceived"}
PortfolioEvents == {"PositionChanged", "TradeClosed", "TradeReview", "MarkToMarket",
                    "ReconciliationResult"}
ModelEvents == {"LLMCall", "DecisionModelCall", "BudgetThresholdCrossed"}
ProcessEvents == {"Heartbeat", "LoopLag", "Alert", "ProcessStarted", "ProcessStopped",
                  "ControlCommand"}

(* EVENT_TYPES: what this version of the code can write and read.          *)
EventTypes == UNION {MarketEvents, SessionEvents, NewsEvents, SignalEvents, ShadowEvents,
                     RiskEvents, OrderEvents, PortfolioEvents, ModelEvents, ProcessEvents}

(* The kinds of the projectors that keep the newest row of each key.       *)
Keyed == {"PositionChanged", "TradeClosed", "DailyRiskStateRolled", "KillSwitchChanged",
          "RiskDecision", "TypedEvent"}
(* The kinds of the projectors that keep a row for each event.             *)
Called == {"LLMCall", "DecisionModelCall"}

Terminal == {"REJECTED", "CANCELLED", "EXPIRED", "FILLED"}
NoRow == [status |-> "none", filled |-> 0, created |-> 0, updated |-> 0]

(* The status an order event gives its order.                              *)
StatusOf(e) ==
    CASE e.kind = "OrderSubmitted" -> "SUBMITTED"
      [] e.kind = "OrderRejected"  -> "REJECTED"
      [] e.kind = "OrderUnknown"   -> "UNKNOWN"
      [] e.kind = "OrderCancelled" -> "CANCELLED"
      [] e.kind = "OrderExpired"   -> "EXPIRED"
      [] e.kind \in {"OrderAcked", "FillReceived"} -> e.val

(* The events that also tell how much of the order is filled.              *)
TellsFilled == {"OrderCancelled", "OrderExpired", "FillReceived"}

-----------------------------------------------------------------------------
(* The projectors: each is applied to the stored event, in its transaction.*)
Empty == [orders |-> <<>>, fills |-> <<>>, rows |-> <<>>, calls |-> {}]

Put(f, k, v) == [x \in DOMAIN f \cup {k} |-> IF x = k THEN v ELSE f[x]]

Orders(t, e, seq) ==
    IF e.kind = "OrderSubmitted"
    THEN Put(t, e.key, [status |-> StatusOf(e), filled |-> 0, created |-> seq, updated |-> seq])
    ELSE IF e.kind \in OrderEvents /\ e.key \in DOMAIN t
    THEN [t EXCEPT ![e.key].status = StatusOf(e), ![e.key].updated = seq,
                   ![e.key].filled = IF e.kind \in TellsFilled THEN e.filled ELSE @]
    ELSE t

(* Mutation: INSERT OR REPLACE.                                            *)
FillsReplace(t, e, seq) == IF e.kind = "FillReceived" THEN Put(t, e.fill, seq) ELSE t

Fills(t, e, seq) ==
    IF e.kind = "FillReceived" /\ e.fill \notin DOMAIN t THEN Put(t, e.fill, seq) ELSE t

Rows(t, e, seq) ==
    IF e.kind \in Keyed THEN Put(t, <<e.kind, e.key>>, [val |-> e.val, seq |-> seq]) ELSE t

Calls(t, e, seq) == IF e.kind \in Called THEN t \cup {seq} ELSE t

Project(tables, e, seq) ==
    [orders |-> Orders(tables.orders, e, seq), fills |-> Fills(tables.fills, e, seq),
     rows |-> Rows(tables.rows, e, seq), calls |-> Calls(tables.calls, e, seq)]

-----------------------------------------------------------------------------
(* What the tables say of a log, told without running a projector.         *)
OrderOf(log, o) ==
    LET submitted == {i \in DOMAIN log : log[i].kind = "OrderSubmitted" /\ log[i].key = o}
    IN  IF submitted = {} THEN NoRow
        ELSE LET first == Max(submitted)
                 since == {i \in DOMAIN log : i >= first /\ log[i].kind \in OrderEvents
                                              /\ log[i].key = o}
                 told  == {i \in since : log[i].kind \in TellsFilled}
             IN  [status  |-> StatusOf(log[Max(since)]),
                  filled  |-> IF told = {} THEN 0 ELSE log[Max(told)].filled,
                  created |-> first,
                  updated |-> Max(since)]

Submitted(log) == {log[i].key : i \in {j \in DOMAIN log : log[j].kind = "OrderSubmitted"}}
Filled(log) == {i \in DOMAIN log : log[i].kind = "FillReceived"}
NewestOf(log, k) == Max({i \in DOMAIN log : <<log[i].kind, log[i].key>> = k})

TablesOf(log) ==
    [orders |-> [o \in Submitted(log) |-> OrderOf(log, o)],
     fills  |-> [f \in {log[i].fill : i \in Filled(log)} |->
                    Min({i \in Filled(log) : log[i].fill = f})],
     rows   |-> [k \in {<<log[i].kind, log[i].key>> :
                            i \in {j \in DOMAIN log : log[j].kind \in Keyed}} |->
                    [val |-> log[NewestOf(log, k)].val, seq |-> NewestOf(log, k)]],
     calls  |-> {i \in DOMAIN log : log[i].kind \in Called}]
=============================================================================
