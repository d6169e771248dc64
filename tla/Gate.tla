-------------------------------- MODULE Gate --------------------------------
(***************************************************************************)
(* The way of an entry in one book: the decision engine's cycle            *)
(* (src/decision/engine.py), the trade policy, the pre-trade gate          *)
(* (src/risk/gate.py) and its checks (src/risk/engine.py, risk/checks),    *)
(* against the book, the working orders and the day's risk state.          *)
(*                                                                         *)
(* The gate decides in one piece: nothing suspends between the snapshot    *)
(* and the recorded order.  Fills, quotes, trips, exits and the close come *)
(* between the cycle's awaits: the re-quote, the advisor's review and the  *)
(* broker's answer.  Money is in whole rupees and percentages are applied  *)
(* by cross-multiplication, so that nothing is rounded but share counts.   *)
(***************************************************************************)
EXTENDS Sums, Sequences, FiniteSetsExt


CONSTANTS
    Instruments,
    Signals,            \* what the cycle found: instrument, strategy, use, rank
    Sector,             \* the sector of each instrument
    Cash,               \* the book's starting cash
    Close,              \* the settled close of every instrument
    MaxPrice,           \* bound: the highest quote
    StopDistance,       \* k_stop_atr * ATR
    MaxPositions, MaxEntries, MaxGrossPct, MaxSectorPct,
    MaxHeatPct, RiskPct, PositionPct, StrategyPct, LossPct, DrawdownPct,
    AdvShares,          \* the largest order by traded volume
    MaxEvents,          \* bound: quotes that move, orders that end, exits,
                        \* restarts, commands and ends of a part of the session
    MaxRestarts,        \* bound: restarts of the engine
    PartialPolls        \* whether a poll after a restart may miss instruments

ASSUME GateAssumption ==
    /\ IsFiniteSet(Instruments) /\ IsFiniteSet(Signals)
    /\ \A s \in Signals : /\ s.instrument \in Instruments
                          /\ s.use \in {"trade", "sell", "shadow", "gated"}
    /\ Cash \in Nat \ {0} /\ MaxPrice \in Nat /\ Close \in 1..MaxPrice /\ StopDistance \in Nat \ {0}
    /\ {MaxPositions, MaxEntries, MaxGrossPct, MaxSectorPct, MaxHeatPct, RiskPct, PositionPct,
        StrategyPct, AdvShares} \subseteq Nat
    /\ PositionPct <= MaxGrossPct /\ RiskPct <= PositionPct    \* RiskLimits._consistent

VARIABLES
    cycle,      \* the decision cycle: pc, cur, todo, the stop of each proposal,
                \* and, history, how the last one ended
    disp,       \* the disposition of each signal in this cycle
    order,      \* the entry order of each signal
    hold,       \* the position in each instrument
    cash,
    quote,      \* the last quote of each instrument, 0 when there is none
    day,        \* DailyRiskState: symbols entered and exited, the peak equity
    env,        \* the part of the session, the kill switch and the HALT file
    count       \* what the bounds count

vars == <<cycle, disp, order, hold, cash, quote, day, env, count>>

Prices == 1..MaxPrice
Ended(status) == [status |-> status, left |-> 0, stop |-> 0, ref |-> 0]
NoOrder == Ended("none")
Flat == [qty |-> 0, cost |-> 0, stop |-> 0, strategy |-> "none"]
IdleAfter(end) ==
    [pc |-> "idle", cur |-> {}, todo |-> {}, stop |-> [s \in Signals |-> 0], end |-> end]
Idle == IdleAfter("none")

MinOf(a, b) == IF a <= b THEN a ELSE b
MaxOf(a, b) == IF a >= b THEN a ELSE b

-----------------------------------------------------------------------------
(* The snapshot.                                                           *)

Live == {s \in Signals : order[s].status \in {"placing", "working", "unknown"}}
Held == {i \in Instruments : hold[i].qty > 0}

(* PositionInfo.notional: at the quote, or at cost without one.            *)
Notional(i) == IF quote[i] = 0 THEN hold[i].cost ELSE hold[i].qty * quote[i]

(* Mutant: a position without a stop is not at risk.                       *)
OpenRiskStopped(i) ==
    IF hold[i].stop = 0 THEN 0 ELSE MaxOf(0, Notional(i) - hold[i].qty * hold[i].stop)

(* PositionInfo.open_risk: to the resting stop; all of it without one.     *)
OpenRisk(i) ==
    IF hold[i].stop = 0 THEN Notional(i)
    ELSE MaxOf(0, Notional(i) - hold[i].qty * hold[i].stop)

(* PositionBook.equity *)
Equity == cash + Total([i \in Held |-> Notional(i)])

(* Mutant: orders that have begun to fill reserve nothing.                 *)
ReservedFresh == {s \in Live : quote[s.instrument] # 0 /\ hold[s.instrument].qty = 0}

(* RiskGate._working: the entries that hold capacity.  Reservations.add    *)
(* reserves nothing for an order whose instrument has no quote.            *)
Reserved == {s \in Live : quote[s.instrument] # 0}

Price(s) == quote[s.instrument]
Distance(s) == Price(s) - order[s].stop
Pending(s) == Price(s) * order[s].left

(* The exposure the capacity checks see, of a set of instruments.          *)
Exposure(S) ==
    Total([i \in S \cap Held |-> Notional(i)])
    + Total([s \in {r \in Reserved : r.instrument \in S} |-> Pending(s)])

(* RiskSnapshot.heat and Reservations.heat: the distance of a working      *)
(* order that is quoted below its stop is negative.                        *)
Heat ==
    Total([i \in Held |-> OpenRisk(i)])
    + SignedTotal([s \in Reserved |-> Distance(s) * order[s].left])

(* RiskSnapshot.deployed and Reservations.by_strategy.                     *)
Deployed(st) ==
    Total([i \in {j \in Held : hold[j].strategy = st} |-> Notional(i)])
    + Total([s \in {r \in Reserved : r.strategy = st} |-> Pending(s)])

-----------------------------------------------------------------------------
(* The checks.                                                             *)

Open == env.phase \in {"entry", "open"}

(* base.shares: whole shares of a price, for a hundredth of the amount.    *)
Shares(hundredths, price) ==
    IF hundredths <= 0 \/ price <= 0 THEN 0 ELSE hundredths \div (100 * price)

(* _new_symbol *)
NewSymbol(i) == i \notin Held /\ \A s \in Reserved : s.instrument # i

(* max_positions *)
Symbols == Held \cup {s.instrument : s \in Reserved}

Full(i) == NewSymbol(i) /\ Cardinality(Symbols) >= MaxPositions

(* reentry_same_day *)
Traded(i) == i \in day.entered \cup day.exited

(* portfolio.daily_loss_mtm and portfolio.drawdown *)
TooMuchLost ==
    \/ 100 * (Equity - Cash) <= -(Cash * LossPct)
    \/ 100 * (MaxOf(day.peak, Equity) - Equity) >= MaxOf(day.peak, Equity) * DrawdownPct

(* The checks of an entry that answer by data the model does not keep:     *)
(* rates and counts of orders, the source and age of a quote, validation   *)
(* and losses of a strategy, windows around announcements, and the sanity  *)
(* of a price.  Whichever of them blocks, the engine's answer is the same. *)
SystemChecks == {"SYS_DATA_SIMULATED", "SYS_KILL_BROKER", "SYS_DATA_STALE",
                 "SYS_MAX_OPEN_ORDERS", "SYS_ORDER_RATE", "SYS_REJECT_STORM",
                 "SYS_JOURNAL_NOT_DURABLE", "SYS_RECON_DRIFT"}
StrategyChecks == {"STR_HALTED", "STR_NOT_VALIDATED", "STR_DAILY_LOSS",
                   "STR_CONSEC_LOSSES", "STR_ORDER_RATE"}
EventChecks == {"EVT_RESULTS_WINDOW", "EVT_ADVERSE_MAJOR"}
OrderChecks == {"ORD_STOP_TOO_WIDE", "ORD_STOP_TOO_TIGHT", "ORD_RR_MIN", "ORD_PRICE_COLLAR",
                "ORD_CIRCUIT_BAND", "ORD_TICK", "ORD_SHORT_NOT_ALLOWED"}
DataChecks == SystemChecks \cup StrategyChecks \cup EventChecks \cup OrderChecks

(* RiskEngine.evaluate: what blocks an entry, "failing" the checks above   *)
(* that block or throw.                                                    *)
EntryBlocked(i, stop, failing) ==
    \/ ~Open \/ env.kill \/ env.phase # "entry" \/ failing # {}
    \/ quote[i] = 0
    \/ \E s \in Signals : s.instrument = i /\ order[s].status = "unknown"
    \/ Full(i) \/ ~NewSymbol(i) \/ Traded(i)
    \/ TooMuchLost \/ Cardinality(day.entered) >= MaxEntries
    \/ quote[i] - stop <= 0

(* The RESIZE checks, each the shares there is room for; a room that is    *)
(* used up is a cap of zero.                                               *)
notional_max(i) == Shares(Equity * PositionPct, quote[i])
risk_per_trade(i, stop) == Shares(Equity * RiskPct, quote[i] - stop)
gross(i) == Shares(Equity * MaxGrossPct - 100 * Exposure(Instruments), quote[i])
sector(i) ==
    LET same == {j \in Instruments : Sector[j] = Sector[i]}
    IN  Shares(Equity * MaxSectorPct - 100 * Exposure(same), quote[i])
heat(i, stop) == Shares(Equity * MaxHeatPct - 100 * Heat, quote[i] - stop)
capital_alloc(i, st) == Shares(Equity * StrategyPct - 100 * Deployed(st), quote[i])
cash_room(i) == (10000 * (cash - Total([s \in Reserved |-> Pending(s)]))) \div (10065 * quote[i])

Caps(i, st, stop) ==
    {notional_max(i), risk_per_trade(i, stop), gross(i), sector(i), heat(i, stop),
     capital_alloc(i, st), cash_room(i), AdvShares}

(* RiskEngine.evaluate of an unsized entry: the smallest cap.              *)
Approved(s, stop, failing) ==
    IF EntryBlocked(s.instrument, stop, failing) THEN 0
    ELSE MaxOf(0, Min(Caps(s.instrument, s.strategy, stop)))

(* RiskEngine.evaluate of a reduction, on a real quote and on the tick:    *)
(* the entry checks do not apply, and a check that throws is allowed.      *)
Reduction(i, asked) ==
    IF ~Open \/ hold[i].qty = 0 THEN 0 ELSE MinOf(asked, hold[i].qty)

-----------------------------------------------------------------------------
(* The decision cycle.                                                     *)

(* The bound on what may happen around the cycle.                          *)
Happens == count.events < MaxEvents /\ count' = [count EXCEPT !.events = @ + 1]

marketVars == <<quote, env>>
bookVars == <<order, hold, cash, day>>

(* run_cycle: the signals on settled bars.  Shadow strategies and gated    *)
(* regimes are disposed of at once.                                        *)
Begin ==
    /\ cycle.pc = "idle" /\ env.phase = "entry" /\ count.cycles <= count.restarts
    /\ count' = [count EXCEPT !.cycles = @ + 1]
    /\ LET rest == {s \in Signals : s.use \in {"trade", "sell"}}
       IN  /\ disp' = [s \in Signals |-> IF s \in rest THEN <<>> ELSE <<s.use>>]
           /\ cycle' = IF rest = {} THEN IdleAfter("whole")
                       ELSE [Idle EXCEPT !.pc = "requote", !.todo = rest]
    /\ UNCHANGED <<marketVars, bookVars>>

(* TradePolicy.propose: a stop under the fresh quote, or under the close.  *)
StopFor(s) == (IF quote[s.instrument] = 0 THEN Close ELSE quote[s.instrument]) - StopDistance

(* After the re-quote, the proposals.                                      *)
Requoted ==
    /\ cycle.pc = "requote"
    /\ LET skipped == {s \in cycle.todo : s.use = "sell" \/ StopFor(s) <= 0}
       IN  /\ disp' = [s \in Signals |-> IF s \in skipped THEN <<"refused">> ELSE disp[s]]
           /\ cycle' = [cycle EXCEPT !.pc = "next", !.todo = @ \ skipped,
                                     !.stop = [s \in Signals |->
                                         IF s \in cycle.todo \ skipped THEN StopFor(s) ELSE 0]]
    /\ UNCHANGED <<marketVars, bookVars, count>>

(* The next proposal by rank is reviewed.                                  *)
Review(s) ==
    /\ cycle.pc = "next" /\ s \in cycle.todo
    /\ \A t \in cycle.todo : s.rank <= t.rank
    /\ cycle' = [cycle EXCEPT !.pc = "review", !.cur = {s}, !.todo = @ \ {s}]
    /\ UNCHANGED <<marketVars, bookVars, disp, count>>

CycleEnds ==
    /\ cycle.pc = "next" /\ cycle.todo = {}
    /\ cycle' = IdleAfter("whole")
    /\ UNCHANGED <<marketVars, bookVars, disp, count>>

(* DecisionEngine._dispose.  VETOED, RISK_REJECTED and POLICY_SKIPPED are  *)
(* one disposition here: "refused".                                        *)
Dispose(s, how) ==
    /\ disp' = [disp EXCEPT ![s] = Append(@, how)]
    /\ cycle' = [cycle EXCEPT !.pc = "next", !.cur = {}, !.stop[s] = 0]

Vetoed(s) ==
    /\ cycle.pc = "review" /\ cycle.cur = {s}
    /\ Dispose(s, "refused")
    /\ UNCHANGED <<marketVars, bookVars, count>>

(* DailyRiskTracker.record_order, on the OrderSubmitted event.             *)
RecordOrder(s) == [day EXCEPT !.entered = @ \cup {s.instrument}]

(* OMS.submit through the gate: a known intent is a duplicate, the HALT    *)
(* file trips the switch first, the order is recorded before it is sent.   *)
Submit(s, failing) ==
    /\ cycle.pc = "review" /\ cycle.cur = {s}
    /\ LET known == order[s].status # "none"
           stop == cycle.stop[s]
           qty == IF env.file THEN 0 ELSE Approved(s, stop, failing)
       IN  /\ env' = [env EXCEPT !.kill = @ \/ (env.file /\ ~known)]
           /\ IF known \/ qty = 0
              THEN /\ Dispose(s, IF known THEN "submitted" ELSE "refused")
                   /\ UNCHANGED <<order, day>>
              ELSE /\ order' = [order EXCEPT ![s] = [status |-> "placing", left |-> qty,
                                                     stop |-> stop, ref |-> quote[s.instrument]]]
                   /\ day' = RecordOrder(s)
                   /\ cycle' = [cycle EXCEPT !.pc = "place"]
                   /\ UNCHANGED disp
    /\ UNCHANGED <<hold, cash, quote, count>>

(* The decision cannot be recorded: the exception ends the cycle, and the  *)
(* signals that are left get no disposition.                               *)
SubmitRaises(s) ==
    /\ cycle.pc = "review" /\ cycle.cur = {s} /\ order[s].status = "none"
    /\ cycle' = IdleAfter("raised")
    /\ UNCHANGED <<marketVars, bookVars, disp, count>>

(* Mutant: an order of unknown outcome is disposed of as rejected.         *)
DispositionsRejectUnknown ==
    [working |-> "submitted", gone |-> "broker_rejected", unknown |-> "broker_rejected"]

(* _DISPOSITIONS *)
Dispositions == [working |-> "submitted", gone |-> "broker_rejected", unknown |-> "unknown"]

(* The broker's answer, unless fills came before it.                       *)
Placed(s, status) ==
    /\ cycle.pc = "place" /\ cycle.cur = {s}
    /\ order[s].status # "placing" => status = "working"
    /\ order' = [order EXCEPT ![s] = IF @.status # "placing" THEN @
                                     ELSE IF status = "gone" THEN Ended("gone")
                                     ELSE [@ EXCEPT !.status = status]]
    /\ Dispose(s, Dispositions[status])
    /\ UNCHANGED <<marketVars, hold, cash, day, count>>

-----------------------------------------------------------------------------
(* The book.                                                               *)

(* A share is bought at the quote: the order and the position together.    *)
Fill(s) ==
    LET i == s.instrument
        o == order[s]
    IN  /\ s \in Live /\ quote[i] # 0 /\ Open
        /\ order' = [order EXCEPT ![s] =
               IF o.left = 1 THEN Ended("filled")
               ELSE [o EXCEPT !.left = @ - 1,
                              !.status = IF @ = "unknown" THEN @ ELSE "working"]]
        /\ hold' = [hold EXCEPT ![i] =
               [hold[i] EXCEPT !.qty = @ + 1, !.cost = @ + quote[i],
                               !.strategy = IF hold[i].qty = 0 THEN s.strategy ELSE @]]
        /\ cash' = cash - quote[i]
        /\ UNCHANGED <<marketVars, cycle, disp, day, count>>

(* A working order is cancelled, or expires at the close.                  *)
OrderEnds(s) ==
    /\ order[s].status \in {"working", "unknown"}
    /\ order' = [order EXCEPT ![s] = Ended("gone")]
    /\ Happens
    /\ UNCHANGED <<marketVars, cycle, disp, hold, cash, day>>

(* The exit manager's stop rests under the average fill price.             *)
StopRests(i) ==
    LET at == (hold[i].cost \div hold[i].qty) - StopDistance
    IN  /\ Open /\ i \in Held /\ hold[i].stop = 0 /\ at > 0
        /\ hold' = [hold EXCEPT ![i].stop = at]
        /\ UNCHANGED <<marketVars, cycle, disp, order, cash, day, count>>

(* An exit passes the gate and fills; the trade is the day's (record_trade) *)
Exit(i, asked) ==
    /\ i \in Held /\ quote[i] # 0 /\ Reduction(i, asked) > 0
    /\ LET q == Reduction(i, asked)
           left == hold[i].qty - q
       IN  /\ hold' = [hold EXCEPT ![i] =
                  IF left = 0 THEN Flat
                  ELSE [hold[i] EXCEPT !.qty = left, !.cost = (@ * left) \div hold[i].qty]]
           /\ cash' = cash + q * quote[i]
    /\ day' = [day EXCEPT !.exited = @ \cup {i}]
    /\ Happens
    /\ UNCHANGED <<marketVars, cycle, disp, order>>

-----------------------------------------------------------------------------
(* The market, the monitor, the operator and restarts.                     *)

Poll(i, p) ==
    /\ Open /\ quote[i] \notin {0, p} /\ Happens
    /\ quote' = [quote EXCEPT ![i] = p]
    /\ UNCHANGED <<cycle, disp, bookVars, env>>

(* The first quotes of instruments that had none.                          *)
FirstPoll(S) ==
    LET missing == {i \in Instruments : quote[i] = 0}
    IN  /\ Open /\ S # {} /\ S \subseteq missing /\ (PartialPolls \/ S = missing)
        /\ quote' = [i \in Instruments |-> IF i \in S THEN Close ELSE quote[i]]
        /\ UNCHANGED <<cycle, disp, bookVars, env, count>>

(* RiskMonitor.tick: the mark, the peak, and the trip of a breach.         *)
Tick ==
    LET peak == MaxOf(day.peak, Equity)
    IN  /\ Open
        /\ day' = [day EXCEPT !.peak = peak]
        /\ env' = [env EXCEPT !.kill = @ \/ TooMuchLost \/ env.file]
        /\ <<day, env>> # <<day', env'>>
        /\ UNCHANGED <<cycle, disp, order, hold, cash, quote, count>>

(* The operator: trips a switch, writes the HALT file, re-arms.            *)
Operator ==
    /\ \E kill, file \in BOOLEAN : env' = [env EXCEPT !.kill = kill, !.file = file]
    /\ env' # env /\ (env.file /\ ~env'.file => env'.kill = env.kill)
    /\ Happens
    /\ UNCHANGED <<cycle, disp, bookVars, quote>>

(* The entry window ends, then the session.                                *)
Passes ==
    /\ Open /\ Happens
    /\ env' = [env EXCEPT !.phase = IF @ = "entry" THEN "open" ELSE "closed"]
    /\ UNCHANGED <<cycle, disp, bookVars, quote>>

(* The engine is restarted: the cycle and the quotes are gone, the book,   *)
(* the orders and the day's state are loaded.  An order that was being     *)
(* sent turns out to have arrived or not.                                  *)
Restart(st) ==
    /\ count.restarts < MaxRestarts /\ count.events < MaxEvents /\ Open
    /\ count' = [count EXCEPT !.restarts = @ + 1, !.events = @ + 1]
    /\ cycle' = Idle /\ disp' = [s \in Signals |-> <<>>]
    /\ quote' = [i \in Instruments |-> 0]
    /\ order' = [s \in Signals |->
                    IF order[s].status # "placing" THEN order[s]
                    ELSE IF st = "gone" THEN Ended(st) ELSE [order[s] EXCEPT !.status = st]]
    /\ UNCHANGED <<hold, cash, day, env>>

Init ==
    /\ cycle = Idle /\ disp = [s \in Signals |-> <<>>]
    /\ order = [s \in Signals |-> NoOrder] /\ hold = [i \in Instruments |-> Flat]
    /\ cash = Cash /\ day = [entered |-> {}, exited |-> {}, peak |-> Cash]
    /\ quote = [i \in Instruments |-> 0]
    /\ env = [phase |-> "entry", kill |-> FALSE, file |-> FALSE]
    /\ count = [cycles |-> 0, restarts |-> 0, events |-> 0]

Next ==
    \/ Begin \/ Requoted \/ CycleEnds \/ Tick \/ Operator \/ Passes
    \/ \E s \in Signals :
         \/ Review(s) \/ Vetoed(s) \/ SubmitRaises(s)
         \/ \E failing \in {{}, DataChecks} : Submit(s, failing)
         \/ \E status \in {"working", "gone", "unknown"} : Placed(s, status)
         \/ Fill(s) \/ OrderEnds(s)
    \/ \E i \in Instruments :
         \/ StopRests(i)
         \/ \E q \in 1..hold[i].qty : Exit(i, q)
         \/ \E p \in Prices : Poll(i, p)
    \/ \E S \in SUBSET Instruments : FirstPoll(S)
    \/ \E st \in {"working", "gone"} : Restart(st)

Spec == Init /\ [][Next]_vars

-----------------------------------------------------------------------------
(* Properties.                                                             *)

TypeOK ==
    /\ cycle.pc \in {"idle", "requote", "next", "review", "place"}
    /\ cycle.todo \subseteq Signals /\ cycle.cur \subseteq Signals
    /\ Cardinality(cycle.cur) <= 1
    /\ \A s \in Signals : /\ order[s].left \in Nat /\ Len(disp[s]) <= 1
                          /\ s \in Live <=> order[s].left > 0
    /\ \A i \in Instruments : hold[i].qty \in Nat /\ hold[i].cost \in Nat
    /\ quote \in [Instruments -> 0..MaxPrice] /\ day.entered \subseteq Instruments
    /\ env.phase \in {"entry", "open", "closed"}

(* What is held and still being bought, at the last price the gate had.    *)
Committed(i) ==
    hold[i].qty + Total([s \in {r \in Live : r.instrument = i} |-> order[s].left])
LastPrice(s) == IF Price(s) = 0 THEN order[s].ref ELSE Price(s)
WorthOf(i) ==
    Notional(i) + Total([s \in {r \in Live : r.instrument = i} |-> LastPrice(s) * order[s].left])

Budget == INSTANCE RiskBudget WITH
    units <- [i \in Instruments |-> Committed(i)],
    value <- [i \in Instruments |-> WorthOf(i)],
    worth <- Equity, entered <- day.entered, halted <- env.kill

(* The gate grants capacity as the budget says: whatever fills, quotes,    *)
(* trips, exits and restarts come between its awaits, entries in a cycle   *)
(* never spend the same headroom twice, a symbol is entered once a day,    *)
(* and nothing is granted by a tripped switch (RiskGate._working,          *)
(* Reservations, the portfolio checks).                                    *)
KeepsBudget == Budget!Spec

(* When an entry is granted, the loss to the stops of everything held or   *)
(* being bought is within max_heat_pct, unless a working order is quoted   *)
(* below its own stop (portfolio.heat, PositionInfo.open_risk).            *)
LossToStops ==
    Total([i \in Held |-> IF hold[i].stop = 0 THEN Notional(i)
                          ELSE Above(hold[i].qty * (quote[i] - hold[i].stop))])
    + Total([s \in Live |-> Above(Distance(s)) * order[s].left])
Underwater == \E s \in Reserved : Distance(s) < 0
HeatKept ==
    [][\A s \in Signals :
          (order[s].status = "none" /\ order'[s].status = "placing" /\ ~Underwater)
          => 100 * LossToStops' <= MaxHeatPct * Equity]_vars

(* The same of every grant: working entries are reserved, "so back-to-back *)
(* submits cannot reuse headroom" (docs/plan/PROGRESS.md, 4.2).  The code  *)
(* does not keep this: an order quoted below its stop reserves less than   *)
(* nothing, and its heat goes to others.                                   *)
HeatAlwaysKept ==
    [][\A s \in Signals :
          (order[s].status = "none" /\ order'[s].status = "placing")
          => 100 * LossToStops' <= MaxHeatPct * Equity]_vars

(* A disposition tells what became of the signal's order: a refused one    *)
(* has no order, until a restart reviews signals that were sent before it. *)
Truthful ==
    \A s \in Signals :
        /\ disp[s] = <<"refused">> /\ count.restarts = 0 => order[s].status = "none"
        /\ disp[s] = <<"broker_rejected">> => s \notin Live /\ order[s].status # "filled"
        /\ disp[s] \in {<<"submitted">>, <<"unknown">>} => order[s].status # "none"
        /\ s \in cycle.todo \cup cycle.cur => disp[s] = <<>>

(* A signal that the cycle is done with has exactly one disposition.       *)
NoneMissing ==
    cycle.pc # "idle" \/ cycle.end = "whole" =>
        \A s \in Signals \ (cycle.todo \cup cycle.cur) : Len(disp[s]) = 1

(* Every signal gets one disposition, and it is true                       *)
(* (DecisionEngine._dispose): in a cycle that runs, as soon as the cycle   *)
(* is done with the signal; after one that ended, for every signal; unless *)
(* a failing store or a restart cut the cycle off.                         *)
DispositionsTell == NoneMissing /\ Truthful

(* Every signal of a cycle that has ended, however it ended, has its       *)
(* disposition ("Every (signal, book) outcome is a SignalDisposition       *)
(* event", src/decision/engine.py).                                        *)
EveryOutcomeTold ==
    cycle.end \in {"whole", "raised"} => \A s \in Signals : disp[s] # <<>>
=============================================================================
