----------------------------- MODULE KillSwitch -----------------------------
(***************************************************************************)
(* The risk controls of one book: the kill switches                        *)
(* (src/risk/kill_switch.py), the persisted daily risk state               *)
(* (src/risk/state.py), the monitor's tick (src/risk/monitor.py), the      *)
(* gate's use of both (src/risk/gate.py) and the operator's controls       *)
(* (src/web/control.py).                                                   *)
(*                                                                         *)
(* Both records are saved at every change, so memory and store agree       *)
(* between the steps of this module; what a crash loses is where the       *)
(* running handler was.  With Torn = FALSE the process only stops between  *)
(* handlers.  Equity is a number of rupees from a small set.  Reject times *)
(* and the P&L of a strategy are abstracted to whether they reach their    *)
(* limit, and what tripped a switch to the one thing that is read of it:   *)
(* whether, and after which day, it re-arms.  Nothing trips the broker     *)
(* switch, which is left out.                                              *)
(***************************************************************************)
EXTENDS Integers, FiniteSets

LOCAL INSTANCE FiniteSetsExt

CONSTANTS
    Strategies,         \* the strategies of the book
    Exits,              \* the exits of the run; each may close several lots
    Owner,              \* Owner[x]: the strategy whose position exit x closes
    Marks,              \* what a tick can measure: equity, losing strategies, reject storm
    DailyLossPct,       \* limits.daily_loss_limit_pct, in percent
    DrawdownPct,        \* limits.max_drawdown_pct, in percent
    DailyLossAction,    \* limits.daily_loss_action
    DrawdownAction,     \* limits.drawdown_action
    MaxConsecLosses,    \* limits.strategy_max_consec_losses
    MaxEntries,         \* limits.max_entries_per_day
    RearmOnNewDay,      \* limits.rearm_on_new_day
    MaxPieces,          \* bound: closing trades per exit
    MaxDay,             \* bound: trading days
    MaxStops,           \* bound: process stops and crashes
    Torn                \* whether a crash may hit the middle of a handler

Kills == {"HALT_NEW", "FLATTEN"}

ASSUME StrategiesAssumption ==
    /\ "global" \notin Strategies
    /\ IsFiniteSet(Exits)
    /\ Owner \in [Exits -> Strategies]

ASSUME LimitsAssumption ==
    /\ Marks \subseteq [equity : Nat, losing : SUBSET Strategies, storm : BOOLEAN]
    /\ DailyLossPct \in Nat \ {0}
    /\ DrawdownPct \in Nat \ {0}
    /\ DailyLossAction \in Kills
    /\ DrawdownAction \in Kills
    /\ MaxConsecLosses \in Nat \ {0}
    /\ MaxEntries \in Nat \ {0}
    /\ RearmOnNewDay \in BOOLEAN

ASSUME BoundsAssumption ==
    MaxPieces \in Nat /\ MaxDay \in Nat \ {0} /\ MaxStops \in Nat /\ Torn \in BOOLEAN

VARIABLES
    switch,     \* the records of the global and the strategies' switches
    risk,       \* DailyRiskState (day 0: there is none yet)
    halt,       \* the HALT file: absent, or what it asks for
    today,      \* the IST date
    up,         \* whether a session is running
    pc,         \* where the running handler is
    todo,       \* the breaches that apply() still has to act on
    cur,        \* the switch being resumed: a singleton, or empty
    stops,      \* process stops so far
    pieces,     \* closing trades of each exit so far
    requests,   \* history: the halts asked for since a switch was resumed
    tally       \* history: each strategy's exits, counted one by one (see Tallied)

vars == <<switch, risk, halt, today, up, pc, todo, cur, stops, pieces, requests, tally>>

-----------------------------------------------------------------------------
(* Kill switches.                                                          *)

Switches == {"global"} \cup Strategies
KillStates == {"ARMED"} \cup Kills
Rank(state) == CASE state = "ARMED" -> 0 [] state = "HALT_NEW" -> 1 [] OTHER -> 2

Daily == {"PF_DAILY_LOSS_MTM", "STR_DAILY_LOSS"}
BreachCodes == Daily \cup {"PF_DRAWDOWN", "SYS_REJECT_STORM", "STR_CONSEC_LOSSES"}

Equities == {mark.equity : mark \in Marks}

(* A SwitchRecord: its state and, when its code is a daily loss and        *)
(* rearm_on_new_day is set, the day it lapses after (0: it does not).      *)
SwitchType == [state : KillStates, day : 0 .. MaxDay]

Record(target, code) ==
    [state |-> target, day |-> IF RearmOnNewDay /\ code \in Daily THEN today ELSE 0]

Rearmed == [state |-> "ARMED", day |-> 0]

(* Mutant: a trip sets the switch, whatever it stands at.                  *)
TripSets(sw, s, record) == [sw EXCEPT ![s] = record]

(* trip(): escalates or does nothing.                                      *)
Trip(sw, s, record) ==
    IF Rank(record.state) <= Rank(sw[s].state) THEN sw ELSE [sw EXCEPT ![s] = record]

(* Mutant: only a HALT file that says FLATTEN is acted on.                 *)
CheckFlattenFile(sw) ==
    IF halt # "FLATTEN" THEN sw ELSE Trip(sw, "global", Record(halt, "HALT_FILE"))

(* check_halt_file()                                                       *)
CheckHaltFile(sw) ==
    IF halt = "absent" THEN sw ELSE Trip(sw, "global", Record(halt, "HALT_FILE"))

(* new_day(): the records that lapse.                                      *)
Lapsed(record) == record.day \in 1 .. today - 1

-----------------------------------------------------------------------------
(* The daily risk state.                                                   *)

Breach(name, code) == [name |-> name, code |-> code]
BreachType == [name : Switches, code : BreachCodes]

RiskType ==
    [day : 0 .. MaxDay, sod : Nat, peak : Nat, last : Nat, low : Nat,
     entries : [Strategies -> 0 .. MaxEntries], losses : [Strategies -> Nat],
     lastExit : [Strategies -> SUBSET Exits], breaches : SUBSET BreachType]

NoEntries == [s \in Strategies |-> 0]

NoRisk ==
    [day |-> 0, sod |-> 0, peak |-> 0, last |-> 0, low |-> 0,
     entries |-> NoEntries, losses |-> [s \in Strategies |-> 0], lastExit |-> [s \in Strategies |-> {}], breaches |-> {}]

(* Mutant: start_day() begins the day afresh at every start.               *)
StartDayAgain(r, equity) ==
    [r EXCEPT !.day = today, !.sod = equity, !.peak = equity, !.last = equity, !.low = equity,
              !.entries = NoEntries, !.breaches = {}]

(* start_day(): today's state is kept; a new day carries the peak and the  *)
(* streaks over and starts the rest afresh.                                *)
StartDay(r, equity) ==
    IF r.day = today THEN r
    ELSE [r EXCEPT !.day = today, !.sod = equity, !.last = equity, !.low = equity,
                   !.peak = IF r.peak > equity THEN r.peak ELSE equity,
                   !.entries = NoEntries, !.breaches = {}]

(* _current() with no equity at hand: rolls from the last mark.            *)
Current(r) == StartDay(r, r.last)

(* A fall from one equity to another that reaches the daily loss limit.    *)
ReachesLimit(from, to) == from > 0 /\ (from - to) * 100 >= from * DailyLossPct

(* Mutant: the loss is measured against the last mark.                     *)
DailyLossSinceMark(r, equity) == ReachesLimit(r.last, equity)

DailyLoss(r, equity) == ReachesLimit(r.sod, equity)

InDrawdown(peak, equity) == peak > 0 /\ (peak - equity) * 100 >= peak * DrawdownPct

(* risk_tick's mark of the state, and the limits that it then finds        *)
(* crossed.                                                                *)
Marked(r, equity) ==
    [r EXCEPT !.last = equity,
              !.low = IF equity < r.low THEN equity ELSE r.low,
              !.peak = IF equity > r.peak THEN equity ELSE r.peak]

Found(r, mark) ==
    {b \in BreachType :
        \/ b = Breach("global", "PF_DAILY_LOSS_MTM") /\ DailyLoss(r, mark.equity)
        \/ b = Breach("global", "PF_DRAWDOWN") /\ InDrawdown(Marked(r, mark.equity).peak, mark.equity)
        \/ b = Breach("global", "SYS_REJECT_STORM") /\ mark.storm
        \/ \E s \in Strategies :
              \/ b = Breach(s, "STR_DAILY_LOSS") /\ s \in mark.losing /\ r.sod > 0
              \/ b = Breach(s, "STR_CONSEC_LOSSES") /\ r.losses[s] >= MaxConsecLosses}

(* What a breach asks its switch to become.                                *)
Action(b) ==
    CASE b.code = "PF_DAILY_LOSS_MTM" -> DailyLossAction
      [] b.code = "PF_DRAWDOWN" -> DrawdownAction
      [] OTHER -> "HALT_NEW"

(* Breaches are acted on in the order in which risk_tick finds them.       *)
Order(b) ==
    CASE b.code = "PF_DAILY_LOSS_MTM" -> 1
      [] b.code = "PF_DRAWDOWN" -> 2
      [] b.code = "SYS_REJECT_STORM" -> 3
      [] b.code = "STR_DAILY_LOSS" -> 4
      [] OTHER -> 5

(* Mutation: every piece of an exit counts for the streak.                 *)
RecordPiece(r, x, result) ==
    [r EXCEPT !.lastExit[Owner[x]] = {x},
              !.losses[Owner[x]] = IF result = "loss" THEN @ + 1 ELSE IF result = "win" THEN 0 ELSE @]

(* record_trade(): an exit counts once for the streak, however many lots   *)
(* it closes; the code remembers the last exit it counted.                 *)
RecordTrade(r, x, result) ==
    LET s == Owner[x]
    IN  IF r.lastExit[s] = {x} THEN r
        ELSE [r EXCEPT !.lastExit[s] = {x},
                       !.losses[s] = CASE result = "loss" -> @ + 1
                                       [] result = "win" -> 0
                                       [] OTHER -> @]

(* acknowledge_streak()                                                    *)
Acknowledged(r, s) ==
    IF r.day = 0 \/ r.losses[s] = 0 THEN r
    ELSE [r EXCEPT !.losses[s] = 0, !.breaches = @ \ {Breach(s, "STR_CONSEC_LOSSES")}]

(* The same by hand: an exit counts for the streak by its first piece.     *)
(* lost: the exits that closed at a loss since the last win, or since the  *)
(* operator re-armed the strategy; latest: the exit of the last piece;     *)
(* odd: since then another exit came between two pieces of one, or a crash *)
(* cut the re-arming short.                                                *)
TallyType == [lost : SUBSET Exits, latest : SUBSET Exits, odd : BOOLEAN]

Tallied(t, x, result) ==
    IF pieces[x] > 0 THEN [t EXCEPT !.latest = {x}, !.odd = @ \/ t.latest # {x}]
    ELSE [lost |-> CASE result = "loss" -> t.lost \cup {x}
                     [] result = "win" -> {}
                     [] OTHER -> t.lost,
          latest |-> {x}, odd |-> t.odd /\ result # "win"]

-----------------------------------------------------------------------------
(* Values are in their types.                                              *)
TypeOK ==
    /\ switch \in [Switches -> SwitchType]
    /\ risk \in RiskType
    /\ halt \in {"absent"} \cup Kills
    /\ today \in 1 .. MaxDay
    /\ up \in BOOLEAN
    /\ pc \in {"idle", "halt", "mark", "apply", "ack"}
    /\ todo \subseteq BreachType
    /\ cur \subseteq Switches
    /\ stops \in 0 .. MaxStops
    /\ pieces \in [Exits -> 0 .. MaxPieces]
    /\ requests \in [Switches -> SUBSET SwitchType]
    /\ tally \in [Strategies -> TallyType]

Init ==
    /\ switch = [s \in Switches |-> Rearmed]
    /\ risk = NoRisk
    /\ halt = "absent"
    /\ today = 1
    /\ up = FALSE
    /\ pc = "idle"
    /\ todo = {}
    /\ cur = {}
    /\ stops = 0
    /\ pieces = [x \in Exits |-> 0]
    /\ requests = [s \in Switches |-> {}]
    /\ tally = [s \in Strategies |-> [lost |-> {}, latest |-> {}, odd |-> FALSE]]

(* The HALT file as check_halt_file() meets it.                            *)
HaltSeen ==
    /\ switch' = CheckHaltFile(switch)
    /\ requests' = IF halt = "absent" THEN requests
                   ELSE [requests EXCEPT !["global"] = @ \cup {Record(halt, "HALT_FILE")}]

Running == up /\ pc = "idle"

-----------------------------------------------------------------------------
(* RiskMonitor.tick: new_day(), check_halt_file(), risk_tick(), apply().   *)
(* One await-free handler; its steps end where something is stored.        *)

TickStarts ==
    /\ Running
    /\ switch' = [s \in Switches |-> IF Lapsed(switch[s]) THEN Rearmed ELSE switch[s]]
    /\ requests' = [s \in Switches |-> {q \in requests[s] : ~Lapsed(q)}]
    /\ pc' = "halt"
    /\ UNCHANGED <<risk, halt, today, up, todo, cur, stops, pieces, tally>>

TickHalt ==
    /\ pc = "halt"
    /\ HaltSeen
    /\ pc' = "mark"
    /\ UNCHANGED <<risk, halt, today, up, todo, cur, stops, pieces, tally>>

(* risk_tick(): the new breaches are recorded, and stored, before any      *)
(* switch is tripped for them.                                             *)
TickMarks(mark) ==
    LET r == StartDay(risk, mark.equity)
        new == Found(r, mark) \ r.breaches
    IN  /\ pc = "mark"
        /\ risk' = [Marked(r, mark.equity) EXCEPT !.breaches = @ \cup new]
        /\ todo' = new
        /\ requests' = [s \in Switches |->
               requests[s] \cup {Record(Action(b), b.code) : b \in {n \in new : n.name = s}}]
        /\ pc' = IF new = {} THEN "idle" ELSE "apply"
        /\ UNCHANGED <<switch, halt, today, up, cur, stops, pieces, tally>>

TickApplies(b) ==
    /\ pc = "apply"
    /\ b \in todo
    /\ \A other \in todo : other.name \in {b.name, "global"} => Order(b) <= Order(other)
    /\ switch' = Trip(switch, b.name, Record(Action(b), b.code))
    /\ todo' = todo \ {b}
    /\ pc' = IF todo = {b} THEN "idle" ELSE "apply"
    /\ UNCHANGED <<risk, halt, today, up, cur, stops, pieces, requests, tally>>

-----------------------------------------------------------------------------
(* RiskGate on an entry of strategy s: the HALT file first, then the       *)
(* switches and the checks on the risk state.                              *)
EntriesToday == MapThenSumSet(LAMBDA s : risk.entries[s], Strategies)

MayEnter(sw, s) ==
    /\ sw["global"].state = "ARMED"
    /\ sw[s].state = "ARMED"
    /\ risk.day = today => risk.losses[s] < MaxConsecLosses /\ EntriesToday < MaxEntries

(* The order is submitted, and record_order() counts it.                   *)
Enter(s) ==
    /\ Running
    /\ MayEnter(CheckHaltFile(switch), s)
    /\ HaltSeen
    /\ risk' = IF risk.day = 0 THEN risk   \* _current() raises; the OMS goes on
               ELSE [Current(risk) EXCEPT !.entries[s] = @ + 1]
    /\ UNCHANGED <<halt, today, up, pc, todo, cur, stops, pieces, tally>>

(* An entry that the gate vetoes, for its switches or for any other of its *)
(* checks.                                                                 *)
Vetoed ==
    /\ Running
    /\ HaltSeen
    /\ UNCHANGED <<risk, halt, today, up, pc, todo, cur, stops, pieces, tally>>

(* An order that reduces risk: no switch holds it back, and it counts as   *)
(* no entry.                                                               *)
Reduce ==
    /\ Running
    /\ HaltSeen
    /\ risk' = IF risk.day = 0 THEN risk ELSE Current(risk)
    /\ UNCHANGED <<halt, today, up, pc, todo, cur, stops, pieces, tally>>

(* TradeClosed: a piece of exit x.                                         *)
TradeCloses(x, result) ==
    /\ Running
    /\ pieces[x] < MaxPieces
    /\ pieces' = [pieces EXCEPT ![x] = @ + 1]
    /\ risk' = IF risk.day = 0 THEN risk ELSE RecordTrade(Current(risk), x, result)
    /\ tally' = IF risk.day = 0 THEN tally
                ELSE [tally EXCEPT ![Owner[x]] = Tallied(@, x, result)]
    /\ UNCHANGED <<switch, halt, today, up, pc, todo, cur, stops, requests>>

-----------------------------------------------------------------------------
(* The operator, with or without a running session (Controls).             *)

OperatorTrips(target, code) ==
    /\ pc = "idle"
    /\ switch' = Trip(switch, "global", Record(target, code))
    /\ requests' = [requests EXCEPT !["global"] = @ \cup {Record(target, code)}]
    /\ UNCHANGED <<risk, halt, today, up, pc, todo, cur, stops, pieces, tally>>

(* Mutant: the HALT file does not stand in the way of a resume.            *)
ResumesAlways(s) == pc = "idle" /\ switch[s].state # "ARMED"

(* resume() is refused for the global switch while the HALT file exists.   *)
Resumes(s) ==
    /\ pc = "idle"
    /\ switch[s].state # "ARMED"
    /\ s = "global" => halt = "absent"

Resume(s) ==
    /\ Resumes(s)
    /\ switch' = [switch EXCEPT ![s] = Rearmed]
    /\ requests' = [requests EXCEPT ![s] = {}]
    /\ tally' = [u \in Strategies |-> IF u = s THEN [tally[u] EXCEPT !.lost = {}, !.odd = FALSE]
                                      ELSE tally[u]]
    /\ cur' = {s}
    /\ pc' = "ack"
    /\ UNCHANGED <<risk, halt, today, up, todo, stops, pieces>>

(* Mutant: resume() does not tell the risk tracker.                        *)
AcknowledgeNothing(s) ==
    /\ pc = "ack" /\ cur = {s}
    /\ cur' = {}
    /\ pc' = "idle"
    /\ UNCHANGED <<switch, risk, halt, today, up, todo, stops, pieces, requests, tally>>

(* on_resume: a strategy's streak is acknowledged.                         *)
Acknowledge(s) ==
    /\ pc = "ack" /\ cur = {s}
    /\ risk' = IF s \in Strategies THEN Acknowledged(risk, s) ELSE risk
    /\ cur' = {}
    /\ pc' = "idle"
    /\ UNCHANGED <<switch, halt, today, up, todo, stops, pieces, requests, tally>>

(* The HALT file is written or removed by hand.                            *)
HaltFile(content) ==
    /\ halt' = content
    /\ halt' # halt
    /\ UNCHANGED <<switch, risk, today, up, pc, todo, cur, stops, pieces, requests, tally>>

-----------------------------------------------------------------------------
(* A session starts.  Its PRE_OPEN hook calls start_day(), unless the hook *)
(* fails before that: then the first tick or event rolls the day.          *)
SessionStarts(equity, hookFails) ==
    /\ ~up /\ pc = "idle"
    /\ up' = TRUE
    /\ risk' = IF hookFails THEN risk ELSE StartDay(risk, equity)
    /\ UNCHANGED <<switch, halt, today, pc, todo, cur, stops, pieces, requests, tally>>

Dies ==
    /\ stops < MaxStops
    /\ stops' = stops + 1
    /\ up' = FALSE
    /\ pc' = "idle"
    /\ todo' = {}
    /\ cur' = {}
    /\ tally' = [s \in Strategies |-> IF s \in cur THEN [tally[s] EXCEPT !.odd = TRUE] ELSE tally[s]]
    /\ UNCHANGED <<switch, risk, halt, today, pieces, requests>>

Stop == up /\ pc = "idle" /\ Dies

Crash == Torn /\ pc # "idle" /\ Dies

NextDay ==
    /\ ~up /\ pc = "idle"
    /\ today < MaxDay
    /\ today' = today + 1
    /\ UNCHANGED <<switch, risk, halt, up, pc, todo, cur, stops, pieces, requests, tally>>

Tick ==
    \/ TickStarts \/ TickHalt
    \/ \E mark \in Marks : TickMarks(mark)
    \/ \E b \in BreachType : TickApplies(b)

Next ==
    \/ Tick
    \/ \E s \in Strategies : Enter(s)
    \/ Vetoed \/ Reduce
    \/ \E x \in Exits, result \in {"loss", "win", "even"} : TradeCloses(x, result)
    \/ OperatorTrips("HALT_NEW", "API_HALT") \/ OperatorTrips("FLATTEN", "API_FLATTEN")
    \/ \E s \in Switches : Resume(s) \/ Acknowledge(s)
    \/ \E content \in {"absent"} \cup Kills : HaltFile(content)
    \/ \E equity \in Equities, hookFails \in BOOLEAN : SessionStarts(equity, hookFails)
    \/ Stop \/ Crash \/ NextDay

Spec == Init /\ [][Next]_vars

(* The monitor is a periodic task: while a session runs its tick comes up  *)
(* again and again, and a handler that has started finishes.  A session    *)
(* that has stopped is started again.                                      *)
FairSpec ==
    /\ Spec
    /\ SF_vars(Tick)
    /\ WF_vars(\E s \in Switches : Acknowledge(s))
    /\ WF_vars(\E equity \in Equities : SessionStarts(equity, FALSE))

-----------------------------------------------------------------------------
(* Switches latch (KillSwitchRegistry): between handlers every switch      *)
(* stands at least where each breach, HALT file and operator since its     *)
(* last resume has asked it to stand; only daily-loss requests of earlier  *)
(* days lapse, and only with rearm_on_new_day.                             *)
Latched ==
    pc = "idle" =>
        \A s \in Switches : \A q \in requests[s] : Rank(q.state) <= Rank(switch[s].state)

(* No entry slips through (RiskGate, record_order): no order that opens is *)
(* counted for a strategy while a HALT file exists, or while anything that *)
(* was asked of the global or its own switch since their last resume is    *)
(* outstanding.                                                            *)
Halted(s) == halt # "absent" \/ requests["global"] # {} \/ requests[s] # {}
NoEntryWhileHalted ==
    [][\A s \in Strategies :
          Halted(s) => risk'.entries[s] <= (IF risk'.day = risk.day THEN risk.entries[s] ELSE 0)]_vars

(* A losing streak is earned, and none is forgotten (record_trade,         *)
(* acknowledge_streak, start_day): over days, stops and crashes it is the  *)
(* number of exits, however many pieces each closed in, that lost since    *)
(* the last win or since the operator re-armed the strategy.  Two cases    *)
(* are outside: the pieces of two exits that alternate (only the last exit *)
(* is remembered), and a crash between the re-arming and its               *)
(* acknowledgement.                                                        *)
StreakIsEarned ==
    pc = "idle" =>
        \A s \in Strategies : tally[s].odd \/ risk.losses[s] = Cardinality(tally[s].lost)

(* An exit is one loss for the streak, in however many pieces it closes    *)
(* ("it is one win or loss for the streak", record_trade).                 *)
ExitCountsOnce ==
    \A s \in Strategies :
        risk.losses[s] <= Cardinality({x \in Exits : Owner[x] = s /\ pieces[x] > 0})

(* A strategy that an operator has re-armed starts from zero ("count it    *)
(* from zero", acknowledge_streak).                                        *)
StreakFromZero ==
    pc = "idle" => \A s \in Strategies : risk.losses[s] <= Cardinality(tally[s].lost)

(* A mark at or below the daily loss limit is never forgotten (risk_tick,  *)
(* start_day): whatever restarts follow on that day, the breach is on      *)
(* record.                                                                 *)
LossOnRecord ==
    ReachesLimit(risk.sod, risk.low) =>
        Breach("global", "PF_DAILY_LOSS_MTM") \in risk.breaches

(* A restart never resets the start-of-day equity, and the peak never      *)
(* falls (start_day).                                                      *)
DayIsKept ==
    [][/\ risk'.peak >= risk.peak
       /\ risk'.day >= risk.day
       /\ risk'.day = risk.day => /\ risk'.sod = risk.sod
                                  /\ risk'.low <= risk.low
                                  /\ \A s \in Strategies : risk'.entries[s] >= risk.entries[s]]_vars

(* A HALT file that stays halts the book for good (check_halt_file,        *)
(* resume): the global switch trips and, operator and new days             *)
(* notwithstanding, stays tripped.                                         *)
HaltFileHolds ==
    <>[](halt # "absent") => <>[](switch["global"].state # "ARMED")
=============================================================================
