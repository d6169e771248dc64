----------------------------- MODULE Evaluation -----------------------------
(***************************************************************************)
(* The paired-book experiment's bookkeeping over several days: the cycle's *)
(* dispositions (src/decision/engine.py), the shadow ledger that follows   *)
(* the counterfactual of every signal (src/evaluation/shadow_ledger.py),   *)
(* the daily report (daily_report.py; make_reporter in src/engine/live.py, *)
(* scripts/daily_report.py) with the risk state it takes the day's low     *)
(* from (src/risk/state.py), and the nightly review (review.py).           *)
(*                                                                         *)
(* The ledger emits its events one by one and saves its state at the end   *)
(* of the handler: the process may die anywhere between, and what is       *)
(* loaded afterwards is the last save.  A restart on the same day runs the *)
(* hooks of the states it enters again.                                    *)
(***************************************************************************)
EXTENDS Integers, Sequences, FiniteSetsExt, SequencesExt

CONSTANTS
    Signals,        \* signal ids: a strategy on an instrument's settled bar
    DayOf,          \* the day each signal's bar makes it fire
    Books,          \* the books of the experiment, the primary one first
    Answers,        \* per book: what its signals may come to (a veto needs an advisor)
    Falls,          \* per day: how far the equity of a book may fall below its start
    MaxHold,        \* max_hold_days of the exit policy
    MaxDay,         \* bound: days
    MaxCrashes      \* bound: times the process dies

ASSUME EvaluationAssumption ==
    /\ IsFiniteSet(Signals) /\ DayOf \in [Signals -> Nat]
    /\ Books \in Seq(Range(Books)) \ {<<>>}
    /\ Falls \in [1..MaxDay -> Nat]
    /\ MaxHold \in Nat /\ MaxDay \in Nat \ {0} /\ MaxCrashes \in Nat

VARIABLES
    day,        \* the IST date
    clock,      \* the session state: 1 up to the entry window, 2 after it, 3 report
    eng,        \* the engine: up, and the hooks that ran today
    cycle,      \* the dispositions the cycle has left: book by book, in order
    journal,    \* the event log, indexed by type as the report reads it
    ledger,     \* the shadow ledger's state in memory
    saved,      \* its last save
    risk,       \* per book: the tracker's daily state, saved as it changes
    files,      \* per day: the report on disk
    review,     \* the trades review_day has left
    crashes     \* what the bound counts

evaluationVars == <<day, clock, eng, cycle, journal, ledger, saved, risk, files, review, crashes>>

(* dropped is history: the counterfactuals given up at their entry.        *)
EmptyLedger == [seen |-> {}, pending |-> {}, open |-> {}, settling |-> {}, dropped |-> {}]
Starting == [up |-> TRUE, pre |-> FALSE, started |-> FALSE, cycled |-> FALSE,
             marked |-> FALSE, written |-> FALSE, reported |-> FALSE]
NoReport == [of |-> 0, body |-> <<>>]

EventKinds == {"ProcessStarted", "SignalGenerated", "SignalDisposition", "TradeClosed", "MarkToMarket",
          "ShadowTradeOpened", "ShadowTradeClosed", "ShadowAlphaSettled", "TradeReview",
          "DailyRiskStateRolled", "LLMCall", "Alert"}
(* The kinds that a day has no more of once its report is written.         *)
DayKinds == EventKinds \ {"TradeReview", "DailyRiskStateRolled", "LLMCall", "Alert"}
Nobody == "-"
BookIds == Range(Books)

Ev(kind, s, b, val) == [kind |-> kind, sig |-> s, book |-> b, day |-> day, val |-> val]
(* A set of events, in some order.                                         *)
Emit(lg, es) == [k \in EventKinds |-> lg[k] \o SetToSeq({e \in es : e.kind = k})]

-----------------------------------------------------------------------------
(* The report: what the log has of the day and of those before it, what    *)
(* the caller passes in, and what the log is still to have of the day.     *)
AnyBook == BookIds \cup {Nobody}

(* _Events.of: the events of a kind, by book and day.                      *)
Of(lg, kind, books, days) ==
    {i \in DOMAIN lg[kind] : lg[kind][i].book \in books /\ lg[kind][i].day \in days}
Signalled(lg, kind, is, s) == {i \in is : lg[kind][i].sig = s}

VetoedBy(lg, b, d) ==
    LET disposed == lg["SignalDisposition"]
    IN  {disposed[i].sig : i \in {j \in Of(lg, "SignalDisposition", {b}, 1..d) : disposed[j].val = "vetoed"}}

(* Mutation: every outcome in the log, whenever it was settled.            *)
OutcomesEver(lg, d) == DOMAIN lg["ShadowTradeClosed"]
(* The closed counterfactuals known on day d.                              *)
Outcomes(lg, d) == Of(lg, "ShadowTradeClosed", AnyBook, 1..d)

(* veto_precision: of a signal closed twice, the last outcome counts.      *)
VetoPrecision(lg, b, d) ==
    LET closed  == lg["ShadowTradeClosed"]
        settled == VetoedBy(lg, b, d) \cap {closed[i].sig : i \in Outcomes(lg, d)}
        last(s) == closed[Max(Signalled(lg, "ShadowTradeClosed", Outcomes(lg, d), s))]
    IN  [vetoes  |-> Cardinality(VetoedBy(lg, b, d)),
         settled |-> Cardinality(settled),
         correct |-> Cardinality({s \in settled : last(s).val = "loss"})]

LastMark(lg, b, days) ==
    LET marks == Of(lg, "MarkToMarket", {b}, days)
    IN  IF marks = {} THEN -1 ELSE lg["MarkToMarket"][Max(marks)].val

Capital(lg, b, d) ==
    [start |-> LastMark(lg, b, 1..(d - 1)), end |-> LastMark(lg, b, {d})]

(* A closed trade is explained when its decision's signal is on record.    *)
Integrity(lg, b, d) ==
    LET closed == Of(lg, "TradeClosed", {b}, {d})
        fired  == Of(lg, "SignalGenerated", AnyBook, 1..MaxDay)
    IN  [closed    |-> Cardinality(closed),
         explained |-> Cardinality({i \in closed :
             Signalled(lg, "SignalGenerated", fired, lg["TradeClosed"][i].sig) # {}})]

Rejections(lg, b, d) ==
    Cardinality({i \in Of(lg, "SignalDisposition", {b}, {d}) : lg["SignalDisposition"][i].val # "submitted"})

(* A book against the primary one.                                         *)
Comparison(lg, b, d) == Capital(lg, b, d).end - Capital(lg, Books[1], d).end

(* How often the process was started again that day.                       *)
Restarts(lg, d) == Max({0, Cardinality(Of(lg, "ProcessStarted", AnyBook, {d})) - 1})

(* What of a report goes by the day's own events.                          *)
DayPart(lg, d) ==
    [restarts |-> Restarts(lg, d),
     books    |-> [b \in BookIds |->
        [capital |-> Capital(lg, b, d), integrity |-> Integrity(lg, b, d),
         missed |-> Rejections(lg, b, d), veto |-> VetoPrecision(lg, b, d),
         versus |-> Comparison(lg, b, d)]]]

(* The intraday low: the live tracker's, else that of the state which the  *)
(* next session rolled.                                                    *)
Unknown == -1
NoLows == [b \in BookIds |-> Unknown]
Rolled(lg, b, d) ==
    LET kind == "DailyRiskStateRolled"
    IN  {lg[kind][i].val.low : i \in {j \in Of(lg, kind, {b}, 1..MaxDay) : lg[kind][j].val.date = d}}
Low(lg, b, d, inputs) ==
    IF inputs.lows[b] # Unknown THEN inputs.lows[b] ELSE Max(Rolled(lg, b, d) \cup {Unknown})

(* The index's return of the day, and the newest close known; the equal-   *)
(* weight return of the universe's latest quotes.                          *)
Market(d, inputs) ==
    [nifty |-> d <= inputs.index, asOf |-> Min({d, inputs.index}), weight |-> inputs.weight]

(* _ai and net AI value: the calls charged to the book so far (here those  *)
(* of the review; the advisors' come before the report).                   *)
ChargedCalls(lg, b, days) == Cardinality(Of(lg, "LLMCall", {b}, days))
NetValue(lg, b, d) == [gross |-> Comparison(lg, b, d), spend |-> ChargedCalls(lg, b, 1..d)]

BuildReport(lg, d, inputs) ==
    [own    |-> DayPart(lg, d),
     low    |-> [b \in BookIds |-> Low(lg, b, d, inputs)],
     market |-> Market(d, inputs),
     net    |-> [b \in BookIds |-> NetValue(lg, b, d)],
     alerts |-> Cardinality(Of(lg, "Alert", AnyBook, {d}))]

-----------------------------------------------------------------------------
(* A synchronous handler: it emits events and then saves.  The process may *)
(* die in it, after any of its events.                                     *)
Handler(es, state, engine) ==
    \/ /\ journal' = Emit(journal, es) /\ ledger' = state /\ saved' = state /\ eng' = engine
       /\ UNCHANGED <<cycle, review, crashes>>
    \/ /\ crashes < MaxCrashes
       /\ \E emitted \in SUBSET es : journal' = Emit(journal, emitted)
       /\ eng' = [Starting EXCEPT !.up = FALSE]
       /\ ledger' = EmptyLedger /\ cycle' = <<>>
       /\ review' = <<>>
       /\ crashes' = crashes + 1 /\ UNCHANGED saved

(* Mutation: a counterfactual whose index closes are unknown is dropped.   *)
RemainsNone(settling, known) == {}
(* settle_alpha: what is left when only some index closes are known.       *)
Remains(settling, known) == {x \in settling : ~(known /\ x.exit < day)}

(* on_pre_open: the history may not load.                                  *)
PreOpen(known) ==
    /\ eng.up /\ ~eng.pre
    /\ LET settled == {x \in ledger.settling : known /\ x.exit < day}
       IN  Handler({Ev("ShadowAlphaSettled", x.sig, Nobody, "-") : x \in settled},
                   [ledger EXCEPT !.settling = Remains(@, known)], [eng EXCEPT !.pre = TRUE])
    /\ UNCHANGED <<day, clock, risk, files>>

(* Mutation: the state that is rolled is today's.                          *)
RolledAfter(b) == [date |-> risk[b].date, low |-> 0]
(* The state of the book's last day, if it had one, when a new day starts. *)
RolledState(b) == risk[b]

(* start_day, book by book: the old day's state is an event, the new is    *)
(* saved.                                                                  *)
StartDay(n) ==
    /\ eng.up /\ eng.pre /\ risk[Books[n]].date < day
    /\ \A m \in 1..(n - 1) : risk[Books[m]].date = day
    /\ LET b == Books[n]
       IN  /\ Handler({Ev("DailyRiskStateRolled", Nobody, b, old) :
                          old \in {RolledState(b)} \cap [date : 1..MaxDay, low : Nat]}, ledger, eng)
           /\ risk' = IF crashes' = crashes THEN [risk EXCEPT ![b] = [date |-> day, low |-> 0]] ELSE risk
    /\ UNCHANGED <<day, clock, files>>

DayStarted == eng.pre /\ \A b \in BookIds : risk[b].date = day

(* risk_tick: the equity is lower than it has been today.                  *)
RiskTick(b) ==
    /\ eng.up /\ eng.started /\ clock <= 2 /\ risk[b].low < Falls[day]
    /\ risk' = [risk EXCEPT ![b].low = @ + 1]
    /\ UNCHANGED <<day, clock, eng, cycle, journal, ledger, saved, files, review, crashes>>

(* _open_session: counterfactuals held for max_hold_days exit next.        *)
SessionStart ==
    /\ eng.up /\ DayStarted /\ ~eng.started /\ clock <= 2
    /\ ledger' = [ledger EXCEPT !.open = {[t EXCEPT !.time = @ \/ day - t.on >= MaxHold] : t \in @}]
    /\ saved' = ledger'
    /\ eng' = [eng EXCEPT !.started = TRUE]
    /\ UNCHANGED <<day, clock, cycle, journal, risk, files, review, crashes>>

(* A quote is "below" the stop, "within", "above" the target, or so "dear" *)
(* that the notional does not buy one share: then nothing is opened.       *)
ClosesAt(t, price) == t.time \/ price # "within"

(* _close: the net result of leaving at this price.                        *)
Outcome(price) == IF price \in {"above", "dear"} THEN "gain" ELSE "loss"

(* _open: the counterfactual, dated by the IST day of its quote.           *)
Entered(s) == [sig |-> s, on |-> day, time |-> FALSE]

OnQuote(s, price) ==
    /\ eng.up /\ eng.started /\ clock <= 2
    /\ LET waiting  == {s} \cap ledger.pending
           entering == IF price = "dear" THEN {} ELSE waiting
           closing  == {t \in ledger.open : t.sig = s /\ ClosesAt(t, price)}
       IN  /\ waiting # {} \/ closing # {}
           /\ Handler({Ev("ShadowTradeOpened", x, Nobody, "-") : x \in entering}
                      \cup {Ev("ShadowTradeClosed", t.sig, Nobody, Outcome(price)) : t \in closing},
                      [ledger EXCEPT !.pending = @ \ waiting,
                                     !.dropped = @ \cup (waiting \ entering),
                                     !.open = (@ \ closing) \cup {Entered(x) : x \in entering},
                                     !.settling = @ \cup {[sig |-> t.sig, exit |-> day] : t \in closing}], eng)
    /\ UNCHANGED <<day, clock, risk, files>>

-----------------------------------------------------------------------------
(* run_cycle: the signals, then each book's dispositions over its awaits.  *)
Fires == {s \in Signals : DayOf[s] = day}

RunCycle ==
    /\ eng.up /\ eng.started /\ clock = 1 /\ ~eng.cycled /\ cycle = <<>> /\ Fires # {}
    /\ journal' = Emit(journal, {Ev("SignalGenerated", s, Nobody, "-") : s \in Fires})
    /\ cycle' = [n \in DOMAIN Books |-> SetToSeq({<<s, Books[n]>> : s \in Fires})]
    /\ UNCHANGED <<day, clock, eng, ledger, saved, risk, files, review, crashes>>

Dispose(how) ==
    /\ eng.up /\ cycle # <<>>
    /\ LET next == Head(Head(cycle))
           rest == Tail(Head(cycle))
       IN  /\ how \in Answers[next[2]]
           /\ journal' = Emit(journal, {Ev("SignalDisposition", next[1], next[2], how)})
           /\ cycle' = IF rest = <<>> THEN Tail(cycle) ELSE <<rest>> \o Tail(cycle)
    /\ eng' = [eng EXCEPT !.cycled = cycle' = <<>>]
    /\ UNCHANGED <<day, clock, ledger, saved, risk, files, review, crashes>>

(* track: the signals of the cycle that are new to the ledger.             *)
NewSignals(seen) == Fires \ seen

Track ==
    /\ eng.up /\ eng.cycled /\ clock = 1 /\ NewSignals(ledger.seen) # {}
    /\ Handler({}, [ledger EXCEPT !.seen = @ \cup NewSignals(ledger.seen),
                                    !.pending = @ \cup NewSignals(ledger.seen)], eng)
    /\ UNCHANGED <<day, clock, risk, files>>

(* A position the book entered on a signal is closed.                      *)
CloseTrade(s, b) ==
    /\ eng.up /\ eng.started /\ clock <= 2
    /\ \E e \in Range(journal["SignalDisposition"]) : e.sig = s /\ e.book = b /\ e.val = "submitted"
    /\ ~\E e \in Range(journal["TradeClosed"]) : e.sig = s /\ e.book = b
    /\ journal' = Emit(journal, {Ev("TradeClosed", s, b, "-")})
    /\ UNCHANGED <<day, clock, eng, cycle, ledger, saved, risk, files, review, crashes>>

-----------------------------------------------------------------------------
(* REPORT: each book's mark, the report's two files, the review.           *)
Equity(b) == Cardinality(Of(journal, "TradeClosed", {b}, 1..day))

MarkBooks ==
    /\ eng.up /\ DayStarted /\ clock = 3 /\ ~eng.marked
    /\ journal' = Emit(journal, {Ev("MarkToMarket", Nobody, b, Equity(b)) : b \in BookIds})
    /\ eng' = [eng EXCEPT !.marked = TRUE]
    /\ UNCHANGED <<day, clock, cycle, ledger, saved, risk, files, review, crashes>>

(* The events of a day, of those kinds.                                    *)
OnDay(lg, d) == UNION {{k} \X Of(lg, k, AnyBook, {d}) : k \in DayKinds}
CountOn(lg, d) == Cardinality(OnDay(lg, d))

(* What the hook passes: the closes up to yesterday, if the history was    *)
(* loaded; the quotes of the session this process was in; today's lows.    *)
Live(index) ==
    [index |-> index, weight |-> eng.started, lows |-> [b \in BookIds |-> risk[b].low]]
(* What scripts/daily_report.py passes: the closes the tape has.           *)
Offline == [index |-> day - 1, weight |-> FALSE, lows |-> NoLows]

(* write_report: the json, then the markdown, each replaced as a whole.    *)
WriteJson ==
    /\ eng.up /\ eng.marked /\ ~eng.written
    /\ \E index \in {0, day - 1} :
        files' = [files EXCEPT ![day].json =
                    [of |-> CountOn(journal, day), body |-> BuildReport(journal, day, Live(index))]]
    /\ eng' = [eng EXCEPT !.written = TRUE]
    /\ UNCHANGED <<day, clock, cycle, journal, ledger, saved, risk, review, crashes>>

(* review_day: the trades that have a review.                              *)
Reviewed == {<<e.sig, e.book>> : e \in Range(journal["TradeReview"])}

(* The day's closed trades with no review, read once, before any call.     *)
ToReview ==
    SetToSeq({e \in Range(journal["TradeClosed"]) : e.day = day /\ <<e.sig, e.book>> \notin Reviewed})

(* The markdown, the alert that both are written, and what to review.      *)
WriteMarkdown ==
    /\ eng.up /\ eng.written /\ ~eng.reported
    /\ files' = [files EXCEPT ![day].md = files[day].json]
    /\ journal' = Emit(journal, {Ev("Alert", Nobody, Nobody, "daily_report")})
    /\ eng' = [eng EXCEPT !.reported = TRUE]
    /\ review' = ToReview
    /\ UNCHANGED <<day, clock, cycle, ledger, saved, risk, crashes>>

(* The call is on record and charged to the trade's book; one that fails   *)
(* leaves the trade without a review.                                      *)
ReviewTrade(ok) ==
    /\ review # <<>>
    /\ LET about(kind) == Ev(kind, review[1].sig, review[1].book, "-")
       IN  journal' = Emit(journal, {about("LLMCall")} \cup IF ok THEN {about("TradeReview")} ELSE {})
    /\ review' = Tail(review)
    /\ UNCHANGED <<day, clock, eng, cycle, ledger, saved, risk, files, crashes>>

-----------------------------------------------------------------------------
(* Time, crashes and restarts.                                             *)
HooksDone ==
    /\ DayStarted /\ cycle = <<>> /\ (clock <= 2 => eng.started)
    /\ clock = 1 => Fires = {} \/ (eng.cycled /\ NewSignals(ledger.seen) = {})
    /\ clock = 3 => eng.reported
    /\ review = <<>>

Tick ==
    /\ eng.up => HooksDone
    /\ IF clock < 3
       THEN clock' = clock + 1 /\ UNCHANGED <<day, eng>>
       ELSE /\ day < MaxDay /\ day' = day + 1 /\ clock' = 1
            /\ eng' = [Starting EXCEPT !.up = eng.up]
    /\ UNCHANGED <<cycle, journal, ledger, saved, risk, files, review, crashes>>

Crash ==
    /\ eng.up /\ crashes < MaxCrashes
    /\ eng' = [Starting EXCEPT !.up = FALSE]
    /\ ledger' = EmptyLedger /\ cycle' = <<>> /\ crashes' = crashes + 1
    /\ review' = <<>>
    /\ UNCHANGED <<day, clock, journal, saved, risk, files>>

Restart ==
    /\ ~eng.up
    /\ eng' = Starting /\ ledger' = saved
    /\ journal' = Emit(journal, {Ev("ProcessStarted", Nobody, Nobody, "-")})
    /\ UNCHANGED <<day, clock, cycle, saved, risk, files, review, crashes>>

EvaluationInit ==
    /\ day = 1 /\ clock = 1 /\ eng = Starting /\ cycle = <<>>
    /\ journal = Emit([k \in EventKinds |-> <<>>], {Ev("ProcessStarted", Nobody, Nobody, "-")})
    /\ ledger = EmptyLedger /\ saved = EmptyLedger
    /\ risk = [b \in BookIds |-> [date |-> 0, low |-> 0]]
    /\ files = [d \in 1..MaxDay |-> [json |-> NoReport, md |-> NoReport]]
    /\ review = <<>> /\ crashes = 0

EvaluationNext ==
    \/ \E known \in BOOLEAN : PreOpen(known)
    \/ \E n \in DOMAIN Books : StartDay(n)
    \/ SessionStart \/ \E b \in BookIds : RiskTick(b)
    \/ \E s \in Signals, p \in {"below", "within", "above", "dear"} : OnQuote(s, p)
    \/ RunCycle \/ Track
    \/ \E how \in {"submitted", "vetoed", "risk_rejected"} : Dispose(how)
    \/ \E s \in Signals, b \in BookIds : CloseTrade(s, b)
    \/ MarkBooks \/ WriteJson \/ WriteMarkdown
    \/ \E ok \in BOOLEAN : ReviewTrade(ok)
    \/ Tick \/ Crash \/ Restart

EvaluationSpec == EvaluationInit /\ [][EvaluationNext]_evaluationVars

-----------------------------------------------------------------------------
(* Properties.                                                             *)
SigsOf(items) == {x.sig : x \in items}

(* Type: the day's hooks, the ledger's state, what is left to do.          *)
EvaluationTypeOK ==
    /\ day \in 1..MaxDay /\ clock \in 1..3 /\ eng \in [DOMAIN Starting -> BOOLEAN]
    /\ Range(cycle) \subseteq Seq(Signals \X BookIds) \ {<<>>} /\ crashes \in 0..MaxCrashes
    /\ \A l \in {ledger, saved} :
        /\ l.seen \subseteq Signals /\ l.pending \subseteq Signals
        /\ \A t \in l.open : t.sig \in Signals /\ t.on \in 1..day
        /\ \A x \in l.settling : x.sig \in Signals /\ x.exit \in 1..day
    /\ \A k \in EventKinds : \A e \in Range(journal[k]) : e.kind = k /\ e.day \in 1..day
    /\ \A b \in BookIds : risk[b].date \in 0..day /\ risk[b].low \in Nat
    /\ \A d \in (day + 1)..MaxDay : files[d].json = NoReport

(* A signal has one counterfactual, although a restart in the entry window *)
(* runs the cycle again and a crash makes the ledger repeat what it        *)
(* emitted: it waits for a quote, or is open once, or waits to settle.     *)
(* And no crash between the ledger's events and its save loses one: what   *)
(* was tracked is still followed, or its alpha was settled (or a share of  *)
(* it costs more than the notional).                                       *)
Followed(l) == <<l.pending, SigsOf(l.open), SigsOf(l.settling)>>
EachFollowedOnce ==
    /\ \A l \in {ledger, saved} :
        /\ \A i, j \in 1..3 : i # j => Followed(l)[i] \cap Followed(l)[j] = {}
        /\ Cardinality(SigsOf(l.open)) = Cardinality(l.open)
        /\ Cardinality(SigsOf(l.settling)) = Cardinality(l.settling)
        /\ UNION Range(Followed(l)) \subseteq l.seen
    /\ \A s \in saved.seen \ saved.dropped :
        \/ s \in UNION Range(Followed(saved))
        \/ \E e \in Range(journal["ShadowAlphaSettled"]) : e.sig = s

(* A day's report, generated again from the log at any later time, agrees  *)
(* with what was written on all that goes by the day's own events, over    *)
(* later days, restarts and events repeated after a crash, as long as no   *)
(* restart added to the day itself; and on the intraday low, which the     *)
(* hook took from the live tracker, once the next session has rolled it.   *)
(* When the hook is through, both files hold the report; and however often *)
(* it is run, a trade is reviewed once.                                    *)
Again(d) == BuildReport(journal, d, Offline)
Regenerates ==
    /\ \A d \in {e \in 1..day : files[e].json.of # 0} :
        /\ files[d].json.of = CountOn(journal, d) => Again(d).own = files[d].json.body.own
        /\ \A b \in BookIds : Again(d).low[b] \in {Unknown, files[d].json.body.low[b]}
    /\ eng.reported => files[day].md = files[day].json
    /\ \A s \in Signals, b \in BookIds :
        Cardinality(Signalled(journal, "TradeReview", Of(journal, "TradeReview", {b}, 1..day), s)) <= 1

(* Every number of a report can be traced to the log: generated again, it  *)
(* has the net AI value of each book that it had (daily_report.py says it  *)
(* is generated from the event store alone, for any day, offline).         *)
NetValueRegenerates ==
    \A d \in {e \in 1..day : files[e].json.of # 0} :
        files[d].json.of = CountOn(journal, d) => Again(d).net = files[d].json.body.net
=============================================================================
