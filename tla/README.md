# RakshaQuant: a TLA+ verification project

RakshaQuant is a paper-trading engine for NSE equities. One asyncio process
runs up to three books (A, B, C), each with its own order management system
(OMS), simulated broker, exit manager and risk controls. A decision cycle
proposes entries once a day, advisors (language models and a cascade of small
decision models) may veto them, and a risk gate approves, clips or refuses
them. Everything of value is in a SQLite event store: after a stop or a crash
the next process rebuilds itself from it. A web console starts and stops runs
and follows the store.

The project models these parts, checks the models with TLC on small instances,
and proves the main safety properties of the book, the broker adapter, the kill
switches, the exits, the gate, the language models' budget, the session, the event store, the event stream and the
evaluation with TLAPS. Paths below are relative to the repository's Python package (`src/...`) unless they start
with `docs/` or `frontend/`.

## 1. Inventory

| Component | State | Operations | Talks to | Hard part | What makes it correct |
| --- | --- | --- | --- | --- | --- |
| OMS, `oms/oms.py` | orders by client order id, unknown checks; event log | `submit`, `cancel`, `_on_update`, `_on_fill`, `resolve_unknown`, `reconcile`, `restore` | broker (calls, callbacks), gate, position book, event store | callbacks inside or after the await of `place_order`, lost outcomes, repeated fills, restart | a fill is booked once; exits never add up to more than the position; statuses move forward; the log rebuilds memory; every order ends |
| Simulated broker, `brokers/simulated/` | orders, holdings, fills, dirty rows; stored rows | `place_order`, `on_quote`, `cancel_order`, `expire_session`, `_save` | OMS callbacks | crash between a callback and `_save`; participation cap | never owes shares it lacks; agrees with the OMS |
| Exit manager and flattener, `oms/exit_manager.py`, `risk/kill_switch.py` | managed positions, stale stops, closing flag, flatten attempts | `_on_fill`, `on_quote`, `on_session_start`, `refresh_stops`, `stand_down`, `step` | OMS, monitor | three tasks cancel and submit for one position across awaits | what is held is managed, and covered by exits |
| Risk gate, `risk/engine.py`, `gate.py`, `snapshot.py`, `checks/` | snapshot, reservations | `__call__`, `evaluate` | OMS, tracker, switches, decision engine | headroom spent before it is filled; entries fail closed, exits fail open | no entry past a limit, no exit held back |
| Kill switches, daily risk state, monitor, controls, `risk/`, `web/control.py` | a record per switch; the day's equity, entries, streaks, breaches; HALT file | `trip`, `resume`, `apply`, `new_day`, `start_day`, `record_*`, `risk_tick`, `tick` | gate, OMS events, operator | several causes of one state, crash between record and trip, day roll | latching; a restart clears nothing |
| Lifecycle, tasks, driver, run manager, server, `engine/`, `web/` | session state, task group, the current run | `run`, hooks, loops, `start`, `shutdown`, lifespan | everything | slow or failing hooks, overlapping stops, cancellation | the session is watched, the report is last, a stop ends |
| Decision engine, `decision/engine.py`, `strategies/policy.py` | the cycle | `run_cycle`, `_submit`, `_dispose` | advisors, gate, OMS | awaits between the quote and the order | one disposition per signal that tells the truth |
| Router, cascade, advisors, announcements, `llm/`, `decision_models/`, `marketdata/announcements.py` | budgets, breakers, reply cache, recorded answers, dedupe set, backlog | `complete`, `decide`, `poll`, `classify` | providers, feed, store | failing models, midnight, restarts, a moving feed window | budgets hold, replays agree, nothing is missed silently |
| Event store and projections, `store/` | events, tables, key/value rows, `user_version` | open, migrate, append, rebuild, read | everything | several processes, crash in a transaction | tables are the fold of the log |
| Stream hub and client, `web/stream.py`, `frontend/src/lib/stream.ts` | tail, queues, replays | subscribe, tail, send, resume | store, browsers | overflow, reconnects, a replaced store | no event is lost |
| Shadow ledger, report, review, `evaluation/` | counterfactuals, report files | `track`, `on_quote`, `settle_alpha`, `build_report`, `review_day` | cycle, store, router | crash between an event and the save | one counterfactual per signal; a report can be regenerated |
| Features, strategies, backtesting, formatting, CLI, frontend | numerics and presentation | | | | not modelled |

The full list, with the reason for every part that is left out, is
`components` in `PROJECT.json`. `hazards` lists what is hard to test, each at
its line, with the properties that would catch it going wrong.

**Scheduling.** A process has one event loop; a handler runs until an await
that really suspends. `OMS.submit` runs the submission as a task of its own and
awaits it through `shield`, so its *callers* suspend, once until the submission
runs and once until they are resumed (`Exits` and `Gate` cut their handlers
there); with the simulated broker the submission itself, and every other OMS and
broker handler, runs to its end (`TradingBook` has one action per handler, cut
only where a crash can fall between two durable writes). With a real
broker `place_order` and `find_order_by_tag` suspend (`OmsAdapter`). The market
task delivers quotes to the broker, the exit manager and the shadow ledger; the
monitor task (60 s) resolves UNKNOWN orders, ticks the risk monitor and flattens;
PRE_OPEN starts the risk day and reconciles; CLOSE stops the tasks and expires
the session. `to_thread` reads (the stream) and other processes (scripts, the
console beside an engine) interleave with anything.

## 2. Modules and their correspondence to the code

    Orders <-- OMS <------------+-- TradingBook <-- MCTradingBook
       ^                        |       ^
       +--- SimulatedBroker ----+       +-- TradingBookProofs --> OMSProofs
                                |                                    ^
                                +-- OmsAdapter <-- MCOmsAdapter      |
                                        ^                            |
                                        +-- OmsAdapterProofs --------+
    KillSwitch <-- MCKillSwitch, KillSwitchProofs
    Exits <-- MCExits, ExitsProofs    Session <-- MCSession, SessionProofs
    Sums <-- RiskBudget <-(implements)- Gate <-- MCGate, GateProofs
      ^------------------------------- Gate
    Stream <-- MCStream, SessionProofs
    Projections <-- EventStore <-- MCEventStore, EventStoreProofs
    Evaluation <-- MCEvaluation, EventStoreProofs
    Cascade <-- News --+
               Router --+-- Advice <-- MCAdvice, GateProofs
                 +-- Sums

* **Orders**: statuses, intents, fills, and the shares a set of orders still has
  to trade. One instrument per book instance: orders of different instruments
  never read each other. A month-1 book is long-only.
* **OMS**: `oms.py` as operators on a record (orders, position, seen fill ids).
  The same record type is the durable image: emitting an event applies
  `restore()`'s clause for it to the image, so the image is always what
  `restore()` would rebuild.
* **SimulatedBroker**: `broker.py` as operators on its record. Prices, cash and
  charges are abstracted: whether an order is eligible, triggers, is funded or
  finds volume is the environment's choice; quantities and the holdings check are
  exact.
* **TradingBook**: OMS and simulated broker in one process. One action per
  handler (`Submit`, `Cancel`, `Quote`, `ExpireSession`, `ResolveUnknown`,
  `ResolveAbsent`, `Reconcile`, `Stop`, `Restart`), cut at its durable writes; `pc`, `cur`,
  `todo` say where the running handler is; `Crash` (with `Torn`) kills it there, and
  the history variable `torn` remembers that it has.
* **OmsAdapter**: the same OMS operators against an external, asynchronous venue:
  requests fly, land or are lost; answers, updates, fills and lookups arrive late,
  repeated, or stale. `resolve_unknown` is split at its await.
* **KillSwitch**: the registry, the daily risk state, the monitor's tick, the
  gate's use of both, operator and HALT file. The tick is cut where it stores
  something (`TickStarts`, `TickHalt`, `TickMarks`, `TickApplies`), and so is
  `resume` (`Resume`, `Acknowledge`). `requests` and `lost` are history variables:
  what has been asked of each switch since its last resume. `tally` is one too: the
  exits of a strategy that lost since its last win or resume, and whether anything has
  come between that the streak is known not to survive (`odd`).
* **Exits**: exit manager and flattener on one position. The OMS and the broker
  are one table of orders (`TradingBook` shows that they agree between handlers).
  Three tasks (market, life, monitor) run the handlers; a handler is an operator
  on a record that runs until it has to ask for a submission, `queue` is the event
  loop's ready queue, and the answer resumes the handler where it was. `mishaps` is a
  history variable: the circumstances under which the code is known not to keep
  `StopCovers` or `ManagedIsHeld` (section 6).
* **Gate**: one book's decision cycle against the gate: the re-quote, the
  policy's sizing, the advisor's review, the snapshot with reservations for working
  orders, every portfolio check, clip or veto, submission, dispositions, and
  between the awaits fills, price moves, exits, trips, the close, a failing store and
  a restart. Checks whose data the model does not keep may block at any time.
* **RiskBudget**: what the gate promises, without orders, fills or quotes. `Gate`
  implements it under the mapping in `Gate!Budget` (units and value of a symbol: what
  is held plus what working orders can still buy).
* **Sums**: the sum of a function, defined as the number of units it counts, so that
  the library's theorems on cardinality say how a sum changes.
* **Session**: lifecycle, hooks, periodic loops, the driver with its grace period,
  the run manager and the console's server with its watcher. Time is the part of
  the day; it passes while a hook runs, so hooks overrun. Two waits are measured in
  seconds and from different moments: the shutdown's 35 s from the request, the grace of
  30 s from the end of the build. A request that comes in a build of more than 5 s
  (`early`) therefore times out first, and `CutLoose` is what happens then: the driver is
  cancelled inside its wait, the manager detached, the store closed, and `engine.run` goes
  on (`mgr.adrift`) until it ends by itself. What such an engine does further is not
  modelled, but that the run and its loops are no longer the manager's is.
* **Stream**: the store, the hub's tailer, one subscriber with queue, replay and
  sender, the wire, and the browser's client. Swapping the connection and
  replacing the database are environment actions. A store's fingerprint is what the code
  makes it, the time and type of its first event, so that a new database may well have
  the old one's (`db.print`). `count.blind` is a history
  variable: the client has met one of the cases that lose events (section 6, item 14).
* **Projections**, **EventStore**: the event catalogue and the projectors as operators,
  and the database seen by several connections: open, migrate, append a batch, rebuild,
  save key/value state, read a view, fail, be killed. Every view is the list of its
  SQL statements in the order of the code, those of a book once per book (`BookCount`);
  writers may commit between any two of them.
  `TablesOf` is the reference: the tables defined from the whole log at once.
* **Evaluation**: dispositions, shadow ledger, daily report and review over
  several days, with a crash between any two writes. A report has what goes by the day's
  own events (`own`), and what does not: the index closes known when it is built (the
  day's own only on the next morning), the move of the equal-weight universe from live
  quotes, the intraday lows of the live trackers or of the `DailyRiskStateRolled` event of
  a later session, the spend on models, and the alerts of the day, among them the one
  that the hook appends right after writing (`live.py:263`).
* **Cascade**, **News**, **Router**, **Advice**: the decision models (what is recorded is
  the model's own answer; calibration, a map of answer classes per question, is applied
  to what the live cascade hears and never in a replay), the announcements
  pipeline, the LLM router, and the composition of them with the advisors of the
  cycle and a labelling script in another process.

`map` in `PROJECT.json` gives the source lines of every definition. Definitions
commented "Mutant" are plausible bugs; `mutants` says which property catches each.

## 3. Runs

| Run | Shows | Distinct states |
| --- | --- | --- |
| `book` | OMS + broker, stopped between handlers or killed inside one: `TypeOK`, `RestoreIsFaithful`, `BrokerNeverShort` always; `ExitsNeverFlip`, `SameBook`, `ForwardOnly` until a handler is torn | 3.2 M |
| `book_live` | every submitted order ends (`OrdersEnd`) | 32 k |
| `adapter` | asynchronous venue: `BookedOnce` (and stored faithfully), `ExitsCovered`, `FinalAfterCall` | 341 k |
| `kill` | `Latched`, `NoEntryWhileHalted`, with whole handlers and no re-arming; `StreakIsEarned` with two exits of two pieces that interleave | 3.9 M |
| `kill_live` | `LossOnRecord`, `DayIsKept`, `StreakIsEarned` under crashes (inside a resume too) and re-arming; `HaltFileHolds` | 616 k |
| `exits` | `ManagedIsHeld`: exit manager and book agree, also on disk; `StopCovers`: between handlers the position is covered to the last share; `FlattenIsNew`: no flatten order is mistaken for an older one | 485 k |
| `gate` | `KeepsBudget`: Gate implements RiskBudget; `HeatKept`; `DispositionsTell`: a cycle that came to its end has one disposition per signal, and none tells an untruth | 902 k |
| `session` | `SessionIsWatched`: the loops run whenever the session is on; `ReportIsFinal`: nothing runs on while the day is reported; `NothingLeftRunning`: the server leaves no run, and only a run hurried in its build is cut loose; `StopsEnd` | 749 k |
| `stream` | `NothingLost`, `InOrder`, `CatchesUp` | 786 k |
| `storage` | `TablesFollowLog` (and migrations are applied once), `BatchesWhole`; `ViewsReadForward`: statements of a view are committed states, none older than the one before | 2.1 M |
| `evaluation` | `EachFollowedOnce`: one counterfactual per signal, none forgotten; `Regenerates`: what goes by the day's events, the intraday low, both files, and no second review | 939 k |
| `ai` | `RoleWithinCap`, `ReplayAgrees`, `Accounted`: no announcement is missed, classified twice or hidden unjudged; `NothingStalls` | 499 k |

Where the code does not keep a sentence of its own docs, comments or docstrings, the
modules state that sentence as a property too (`NeverFlipped`, `UnknownIsResolved`,
`ExitCountsOnce`, `StreakFromZero`, `HeatAlwaysKept`, `EveryOutcomeTold`, `EveryLoopStops`,
`GraceComesFirst`, `RestartsSeen`, `NetValueRegenerates`, `ReplayReproduces`). No run lists
them; section 6 says with which configuration TLC finds each counterexample.

The type invariants (`TypeOK`) of the modules besides `TradingBook` hold on the same
instances and can be added to any of the configurations; they are left out of the runs'
lists, which are for the properties that could really fail.

**Bounds.**

* *Book*: an entry, a market exit and a stop exit, the smallest set in which two exits
  compete for a position and one can be triggered. Orders of 2 shares can fill in
  parts and be clipped to 1; a quote fills 0 to 2 shares; `MaxFillQuotes` = 2 reaches
  the participation cap after a partial fill; 2 days let an order outlive its session;
  2 stops or crashes let a restart meet the traces of an earlier one. `book_live` uses
  orders of one share: partial fills do not change whether an order ends.
* *Adapter*: two competing exits of a held position of 2, one request each.
* *Kill*: one strategy (strategies share only the global switch and the entry limit),
  marks at, above and below both limits, one or two exits, 2 days, a stop or crash.
  Exits have two pieces: two of them in `kill`, the least in which pieces can come mixed,
  and one in `kill_live`, where any step may be cut off by a crash.
* *Exits*: an entry of 2 shares (partial exit, partial fill), 2 days (DAY stops expire
  and are placed again), 2 stop versions, one flatten attempt a day, two tasks waiting at
  a time, one crash, refusal or capped order.
* *Gate*: three instruments in two sectors and five signals, one symbol signalled by two
  strategies; cash 20 and prices 1 to 3, with limits small enough that each of
  positions, entries, gross, sector and heat binds somewhere; two environment events and
  one restart per day.
* *Session*: one loop (the proofs have any number), one request
  besides the server's own, two runs of a day.
* *Stream*: queue of 1, batches of 2, two messages under way, three events, two
  connections, one swap, one repeated subscribe: overflow, a replay of two reads and a
  reconnect all happen.
* *Storage*: an engine (schema 2) and an older tool (schema 1), a log of three events in
  batches of one to three, three openings, one view of any kind, one key/value job; an
  open of a too new database happens. One book: the statements of a view are several all
  the same (the proof has any number of books).
* *Evaluation*: one signal in a baseline and an advised book, a holding time of one
  session, two days, one crash: a counterfactual that is closed on the first day is settled
  on the second, which also rolls the first day, knows its index close and ends with a report
  of its own. The books fall by one on the first day, or not at all.
* *AI*: four announcements through a feed window of two, one proposal in three books
  (typed veto, LLM veto, none), two label calls, a paid model with a free fallback, two
  attempts, two failures to open a breaker, days of two ticks. `Scenarios` splits the
  budget of (items, cycles, label calls, ticks, faults) so that every pair that
  interacts occurs together: (4,0,0,0,1), (3,0,0,0,2), (1,1,0,0,1), (0,3,0,2,0),
  (0,1,1,1,1), (0,0,2,3,1), (0,2,0,0,1). One item and the proposal are sampled for the
  shadow question. Calibration makes one item's "no" unsure and another's unsure
  answer sure, so that the live cascade escalates where the model would not, and the
  other way round.

`CHECK_DEADLOCK FALSE` stands where nothing is left to happen when the day, the bound
or the messages are used up (all but the book's and the kill switches' runs).

**Fairness.** *Book*: a handler that runs finishes and a stopped engine is started
again (weak); the close of the session and the monitor's pass come up periodically
and the event loop runs ready tasks in turn, so they are taken although other handlers
come between (strong); the clock passes the 30 s timeout. *Risk controls*: the periodic
tick (strong, because operator handlers disable it for a moment), a started resume
finishes, a stopped session is started again. *Session*: ready code runs and timeouts
expire; that a hook, a build or a loop's step ends by itself is *not* assumed. *Stream*:
tailer, sender, receiver and the client's reconnect. *AI*: a model answers or fails in
the end (timeouts of router and HTTP clients; for the local model, whose call has no
timeout, this is an assumption: one that hangs does stall the cycle), ready tasks run, the engine is started
again. No fairness is assumed of operators, the market, fills, faults or the HALT file.

## 4. Proofs

All theorems hold for every value of the constants that satisfies the assumptions named
in the modules that declare them. Those are types, finiteness, positive bounds and what
the code's own validation guarantees (`RiskLimits._consistent` in `GateAssumption`).
Where a theorem needs more, the extra hypothesis stands in its statement, and section 6
says what happens without it.

*TradingBookProofs* (with the lemmas on orders and OMS operators in *OMSProofs*),
crashes inside handlers allowed:

* `TypeCorrect`: `Spec => []TypeOK`.
* `RestartLosesNothing`: `Spec => []RestoreIsFaithful`. The stored events rebuild
  the OMS in every state.
* `NeverShort`: `Spec => []BrokerNeverShort`.
* `OmsMatchesBroker`: `Spec => []SameBook`; `ExitsStayCovered`: `Spec =>
  []ExitsNeverFlip`; `StatusesMoveForward`: `Spec => ForwardOnly`. These three speak of
  executions in which no handler has been torn (`torn`, inside the properties).

The first three share the inductive invariant `BookInv`, the conjunction of `OmsInv`
(memory and image have their types, agree, and no order is overfilled), `BroInv` (both
broker tables are typed, no row is overfilled, holdings cover the resting sells; and a row
that differs between memory and disk is marked dirty), `FillsKnown` (the fills the
broker knows belong to rows it knows), `ExecLive` (the order being executed is still
live) and `CtlInv` (types of the control state). None of the three properties is
inductive alone: that a saved row leaves the disk covered needs the dirty marks, since a
save writes only those; that a fill does not overfill needs the live status of the row at
hand; that nothing is adopted from an order with no known fill needs `FillsKnown`.
The last three add `WholeInv`, that is `~torn => LinkInv`: every order stands at the OMS
and at the broker in one of the pairs of statuses that a handler passes through
(`Pairs`), the OMS has seen only fills that were made (`SeenMade`), the positions
agree, the stored rows that are not dirty are those in memory (`DiskFollows`), the orders a
handler has yet to visit are live (`Visiting`) and exits fit the position (`ExitsFit`). `SameBook` is not inductive
because it says nothing of the middle of a handler.
`Shares` counts a set rather than folding a function, so that `SharesUpdate`
(replacing one entry changes the sum by the difference) follows from the cardinality
theorems of the library without induction; `Sums` and `Exits` count in the same way.

*OmsAdapterProofs*, for any number of orders, any quantities, fills, repeats and delays:

* `EachBookedOnce`: `Spec => []BookedOnce`, whatever order the venue's messages come in.
* `ExitsAreCovered`: `Spec => []ExitsCovered`, and `EndIsFinal`: `Spec =>
  FinalAfterCall`, both assuming `InOrder` (section 7). Without it an update that ends an order frees its
  shares while a fill of it is still under way: a new exit can then ask for shares that
  have been sold, and the late fill revives the order.
* `AdapterInvariant`: `Spec => []AdapterInv`, what the three rest on: `VenueInv` (an order
  at the venue is the one that was requested, its fills are numbered and add up to what it
  has traded, a final status that a message carries is the order's), `OmsPart` (memory
  and image agree; what a row has booked is the sum of the fills it has seen, all of which
  were made; its status fits the request; with `InOrder` a row ends only when its last fill
  has been seen) and `CoverInv`.
* `CoverInv` measures an exit by its *claim*: what it has sold at the venue and can
  still sell there (`Claims <= Held + Traded(oms.orders, Buys)`). What the OMS itself counts
  as outstanding is not inductive: `_mark_unknown` overwrites an end that has come with
  UNKNOWN, and the outstanding shares then go up; the claim stays as it was.
* `_adopt_fills` is a fold over the set of reported fills. What it keeps for a set of any
  size is shown without an induction theorem: `PartsReached` (a family of subsets that has
  the empty set, and with each set but for one chosen element the set itself, has them all)
  follows from the library's first-order `WFMin`; `FoldKeeps` and `Adoption` follow from it.

*KillSwitchProofs*:

* `LossStaysOnRecord`: `Spec => []LossOnRecord`, crashes and re-arming included, by
  `RiskInv` (the risk state is typed and the day's low is on record).
* `DayStaysKept`: `Spec => DayIsKept`, crashes included. `DayInv` adds that the risk day
  is never ahead of the calendar; that each step keeps entries and losses is transitive
  (`KeptTwice`), since a tick may start the day and count in one step.
* `SwitchesLatch`: `Spec => []Latched`, assuming untorn handlers and no re-arming
  (both are needed, section 6). `Latched` speaks of idle states;
  `LatchInv` adds that during a tick an unmet request still has its breach to be applied.
* `NoEntrySlipsThrough`: `Spec => NoEntryWhileHalted` under the same assumptions,
  from `LatchInv` and `RiskInv`.
* `StreaksAreEarned`: `Spec => []StreakIsEarned`, for exits of any number of pieces and
  with torn handlers: the streak *is* the number of exits that lost since the last win or
  resume, unless pieces of two exits came mixed or a crash cut the resume short. `EarnedInv`
  adds that the exit last counted is that of the latest piece, that an exit with no piece
  yet is not among the lost ones, and that a strategy whose resume waits for its
  acknowledgement (`cur`) has no lost exit to its name, though its streak still stands.

*ExitsProofs*:

* `ManagedStaysHeld`: `Spec => []ManagedIsHeld`; `NeverOversold`: the working exits never
  add up to more than is held, so the position never falls below zero, whatever the three
  tasks do between their awaits; `FlattensAreNew`: `Spec => []FlattenIsNew`.
* `ExitsInv` is `Typed /\ Book /\ Spent /\ ManagedIsHeld`. `Book` is needed for the position
  to stay a number; `Spent` relates each flatten order to the stored attempts, so
  that an attempt never asked for has no order yet and no two tasks wait for the same one.
* `PositionStaysCovered`: `Spec => []StopCovers`. `StopCovers` speaks of quiet
  states; what holds while handlers wait is `Tidy`, and `ExitsInv /\ Tidy` is inductive
  (TLC checked `Tidy` on the instance of `exits` before it was proved). The core of `Tidy` is
  `CoverOk`: as long as nothing has gone wrong that section 6 names and the position is
  not given up, it is covered, or one of three things will cover it (`Rescued`): the stop is
  marked stale and no answer on its way will be taken for an accepted stop; a task has
  asked for an exit of all that is not covered (`Claims`); a task will mark the stop
  stale when it is resumed, and none behind it answers to a stop (`Marks`). The rest says
  who can be where: the queue holds each task that waits once (`QueueOk`),
  `mishaps` has noted an overlap (`NotedOk`), who still waits after hours
  (`AfterHours`), no exit of an older session works (`DaysOk`), what is managed is
  saved unless a handler is under way (`SavedOk`). `ManagedIsHeld` turns the cover of what
  is managed into the cover of what is held.

*GateProofs*:

* `GateKeepsBudget`: if polls are whole (`PartialPolls = FALSE`; section 6, item 6),
  `Spec => KeepsBudget`: the gate implements `RiskBudget`. `StepReleases` shows that every
  step but the submission of an approved entry maps to a `Release` or a stutter, and
  `GrantIsGrant` that a submission maps to a `Grant`: what the checks found in the snapshot is
  what the abstract budget counts, because the reservations sum by signal what the budget
  sums by instrument (`TotalByKey`).
* `HeatIsKept`: under the same assumption, `Spec => HeatKept`.
* `DispositionsAreTrue`: `Spec => []DispositionsTell`, without it. `NoneMissing` is half of
  it: when a cycle has come to its end every signal has exactly one disposition, and
  while it runs every signal it is done with; `Truthful` is the other.
* `GateInv` is `Typed /\ LeftIsLive /\ Whole`: an order is live exactly as long as it has
  shares left, and with whole polls everything is quoted or nothing is. `DispInv`
  adds that one signal is reviewed at a time (`OneAtATime`) and that, before a restart, an
  order exists for no signal that is still to be reviewed (`Fresh`) and for each one that
  is being placed (`Sent`); and that nothing is lost on the way from the queue of signals
  to the dispositions.

The last two parts of the module are about *Advice*:

* `RoleStaysWithinCap`: `AdviceSpec => []RoleWithinCap`, for any models, prices, chains,
  prompts, routers and caps and any length of the day. The cap alone is not inductive,
  because a router decides from a ledger of its own. `CapInv` says how the ledger stands to
  the log: of a day, the log never has more than the ledger of that day and one call that
  began the day before (`KnownOk`); while a paid call is under way its ledger
  is below the cap (`CallOk`); nothing is logged ahead of time (`Ahead`), so a ledger that
  midnight empties is not behind; and a router built anew reads all that is logged
  (`NewKnows`). The lemmas on `Sums` are those of the gate.
* `ReplaysAgree`: `AdviceSpec => []ReplayAgrees`, and `NewsIsAccounted`: `AdviceSpec =>
  []Accounted`, for any items, window, universe, subjects, proposals, books and chains,
  whatever replies, failures, lost pages, failing appends and deaths. Both follow from
  `AdviceInv == CapInv /\ AnswersOk(answers) /\ NewsInv /\ ReviewInv`.
* A replay comes to what the live run came to because each step of a conversation goes with
  the record of its subject: who waits for Jev has no sure answer of Laya on record,
  and who waits for the shadow question has one and has kept it (`ConvOk`); a call is at a
  model of its chain before which none has a reply stored (`CallFits`). So what is on record when a
  conversation or call ends gives what it said (`Hears`, `FirstReply`, `WalkSays`), which
  later steps do not change (`TypedOnce`, `VerdictsOk`). What is on record is the model's
  own answer, what the live cascade hears is calibrated: the two come to the same where
  the calibration leaves the recorded answers as they are (`Unmoved`), and the property
  is about those; `ReplayReproduces`, about all, is violated (section 6, item 19). Two advisors asking about the same
  proposal at once would disturb each other's record, hence `OneBookPerAdvisor`, which is
  what `experiment.yaml` sets up (typed veto in book B, LLM veto in book C).
* `Accounted` needs that what is received and not classified is in the queue or the backlog once
  (`QueueOk`, `Waiting`), that the dedupe set is what is on record or was lost
  (`SeenOk`), and that everything between the first page read and what has been read or
  received is received, lost or in a gap (`FirstOk`, `CoverOk`; `CoverKept` for a page). A page
  is taken in the order of publication; that a finite set of numbers has such an
  enumeration is again by `WFMin` (`OldestFirstIs`).

The proof corrected `ReplayAgrees`. It spoke of the last verdict ever given, and TLC
agreed while no instance had both a second cycle and a shadow question on a proposal.
Item 18 of section 6 is the counterexample; the property is now about the last review, and
the instance of `ai` has the two together.

*SessionProofs*: `SessionTyped`, `SessionWatched`, `ReportFinal` and `ConsoleLeavesNothing`
state `TypeOK`, `SessionIsWatched`, `ReportIsFinal` and `NothingLeftRunning`,
for any loops, requests and number of runs. `SessionInv` ties
the lifecycle's state to the clock and to the next transition (`StatesInOrder`), the hooks to
their states (`HooksFit`), the loops to both (`Watched`, `Final`), the
server's end to the request that it waits for (`ServerEnds`), and an engine cut loose to a
request that came during its build (`Hurried`).

The same module proves the two safety properties of *Stream*, for a store, queue and
batches of any size, any number of messages under way, of subscribes, of drops of the
connection and of replaced databases, whose fingerprints may be alike:

* `EventsInOrder`: `StreamSpec => []InOrder`, by `OrderInv`: the events on the wire, in the
  sender's hand and in the queue are in the order of the log, behind what the client has
  applied in their database.
* `EventsNotLost`: `StreamSpec => []NothingLost`. `NothingLost` is about what the client has
  applied, and says nothing of how the next event will reach it. `KeptInv` does, for a
  client that has not met item 14 of section 6. `LiveOk` is its core: the client takes
  the messages on the wire, then the rest of the replay, then the queue, then what the
  tailer has yet to read, each beginning no later than where the one before ends; a
  `resync` among them starts over from what was last sent. `GensOk` says that client,
  messages, hub and store are of the same database or of successive ones, `KnownInv` that
  where the client would resume leaves no gap, `AckFirst`, `HubOk`, `SeenOk` and `IdleOk`
  how far each of hub and sender has come.

TLC checked `KeptInv` on the instance of `stream` and on a larger one (11.2 M states)
before it was proved. The proof corrected the history variable: a client with nothing
applied that resumes from a `resync`, or that is told of a new database, was counted
as belonging to the old one.

*EventStoreProofs*: `ProjectionsFollowLog` (`TablesFollowLog`), `BatchesStayWhole` (`BatchesWhole`)
and `ViewsGoForward` (`ViewsReadForward`), for any connections, schema versions, batches
and crashes. `StoreInv`: at most one transaction has begun, and what it has done so
far is the log it started from with the events appended, projected or replayed up to
where it is. The step is that projecting one more event takes `TablesOf` of a log to
`TablesOf` of the longer log. `ViewInv`: each statement of a
view has shown some prefix of the log, one at least as long as the statement before. The only induction needed, that a
set of numbers has a least one (`LeastExists`), comes from the library's first-order
`WFMin`.

The same module proves two properties of *Evaluation*, with the lemmas on sequences
that both parts need, for any signals, books, number of days and crashes:

* `SignalsAreFollowed`: `Spec => []EachFollowedOnce`, by `FollowInv`: while the engine is
  up the ledger in memory is the last one saved; in the saved one each signal stands in
  one place only; and what it has seen and not dropped is pending, open, settling, or
  has its `ShadowAlphaSettled` in the log. A crash between that event and the save
  loses nothing: the save still has the signal, and settles it once more.
* `ReportsRegenerate`: `Spec => []Regenerates`, by `RegenInv == FollowInv /\ FilesInv /\
  TradesInv /\ ReviewInv` and `LowInv`, for any inputs from outside the log. A report counts
  the events of its day that it was built
  from, of the types that its own part reads (`DayKinds`). A day's events only grow, so
  the same count means the same events (`Alike`), also of the days before; and logs that
  are alike give the same own part (`ReportIsSame`), since every closed trade is explained
  by a signal that has fired (`Explained`). `LowInv` says what the tracker's low, the event
  of the roll and the files know of each other (`LowsTold`). That no trade is reviewed twice
  rests on trades closing once, and on the list of a review under way having no trade that
  the log has a review of.

**Only model-checked.** Liveness (`OrdersEnd`, `HaltFileHolds`, `StopsEnd`, `CatchesUp`,
`NothingStalls`) is out of the prover's reach. The type invariants of `KillSwitch` (a fold
over strategies), `Stream`, `Evaluation`, `News`, `Router` and `Advice` are checked only,
as far as the invariants above do not contain them.

## 5. How the properties meet the code

The properties are about the hazards in `PROJECT.json`; the ones that most repay
reading with the code at hand:

* `StopCovers`: `refresh_stops` takes a position off `_stale_stops` only when a
  stop stands for all of it. Fills, partial exits, expiry and refusals come between
  asking for the stop and hearing of it; the flag must be set again each time.
* `KeepsBudget`: `Reservations` must count exactly what working orders can still
  buy, at the price the limit is measured with, from submission to the last fill.
* `NothingLost`: `replay_to` is read when the subscription starts and the queue is filled
  from then on: together they are seamless, and `resync` starts from `last_sent`.
* `TablesFollowLog`: incremental projection, rebuild and rollback end in the tables
  that a definition over the whole log gives.
* `ReplayAgrees`: each recorded answer is filed where a replay looks for it, also when a
  fallback answered in place of the primary model.

What they do not cover, so that a passing run is not read for more than it says:

* `Latched` and `NoEntryWhileHalted` hold with whole handlers and no re-arming; `SameBook`,
  `ExitsNeverFlip`, `ForwardOnly` until a handler is torn; `ManagedIsHeld` exempts a crash
  between a fill and the exit manager's save; `StopCovers` exempts the mishaps of items 8 and
  9; `SessionIsWatched` a failed hook; `ReportIsFinal` a CLOSE that was overrun.
* `FinalAfterCall` and `ExitsCovered` rest on `InOrder` (section 7), `KeepsBudget` and
  `HeatKept` on whole polls.
* `RoleWithinCap` bounds one router with one call in flight; two processes have two ledgers.
* Two properties a reader may look for are left out because they restate a definition: that
  no limit holds back an exit (the gate decides a reduction from the market and
  the held quantity alone, see `Gate!Reduction`), and that a run which was not cancelled
  leaves no loop behind (its ending waits for exactly that).

## 6. What the models show the code does not do

Each of these was found as a counterexample, or is why a property has its exception.
Where a property is named with a configuration of section 3, TLC finds the counterexample when
it checks that property with the configuration's constants, changed as said.

*Book and OMS*
1. A crash after the OMS has recorded a fill (`oms.py:351`) and before the broker has saved its
   rows (`broker.py:280`) lets the restarted broker execute the exit again, in other
   pieces; the first repeats a fill id, the next is new, and the OMS's position goes
   negative, although `oms.py:6-7` says "an exit can never open or flip a position".
   `NeverFlipped` with `TradingBook.cfg`.
2. `_mark_unknown` (`oms.py:272`) overwrites FILLED when the fill beats the
   timeout; `resolve_unknown` can then never end the order, although
   `docs/runbooks/incident.md:44` says it is "resolved by its tag (adopted) or
   rejected after two checks". `UnknownIsResolved` under `FairSpec` with one entry of one share
   (`Intents <- Entry`, `Buys <- Entry`, `Stops = {}`, `Held = 0`, `MaxQty = 1`).

*Risk controls*
3. With re-arming on, a halt on top of a daily-loss trip is not recorded
   (`kill_switch.py:144`) and lapses with it; `docs/runbooks/kill-switch.md:26`:
   "Drawdown, streak, HALT-file and operator trips never re-arm on their own." `Latched` with `KillSwitch.cfg`
   and `RearmOnNewDay = TRUE`.
4. `risk_tick` saves a breach as raised (`state.py:308`)
   before `apply` trips the switch, and raises it once a day: a crash between the two loses
   the halt; `state.py:7` says "a restart never clears a breach". `Latched` with
   `KillSwitch.cfg` and `Torn = TRUE`.
5. Only the last exit counted is remembered, so alternating pieces of two exits
   of a strategy count more than once; `state.py:223`: "it is one win or loss".
   `ExitCountsOnce` with `KillSwitch.cfg`. And `resume` stores the armed switch before it acknowledges the
   streak: a crash between the two leaves the old streak, which `state.py:235` says is
   counted "from zero". `StreakFromZero` with `KillSwitchLive.cfg`. Both are the exceptions
   in `StreakIsEarned` (`odd`).
6. A working order without a quote reserves nothing (`snapshot.py:163`): after a restart
   with a poll that missed an instrument the limits do not hold together (`KeepsBudget` with
   `Gate.cfg` and `PartialPolls = TRUE`), although "back-to-back submits cannot reuse headroom"
   (`docs/plan/PROGRESS.md:82`).
7. A working order quoted below its stop reserves negative heat (`snapshot.py:172`), which
   the next entry may use: the exception in `HeatKept` (`HeatAlwaysKept` with `Gate.cfg`
   and `MaxHeatPct = 5`). And when a
   submission raises, the cycle ends and the signals left have no
   disposition, although `decision/engine.py:20` has one for "every (signal, book) outcome"
   (`EveryOutcomeTold` with `Gate.cfg`).

*Exits*
8. A position that goes flat and is entered again the same day restarts at
   `stop_version` 0 (`exit_manager.py:208`): the new stop is a DUPLICATE of an ended one,
   which counts as accepted.
9. `stand_down` sets `closing`, and only `reconcile`, which nothing in production
   calls, takes the position back: after a resume, or when the flatten order gives up at the
   cap, it has no stop.
10. A crash between the OMS's fill and the exit manager's save leaves them with
   different quantities for good.

*Session and console*
11. `STOP_GRACE_S` (30 s) is shorter than the 60 s `TaskGroup.stop` waits: a cancelled run
   can leave a loop in its step with the store closed, where `tasks.py:126` promises that
   "a loop finishes the step it is in" (`EveryLoopStops` with `Session.cfg`). The shutdown's own 35 s
   (`run_manager.py:206`) count from the request: after a build of more than 5 s they end
   within the grace, and cancel the driver but not the engine, which goes on with its
   manager detached and its store closed; `run_manager.py:207` says of that branch "no
   cover - _drive already cancels after its grace" (`GraceComesFirst` with `Session.cfg`). At the end of
   the server `asyncio.run` cancels such an engine too.
12. A hook that overruns the close makes the lifecycle skip CLOSE (`lifecycle.py:210`); the
   day's orders do not expire and the report is written with the loops running.
13. `shutdown` awaits `self._task` anew after its wait (`run_manager.py:210`): a run started in that
   moment is awaited without having been asked to stop (exception of `StopsEnd`).
14. The stream: a second subscribe while the sender is at work, and a database replaced
   while a client was away or before the hub had seen its first event, lose events. So does
   a replaced database whose first event has the time and type of the old one's: every demo
   of the console begins at 09:00 of the same replayed day (`live.py:190`), so its restart is
   not seen, no `new_store` is sent, and the tail stays at the old end
   (`RestartsSeen` with `Stream.cfg`); `stream.py:354` says the fingerprint "identifies a database by its
   first event (a demo restart recreates the file)". `NothingLost` still holds of what the
   client has of the new log; `CatchesUp` exempts it (`Mistaken`).

*Models and evaluation*
15. A router's budget is kept per process, a call over midnight is charged to the day it
   began in memory and to the day it ended in the log, and replies that are refused,
   invalid or too late cost money that is never recorded: `RoleWithinCap` has the slack of
   these, and bounds recorded spend per role and router.
16. An announcement counts as seen before its event is stored (`announcements.py:226`): a
   failed append loses it until the next start; one whose classification fails waits for the next start.
17. `review.py` says a failed call is left for the next night, but only trades of the
   same day are read; two reviewers at once review twice. A review's calls are charged to
   the books after the report is written (`live.py:274`), so the net AI value of the day,
   generated again, is another (`NetValueRegenerates` with `Evaluation.cfg`); `daily_report.py:2` says "any day can be
   regenerated offline". The index figure of the report itself is known only from the next
   morning's tape, as `scripts/daily_report.py:7` says, the equal-weight move never
   afterwards, and the alerts of the day count the report's own: `Regenerates` is about what
   goes by the day's events, and the intraday low once the day is rolled.
18. A replay reproduces the last review of a proposal, not every verdict in the log: a
   cycle in which the models failed abstains, the next one gets an answer on record and may
   die, in the shadow question, before its verdict; a replay then gives the verdict of that
   answer. To see it, leave `verdict` alone where `Advice` has `Requested`.
19. A replay runs without the calibrator over the raw answers (`replay.py:191`), so where
   calibration moves an answer over the escalation band it asks Jev, or leaves Jev out, where
   the live run did not (`ReplayReproduces` with `Advice.cfg`); `cache.py:4` says "a replayed day
   reproduces the live decisions". And it feeds the announcements of the day only
   (`replay.py:131`): a veto whose state quotes typed events of the sessions before has
   another key, finds no answer and abstains (`ReplayReproduces`
   with `Calibration <- Uncalibrated` and `Reworded = {9}`), where `README.md:281`
   promises a day "event for event".

## 7. Assumptions and what is not modelled

* The simulated broker's `modify_order` has no caller outside tests. Cash,
  charges, settlement, MIS, FIFO lots and P&L are decimal arithmetic that enters no control
  but the sign of a trade's result, which is the environment's choice.
* `OmsAdapter` assumes that a request that has not arrived after
  `unknown_timeout_s` is lost and (`InOrder`) that an order's fills are delivered before
  the update that ends it; the contract in `base.py` states neither.
* A store that refuses a write is modelled in `EventStore`, `Gate` and `News`, not in
  `TradingBook` and `KillSwitch`.
* Three hazards have no property, because nothing says what should hold: a crash between
  `OrderSubmitted` and the call of the broker leaves an order SUBMITTED that the broker
  never saw (`oms.py:228`; `reconcile` reports drift); a fill after the CANCELLED update
  forces the order back to PARTIALLY_FILLED for good (`oms.py:350`); and when the append of
  `FillReceived` fails, memory has the fill and the log has not (`oms.py:351`).
* Announcements have distinct publication times; the code tells items of one second apart
  by nothing (`announcements.py:239`). Jev's answer counts as sure at any confidence.
* Trailing stops are in `Exits` only as a stop that is placed anew; prices are not.
* The stream's slots, which only show the newest value of a topic, are left out.
* Features, strategies, statistics and the fitting of the calibration are floating-point
  numerics (what a fitted calibration does to an answer is in `Cascade`); HTTP clients,
  prompts, report formatting, JSON models, CLI and frontend are presentation; the instance
  lock is the operating system's.

## 8. Plan

Done: the book, the adapter, the risk controls, exits, the gate with its abstract budget,
the session, the event store, the stream, the evaluation and the models: every safety
property that a run checks is also proved. Liveness and the type invariants
named in section 4 are checked only.

What would extend the project: the refusing store (section 7) in `TradingBook` and
`KillSwitch`, and what is left of the components that `PROJECT.json` lists as partly modelled.
