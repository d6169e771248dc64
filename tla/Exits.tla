-------------------------------- MODULE Exits --------------------------------
(***************************************************************************)
(* The exits of one position: the exit manager (src/oms/exit_manager.py)   *)
(* and the kill switch's flattener (src/risk/kill_switch.py), over the     *)
(* book they share.  The OMS and the simulated broker are one table of     *)
(* orders here: TradingBook shows that they agree between handlers.        *)
(*                                                                         *)
(* The asyncio tasks of the engine run the handlers: "market" polls        *)
(* quotes, "life" is the session lifecycle (session start, and the polls   *)
(* of the entry window), "monitor" is the risk monitor.  OMS.submit awaits *)
(* a shielded task, so a handler that submits is suspended twice: until    *)
(* the submission runs ("asked") and until it is resumed ("told").  Other  *)
(* tasks may run at both points; the event loop's ready queue is first in, *)
(* first out, so submissions run, and handlers are resumed, in the order   *)
(* they asked.  All other awaits return at once.                           *)
(***************************************************************************)
EXTENDS Integers, FiniteSets, Sequences

CONSTANTS
    MaxQty,         \* the size of the entry order
    MaxDay,         \* bound: trading days
    MaxVersion,     \* bound: stops placed
    MaxAttempts,    \* bound: flatten orders of a day
    MaxWaiting,     \* bound: tasks that wait for a submission at a time
    MaxFaults       \* bound: crashes, refused orders, orders given up at the cap

ASSUME ExitsAssumption ==
    /\ MaxQty \in Nat \ {0} /\ MaxDay \in Nat \ {0}
    /\ MaxVersion \in Nat /\ MaxAttempts \in Nat /\ MaxFaults \in Nat /\ MaxWaiting \in Nat

VARIABLES
    orders,     \* the OMS's orders, by leg
    held,       \* the PositionBook's quantity
    mgr,        \* the ManagedPosition (quantity 0: none)
    stale,      \* whether the position is in _stale_stops
    disk,       \* the stored ManagedPosition
    task,       \* what each task is waiting for
    queue,      \* the tasks that wait for a submission, in the order they asked
    flatten,    \* whether the position's switch is at FLATTEN
    attempts,   \* the flattener's attempts of the day (stored when spent)
    today,
    phase,      \* "down", "opening", "starting", "open", "expired", "closed"
    faults,     \* how much has gone wrong, for its bound
    mishaps     \* history: what has gone wrong so far

(* reused      a submission was answered DUPLICATE                         *)
(* restarted   the process was started again within a day's session, or    *)
(*             after a session that it did not close                       *)
(* capped      a market exit was cancelled at the participation cap        *)
(* overlapped  two handlers have waited at the same time                   *)
(* refused     a submission was refused (and alerted)                      *)
(* unsafe      one of the first three, or the last two                     *)
(* torn        the process died after a fill was booked and before the     *)
(*             exit manager had saved it                                   *)
Mishaps == {"overlapped", "refused", "unsafe", "torn"}
Noting(new) ==
    LET all == mishaps \cup new
    IN  mishaps' = IF "torn" \in all THEN {"unsafe", "torn"}
                   ELSE IF all \cap {"reused", "restarted", "capped", "unsafe"} # {}
                        \/ {"overlapped", "refused"} \subseteq all
                   THEN {"unsafe"} ELSE all

Faults(n) == faults' = faults + n /\ faults' <= MaxFaults

bookVars == <<orders, held>>
exitVars == <<mgr, stale, disk>>
flatVars == <<flatten, attempts>>
envVars == <<today, phase, faults, mishaps>>
taskVars == <<task, queue>>
vars == <<bookVars, exitVars, taskVars, flatVars, envVars>>

-----------------------------------------------------------------------------
(* The legs of a position: each names one intent, hence one order.         *)
Entry == <<"entry", 0, 0>>
Target == <<"target", 0, 0>>
Partial == <<"partial", 0, 0>>
Stop(day, v) == <<"stop", day, v>>
TimeExit(day) == <<"time", day, 0>>
Flatten(day, n) == <<"flatten", day, n>>

StopLegs == {Stop(d, v) : d \in 1 .. MaxDay, v \in 1 .. MaxVersion}
FlattenLegs == {Flatten(d, n) : d \in 1 .. MaxDay, n \in 1 .. MaxAttempts}
Legs == {Entry, Target, Partial} \cup StopLegs \cup FlattenLegs
            \cup {TimeExit(d) : d \in 1 .. MaxDay}

Sells == Legs \ {Entry}

(* An order: not in the OMS, working (a resting stop included), or in a    *)
(* terminal status; the shares it still has to trade and its session.      *)
NoOrder == [status |-> "NONE", remaining |-> 0, day |-> 0]
Ended == [NoOrder EXCEPT !.status = "ENDED"]
NoLeg == <<"none", 0, 0>>
(* A deleted ManagedPosition has quantity 0.                               *)
Nobody == [quantity |-> 0, stop |-> NoLeg, version |-> 0, closing |-> FALSE,
           partial |-> FALSE, entered |-> 0]
(* mine: the object the handler read is still the managed one.             *)
Idle == [pc |-> "idle", leg |-> NoLeg, qty |-> 0, mine |-> FALSE, then |-> "end", result |-> "NONE"]

Tasks == {"market", "life", "monitor"}
Levels == {"mid", "partial", "target"}

-----------------------------------------------------------------------------
(* The book.                                                               *)
Working(ords, C) == {c \in C : ords[c].status = "WORKING"}
(* The sum of a function into 0 .. MaxQty, as a count of its shares.       *)
Total(f) == Cardinality({s \in (DOMAIN f) \X (1 .. MaxQty) : s[2] <= f[s[1]]})
Reduces == Working(orders, Sells)
Reducible == held - Total([c \in Reduces |-> orders[c].remaining])

CancelIn(ords, c) == IF c \in Working(ords, Legs) THEN [ords EXCEPT ![c] = Ended] ELSE ords

(* Orders a quote can reach: of this session.  Whether the price crosses a *)
(* stop's trigger, and latency and volume, decide what is executed: any    *)
(* quantity of each.                                                       *)
Matchable == {c \in Legs : orders[c].status = "WORKING" /\ orders[c].day = today}
Executions ==
    {[c \in Legs |-> IF c \in Matchable THEN f[c] ELSE 0] :
        f \in {g \in [Matchable -> 0 .. MaxQty] : \A c \in Matchable : g[c] <= orders[c].remaining}}

(* A market order may be given up at the participation cap; a stop never.  *)
Cappable(taken) ==
    {c \in Matchable \ StopLegs : taken[c] < orders[c].remaining}

(* An order after the quote: expired with its session, given up, or        *)
(* executed for taken[c] shares.                                           *)
AfterQuote(c, taken, capped) ==
    LET o == orders[c]
    IN  IF c \in capped \/ (o.status = "WORKING" /\ (o.day < today \/ taken[c] = o.remaining))
        THEN Ended ELSE [o EXCEPT !.remaining = @ - taken[c]]

-----------------------------------------------------------------------------
(* The exit manager.                                                       *)

(* _on_entry_fill: a new ManagedPosition object takes the old one's place; *)
(* closing starts as False.                                                *)
OnEntryFill(m, now) ==
    [m EXCEPT !.quantity = now, !.closing = FALSE,
              !.entered = IF m.quantity = 0 THEN today ELSE @]

(* Mutant: an exit's fill leaves the managed quantity alone.               *)
OnExitFillKeeps(m, now, taken) ==
    IF m.quantity = 0 \/ now <= 0 THEN Nobody
    ELSE [m EXCEPT !.partial = @ \/ taken[Partial] > 0]

(* _on_fill of an exit.                                                    *)
OnExitFill(m, now, taken) ==
    IF m.quantity = 0 \/ now <= 0 THEN Nobody
    ELSE [m EXCEPT !.quantity = now, !.partial = @ \/ taken[Partial] > 0]

(* The position after a quote's executions.                                *)
SoldOff(taken) == Total([c \in Matchable \ {Entry} |-> taken[c]])
HeldAfter(taken) == held + taken[Entry] - SoldOff(taken)

(* The listener's effect on the managed position of a quote's executions,  *)
(* the entry's (the oldest order) before the exits'.                       *)
Managed(taken) ==
    LET bought == held + taken[Entry]
        m == IF taken[Entry] > 0 THEN OnEntryFill(mgr, bought) ELSE mgr
        sold == SoldOff(taken)
    IN  IF sold > 0 THEN OnExitFill(m, bought - sold, taken) ELSE m

(* _live_stop: the first stop in the dictionary that is still working.     *)
LiveStop(ords) ==
    LET live == Working(ords, StopLegs)
    IN  IF live = {} THEN NoLeg
        ELSE CHOOSE c \in live : \A d \in live :
                c[2] < d[2] \/ (c[2] = d[2] /\ c[3] <= d[3])

(* A handler's running state: orders, managed position, stale mark, what   *)
(* is saved, and the submission it asks for, if any.                       *)
Run(ords, m, st, saved) ==
    [orders |-> ords, mgr |-> m, stale |-> st, disk |-> saved, ask |-> Idle]
Saved(r) == [r EXCEPT !.disk = r.mgr]
Asking(r, leg, qty, then) ==
    [r EXCEPT !.ask = [pc |-> "asked", leg |-> leg, qty |-> qty, mine |-> TRUE,
                       then |-> then, result |-> "NONE"]]

(* refresh_stops, up to its submission: a position that needs none, the    *)
(* adoption of a resting stop, or the cancelled stop's replacement.        *)
RefreshStops(r, then) ==
    LET m == r.mgr
        live == IF m.stop = NoLeg THEN LiveStop(r.orders) ELSE m.stop
    IN  IF ~r.stale \/ m.quantity = 0 \/ m.closing THEN Saved([r EXCEPT !.stale = FALSE])
        ELSE IF m.stop = NoLeg /\ live # NoLeg /\ r.orders[live].remaining = m.quantity
        THEN Saved([r EXCEPT !.mgr.stop = live, !.stale = FALSE])
        ELSE Asking([r EXCEPT !.orders = CancelIn(@, live), !.mgr.version = @ + 1],
                    Stop(today, m.version + 1), m.quantity, then)

CancelStop(r) ==
    [r EXCEPT !.orders = CancelIn(@, r.mgr.stop), !.mgr.stop = NoLeg]

ExitAll(r, leg, then) ==
    LET c == CancelStop(r) IN Asking(c, leg, r.mgr.quantity, then)

(* _exit_partial, for a partial_fraction of one half.                      *)
ExitPartial(r) ==
    LET qty == r.mgr.quantity \div 2
    IN  IF qty = 0 THEN [r EXCEPT !.mgr.partial = TRUE]
        ELSE Asking(CancelStop(r), Partial, qty, "end")

(* on_quote after its refresh: target and partial.                         *)
CheckLevels(r, level) ==
    IF r.mgr.quantity = 0 \/ r.mgr.closing THEN r
    ELSE IF level = "target" THEN ExitAll(r, Target, "end")
    ELSE IF level = "partial" /\ ~r.mgr.partial THEN ExitPartial(r)
    ELSE r

OnQuote(r, level) ==
    LET fresh == RefreshStops(r, level)
    IN  IF fresh.ask = Idle THEN CheckLevels(fresh, level) ELSE fresh

-----------------------------------------------------------------------------
(* A task that was at the head of the queue, or not in it, asks or ends.   *)
(* If a fill has replaced the managed object, the others hold an old one.  *)
Suspends(t, ask, replaced) ==
    LET rest == IF queue # <<>> /\ Head(queue) = t THEN Tail(queue) ELSE queue
    IN  /\ task' = [u \in Tasks |-> IF u = t THEN ask
                                    ELSE [task[u] EXCEPT !.mine = @ /\ ~replaced]]
        /\ queue' = IF ask = Idle THEN rest ELSE Append(rest, t)
        /\ Len(queue') <= MaxWaiting

Overlap == IF Len(queue') > 1 THEN {"overlapped"} ELSE {}

(* The state after a handler's step: it is suspended, or has saved.        *)
Steps(t, r, replaced) ==
    /\ orders' = r.orders
    /\ mgr' = r.mgr
    /\ stale' = r.stale
    /\ disk' = IF r.ask = Idle THEN r.mgr ELSE r.disk
    /\ Suspends(t, r.ask, replaced)

(* The entry: expect_entry, then OMS.submit.                               *)
Enter ==
    /\ phase = "open"
    /\ orders[Entry] = NoOrder
    /\ orders' = [orders EXCEPT ![Entry] = [status |-> "WORKING", remaining |-> MaxQty, day |-> today]]
    /\ UNCHANGED <<held, exitVars, taskVars, flatVars, envVars>>

(* One quote: the broker's listener executes orders, and each execution's  *)
(* callback saves the managed position; then the exit manager's listener   *)
(* runs on_quote.                                                          *)
Quote(t, level) ==
    /\ task[t] = Idle
    /\ phase = "open" \/ (t = "life" /\ phase = "opening")
    /\ \E taken \in Executions : \E capped \in SUBSET Cappable(taken) :
          LET any == \E c \in Matchable : taken[c] > 0
              told == Managed(taken)
              after == [c \in Legs |-> AfterQuote(c, taken, capped)]
              r == OnQuote(Run(after, told, stale \/ (any /\ told.quantity > 0),
                               IF any THEN told ELSE disk), level)
          IN  /\ held' = HeldAfter(taken)
              /\ r.mgr.version <= MaxVersion
              /\ Steps(t, r, taken[Entry] > 0)
              /\ Noting(Overlap \cup IF capped \ {Entry} # {} THEN {"capped"} ELSE {})
              /\ Faults(Cardinality(capped))
    /\ UNCHANGED <<flatVars, today, phase>>

-----------------------------------------------------------------------------
(* OMS.submit's shielded task: duplicate check, reduce-only clip, gate and *)
(* broker.                                                                 *)
Placed(leg, qty) ==
    [status |-> "WORKING", remaining |-> qty, day |-> today]

(* The reduce-only clip.                                                   *)
Clipped(qty) == IF qty <= Reducible THEN qty ELSE Reducible

Submits(t) ==
    LET a == task[t]
        qty == Clipped(a.qty)
    IN  /\ a.pc = "asked"
        /\ \A i \in 1 .. Len(queue) - 1 : queue[i + 1] = t => task[queue[i]].pc = "told"
        /\ \E result \in {"SUBMITTED", "DUPLICATE", "BLOCKED", "REJECTED"} :
              /\ (result = "DUPLICATE") = (orders[a.leg] # NoOrder)
              /\ result \in {"SUBMITTED", "REJECTED"} => qty > 0
              /\ result = "SUBMITTED" => phase # "closed"
              /\ orders' = CASE result = "SUBMITTED" -> [orders EXCEPT ![a.leg] = Placed(a.leg, qty)]
                             [] result = "REJECTED" -> [orders EXCEPT ![a.leg] = Ended]
                             [] OTHER -> orders
              /\ task' = [task EXCEPT ![t].pc = "told", ![t].result = result]
              /\ UNCHANGED queue
              /\ Noting(CASE result = "DUPLICATE" -> {"reused"}
                           [] result = "SUBMITTED" -> {}
                           [] OTHER -> {"refused"})
              /\ Faults(IF result \in {"BLOCKED", "REJECTED"} /\ qty > 0 THEN 1 ELSE 0)
        /\ UNCHANGED <<held, exitVars, flatVars, today, phase>>

Accepted(result) == result \in {"SUBMITTED", "DUPLICATE"}

(* Mutant: a refused stop is not tried again.                              *)
StaleAfterForgets(a, ok) ==
    IF a.leg \in StopLegs THEN FALSE ELSE stale \/ a.leg = Partial \/ ~ok

(* Whether the stop is due after the answer: a refused one stays due, and  *)
(* so does the remainder's after a partial exit or a refused exit.         *)
StaleAfter(a, ok) ==
    IF a.leg \in StopLegs THEN stale /\ ~ok ELSE stale \/ a.leg = Partial \/ ~ok

(* What the handler does with the answer.  It still writes to the object   *)
(* it read before the await: the write is lost if a fill has replaced it.  *)
Answered(a) ==
    LET ok == Accepted(a.result)
        mine == a.mine /\ mgr.quantity > 0
        m == CASE a.leg \in StopLegs /\ ok /\ mine -> [mgr EXCEPT !.stop = a.leg]
               [] a.leg = Partial /\ mine -> [mgr EXCEPT !.partial = TRUE]
               [] a.leg \notin StopLegs \cup {Partial} /\ ok /\ mine -> [mgr EXCEPT !.closing = TRUE]
               [] OTHER -> mgr
    IN  Run(orders, m, StaleAfter(a, ok), IF a.leg \in StopLegs THEN m ELSE disk)

(* The exit manager resumes: the rest of on_quote after its refresh, of    *)
(* on_session_start after a time exit, or the handler's end.               *)
Resumes(t) ==
    LET a == task[t]
        r == CASE a.then \in Levels -> CheckLevels(Answered(a), a.then)
               [] a.then = "refresh" -> RefreshStops(Answered(a), "end")
               [] OTHER -> Answered(a)
    IN  /\ a.pc = "told" /\ Head(queue) = t
        /\ a.leg \notin FlattenLegs
        /\ r.mgr.version <= MaxVersion
        /\ Steps(t, r, FALSE)
        /\ phase' = IF phase = "starting" /\ r.ask = Idle THEN "open" ELSE phase
        /\ Noting(Overlap)
        /\ UNCHANGED <<held, flatVars, today, faults>>
-----------------------------------------------------------------------------
(* The session.  _open_session polls once, then runs on_session_start.     *)
Open ==
    /\ phase = "down"
    /\ phase' = "opening"
    /\ UNCHANGED <<bookVars, exitVars, taskVars, flatVars, today, faults, mishaps>>

(* on_session_start: the time exit of a position that is held for its      *)
(* maximum of days (at least one), or the day's new stop.                  *)
SessionStart ==
    \E due \in BOOLEAN :
    LET r == Run(orders, mgr, stale, disk)
        begun == IF mgr.quantity = 0 \/ mgr.closing THEN RefreshStops(r, "end")
                 ELSE IF due THEN ExitAll(r, TimeExit(today), "refresh")
                 ELSE RefreshStops([r EXCEPT !.mgr.stop = NoLeg, !.stale = TRUE], "end")
    IN  /\ phase = "opening"
        /\ due => mgr.quantity > 0 /\ ~mgr.closing /\ mgr.entered < today
        /\ task["life"] = Idle
        /\ begun.mgr.version <= MaxVersion
        /\ Steps("life", begun, FALSE)
        /\ phase' = IF begun.ask = Idle THEN "open" ELSE "starting"
        /\ Noting(Overlap)
        /\ UNCHANGED <<held, flatVars, today, faults>>

(* CLOSE: the loops finish their step, the broker expires the session, and *)
(* the monitor ticks once more.                                            *)
Close ==
    /\ phase = "open"
    /\ \A t \in Tasks : task[t] = Idle
    /\ orders' = [c \in Legs |-> IF orders[c].status = "WORKING" THEN Ended ELSE orders[c]]
    /\ phase' = "expired"
    /\ UNCHANGED <<held, exitVars, taskVars, flatVars, today, faults, mishaps>>

(* The run ends, and the process is started again on the next day.         *)
EndSession ==
    /\ phase = "closed"
    /\ today < MaxDay
    /\ mgr' = disk
    /\ stale' = FALSE
    /\ phase' = "down"
    /\ today' = today + 1
    /\ UNCHANGED <<bookVars, disk, taskVars, flatVars, faults, mishaps>>

(* A process that died stays down until the next day.                      *)
NextDay ==
    /\ phase = "down"
    /\ today < MaxDay
    /\ today' = today + 1
    /\ UNCHANGED <<bookVars, exitVars, taskVars, flatVars, phase, faults, mishaps>>

(* The process stops or dies within the session: memory is lost, resting   *)
(* orders stay with the broker.                                            *)
Dies ==
    /\ phase \notin {"down", "closed"}
    /\ Faults(1)
    /\ mgr' = disk
    /\ stale' = FALSE
    /\ task' = [t \in Tasks |-> Idle]
    /\ queue' = <<>>
    /\ phase' = "down"
    /\ UNCHANGED <<disk, flatVars, today>>

Crash == Dies /\ Noting({"restarted"}) /\ UNCHANGED bookVars

(* A crash after a fill is booked and before the exit manager's listener   *)
(* has saved: the OMS knows the fill, the exit manager does not.           *)
CrashInFill ==
    /\ phase = "open"
    /\ \E c \in Matchable :
          LET taken == [d \in Legs |-> IF d = c THEN 1 ELSE 0]
          IN  /\ held' = HeldAfter(taken)
              /\ orders' = [d \in Legs |-> AfterQuote(d, taken, {})]
    /\ Dies
    /\ Noting({"torn"})

-----------------------------------------------------------------------------
(* The flattener.                                                          *)
(* A switch over the position trips to FLATTEN, or is re-armed.            *)
Trip ==
    /\ phase = "open"
    /\ flatten' = ~flatten
    /\ UNCHANGED <<bookVars, exitVars, taskVars, attempts, envVars>>

FlattenWorking == Working(orders, FlattenLegs) # {}

(* _release: stand_down gives up the stop and marks the position closing;  *)
(* every exit that still works is cancelled.                               *)
Released ==
    LET r == Run(orders, mgr, stale, disk)
        down == IF mgr.quantity = 0 THEN r
                ELSE Saved([CancelStop(r) EXCEPT !.mgr.closing = TRUE, !.stale = FALSE])
    IN  [down EXCEPT !.orders =
            [c \in Legs |-> IF c \in Reduces THEN CancelIn(down.orders, c)[c] ELSE down.orders[c]]]

(* Mutant: every attempt of a day uses the same leg.                       *)
AttemptOne == 1

Attempt == attempts[today] + 1

(* Flattener.step in a tick of the monitor (of the lifecycle at CLOSE).    *)
Tick(t) ==
    LET r == Released
        ask == Asking(r, Flatten(today, Attempt), held, "end")
        works == flatten /\ held > 0 /\ ~FlattenWorking
    IN  /\ task[t] = Idle
        /\ \/ t = "monitor" /\ phase = "open" /\ works
           \/ t = "life" /\ phase = "expired"
        /\ works => Attempt <= MaxAttempts
        /\ IF works
           THEN /\ orders' = ask.orders
                /\ mgr' = ask.mgr
                /\ stale' = ask.stale
                /\ disk' = ask.disk
                /\ Suspends(t, ask.ask, FALSE)
                /\ attempts' = [attempts EXCEPT ![today] = Attempt]
                /\ Noting(Overlap)
           ELSE UNCHANGED <<orders, exitVars, taskVars, attempts, mishaps>>
        /\ phase' = IF phase = "expired" /\ ~works THEN "closed" ELSE phase
        /\ UNCHANGED <<held, flatten, today, faults>>

FlattenAnswered(t) ==
    LET a == task[t]
    IN  /\ a.pc = "told" /\ Head(queue) = t
        /\ a.leg \in FlattenLegs
        /\ Suspends(t, Idle, FALSE)
        /\ phase' = IF phase = "expired" THEN "closed" ELSE phase
        /\ UNCHANGED <<bookVars, exitVars, flatten, attempts, today, faults, mishaps>>

-----------------------------------------------------------------------------
Init ==
    /\ orders = [c \in Legs |-> NoOrder]
    /\ held = 0
    /\ mgr = Nobody /\ disk = Nobody /\ stale = FALSE
    /\ task = [t \in Tasks |-> Idle]
    /\ queue = <<>>
    /\ flatten = FALSE
    /\ attempts = [d \in 1 .. MaxDay |-> 0]
    /\ today = 1
    /\ phase = "down"
    /\ faults = 0
    /\ mishaps = {}

Continue(t) == Submits(t) \/ Resumes(t) \/ FlattenAnswered(t)

Next ==
    \/ Enter \/ Open \/ SessionStart \/ Close \/ EndSession \/ NextDay
    \/ Crash \/ CrashInFill \/ Trip
    \/ \E t \in {"market", "life"}, level \in Levels : Quote(t, level)
    \/ \E t \in {"monitor", "life"} : Tick(t)
    \/ \E t \in Tasks : Continue(t)

Spec == Init /\ [][Next]_vars

-----------------------------------------------------------------------------
OrderType == [status : {"NONE", "WORKING", "ENDED"}, remaining : 0 .. MaxQty, day : 0 .. MaxDay]
ManagedType == [quantity : 0 .. MaxQty, stop : StopLegs \cup {NoLeg}, version : 0 .. MaxVersion,
                closing : BOOLEAN, partial : BOOLEAN, entered : 0 .. MaxDay]
TaskType == [pc : {"idle", "asked", "told"}, leg : Legs \cup {NoLeg}, qty : 0 .. MaxQty, mine : BOOLEAN,
             then : Levels \cup {"end", "refresh"},
             result : {"NONE", "SUBMITTED", "DUPLICATE", "BLOCKED", "REJECTED"}]

TypeOK ==
    /\ orders \in [Legs -> OrderType]
    /\ held \in 0 .. MaxQty
    /\ mgr \in ManagedType /\ disk \in ManagedType /\ stale \in BOOLEAN
    /\ task \in [Tasks -> TaskType]
    /\ queue \in Seq(Tasks) /\ Len(queue) <= MaxWaiting
    /\ flatten \in BOOLEAN
    /\ attempts \in [1 .. MaxDay -> 0 .. MaxAttempts]
    /\ today \in 1 .. MaxDay
    /\ phase \in {"down", "opening", "starting", "open", "expired", "closed"}
    /\ faults \in 0 .. MaxFaults
    /\ mishaps \subseteq Mishaps

Quiet == \A t \in Tasks : task[t] = Idle

(* The exit manager and the book agree on how much is held (_on_fill and   *)
(* its save), in memory and after any restart, unless the process died     *)
(* between a fill and that save.                                           *)
ManagedIsHeld == "torn" \in mishaps \/ (mgr.quantity = held /\ disk.quantity = held)

(* Between handlers of an open session, a position that is neither being   *)
(* closed nor due for a new stop is covered to the last share by working   *)
(* exits (refresh_stops after every fill, exit and session start), unless  *)
(* a leg was reused, an exit gave up at the cap, the process was restarted *)
(* in the session, or an order was refused to one of two handlers that     *)
(* overlapped.                                                             *)
StopCovers ==
    /\ Quiet /\ phase = "open" /\ mgr.quantity > 0 /\ ~mgr.closing /\ ~stale
    /\ "unsafe" \notin mishaps
    => Reducible = 0

(* Each flatten order is a new one (the attempt is spent and saved before  *)
(* the order exists): a restart never mistakes a spent order for its own.  *)
FlattenIsNew ==
    \A t \in Tasks : task[t].leg \in FlattenLegs => task[t].result # "DUPLICATE"
=============================================================================
