------------------------------- MODULE Session -------------------------------
(***************************************************************************)
(* A trading session: the lifecycle that drives a day (src/engine/         *)
(* lifecycle.py), the engine's hooks and its periodic loops (runner.py,    *)
(* tasks.py), the driver that stops it (live.py), and the run manager of   *)
(* the web console that starts and stops runs (src/web/run_manager.py),    *)
(* and the console's own server, which a scheduled run ends with           *)
(* (src/web/server.py).                                                    *)
(*                                                                         *)
(* Time is the part of the day: 0 before the open, then the starts of      *)
(* OPEN, ENTRY_WINDOW, MONITOR, CLOSE, REPORT and EXIT.  It passes while a *)
(* hook runs, so a hook may overrun the start of later states.             *)
(***************************************************************************)
EXTENDS Integers, Sequences, FiniteSets

CONSTANTS
    Loops,      \* the periodic tasks of the engine
    Clients,    \* concurrent requests to stop the run
    Lifespan,   \* the one of them that is the end of the server
    MaxRuns     \* bound: runs of a day

ASSUME SessionAssumption == Loops # {} /\ Lifespan \in Clients /\ MaxRuns \in Nat \ {0}

VARIABLES
    day,        \* "session", "holiday" or "uncovered" (by the calendar)
    fits,       \* whether the entry window fits into the session
    clock,      \* 0 .. 6
    run,        \* the current run
    loop,       \* each loop: "off", "sleeping" or "stepping"
    loopStop,   \* TaskGroup._stop
    orphans,    \* loops of an earlier run that are still in a step
    mgr,        \* the run manager; and, of the runs, those asked to stop while
                \* they were built (hurried), and those whose engine still runs
                \* although the run is over (adrift)
    caller,     \* the stop requests that wait
    server      \* the console's server: pc, and the run whose end it waits for

vars == <<day, fits, clock, run, loop, loopStop, orphans, mgr, caller, server>>

-----------------------------------------------------------------------------
(* The schedule.                                                           *)
States == {"OPEN", "ENTRY_WINDOW", "MONITOR", "CLOSE", "REPORT", "EXIT"}

(* Schedule.transitions: the states after PRE_OPEN and where they start.   *)
Transitions ==
    IF fits THEN << <<"OPEN", 1>>, <<"ENTRY_WINDOW", 2>>, <<"MONITOR", 3>>,
                    <<"CLOSE", 4>>, <<"REPORT", 5>>, <<"EXIT", 6>> >>
    ELSE << <<"MONITOR", 1>>, <<"CLOSE", 4>>, <<"REPORT", 5>>, <<"EXIT", 6>> >>

(* Schedule.state_at.                                                      *)
StateAt(t) ==
    IF t = 0 THEN "PRE_OPEN"
    ELSE LET begun == {i \in DOMAIN Transitions : Transitions[i][2] <= t}
         IN  Transitions[CHOOSE i \in begun : \A j \in begun : j <= i][1]

(* Mutant: a session without an entry window is never opened.              *)
InSessionNoMonitor == {"OPEN", "ENTRY_WINDOW"}

(* _IN_SESSION *)
InSession == {"OPEN", "ENTRY_WINDOW", "MONITOR"}

-----------------------------------------------------------------------------
(* A run: where its lifecycle is, the hook it is in, the transitions it    *)
(* has looked at, and what has happened to it.                             *)
NoRun == [pc |-> "done", state |-> "NONE", hook |-> "none", next |-> 1, opened |-> FALSE,
          failed |-> FALSE, expired |-> FALSE, skipped |-> FALSE, requested |-> FALSE,
          cancelled |-> FALSE]

(* early: it came while the run was being built.                           *)
NoRequest == [pc |-> "idle", asked |-> 0, run |-> 0, early |-> FALSE]

Alive == run.pc # "done"
Quiet == \A l \in Loops : loop[l] = "off"
StartAll == [l \in Loops |-> "sleeping"]
StopAll == [l \in Loops |-> "off"]

envVars == <<day, fits, clock>>
callVars == <<mgr, caller, server>>
loopVars == <<loop, loopStop, orphans>>

Passes ==
    /\ clock < 6
    /\ clock' = clock + 1
    /\ UNCHANGED <<day, fits, run, loopVars, callVars>>

(* RunManager.start: a new run, if none is active.                         *)
Started ==
    /\ ~Alive
    /\ mgr.runs < MaxRuns
    /\ run' = [NoRun EXCEPT !.pc = "building"]
    /\ mgr' = [mgr EXCEPT !.runs = @ + 1, !.stop = FALSE]
    /\ UNCHANGED <<envVars, loopVars, caller>>

(* The operator asks the console for one.                                  *)
Start == server.pc = "up" /\ Started /\ UNCHANGED server

(* RunManager.detach *)
Detached == [mgr EXCEPT !.engine = FALSE]

(* run_paper builds the engine, and the manager attaches it; a             *)
(* configuration error ends the run.                                       *)
Attach ==
    /\ run.pc = "building"
    /\ run' = [run EXCEPT !.pc = "start"]
    /\ mgr' = [mgr EXCEPT !.engine = TRUE]
    /\ loop' = StopAll /\ loopStop' = FALSE
    /\ UNCHANGED <<envVars, orphans, caller, server>>

BuildFails ==
    /\ run.pc = "building"
    /\ run' = NoRun
    /\ mgr' = Detached
    /\ UNCHANGED <<envVars, loopVars, caller, server>>

(* Engine.run's finally.                                                   *)
ToFinally(r) == [r EXCEPT !.pc = "finally", !.hook = "none"]

-----------------------------------------------------------------------------
(* SessionLifecycle.run.                                                   *)

(* The schedule: a holiday and a day that is over end at once, a day the   *)
(* calendar does not cover is a configuration error.                       *)
Begin ==
    /\ run.pc = "start"
    /\ IF day # "session"
       THEN /\ run' = ToFinally([run EXCEPT !.state = IF day = "holiday" THEN "HOLIDAY" ELSE @])
            /\ loopStop' = TRUE
       ELSE IF clock = 6
       THEN run' = ToFinally([run EXCEPT !.state = "EXIT"]) /\ loopStop' = TRUE
       ELSE run' = [run EXCEPT !.pc = "pre_open", !.state = "PRE_OPEN"] /\ UNCHANGED loopStop
    /\ UNCHANGED <<envVars, loop, orphans, callVars>>

(* _enter and the start of Engine.on_state.                                *)
Entered(r, s) ==
    LET opens == s \in InSession /\ ~r.opened
    IN  [r EXCEPT !.pc = "hook", !.state = s, !.opened = @ \/ opens,
                  !.hook = CASE opens -> "opening"
                             [] s = "ENTRY_WINDOW" /\ ~opens -> "deciding"
                             [] s = "CLOSE" -> "closing"
                             [] s = "REPORT" -> "reporting"
                             [] OTHER -> "none"]

(* tasks.stop is the first thing the CLOSE hook does.                      *)
StopsLoops(r) == loopStop' = (loopStop \/ r.hook = "closing" \/ r.pc = "finally")

EntersLate(current) == current # "PRE_OPEN" /\ ~run.requested

(* on_pre_open ends (or fails, and is alerted): a late start enters the    *)
(* state of now.                                                           *)
PreOpenEnds ==
    /\ run.pc = "pre_open"
    /\ LET current == StateAt(clock)
       IN  run' = IF EntersLate(current) THEN Entered(run, current)
                  ELSE [run EXCEPT !.pc = "loop"]
    /\ StopsLoops(run')
    /\ UNCHANGED <<envVars, loop, orphans, callVars>>

Following(i) == i + 1

(* One turn of the loop over the transitions: a state that has begun is    *)
(* skipped; otherwise sleep, unless a stop was requested.                  *)
LooksAt(r, i) ==
    IF i > Len(Transitions) THEN ToFinally(r)
    ELSE IF Transitions[i][2] <= clock
    THEN [r EXCEPT !.next = Following(i), !.skipped = @ \/ (Transitions[i][1] = "CLOSE" /\ r.opened
                                                     /\ r.state # "CLOSE")]
    ELSE IF r.requested THEN ToFinally(r)
    ELSE [r EXCEPT !.pc = "sleep"]

Look ==
    /\ run.pc = "loop"
    /\ run' = LooksAt(run, run.next)
    /\ StopsLoops(run')
    /\ UNCHANGED <<envVars, loop, orphans, callVars>>

(* _sleep_until ends at its instant or when a stop is requested.           *)
Wake ==
    /\ run.pc = "sleep"
    /\ run.requested \/ clock >= Transitions[run.next][2]
    /\ run' = IF run.requested THEN ToFinally(run)
              ELSE Entered([run EXCEPT !.next = @ + 1], Transitions[run.next][1])
    /\ StopsLoops(run')
    /\ UNCHANGED <<envVars, loop, orphans, callVars>>

(* Engine.on_state, step by step.  Opening polls and places the exits,     *)
(* then starts the loops; an entry window then decides.                    *)
Opens ==
    /\ run.pc = "hook" /\ run.hook = "opening"
    /\ run' = IF run.state = "ENTRY_WINDOW" THEN [run EXCEPT !.hook = "deciding"]
              ELSE [run EXCEPT !.pc = "loop", !.hook = "none"]
    /\ loop' = StartAll
    /\ loopStop' = FALSE
    /\ UNCHANGED <<envVars, orphans, callVars>>

(* Mutant: CLOSE does not wait for the loops.                              *)
ClosesAtOnce ==
    /\ run.pc = "hook" /\ run.hook = "closing"
    /\ run' = [run EXCEPT !.pc = "loop", !.hook = "none", !.expired = TRUE]
    /\ UNCHANGED <<envVars, loopVars, callVars>>

(* CLOSE waits for the loops, expires the session and ticks the monitor.   *)
Closes ==
    /\ run.pc = "hook" /\ run.hook = "closing"
    /\ Quiet
    /\ run' = [run EXCEPT !.pc = "loop", !.hook = "none", !.expired = TRUE]
    /\ UNCHANGED <<envVars, loopVars, callVars>>

HookEnds ==
    /\ run.pc = "hook" /\ run.hook \in {"deciding", "reporting", "none"}
    /\ run' = [run EXCEPT !.pc = "loop", !.hook = "none"]
    /\ UNCHANGED <<envVars, loopVars, callVars>>

(* A hook that raises is alerted, and the lifecycle carries on; the        *)
(* session counts as opened already.                                       *)
HookFails ==
    /\ run.pc = "hook" /\ run.hook \in {"opening", "deciding", "closing", "reporting"}
    /\ run.hook = "closing" => Quiet
    /\ run' = [run EXCEPT !.pc = "loop", !.hook = "none", !.failed = TRUE]
    /\ UNCHANGED <<envVars, loopVars, callVars>>

(* Engine.run's finally: tasks.stop waits for every loop; then _run's      *)
(* finally detaches the engine.                                            *)
RunEnds ==
    /\ run.pc = "finally"
    /\ Quiet
    /\ run' = [run EXCEPT !.pc = "done"]
    /\ mgr' = Detached
    /\ UNCHANGED <<envVars, loopVars, caller, server>>

-----------------------------------------------------------------------------
(* The loops (periodic) and TaskGroup.stop.                                *)
LoopSteps(l) ==
    /\ loop[l] = "sleeping" /\ ~loopStop
    /\ loop' = [loop EXCEPT ![l] = "stepping"]
    /\ UNCHANGED <<envVars, run, loopStop, orphans, callVars>>

(* A step ends, or fails and is alerted; a sleeping loop ends on a stop.   *)
LoopRests(l) ==
    /\ loop[l] = "stepping" \/ (loop[l] = "sleeping" /\ loopStop)
    /\ loop' = [loop EXCEPT ![l] = IF loopStop THEN "off" ELSE "sleeping"]
    /\ UNCHANGED <<envVars, run, loopStop, orphans, callVars>>

(* A step that outlasts tasks.stop's timeout is cancelled.                 *)
LoopTimesOut ==
    /\ run.hook = "closing" \/ run.pc = "finally"
    /\ ~Quiet
    /\ loop' = StopAll
    /\ UNCHANGED <<envVars, run, loopStop, orphans, callVars>>

OrphanEnds(l) ==
    /\ l \in orphans
    /\ orphans' = orphans \ {l}
    /\ UNCHANGED <<envVars, run, loop, loopStop, callVars>>

-----------------------------------------------------------------------------
(* Stopping.  _drive passes the stop on to the lifecycle (which runs up to *)
(* its first hook before _drive looks) ...                                 *)
Request ==
    /\ run.pc \notin {"done", "building", "start"}
    /\ mgr.stop /\ ~run.requested
    /\ run' = [run EXCEPT !.requested = TRUE]
    /\ UNCHANGED <<envVars, loopVars, callVars>>

(* ... and cancels the run after its grace, in a hook, asleep, or in its   *)
(* finally: then the wait for the loops itself is cancelled, and the loops *)
(* that are still in a step belong to nobody.                              *)
Cancelled ==
    IF run.pc \in {"finally", "building"}
    THEN /\ run' = [run EXCEPT !.pc = "done", !.cancelled = TRUE]
         /\ mgr' = Detached
         /\ orphans' = orphans \cup {l \in Loops : loop[l] # "off"}
         /\ loop' = StopAll
         /\ UNCHANGED loopStop
    ELSE /\ run' = ToFinally([run EXCEPT !.cancelled = TRUE])
         /\ loopStop' = TRUE
         /\ UNCHANGED <<loop, orphans, mgr>>

(* Mutant: the driver waits for ever.                                      *)
GraceNever == FALSE /\ UNCHANGED vars

GraceEnds ==
    /\ Alive /\ run.requested /\ ~run.cancelled
    /\ Cancelled
    /\ UNCHANGED <<envVars, caller, server>>

(* RunManager.shutdown: sets the stop event and waits for the run.         *)
Shutdown(c) ==
    /\ caller[c].pc = "idle"
    /\ Alive
    /\ LET early == run.pc = "building"
       IN  /\ mgr' = [mgr EXCEPT !.stop = TRUE,
                                 !.hurried = IF early THEN @ \cup {mgr.runs} ELSE @]
           /\ caller' = [caller EXCEPT ![c] = [pc |-> "waiting", asked |-> mgr.runs,
                                               run |-> mgr.runs, early |-> early]]
    /\ UNCHANGED <<envVars, run, loopVars>>

(* The operator asks the console to stop the run.                          *)
Stop(c) == c # Lifespan /\ server.pc = "up" /\ Shutdown(c) /\ UNCHANGED server

(* The run's task is cancelled in _drive's own wait, before its grace is   *)
(* over: the run ends, its store closed, but nobody cancels the engine,    *)
(* which goes on, its loops with it.                                       *)
CutLoose ==
    /\ run' = [run EXCEPT !.pc = "done", !.hook = "none"]
    /\ mgr' = [Detached EXCEPT !.adrift = @ \cup {mgr.runs}]
    /\ loop' = StopAll
    /\ UNCHANGED <<loopStop, orphans>>

(* It cancels the run once more, and awaits the task.  Its timeout is 5 s  *)
(* longer than the grace, but counts from the request, the grace from the  *)
(* moment the engine is built: so it is over first after a request that    *)
(* came early, if the build then took longer than that (or it ends in the  *)
(* last part of the build, which awaits nothing, and _drive never looks).  *)
StopTimesOut(c) ==
    /\ caller[c].pc = "waiting"
    /\ caller[c].run = mgr.runs /\ Alive
    /\ \/ (run.cancelled \/ run.pc = "building") /\ Cancelled
       \/ ~run.cancelled /\ run.pc # "building" /\ caller[c].early /\ CutLoose
    /\ caller' = [caller EXCEPT ![c].pc = "awaiting"]
    /\ UNCHANGED <<envVars, server>>

(* The engine comes to its end at last (what it still does until then is   *)
(* not modelled).                                                          *)
AdriftEnds(r) ==
    /\ r \in mgr.adrift
    /\ mgr' = [mgr EXCEPT !.adrift = @ \ {r}]
    /\ UNCHANGED <<envVars, run, loopVars, caller, server>>

(* The wait is over when the run it was called for has finished; the task  *)
(* it then awaits is the manager's current one: a run that was started     *)
(* before the caller resumed.                                              *)
Over(c) == caller[c].run < mgr.runs \/ ~Alive

StopResumes(c) ==
    /\ caller[c].pc = "waiting"
    /\ Over(c)
    /\ caller' = [caller EXCEPT ![c].pc = "awaiting", ![c].run = mgr.runs]
    /\ UNCHANGED <<envVars, run, loopVars, mgr, server>>

StopReturns(c) ==
    /\ caller[c].pc = "awaiting"
    /\ Over(c)
    /\ caller' = [caller EXCEPT ![c] = NoRequest]
    /\ UNCHANGED <<envVars, run, loopVars, mgr, server>>

-----------------------------------------------------------------------------
(* The server.  A scheduled console starts a run of its own, and ends when *)
(* the run has ended or could not start.                                   *)
Launch ==
    /\ server.pc = "launch"
    /\ \E scheduled \in BOOLEAN :
        \/ Started /\ server' = [pc |-> "up", awaits |-> IF scheduled THEN mgr.runs + 1 ELSE 0]
        \/ server' = [pc |-> IF scheduled THEN "leaving" ELSE "up", awaits |-> 0]
           /\ UNCHANGED <<envVars, run, loopVars, mgr, caller>>

(* end_after_the_run                                                       *)
RunOver ==
    /\ server.pc = "up" /\ server.awaits > 0
    /\ server.awaits < mgr.runs \/ ~Alive
    /\ server' = [server EXCEPT !.pc = "leaving"]
    /\ UNCHANGED <<envVars, run, loopVars, mgr, caller>>

(* The operator ends the console.                                          *)
Interrupted ==
    /\ server.pc = "up"
    /\ server' = [pc |-> "leaving", awaits |-> 0]
    /\ UNCHANGED <<envVars, run, loopVars, mgr, caller>>

(* Mutant: the server ends without the run it has started.                 *)
LeavesAtOnce ==
    /\ server.pc = "leaving"
    /\ server' = [server EXCEPT !.pc = "down"]
    /\ UNCHANGED <<envVars, run, loopVars, mgr, caller>>

(* No request is open any more; the lifespan's end stops the run, if any,  *)
(* and then the hub.                                                       *)
Leaves ==
    /\ server.pc \in {"leaving", "stopping"}
    /\ \A c \in Clients : caller[c].pc = "idle"
    /\ IF server.pc = "leaving" /\ Alive
       THEN Shutdown(Lifespan) /\ server' = [server EXCEPT !.pc = "stopping"]
       ELSE /\ server' = [server EXCEPT !.pc = "down"]
            /\ UNCHANGED <<envVars, run, loopVars, mgr, caller>>

-----------------------------------------------------------------------------
Init ==
    /\ day \in {"session", "holiday", "uncovered"}
    /\ fits \in BOOLEAN
    /\ clock \in 0 .. 6
    /\ run = NoRun
    /\ loop = StopAll /\ loopStop = FALSE /\ orphans = {}
    /\ mgr = [runs |-> 0, engine |-> FALSE, stop |-> FALSE, hurried |-> {}, adrift |-> {}]
    /\ caller = [c \in Clients |-> NoRequest]
    /\ server = [pc |-> "launch", awaits |-> 0]

Lifecycle == Begin \/ Look \/ Wake \/ RunEnds
Hooks == Attach \/ BuildFails \/ PreOpenEnds \/ Opens \/ Closes \/ HookEnds \/ HookFails

Next ==
    \/ Passes \/ Start \/ Lifecycle \/ Hooks
    \/ LoopTimesOut \/ Request \/ GraceEnds
    \/ Launch \/ RunOver \/ Interrupted \/ Leaves
    \/ \E l \in Loops : LoopSteps(l) \/ LoopRests(l) \/ OrphanEnds(l)
    \/ \E c \in Clients : Stop(c) \/ StopTimesOut(c) \/ StopResumes(c) \/ StopReturns(c)
    \/ \E r \in 1 .. MaxRuns : AdriftEnds(r)

(* The event loop runs what is ready, and timeouts expire; that building   *)
(* the engine, a hook or a loop's step ends by itself is not assumed.      *)
Fairness ==
    /\ WF_vars(Lifecycle) /\ WF_vars(Request) /\ WF_vars(GraceEnds) /\ WF_vars(LoopTimesOut)
    /\ \A c \in Clients : WF_vars(StopTimesOut(c) \/ StopResumes(c) \/ StopReturns(c))
    /\ WF_vars(Leaves)

Spec == Init /\ [][Next]_vars /\ Fairness

-----------------------------------------------------------------------------
RunType ==
    [pc : {"done", "building", "start", "pre_open", "loop", "sleep", "hook", "finally"},
     state : States \cup {"NONE", "PRE_OPEN", "HOLIDAY"},
     hook : {"none", "opening", "deciding", "closing", "reporting"},
     next : 1 .. 7, opened : BOOLEAN, failed : BOOLEAN, expired : BOOLEAN, skipped : BOOLEAN,
     requested : BOOLEAN, cancelled : BOOLEAN]

MgrType == [runs : 0 .. MaxRuns, engine : BOOLEAN, stop : BOOLEAN,
            hurried : SUBSET (0 .. MaxRuns), adrift : SUBSET (0 .. MaxRuns)]

RequestType == [pc : {"idle", "waiting", "awaiting"}, asked : 0 .. MaxRuns, run : 0 .. MaxRuns,
                early : BOOLEAN]

TypeOK ==
    /\ day \in {"session", "holiday", "uncovered"} /\ fits \in BOOLEAN /\ clock \in 0 .. 6
    /\ run \in RunType
    /\ loop \in [Loops -> {"off", "sleeping", "stepping"}] /\ loopStop \in BOOLEAN
    /\ orphans \subseteq Loops
    /\ mgr \in MgrType
    /\ caller \in [Clients -> RequestType]
    /\ server \in [pc : {"launch", "up", "leaving", "stopping", "down"}, awaits : 0 .. MaxRuns]

(* While the lifecycle sleeps in the session, every loop runs (the quotes  *)
(* reach the broker and the exits, the monitor ticks), whenever the run    *)
(* was started, unless a hook has failed (Engine.on_state, _open_session). *)
SessionIsWatched ==
    /\ run.pc = "sleep" /\ run.state \in {"OPEN", "ENTRY_WINDOW", "MONITOR"} /\ ~run.failed
    => \A l \in Loops : loop[l] # "off"

(* When the day is reported, the session is over: no loop runs any more    *)
(* and the day's orders have expired, unless a hook overran the close, so  *)
(* that the lifecycle skipped it, or CLOSE failed.                         *)
ReportIsFinal ==
    /\ run.hook = "reporting" /\ run.opened /\ ~run.skipped /\ ~run.failed
    => Quiet /\ run.expired

(* The console leaves no run behind: its engine is always that of a live   *)
(* run (attach, detach), and when its server has ended the run that was    *)
(* active has ended too, whoever asked for the end, and whichever run was  *)
(* started meanwhile (lifespan, RunManager.shutdown).  The engine itself   *)
(* may outlast its run only where a stop was asked for during the build.   *)
NothingLeftRunning ==
    /\ mgr.engine => Alive
    /\ server.pc = "down" => ~Alive /\ ~mgr.engine
    /\ mgr.adrift \subseteq mgr.hurried

(* No engine outlasts its run, since shutdown waits longer than _drive     *)
(* does until it cancels ("_drive already cancels after its grace").       *)
GraceComesFirst == mgr.adrift = {}

(* TaskGroup.stop stops every loop: none of an earlier run is still in a   *)
(* step, with its store closed.                                            *)
EveryLoopStops == orphans = {}

(* A stop ends the run, even if a hook or a loop's step never does: the    *)
(* grace of _drive and the timeout of TaskGroup.stop see to it.  And a     *)
(* console that is to end does end, although a hook of its run or an       *)
(* operator's request may hang on the run.  The exception is a stop        *)
(* request that awaits a run started in the moment between the end of the  *)
(* run it stopped and its own resumption: nobody has asked that run to     *)
(* stop, and the server waits for the request.                             *)
StopsEnd ==
    /\ mgr.stop /\ Alive ~> ~Alive \/ ~mgr.stop
    /\ server.pc = "leaving" ~>
          server.pc = "down" \/ \E c \in Clients : caller[c].asked # caller[c].run
=============================================================================
