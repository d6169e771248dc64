--------------------------- MODULE SessionProofs ---------------------------
(***************************************************************************)
(* Proofs about a trading session: the session is watched while it sleeps, *)
(* its report is final, and the console leaves no run behind; for any      *)
(* number of loops, stop requests and runs, any start of a run and any     *)
(* overrun of a hook.                                                      *)
(* And about the event stream of the console: on one connection the events *)
(* are sent in order, and the client has every event it asked for up to    *)
(* the last it applied, whatever overflowed, dropped or was swapped; for   *)
(* any queue, batch, log and number of connections.                        *)
(***************************************************************************)
EXTENDS Session, Stream, SequenceTheorems, FiniteSetTheorems, TLAPS

-----------------------------------------------------------------------------
(* The inductive invariant.                                                *)

(* A lifecycle that is past PRE_OPEN's hook and not in its finally.        *)
Driving == run.pc \in {"loop", "sleep", "hook"}

(* Where a state starts in the day.                                        *)
StartOf(s) ==
    CASE s = "OPEN" -> 1 [] s = "ENTRY_WINDOW" -> 2
      [] s = "MONITOR" -> (IF fits THEN 3 ELSE 1)
      [] s = "CLOSE" -> 4 [] s = "REPORT" -> 5 [] s = "EXIT" -> 6
      [] OTHER -> 0

(* The position of CLOSE among the transitions.                            *)
CloseAt == IF fits THEN 4 ELSE 2

(* A run that has entered no state yet is as it was made.                  *)
FreshRuns ==
    run.pc \in {"building", "start", "pre_open"} =>
        /\ run.next = 1 /\ ~run.opened /\ ~run.expired /\ ~run.failed /\ run.hook = "none"
        /\ run.pc = "pre_open" => run.state = "PRE_OPEN"

(* Only a run in a hook has one, and each hook is of its state.            *)
HooksFit ==
    /\ run.hook # "none" => run.pc = "hook"
    /\ run.hook = "opening" => run.state \in InSession /\ run.opened /\ run.next <= CloseAt
    /\ run.hook = "closing" => run.state = "CLOSE"
    /\ run.hook = "reporting" => run.state = "REPORT" /\ (run.opened => run.next > CloseAt)

(* The lifecycle is in a state that has begun, sleeps towards a later one, *)
(* and counts as opened from the first state of the session on; an opened  *)
(* run comes to CLOSE only through its transition.                         *)
StatesInOrder ==
    Driving =>
        /\ run.state \in States \cup {"PRE_OPEN"}
        /\ StartOf(run.state) <= clock
        /\ run.state \in InSession => run.opened
        /\ run.state = "PRE_OPEN" => ~run.opened
        /\ run.opened /\ run.state = "CLOSE" => run.next > CloseAt
        /\ run.pc = "sleep" => /\ run.next <= Len(Transitions)
                               /\ StartOf(run.state) < Transitions[run.next][2]

(* From the end of the opening hook to CLOSE every loop runs.              *)
Watched ==
    Driving /\ run.hook # "opening" /\ run.state \in InSession /\ ~run.failed =>
        ~loopStop /\ \A l \in Loops : loop[l] # "off"

(* Once past CLOSE's transition without skipping it or failing, the loops  *)
(* have stopped and the orders have expired.                               *)
Final ==
    /\ Driving /\ run.hook # "closing" /\ run.opened /\ ~run.skipped /\ ~run.failed
    /\ run.next > CloseAt
    => Quiet /\ run.expired

(* The engine is that of a live run; once the server ends, no run starts,  *)
(* and the request that ends it waits for the run that was active.         *)
ServerEnds ==
    /\ mgr.engine => Alive
    /\ server.pc = "stopping" /\ Alive =>
          caller[Lifespan].pc # "idle" /\ caller[Lifespan].run = mgr.runs
    /\ server.pc = "down" => ~Alive

(* Only a run that was asked to stop while it was built is cut loose.      *)
Hurried ==
    /\ mgr.adrift \subseteq mgr.hurried
    /\ \A c \in Clients :
          caller[c].pc = "waiting" /\ caller[c].early => caller[c].run \in mgr.hurried

DayInv == FreshRuns /\ HooksFit /\ StatesInOrder /\ Watched /\ Final
SessionInv == TypeOK /\ DayInv /\ ServerEnds /\ Hurried

-----------------------------------------------------------------------------
(* The schedule.                                                           *)

(* The transitions lie in the order of the day, those of the session       *)
(* before CLOSE and the report after it.                                   *)
LEMMA TransitionsFacts ==
    ASSUME fits \in BOOLEAN
    PROVE  /\ Len(Transitions) \in 1 .. 6
           /\ CloseAt \in 1 .. 6 /\ CloseAt <= Len(Transitions)
           /\ \A i \in 1 .. Len(Transitions) :
                /\ Transitions[i][1] \in States
                /\ Transitions[i][2] \in 1 .. 6
                /\ Transitions[i][2] = StartOf(Transitions[i][1])
                /\ Transitions[i][1] = "CLOSE" <=> i = CloseAt
                /\ Transitions[i][1] \in InSession <=> i < CloseAt
                /\ Transitions[i][1] = "REPORT" => i > CloseAt
<1>1. CASE fits
  <2>1. /\ Len(Transitions) = 6
        /\ Transitions[1][1] = "OPEN" /\ Transitions[1][2] = 1
        /\ Transitions[2][1] = "ENTRY_WINDOW" /\ Transitions[2][2] = 2
        /\ Transitions[3][1] = "MONITOR" /\ Transitions[3][2] = 3
        /\ Transitions[4][1] = "CLOSE" /\ Transitions[4][2] = 4
        /\ Transitions[5][1] = "REPORT" /\ Transitions[5][2] = 5
        /\ Transitions[6][1] = "EXIT" /\ Transitions[6][2] = 6
    BY <1>1 DEF Transitions
  <2>2. CloseAt = 4
    BY <1>1 DEF CloseAt
  <2>3. /\ StartOf("OPEN") = 1 /\ StartOf("ENTRY_WINDOW") = 2 /\ StartOf("MONITOR") = 3
        /\ StartOf("CLOSE") = 4 /\ StartOf("REPORT") = 5 /\ StartOf("EXIT") = 6
    BY <1>1 DEF StartOf
  <2> HIDE DEF Transitions
  <2> QED
    BY <2>1, <2>2, <2>3 DEF States, InSession
<1>2. CASE ~fits
  <2>1. /\ Len(Transitions) = 4
        /\ Transitions[1][1] = "MONITOR" /\ Transitions[1][2] = 1
        /\ Transitions[2][1] = "CLOSE" /\ Transitions[2][2] = 4
        /\ Transitions[3][1] = "REPORT" /\ Transitions[3][2] = 5
        /\ Transitions[4][1] = "EXIT" /\ Transitions[4][2] = 6
    BY <1>2 DEF Transitions
  <2>2. CloseAt = 2
    BY <1>2 DEF CloseAt
  <2>3. /\ StartOf("MONITOR") = 1
        /\ StartOf("CLOSE") = 4 /\ StartOf("REPORT") = 5 /\ StartOf("EXIT") = 6
    BY <1>2 DEF StartOf
  <2> QED
    BY <2>1, <2>2, <2>3 DEF States, InSession
<1> QED
  BY <1>1, <1>2

(* The state a late start enters has begun.                                *)
LEMMA StateAtFacts ==
    ASSUME fits \in BOOLEAN, NEW t \in 0 .. 6
    PROVE  /\ StateAt(t) \in States \cup {"PRE_OPEN"}
           /\ StartOf(StateAt(t)) <= t
<1>1. CASE t = 0
  BY <1>1 DEF StateAt, StartOf
<1>2. CASE t # 0
  <2> DEFINE begun == {i \in DOMAIN Transitions : Transitions[i][2] <= t}
  <2>1. DOMAIN Transitions = 1 .. Len(Transitions)
    <3>1. CASE fits
      BY <3>1 DEF Transitions
    <3>2. CASE ~fits
      BY <3>2 DEF Transitions
    <3> QED
      BY <3>1, <3>2
  <2>2. 1 \in begun
    <3>1. Transitions[1][2] = 1
      BY DEF Transitions
    <3> QED
      BY <1>2, <2>1, <3>1, TransitionsFacts
  <2>3. begun \subseteq 1 .. 6
    BY <2>1, TransitionsFacts
  <2>4. \E i \in begun : \A j \in begun : j <= i
    <3> HIDE DEF begun
    <3> QED
      BY <2>2, <2>3
  <2> DEFINE last == CHOOSE i \in begun : \A j \in begun : j <= i
  <2>5. last \in begun
    BY <2>4
  <2>6. StateAt(t) = Transitions[last][1]
    BY <1>2 DEF StateAt
  <2>7. last \in 1 .. Len(Transitions) /\ Transitions[last][2] <= t
    BY <2>1, <2>5
  <2> HIDE DEF last
  <2> QED
    BY <2>6, <2>7, TransitionsFacts
<1> QED
  BY <1>1, <1>2

(* What entering a state does to the run.                                  *)
LEMMA EnteredFacts ==
    ASSUME NEW r \in RunType, NEW s \in States
    PROVE  /\ Entered(r, s) \in RunType
           /\ Entered(r, s).pc = "hook" /\ Entered(r, s).state = s
           /\ Entered(r, s).opened = (r.opened \/ s \in InSession)
           /\ Entered(r, s).hook = "opening" <=> s \in InSession /\ ~r.opened
           /\ Entered(r, s).hook = "closing" <=> s = "CLOSE"
           /\ Entered(r, s).hook = "reporting" <=> s = "REPORT"
           /\ Entered(r, s).next = r.next /\ Entered(r, s).failed = r.failed
           /\ Entered(r, s).expired = r.expired /\ Entered(r, s).skipped = r.skipped
<1> DEFINE opens == s \in InSession /\ ~r.opened
           hook == CASE opens -> "opening"
                     [] s = "ENTRY_WINDOW" /\ ~opens -> "deciding"
                     [] s = "CLOSE" -> "closing"
                     [] s = "REPORT" -> "reporting"
                     [] OTHER -> "none"
<1>1. /\ hook \in {"none", "opening", "deciding", "closing", "reporting"}
      /\ hook = "opening" <=> opens
      /\ hook = "closing" <=> s = "CLOSE"
      /\ hook = "reporting" <=> s = "REPORT"
  BY DEF InSession, States
<1>2. Entered(r, s) = [r EXCEPT !.pc = "hook", !.state = s, !.opened = @ \/ opens,
                                !.hook = hook]
  BY DEF Entered
<1>3. (r.opened \/ opens) \in BOOLEAN /\ (r.opened \/ opens) = (r.opened \/ s \in InSession)
  BY DEF RunType
<1> HIDE DEF hook, opens
<1>4. /\ Entered(r, s).pc = "hook" /\ Entered(r, s).state = s
      /\ Entered(r, s).hook = hook
      /\ Entered(r, s).opened = (r.opened \/ opens)
      /\ Entered(r, s).next = r.next /\ Entered(r, s).failed = r.failed
      /\ Entered(r, s).expired = r.expired /\ Entered(r, s).skipped = r.skipped
  BY <1>2 DEF RunType
<1>5. Entered(r, s) \in RunType
  BY <1>1, <1>2, <1>3 DEF RunType
<1> QED
  BY <1>1, <1>3, <1>4, <1>5 DEF opens

-----------------------------------------------------------------------------
(* The steps of the lifecycle.                                             *)

(* Steps outside the run: nothing of it moves but the clock.               *)
LEMMA OutsideSteps ==
    ASSUME TypeOK, DayInv, UNCHANGED <<day, fits, run, loop, loopStop>>,
           clock' \in clock .. 6
    PROVE  DayInv'
<1>1. UNCHANGED <<Driving, CloseAt, Quiet, Transitions>>
  BY DEF Driving, CloseAt, Quiet, Transitions
<1>2. \A s : UNCHANGED StartOf(s)
  BY DEF StartOf
<1>3. StatesInOrder'
  <2>1. clock' >= clock
    BY DEF TypeOK
  <2>2. StartOf(run.state) \in Int
    BY DEF StartOf
  <2> QED
    BY <1>1, <1>2, <2>1, <2>2 DEF DayInv, StatesInOrder, TypeOK
<1> QED
  BY <1>1, <1>2, <1>3 DEF DayInv, FreshRuns, HooksFit, Watched, Final

(* A run that is not driving its day: nothing of the day's invariant is    *)
(* left but that it is in no hook.                                         *)
LEMMA IdleRun ==
    ASSUME run'.pc \in {"done", "finally"}, run'.hook = "none"
    PROVE  DayInv'
BY DEF DayInv, FreshRuns, HooksFit, StatesInOrder, Watched, Final, Driving

(* The begin of a run: nothing has happened yet.                           *)
LEMMA FreshRun ==
    ASSUME run'.pc \in {"building", "start", "pre_open"}, run'.hook = "none",
           run'.next = 1, ~run'.opened, ~run'.expired, ~run'.failed,
           run'.pc = "pre_open" => run'.state = "PRE_OPEN"
    PROVE  DayInv'
BY DEF DayInv, FreshRuns, HooksFit, StatesInOrder, Watched, Final, Driving

LEMMA ToFinallyFacts ==
    ASSUME NEW r \in RunType
    PROVE  ToFinally(r) \in RunType /\ ToFinally(r).pc = "finally" /\ ToFinally(r).hook = "none"
BY DEF ToFinally, RunType

LEMMA NoRunFacts == NoRun \in RunType
BY DEF NoRun, RunType

LEMMA AttachStep ==
    ASSUME TypeOK, DayInv, Attach \/ BuildFails
    PROVE  TypeOK' /\ DayInv'
<1>1. CASE Attach
  <2>1. run'.pc = "start" /\ run'.hook = "none" /\ run'.next = 1
        /\ ~run'.opened /\ ~run'.expired /\ ~run'.failed
    BY <1>1 DEF Attach, DayInv, FreshRuns, TypeOK, RunType
  <2>2. TypeOK'
    BY <1>1 DEF Attach, TypeOK, MgrType, RunType, StopAll, envVars
  <2> QED
    BY <2>1, <2>2, FreshRun
<1>2. CASE BuildFails
  <2>1. run'.pc = "done" /\ run'.hook = "none"
    BY <1>2 DEF BuildFails, NoRun
  <2>2. TypeOK'
    BY <1>2, NoRunFacts DEF BuildFails, TypeOK, MgrType, Detached, envVars, loopVars
  <2> QED
    BY <2>1, <2>2, IdleRun
<1> QED
  BY <1>1, <1>2

LEMMA BeginStep ==
    ASSUME TypeOK, DayInv, Begin
    PROVE  TypeOK' /\ DayInv'
<1> DEFINE h == [run EXCEPT !.state = IF day = "holiday" THEN "HOLIDAY" ELSE @]
           e == [run EXCEPT !.state = "EXIT"]
           p == [run EXCEPT !.pc = "pre_open", !.state = "PRE_OPEN"]
<1>1. h \in RunType /\ e \in RunType /\ p \in RunType
  BY DEF TypeOK, RunType, States
<1>2. p.pc = "pre_open" /\ p.state = "PRE_OPEN" /\ p.hook = run.hook /\ p.next = run.next /\ p.opened = run.opened
      /\ p.expired = run.expired /\ p.failed = run.failed
  BY DEF TypeOK, RunType
<1>3. /\ \/ run' = ToFinally(h) /\ loopStop' = TRUE
         \/ run' = ToFinally(e) /\ loopStop' = TRUE
         \/ run' = p /\ loopStop' = loopStop
      /\ run.pc = "start"
      /\ UNCHANGED <<day, fits, clock, loop, orphans, mgr, caller, server>>
  BY DEF Begin, envVars, callVars
<1> HIDE DEF h, e, p
<1>4. TypeOK'
  <2>1. ToFinally(h) \in RunType /\ ToFinally(e) \in RunType
    BY <1>1, ToFinallyFacts
  <2>2. run' \in RunType
    BY <1>1, <1>3, <2>1
  <2> QED
    BY <1>3, <2>2 DEF TypeOK
<1>5. DayInv'
  <2>1. CASE run'.pc = "finally" /\ run'.hook = "none"
    BY <2>1, IdleRun
  <2>2. CASE run' = p
    BY <2>2, <1>2, <1>3, FreshRun DEF DayInv, FreshRuns
  <2> QED
    BY <2>1, <2>2, <1>1, <1>3, ToFinallyFacts
<1> QED
  BY <1>4, <1>5

(* The loops of a run are left alone while it decides where to go.         *)
LEMMA PreOpenEndsStep ==
    ASSUME TypeOK, DayInv, PreOpenEnds
    PROVE  TypeOK' /\ DayInv'
<1> DEFINE s == StateAt(clock)
<1>1. s \in States \cup {"PRE_OPEN"} /\ StartOf(s) <= clock
  BY StateAtFacts DEF TypeOK
<1>2. /\ run.pc = "pre_open"
      /\ UNCHANGED <<day, fits, clock, loop, orphans, mgr, caller, server>>
      /\ loopStop' = (loopStop \/ run'.hook = "closing" \/ run'.pc = "finally")
      /\ run' = IF EntersLate(s) THEN Entered(run, s) ELSE [run EXCEPT !.pc = "loop"]
  BY DEF PreOpenEnds, StopsLoops, envVars, callVars
<1>3. /\ run.next = 1 /\ ~run.opened /\ ~run.expired /\ ~run.failed /\ run.hook = "none"
      /\ run.state = "PRE_OPEN"
  BY <1>2 DEF DayInv, FreshRuns
<1>4. UNCHANGED <<CloseAt, Transitions>> /\ CloseAt \in 1 .. 6 /\ \A x : UNCHANGED StartOf(x)
  BY <1>2, TransitionsFacts DEF CloseAt, Transitions, StartOf, TypeOK
<1> HIDE DEF s
<1>5. CASE EntersLate(s)
  <2>1. s \in States
    BY <1>1, <1>5 DEF EntersLate
  <2>2. run' = Entered(run, s)
    BY <1>2, <1>5
  <2>3. TypeOK'
    BY <1>2, <2>1, <2>2, EnteredFacts DEF TypeOK
  <2>4. run'.opened <=> s \in InSession
    BY <2>1, <2>2, <1>3, EnteredFacts DEF TypeOK, RunType
  <2>5. /\ run'.pc = "hook" /\ run'.state = s /\ run'.next = 1
        /\ run'.hook = "opening" <=> s \in InSession
        /\ run'.hook = "closing" <=> s = "CLOSE"
        /\ run'.hook = "reporting" <=> s = "REPORT"
    BY <2>1, <2>2, <1>3, EnteredFacts DEF TypeOK
  <2>6. FreshRuns' /\ HooksFit'
    BY <1>4, <2>4, <2>5 DEF FreshRuns, HooksFit, InSession
  <2>7. StatesInOrder'
    BY <1>1, <1>2, <1>4, <2>1, <2>4, <2>5 DEF StatesInOrder, InSession, States
  <2>8. Watched' /\ Final'
    BY <1>4, <2>4, <2>5 DEF Watched, Final, InSession
  <2> QED
    BY <2>3, <2>6, <2>7, <2>8 DEF DayInv
<1>6. CASE ~EntersLate(s)
  <2>1. run' = [run EXCEPT !.pc = "loop"]
    BY <1>2, <1>6
  <2>2. TypeOK'
    BY <1>2, <2>1 DEF TypeOK, RunType
  <2>3. /\ run'.pc = "loop" /\ run'.state = "PRE_OPEN" /\ run'.hook = "none"
        /\ run'.next = 1 /\ ~run'.opened
    BY <2>1, <1>3 DEF TypeOK, RunType
  <2>4. StartOf("PRE_OPEN") = 0
    BY DEF StartOf
  <2>5. DayInv'
    BY <1>2, <1>4, <2>3, <2>4
       DEF DayInv, FreshRuns, HooksFit, StatesInOrder, Watched, Final, InSession, TypeOK
  <2> QED
    BY <2>2, <2>5
<1> QED
  BY <1>5, <1>6

LEMMA LookStep ==
    ASSUME TypeOK, DayInv, Look
    PROVE  TypeOK' /\ DayInv'
<1> DEFINE i == run.next
           n == Len(Transitions)
           skips == Transitions[i][1] = "CLOSE" /\ run.opened /\ run.state # "CLOSE"
<1>1. /\ run.pc = "loop" /\ run.hook = "none" /\ run \in RunType
      /\ UNCHANGED <<day, fits, clock, loop, orphans, mgr, caller, server>>
      /\ loopStop' = (loopStop \/ run'.hook = "closing" \/ run'.pc = "finally")
      /\ run' = LooksAt(run, i)
  BY DEF Look, StopsLoops, envVars, callVars, DayInv, HooksFit, TypeOK
<1>2. /\ n \in 1 .. 6 /\ CloseAt \in 1 .. n /\ i \in 1 .. 7
      /\ i <= n => /\ Transitions[i][1] \in States
                   /\ Transitions[i][2] \in 1 .. 6
                   /\ Transitions[i][1] = "CLOSE" <=> i = CloseAt
  BY TransitionsFacts DEF TypeOK, RunType
<1>3. UNCHANGED <<CloseAt, Transitions>> /\ \A x : UNCHANGED StartOf(x)
  BY <1>1 DEF CloseAt, Transitions, StartOf
<1>4. CASE run' = ToFinally(run)
  BY <1>1, <1>4, ToFinallyFacts, IdleRun DEF TypeOK
<1>5. CASE /\ i <= n
           /\ run' = [run EXCEPT !.next = i + 1, !.skipped = @ \/ skips]
  <2> HIDE DEF i, n, skips
  <2>1. (run.skipped \/ skips) \in BOOLEAN /\ i + 1 \in 1 .. 7
    BY <1>1, <1>2, <1>5 DEF RunType, skips
  <2>2. run' \in RunType
    <3> DEFINE b == run.skipped \/ skips
               j == i + 1
    <3>1. run' = [run EXCEPT !.next = j, !.skipped = b]
      BY <1>1, <1>5 DEF RunType
    <3> HIDE DEF b, j
    <3> QED
      BY <1>1, <2>1, <3>1 DEF RunType, b, j
  <2>3. /\ run'.pc = "loop" /\ run'.hook = "none" /\ run'.state = run.state
        /\ run'.opened = run.opened /\ run'.failed = run.failed
        /\ run'.expired = run.expired /\ run'.next = i + 1
        /\ run'.skipped = (run.skipped \/ skips)
    BY <1>1, <1>5 DEF RunType
  <2>4. loopStop' = loopStop
    BY <1>1, <2>3 DEF TypeOK
  <2>5. TypeOK'
    BY <1>1, <2>2, <2>4 DEF TypeOK
  <2>6. StatesInOrder'
    <3>1. /\ run.state \in States \cup {"PRE_OPEN"} /\ StartOf(run.state) <= clock
          /\ run.state \in InSession => run.opened
          /\ run.state = "PRE_OPEN" => ~run.opened
          /\ run.opened /\ run.state = "CLOSE" => i > CloseAt
      BY <1>1 DEF DayInv, StatesInOrder, Driving, i
    <3> QED
      BY <1>1, <1>2, <1>3, <2>3, <3>1 DEF StatesInOrder
  <2>7. Watched'
    BY <1>1, <2>3, <2>4 DEF DayInv, Watched, Driving
  <2>8. Final'
    <3> SUFFICES ASSUME run'.opened, ~run'.skipped, ~run'.failed, run'.next > CloseAt
                 PROVE  Quiet /\ run.expired
      BY <1>1, <1>3, <2>3 DEF Final, Quiet
    <3>1. i > CloseAt
      <4>1. CASE i = CloseAt
        BY <4>1, <1>1, <1>2, <1>5, <2>1, <2>3 DEF DayInv, StatesInOrder, Driving, skips, i
      <4> QED
        BY <4>1, <1>2, <2>3
    <3> QED
      BY <3>1, <1>1, <2>1, <2>3 DEF DayInv, Final, Driving, i, RunType
  <2> QED
    BY <2>3, <2>5, <2>6, <2>7, <2>8 DEF DayInv, FreshRuns, HooksFit
<1>6. CASE i <= n /\ ~(Transitions[i][2] <= clock) /\ run' = [run EXCEPT !.pc = "sleep"]
  <2>1. run' \in RunType
    BY <1>1, <1>6 DEF RunType
  <2>2. /\ run'.pc = "sleep" /\ run'.hook = "none" /\ run'.state = run.state
        /\ run'.opened = run.opened /\ run'.failed = run.failed
        /\ run'.expired = run.expired /\ run'.next = i
        /\ run'.skipped = run.skipped
    BY <1>1, <1>6 DEF RunType
  <2>3. loopStop' = loopStop
    BY <1>1, <2>2 DEF TypeOK
  <2>4. TypeOK'
    BY <1>1, <2>1, <2>3 DEF TypeOK
  <2>5. StatesInOrder'
    <3>1. /\ run.state \in States \cup {"PRE_OPEN"} /\ StartOf(run.state) <= clock
          /\ run.state \in InSession => run.opened
          /\ run.state = "PRE_OPEN" => ~run.opened
          /\ run.opened /\ run.state = "CLOSE" => run.next > CloseAt
      BY <1>1 DEF DayInv, StatesInOrder, Driving
    <3>2. StartOf(run.state) \in Int /\ clock \in Int
      BY DEF StartOf, TypeOK
    <3> QED
      BY <1>1, <1>2, <1>3, <1>6, <2>2, <3>1, <3>2 DEF StatesInOrder
  <2>6. Watched' /\ Final'
    BY <1>1, <1>3, <2>2, <2>3 DEF DayInv, Watched, Final, Driving, Quiet
  <2> QED
    BY <2>2, <2>4, <2>5, <2>6 DEF DayInv, FreshRuns, HooksFit
<1> QED
  <2>1. \/ run' = ToFinally(run)
        \/ /\ i <= n
           /\ run' = [run EXCEPT !.next = i + 1, !.skipped = @ \/ skips]
        \/ i <= n /\ ~(Transitions[i][2] <= clock) /\ run' = [run EXCEPT !.pc = "sleep"]
    BY <1>1, <1>2 DEF LooksAt, Following
  <2> QED
    BY <2>1, <1>4, <1>5, <1>6

LEMMA WakeStep ==
    ASSUME TypeOK, DayInv, Wake
    PROVE  TypeOK' /\ DayInv'
<1> DEFINE i == run.next
           s == Transitions[i][1]
           r == [run EXCEPT !.next = i + 1]
<1>1. /\ run.pc = "sleep" /\ run.hook = "none" /\ run \in RunType
      /\ UNCHANGED <<day, fits, clock, loop, orphans, mgr, caller, server>>
      /\ loopStop' = (loopStop \/ run'.hook = "closing" \/ run'.pc = "finally")
      /\ \/ run' = ToFinally(run)
         \/ ~run.requested /\ run' = Entered(r, s)
      /\ run.requested \/ clock >= Transitions[i][2]
  BY DEF Wake, StopsLoops, envVars, callVars, DayInv, HooksFit, TypeOK
<1>2. /\ i \in 1 .. Len(Transitions) /\ i \in 1 .. 6
      /\ StartOf(run.state) < Transitions[i][2]
      /\ run.state \in States \cup {"PRE_OPEN"}
      /\ run.state \in InSession => run.opened
      /\ run.state = "PRE_OPEN" => ~run.opened
  BY <1>1, TransitionsFacts DEF DayInv, StatesInOrder, Driving, TypeOK, RunType
<1>3. /\ CloseAt \in 1 .. 6
      /\ s \in States /\ Transitions[i][2] = StartOf(s) /\ StartOf(s) \in 1 .. 6
      /\ s = "CLOSE" <=> i = CloseAt
      /\ s \in InSession <=> i < CloseAt
      /\ s = "REPORT" => i > CloseAt
  BY <1>2, TransitionsFacts DEF TypeOK
<1>4. UNCHANGED <<CloseAt, Transitions>> /\ \A x : UNCHANGED StartOf(x)
  BY <1>1 DEF CloseAt, Transitions, StartOf
<1>5. CASE run' = ToFinally(run)
  BY <1>1, <1>5, ToFinallyFacts, IdleRun DEF TypeOK
<1>6. CASE ~run.requested /\ run' = Entered(r, s)
  <2>1. /\ r \in RunType /\ r.opened = run.opened /\ r.failed = run.failed /\ r.next = i + 1
        /\ r.expired = run.expired /\ r.skipped = run.skipped
    BY <1>1, <1>2 DEF RunType
  <2> HIDE DEF i, s, r
  <2>2. /\ run' \in RunType /\ run'.pc = "hook" /\ run'.state = s /\ run'.next = i + 1
        /\ run'.opened = (run.opened \/ s \in InSession)
        /\ run'.hook = "opening" <=> s \in InSession /\ ~run.opened
        /\ run'.hook = "closing" <=> s = "CLOSE"
        /\ run'.hook = "reporting" <=> s = "REPORT"
        /\ run'.failed = run.failed /\ run'.expired = run.expired
        /\ run'.skipped = run.skipped
    BY <1>3, <1>6, <2>1, EnteredFacts
  <2>3. run'.opened <=> run.opened \/ s \in InSession
    BY <1>1, <2>2 DEF RunType
  <2>4. TypeOK'
    BY <1>1, <2>2 DEF TypeOK
  <2>5. clock >= StartOf(s)
    BY <1>1, <1>3, <1>6
  <2>6. FreshRuns' /\ HooksFit'
    BY <1>2, <1>3, <1>4, <2>2, <2>3 DEF FreshRuns, HooksFit, InSession
  <2>7. StatesInOrder'
    BY <1>1, <1>2, <1>3, <1>4, <2>2, <2>3, <2>5
       DEF StatesInOrder, Driving, InSession, States, TypeOK
  <2>8. Watched'
    <3> SUFFICES ASSUME run'.hook # "opening", s \in InSession, ~run.failed
                 PROVE  ~loopStop' /\ \A l \in Loops : loop[l] # "off"
      BY <1>1, <2>2 DEF Watched
    <3>1. run.opened /\ s # "CLOSE"
      BY <2>2 DEF InSession
    <3>2. run.state \in InSession
      <4>1. StartOf(s) < 4
        BY DEF StartOf, InSession, TypeOK
      <4>2. /\ run.state \in {"CLOSE", "REPORT", "EXIT"} => StartOf(run.state) >= 4
            /\ StartOf(run.state) \in Int
        BY DEF StartOf
      <4> QED
        BY <1>2, <1>3, <3>1, <4>1, <4>2 DEF States, InSession
    <3> QED
      BY <1>1, <2>2, <3>1, <3>2 DEF DayInv, Watched, Driving, TypeOK
  <2>9. Final'
    <3> SUFFICES ASSUME run'.hook # "closing", run'.opened, ~run'.skipped, ~run'.failed,
                        run'.next > CloseAt
                 PROVE  Quiet /\ run.expired
      BY <1>1, <1>4, <2>2 DEF Final, Quiet
    <3>1. i > CloseAt /\ run.opened
      BY <1>2, <1>3, <2>2, <2>3
    <3> QED
      BY <1>1, <2>2, <3>1 DEF DayInv, Final, Driving, i
  <2> QED
    BY <2>4, <2>6, <2>7, <2>8, <2>9 DEF DayInv
<1> QED
  BY <1>1, <1>5, <1>6

(* Opening ends: the loops run, and CLOSE is still to come.                *)
LEMMA OpensStep ==
    ASSUME TypeOK, DayInv, Opens
    PROVE  TypeOK' /\ DayInv'
<1>1. /\ run.pc = "hook" /\ run.hook = "opening" /\ run \in RunType
      /\ UNCHANGED <<day, fits, clock, orphans, mgr, caller, server>>
      /\ loop' = StartAll /\ ~loopStop' /\ loopStop' \in BOOLEAN
      /\ run' = IF run.state = "ENTRY_WINDOW" THEN [run EXCEPT !.hook = "deciding"]
                ELSE [run EXCEPT !.pc = "loop", !.hook = "none"]
  BY DEF Opens, envVars, callVars, TypeOK
<1>2. /\ run' \in RunType
      /\ \/ run'.pc = "hook" /\ run'.hook = "deciding"
         \/ run'.pc = "loop" /\ run'.hook = "none"
      /\ run'.state = run.state /\ run'.next = run.next /\ run'.opened = run.opened
      /\ run'.failed = run.failed /\ run'.skipped = run.skipped
  BY <1>1 DEF RunType
<1>3. UNCHANGED <<CloseAt, Transitions>> /\ \A x : UNCHANGED StartOf(x)
  BY <1>1 DEF CloseAt, Transitions, StartOf
<1>4. run.state \in InSession /\ run.opened /\ run.next <= CloseAt
  BY <1>1 DEF DayInv, HooksFit
<1>5. CloseAt \in 1 .. 6 /\ run.next \in 1 .. 7
  BY TransitionsFacts DEF TypeOK, RunType
<1>6. TypeOK'
  BY <1>1, <1>2 DEF TypeOK, StartAll
<1>7. FreshRuns' /\ HooksFit'
  BY <1>2 DEF FreshRuns, HooksFit
<1>8. StatesInOrder'
  BY <1>1, <1>2, <1>3, <1>4 DEF DayInv, StatesInOrder, Driving, InSession
<1>9. Watched' /\ Final'
  BY <1>1, <1>2, <1>3, <1>4, <1>5 DEF Watched, Final, StartAll
<1> QED
  BY <1>6, <1>7, <1>8, <1>9 DEF DayInv

(* The other hooks end: the loops are left alone.                          *)
LEMMA HookStep ==
    ASSUME TypeOK, DayInv, Closes \/ HookEnds \/ HookFails
    PROVE  TypeOK' /\ DayInv'
<1>1. /\ run.pc = "hook" /\ run \in RunType
      /\ UNCHANGED <<day, fits, clock, loop, loopStop, orphans, mgr, caller, server>>
      /\ \/ /\ Quiet /\ run.hook = "closing"
            /\ run' = [run EXCEPT !.pc = "loop", !.hook = "none", !.expired = TRUE]
         \/ /\ run.hook \in {"deciding", "reporting", "none"}
            /\ run' = [run EXCEPT !.pc = "loop", !.hook = "none"]
         \/ run' = [run EXCEPT !.pc = "loop", !.hook = "none", !.failed = TRUE]
  BY DEF Closes, HookEnds, HookFails, envVars, callVars, loopVars, TypeOK
<1>2. /\ run' \in RunType /\ run'.pc = "loop" /\ run'.hook = "none"
      /\ run'.state = run.state /\ run'.next = run.next /\ run'.opened = run.opened
      /\ run'.skipped = run.skipped
      /\ \/ run'.failed = run.failed /\ Quiet /\ run'.expired /\ run.hook = "closing"
         \/ /\ run'.failed = run.failed /\ run'.expired = run.expired
            /\ run.hook \in {"deciding", "reporting", "none"}
         \/ run'.failed
  BY <1>1 DEF RunType
<1>3. UNCHANGED <<CloseAt, Transitions, Quiet>> /\ \A x : UNCHANGED StartOf(x)
  BY <1>1 DEF CloseAt, Transitions, StartOf, Quiet
<1>4. TypeOK'
  BY <1>1, <1>2 DEF TypeOK
<1>5. FreshRuns' /\ HooksFit'
  BY <1>2 DEF FreshRuns, HooksFit
<1>6. StatesInOrder'
  BY <1>1, <1>2, <1>3 DEF DayInv, StatesInOrder, Driving
<1>7. Watched'
  <2>1. run.hook = "closing" => run.state \notin InSession
    BY DEF DayInv, HooksFit, InSession
  <2> QED
    BY <1>1, <1>2, <2>1 DEF DayInv, Watched, Driving
<1>8. Final'
  BY <1>1, <1>2, <1>3 DEF DayInv, Final, Driving
<1> QED
  BY <1>4, <1>5, <1>6, <1>7, <1>8 DEF DayInv

(* The end of a run, orderly or by cancellation.                           *)
LEMMA EndStep ==
    ASSUME TypeOK, DayInv, RunEnds
    PROVE  TypeOK' /\ DayInv'
<1>1. /\ run.pc = "finally" /\ run \in RunType
      /\ run' = [run EXCEPT !.pc = "done"]
      /\ UNCHANGED <<day, fits, clock, loop, loopStop, orphans, caller, server>>
      /\ mgr' = Detached
  BY DEF RunEnds, envVars, loopVars, TypeOK
<1>2. run' \in RunType /\ run'.pc = "done" /\ run'.hook = "none"
  BY <1>1 DEF RunType, DayInv, HooksFit
<1> QED
  BY <1>1, <1>2, IdleRun DEF TypeOK, Detached, MgrType

LEMMA CancelledStep ==
    ASSUME TypeOK, DayInv, Alive, Cancelled, UNCHANGED <<day, fits, clock>>
    PROVE  /\ run' \in RunType
           /\ loop' \in [Loops -> {"off", "sleeping", "stepping"}]
           /\ loopStop' \in BOOLEAN
           /\ orphans' \subseteq Loops
           /\ mgr' \in MgrType
           /\ DayInv'
<1>1. CASE run.pc \in {"finally", "building"}
  <2>1. /\ run' = [run EXCEPT !.pc = "done", !.cancelled = TRUE]
        /\ mgr' = Detached /\ loop' = StopAll /\ loopStop' = loopStop
        /\ orphans' = orphans \cup {l \in Loops : loop[l] # "off"}
    BY <1>1 DEF Cancelled
  <2>2. run' \in RunType /\ run'.pc = "done" /\ run'.hook = "none"
    BY <1>1, <2>1 DEF TypeOK, RunType, DayInv, HooksFit
  <2> QED
    BY <2>1, <2>2, IdleRun DEF TypeOK, Detached, StopAll, MgrType
<1>2. CASE run.pc \notin {"finally", "building"}
  <2> DEFINE r == [run EXCEPT !.cancelled = TRUE]
  <2>1. r \in RunType
    BY DEF TypeOK, RunType
  <2>2. run' = ToFinally(r) /\ loopStop' = TRUE /\ UNCHANGED <<loop, orphans, mgr>>
    BY <1>2 DEF Cancelled
  <2> HIDE DEF r
  <2> QED
    BY <2>1, <2>2, ToFinallyFacts, IdleRun DEF TypeOK
<1> QED
  BY <1>1, <1>2

LEMMA CutLooseStep ==
    ASSUME TypeOK, DayInv, Alive, CutLoose, UNCHANGED <<day, fits, clock>>
    PROVE  /\ run' \in RunType
           /\ loop' \in [Loops -> {"off", "sleeping", "stepping"}]
           /\ UNCHANGED <<loopStop, orphans>>
           /\ mgr' \in MgrType
           /\ DayInv'
<1>1. run' = [run EXCEPT !.pc = "done", !.hook = "none"] /\ loop' = StopAll
      /\ UNCHANGED <<loopStop, orphans>>
  BY DEF CutLoose
<1>2. run' \in RunType /\ run'.pc = "done" /\ run'.hook = "none"
  BY <1>1 DEF TypeOK, RunType
<1>3. mgr' \in MgrType
  BY DEF CutLoose, Detached, TypeOK, MgrType
<1> QED
  BY <1>1, <1>2, <1>3, IdleRun DEF StopAll

LEMMA RequestStep ==
    ASSUME TypeOK, DayInv, Request
    PROVE  TypeOK' /\ DayInv'
<1>1. /\ UNCHANGED <<day, fits, clock, loop, loopStop, orphans, mgr, caller, server>>
      /\ run' = [run EXCEPT !.requested = TRUE] /\ run \in RunType
  BY DEF Request, envVars, loopVars, callVars, TypeOK
<1>2. /\ run' \in RunType /\ run'.pc = run.pc /\ run'.hook = run.hook
      /\ run'.state = run.state /\ run'.next = run.next /\ run'.opened = run.opened
      /\ run'.skipped = run.skipped /\ run'.failed = run.failed /\ run'.expired = run.expired
  BY <1>1 DEF RunType
<1>3. UNCHANGED <<CloseAt, Transitions, Quiet, Driving>> /\ \A x : UNCHANGED StartOf(x)
  BY <1>1, <1>2 DEF CloseAt, Transitions, StartOf, Quiet, Driving
<1>4. TypeOK'
  BY <1>1, <1>2 DEF TypeOK
<1>5. FreshRuns' /\ HooksFit' /\ Watched' /\ Final'
  BY <1>1, <1>2, <1>3 DEF DayInv, FreshRuns, HooksFit, Watched, Final
<1>6. StatesInOrder'
  BY <1>1, <1>2, <1>3 DEF DayInv, StatesInOrder
<1> QED
  BY <1>4, <1>5, <1>6 DEF DayInv

-----------------------------------------------------------------------------
(* The loops.                                                              *)

LEMMA LoopStep ==
    ASSUME TypeOK, DayInv,
           LoopTimesOut \/ \E l \in Loops : LoopSteps(l) \/ LoopRests(l) \/ OrphanEnds(l)
    PROVE  TypeOK' /\ DayInv'
<1>1. UNCHANGED <<day, fits, clock, run, loopStop, mgr, caller, server>>
  BY DEF LoopTimesOut, LoopSteps, LoopRests, OrphanEnds, envVars, callVars
<1>2. TypeOK'
  BY <1>1 DEF TypeOK, LoopTimesOut, LoopSteps, LoopRests, OrphanEnds, StopAll
<1>3. UNCHANGED <<CloseAt, Transitions, Driving>> /\ \A x : UNCHANGED StartOf(x)
  BY <1>1 DEF CloseAt, Transitions, StartOf, Driving
<1>4. FreshRuns' /\ HooksFit' /\ StatesInOrder'
  BY <1>1, <1>3 DEF DayInv, FreshRuns, HooksFit, StatesInOrder
<1>5. Watched'
  <2> SUFFICES ASSUME Driving, run.hook # "opening", run.state \in InSession, ~run.failed
               PROVE  \A l \in Loops : loop'[l] # "off"
    BY <1>1, <1>3 DEF DayInv, Watched
  <2>1. ~loopStop /\ \A l \in Loops : loop[l] # "off"
    BY DEF DayInv, Watched
  <2>2. ~LoopTimesOut
    BY DEF LoopTimesOut, DayInv, HooksFit, Driving, InSession
  <2> QED
    BY <2>1, <2>2 DEF LoopSteps, LoopRests, OrphanEnds, TypeOK
<1>6. Final'
  <2>1. Quiet => Quiet'
    BY DEF Quiet, LoopTimesOut, LoopSteps, LoopRests, OrphanEnds, StopAll, TypeOK
  <2> QED
    BY <1>1, <1>3, <2>1 DEF DayInv, Final
<1> QED
  BY <1>2, <1>4, <1>5, <1>6 DEF DayInv

-----------------------------------------------------------------------------
(* The run manager and the server.                                         *)

LEMMA StartedStep ==
    ASSUME TypeOK, Started
    PROVE  /\ run' \in RunType /\ Alive' /\ DayInv'
           /\ mgr' \in MgrType
           /\ mgr'.engine = mgr.engine
           /\ mgr.runs + 1 \in 0 .. MaxRuns
           /\ UNCHANGED <<day, fits, clock, loop, loopStop, orphans, caller>>
<1>1. run' = [NoRun EXCEPT !.pc = "building"]
  BY DEF Started
<1>2. run' \in RunType /\ run'.pc = "building" /\ run'.hook = "none" /\ run'.next = 1
      /\ ~run'.opened /\ ~run'.expired /\ ~run'.failed
  BY <1>1, NoRunFacts DEF NoRun, RunType
<1>3. mgr.runs + 1 \in 0 .. MaxRuns
  BY SessionAssumption DEF TypeOK, MgrType, Started
<1>4. mgr' \in MgrType /\ mgr'.engine = mgr.engine
  BY <1>3 DEF Started, TypeOK, MgrType
<1> QED
  BY <1>2, <1>3, <1>4, FreshRun DEF Started, Alive, envVars, loopVars

(* The stop requests change the manager's flag and the requests only.      *)
LEMMA RequestsStep ==
    ASSUME TypeOK, DayInv, NEW c \in Clients, Shutdown(c) \/ StopResumes(c) \/ StopReturns(c),
           server' \in [pc : {"launch", "up", "leaving", "stopping", "down"}, awaits : 0 .. MaxRuns]
    PROVE  TypeOK' /\ DayInv'
<1>1. UNCHANGED <<day, fits, clock, run, loop, loopStop, orphans>>
  BY DEF Shutdown, StopResumes, StopReturns, envVars, loopVars
<1>2. TypeOK'
  <2>1. mgr.runs \in 0 .. MaxRuns /\ 0 \in 0 .. MaxRuns
    BY SessionAssumption DEF TypeOK, MgrType
  <2>2. CASE Shutdown(c)
    <3> DEFINE early == run.pc = "building"
    <3> DEFINE asks == [pc |-> "waiting", asked |-> mgr.runs, run |-> mgr.runs, early |-> early]
    <3>2. mgr' = [mgr EXCEPT !.stop = TRUE,
                             !.hurried = IF early THEN @ \cup {mgr.runs} ELSE @]
          /\ caller' = [caller EXCEPT ![c] = asks]
      BY <2>2 DEF Shutdown
    <3>3. asks \in RequestType
      BY <2>1 DEF RequestType
    <3>4. mgr' \in MgrType
      BY <2>1, <3>2 DEF TypeOK, MgrType
    <3> HIDE DEF asks
    <3> QED
      BY <1>1, <3>2, <3>3, <3>4 DEF TypeOK
  <2>3. CASE StopResumes(c)
    <3>1. caller[c] \in RequestType
      BY DEF TypeOK
    <3>2. [caller[c] EXCEPT !.pc = "awaiting", !.run = mgr.runs] \in RequestType
      BY <2>1, <3>1 DEF RequestType
    <3>3. caller' = [caller EXCEPT ![c] = [caller[c] EXCEPT !.pc = "awaiting", !.run = mgr.runs]]
          /\ mgr' = mgr
      BY <2>3 DEF StopResumes, TypeOK
    <3> QED
      BY <1>1, <3>2, <3>3 DEF TypeOK
  <2>4. CASE StopReturns(c)
    <3>1. NoRequest \in RequestType
      BY <2>1 DEF NoRequest, RequestType
    <3>2. caller' = [caller EXCEPT ![c] = NoRequest] /\ mgr' = mgr
      BY <2>4 DEF StopReturns
    <3> QED
      BY <1>1, <3>1, <3>2 DEF TypeOK
  <2> QED
    BY <2>2, <2>3, <2>4
<1> QED
  BY <1>1, <1>2, OutsideSteps DEF TypeOK

LEMMA CancelSteps ==
    ASSUME TypeOK, DayInv, GraceEnds \/ \E c \in Clients : StopTimesOut(c)
    PROVE  TypeOK' /\ DayInv'
<1>1. Alive /\ (Cancelled \/ CutLoose) /\ UNCHANGED <<day, fits, clock, server>>
  BY DEF GraceEnds, StopTimesOut, envVars
<1>2. caller' \in [Clients -> RequestType]
  <2>1. CASE UNCHANGED caller
    BY <2>1 DEF TypeOK
  <2>2. ASSUME NEW c \in Clients, StopTimesOut(c)
        PROVE  caller' \in [Clients -> RequestType]
    <3>1. [caller[c] EXCEPT !.pc = "awaiting"] \in RequestType
      BY DEF TypeOK, RequestType
    <3>2. caller' = [caller EXCEPT ![c] = [caller[c] EXCEPT !.pc = "awaiting"]]
      BY <2>2 DEF StopTimesOut, TypeOK
    <3> QED
      BY <3>1, <3>2 DEF TypeOK
  <2> QED
    BY <2>1, <2>2 DEF GraceEnds
<1>3. CASE Cancelled
  BY <1>1, <1>2, <1>3, CancelledStep DEF TypeOK
<1>4. CASE CutLoose
  BY <1>1, <1>2, <1>4, CutLooseStep DEF TypeOK
<1> QED
  BY <1>1, <1>3, <1>4

(* The end of an engine that was cut loose is its own affair.              *)
LEMMA AdriftStep ==
    ASSUME TypeOK, DayInv, NEW r, AdriftEnds(r)
    PROVE  TypeOK' /\ DayInv'
<1>1. UNCHANGED <<day, fits, clock, run, loop, loopStop, orphans, caller, server>>
      /\ mgr' = [mgr EXCEPT !.adrift = @ \ {r}]
  BY DEF AdriftEnds, envVars, loopVars
<1>2. mgr' \in MgrType
  BY <1>1 DEF TypeOK, MgrType
<1> QED
  BY <1>1, <1>2, OutsideSteps DEF TypeOK

LEMMA ServerStep ==
    ASSUME TypeOK, DayInv, Start \/ Launch \/ RunOver \/ Interrupted \/ Leaves
    PROVE  TypeOK' /\ DayInv'
<1>0. 0 \in 0 .. MaxRuns
  BY SessionAssumption
<1>1. CASE Start
  BY <1>1, StartedStep DEF Start, TypeOK
<1>2. CASE Launch
  <2>1. PICK scheduled \in BOOLEAN :
           \/ Started /\ server' = [pc |-> "up", awaits |-> IF scheduled THEN mgr.runs + 1 ELSE 0]
           \/ server' = [pc |-> IF scheduled THEN "leaving" ELSE "up", awaits |-> 0]
              /\ UNCHANGED <<envVars, run, loopVars, mgr, caller>>
    BY <1>2 DEF Launch
  <2>2. CASE Started /\ server' = [pc |-> "up", awaits |-> IF scheduled THEN mgr.runs + 1 ELSE 0]
    BY <1>0, <2>2, StartedStep DEF TypeOK
  <2>3. CASE /\ server' = [pc |-> IF scheduled THEN "leaving" ELSE "up", awaits |-> 0]
             /\ UNCHANGED <<envVars, run, loopVars, mgr, caller>>
    <3>1. UNCHANGED <<day, fits, clock, run, loop, loopStop, orphans, mgr, caller>>
      BY <2>3 DEF envVars, loopVars
    <3>2. TypeOK'
      BY <1>0, <2>3, <3>1 DEF TypeOK
    <3> QED
      BY <3>1, <3>2, OutsideSteps DEF TypeOK
  <2> QED
    BY <2>1, <2>2, <2>3
<1>3. CASE RunOver \/ Interrupted
  <2>1. UNCHANGED <<day, fits, clock, run, loop, loopStop, orphans, mgr, caller>>
    BY <1>3 DEF RunOver, Interrupted, envVars, loopVars
  <2>2. TypeOK'
    BY <1>0, <1>3, <2>1 DEF TypeOK, RunOver, Interrupted
  <2> QED
    BY <2>1, <2>2, OutsideSteps DEF TypeOK
<1>4. CASE Leaves
  <2>1. CASE Shutdown(Lifespan) /\ server' = [server EXCEPT !.pc = "stopping"]
    <3>1. server' \in [pc : {"launch", "up", "leaving", "stopping", "down"}, awaits : 0 .. MaxRuns]
      BY <2>1 DEF TypeOK
    <3> QED
      BY <2>1, <3>1, RequestsStep, SessionAssumption
  <2>2. CASE /\ server' = [server EXCEPT !.pc = "down"]
             /\ UNCHANGED <<envVars, run, loopVars, mgr, caller>>
    <3>1. UNCHANGED <<day, fits, clock, run, loop, loopStop, orphans, mgr, caller>>
      BY <2>2 DEF envVars, loopVars
    <3>2. TypeOK'
      BY <2>2, <3>1 DEF TypeOK
    <3> QED
      BY <3>1, <3>2, OutsideSteps DEF TypeOK
  <2> QED
    BY <1>4, <2>1, <2>2 DEF Leaves
<1> QED
  BY <1>1, <1>2, <1>3, <1>4

(* No step starts a run once the server has begun to end, and the request  *)
(* that ends it is over only when its run is.                              *)
LEMMA ServerEndsStep ==
    ASSUME TypeOK, ServerEnds, [Next]_vars
    PROVE  ServerEnds'
<1>1. CASE Start \/ Launch
  <2>1. server'.pc \in {"up", "leaving"}
    BY <1>1 DEF Start, Launch
  <2>2. mgr'.engine => Alive'
    <3>1. CASE Started
      BY <3>1, StartedStep
    <3>2. CASE UNCHANGED <<run, mgr>>
      BY <3>2 DEF ServerEnds, Alive
    <3> QED
      BY <1>1, <3>1, <3>2 DEF Start, Launch
  <2> QED
    BY <2>1, <2>2 DEF ServerEnds
<1>2. CASE Attach \/ BuildFails \/ RunEnds
  BY <1>2 DEF Attach, BuildFails, RunEnds, ServerEnds, Alive, Detached, TypeOK, MgrType, RunType,
              NoRun
<1>3. CASE GraceEnds \/ \E c \in Clients : StopTimesOut(c)
  <2>1. Alive /\ (Cancelled \/ CutLoose) /\ UNCHANGED server
    BY <1>3 DEF GraceEnds, StopTimesOut
  <2>2. \/ run'.pc = "done" /\ ~mgr'.engine /\ mgr'.runs = mgr.runs
        \/ run'.pc = "finally" /\ mgr' = mgr
    BY <2>1 DEF Cancelled, CutLoose, Detached, ToFinally, TypeOK, MgrType, RunType
  <2>3. mgr'.engine => Alive'
    BY <2>1, <2>2 DEF Alive, ServerEnds
  <2>4. /\ caller'[Lifespan].run = caller[Lifespan].run
        /\ caller[Lifespan].pc # "idle" => caller'[Lifespan].pc # "idle"
    BY <1>3, SessionAssumption DEF GraceEnds, StopTimesOut, TypeOK, RequestType
  <2>5. mgr'.runs = mgr.runs
    BY <2>2
  <2> QED
    BY <2>1, <2>3, <2>4, <2>5 DEF ServerEnds
<1>4. CASE \E c \in Clients : Stop(c)
  <2>1. server'.pc = "up" /\ mgr'.engine = mgr.engine /\ run' = run
    BY <1>4 DEF Stop, Shutdown, TypeOK, MgrType
  <2> QED
    BY <2>1 DEF ServerEnds, Alive
<1>5. CASE \E c \in Clients : StopResumes(c) \/ StopReturns(c)
  <2>1. PICK c \in Clients : StopResumes(c) \/ StopReturns(c)
    BY <1>5
  <2>2. UNCHANGED <<run, mgr, server>>
    BY <2>1 DEF StopResumes, StopReturns
  <2>3. CASE c = Lifespan /\ server.pc = "stopping"
    <3>1. ~Alive
      BY <2>1, <2>3 DEF StopResumes, StopReturns, Over, ServerEnds, TypeOK, MgrType
    <3> QED
      BY <2>2, <3>1 DEF ServerEnds, Alive
  <2>4. CASE c # Lifespan
    <3>1. caller'[Lifespan] = caller[Lifespan]
      BY <2>1, <2>4, SessionAssumption DEF StopResumes, StopReturns, TypeOK
    <3> QED
      BY <2>2, <3>1 DEF ServerEnds, Alive
  <2> QED
    BY <2>2, <2>3, <2>4 DEF ServerEnds, Alive
<1>6. CASE RunOver \/ Interrupted
  <2>1. server'.pc = "leaving" /\ UNCHANGED <<run, mgr>>
    BY <1>6 DEF RunOver, Interrupted, TypeOK
  <2> QED
    BY <2>1 DEF ServerEnds, Alive
<1>7. CASE Leaves
  <2>1. CASE server.pc = "leaving" /\ Alive
    <3>0. Shutdown(Lifespan) /\ server'.pc = "stopping"
      BY <1>7, <2>1 DEF Leaves, TypeOK
    <3>1. /\ server'.pc = "stopping" /\ run' = run
          /\ mgr'.engine = mgr.engine /\ mgr'.runs = mgr.runs
      BY <3>0 DEF Shutdown, TypeOK, MgrType
    <3>2. caller'[Lifespan].pc = "waiting" /\ caller'[Lifespan].run = mgr.runs
      BY <3>0, SessionAssumption DEF Shutdown, TypeOK
    <3> QED
      BY <3>1, <3>2 DEF ServerEnds, Alive
  <2>2. CASE ~(server.pc = "leaving" /\ Alive)
    <3>1. server'.pc = "down" /\ UNCHANGED <<run, mgr>>
      BY <1>7, <2>2 DEF Leaves, TypeOK
    <3>2. ~Alive
      BY <1>7, <2>2, SessionAssumption DEF Leaves, ServerEnds
    <3> QED
      BY <3>1, <3>2 DEF ServerEnds, Alive
  <2> QED
    BY <2>1, <2>2
<1>8. CASE Begin \/ Look \/ Wake \/ PreOpenEnds \/ Opens \/ Closes \/ HookEnds \/ HookFails \/ Request
  <2>1. Alive /\ UNCHANGED <<mgr, caller, server>>
    BY <1>8 DEF Begin, Look, Wake, PreOpenEnds, Opens, Closes, HookEnds, HookFails, Request,
                Alive, callVars
  <2>2. Alive'
    <3>1. CASE Wake \/ PreOpenEnds
      <4>1. ASSUME NEW s
            PROVE  /\ Entered(run, s).pc = "hook"
                   /\ Entered([run EXCEPT !.next = @ + 1], s).pc = "hook"
        BY DEF Entered, TypeOK, RunType
      <4>2. ToFinally(run).pc = "finally" /\ [run EXCEPT !.pc = "loop"].pc = "loop"
        BY DEF ToFinally, TypeOK, RunType
      <4> QED
        BY <3>1, <4>1, <4>2 DEF Wake, PreOpenEnds, Alive
    <3>2. CASE Begin
      BY <3>2 DEF Begin, ToFinally, Alive, TypeOK, RunType
    <3>3. CASE Look
      BY <3>3 DEF Look, LooksAt, ToFinally, Alive, TypeOK, RunType
    <3>4. CASE Opens \/ Closes \/ HookEnds \/ HookFails \/ Request
      BY <3>4 DEF ToFinally, Opens, Closes, HookEnds, HookFails, Request, Alive, TypeOK, RunType
    <3> QED
      BY <1>8, <3>1, <3>2, <3>3, <3>4
  <2> QED
    BY <2>1, <2>2 DEF ServerEnds, Alive
<1>9. CASE UNCHANGED <<run, mgr, caller, server>>
  BY <1>9 DEF ServerEnds, Alive
<1>10. CASE \E r \in 1 .. MaxRuns : AdriftEnds(r)
  <2>1. mgr'.engine = mgr.engine /\ mgr'.runs = mgr.runs /\ UNCHANGED <<run, caller, server>>
    BY <1>10 DEF AdriftEnds, TypeOK, MgrType
  <2> QED
    BY <2>1 DEF ServerEnds, Alive
<1> QED
  <2>1. CASE \/ Passes \/ LoopTimesOut \/ UNCHANGED vars
             \/ \E l \in Loops : LoopSteps(l) \/ LoopRests(l) \/ OrphanEnds(l)
    BY <2>1, <1>9 DEF Passes, LoopTimesOut, LoopSteps, LoopRests, OrphanEnds, callVars, vars
  <2> QED
    BY <2>1, <1>1, <1>2, <1>3, <1>4, <1>5, <1>6, <1>7, <1>8, <1>10 DEF Next, Lifecycle, Hooks

(* A request is early when its run is noted as hurried, and the note       *)
(* stays; only an early request cuts a run loose.                          *)
LEMMA HurriedStep ==
    ASSUME TypeOK, Hurried, [Next]_vars
    PROVE  Hurried'
<1>1. CASE UNCHANGED <<mgr, caller>>
  BY <1>1 DEF Hurried
<1>2. CASE /\ mgr'.hurried = mgr.hurried /\ mgr'.adrift \subseteq mgr.adrift
           /\ \A c \in Clients : caller'[c].pc = "waiting" => caller'[c] = caller[c]
  BY <1>2 DEF Hurried
<1>3. ASSUME NEW c \in Clients, Shutdown(c)
      PROVE  Hurried'
  <2>1. /\ mgr'.adrift = mgr.adrift /\ mgr.hurried \subseteq mgr'.hurried
        /\ run.pc = "building" => mgr.runs \in mgr'.hurried
    BY <1>3 DEF Shutdown, TypeOK, MgrType
  <2>2. \A d \in Clients \ {c} : caller'[d] = caller[d]
    BY <1>3 DEF Shutdown, TypeOK
  <2>3. caller'[c].run = mgr.runs /\ (caller'[c].early <=> run.pc = "building")
    BY <1>3 DEF Shutdown, TypeOK
  <2> QED
    BY <2>1, <2>2, <2>3 DEF Hurried
<1>4. ASSUME NEW c \in Clients, StopTimesOut(c)
      PROVE  Hurried'
  <2>1. caller[c].pc = "waiting" /\ caller[c].run = mgr.runs /\ mgr'.hurried = mgr.hurried
    BY <1>4 DEF StopTimesOut, Cancelled, CutLoose, Detached, TypeOK, MgrType
  <2>2. mgr'.adrift = mgr.adrift \/ (caller[c].early /\ mgr'.adrift = mgr.adrift \cup {mgr.runs})
    BY <1>4 DEF StopTimesOut, Cancelled, CutLoose, Detached, TypeOK, MgrType
  <2>3. /\ \A d \in Clients \ {c} : caller'[d] = caller[d]
        /\ caller'[c].pc # "waiting"
    BY <1>4 DEF StopTimesOut, TypeOK, RequestType
  <2> QED
    BY <2>1, <2>2, <2>3 DEF Hurried
<1>5. ASSUME NEW c \in Clients, StopResumes(c) \/ StopReturns(c)
      PROVE  Hurried'
  <2>1. /\ mgr' = mgr /\ \A d \in Clients \ {c} : caller'[d] = caller[d]
        /\ caller'[c].pc # "waiting"
    BY <1>5 DEF StopResumes, StopReturns, NoRequest, TypeOK, RequestType
  <2> QED
    BY <2>1 DEF Hurried
<1>6. CASE Start \/ Launch
  BY <1>1, <1>2, <1>6 DEF Start, Launch, Started, TypeOK, MgrType
<1>7. CASE Attach \/ BuildFails \/ RunEnds
  BY <1>2, <1>7 DEF Attach, BuildFails, RunEnds, Detached, TypeOK, MgrType
<1>8. CASE GraceEnds
  BY <1>1, <1>2, <1>8 DEF GraceEnds, Cancelled, Detached, TypeOK, MgrType
<1>9. CASE \E r \in 1 .. MaxRuns : AdriftEnds(r)
  BY <1>2, <1>9 DEF AdriftEnds, TypeOK, MgrType
<1>10. CASE Leaves
  BY <1>1, <1>3, <1>10, SessionAssumption DEF Leaves
<1>11. CASE \E c \in Clients : Stop(c)
  BY <1>3, <1>11 DEF Stop
<1>12. CASE \/ Begin \/ Look \/ Wake \/ PreOpenEnds \/ Opens \/ Closes \/ HookEnds \/ HookFails
            \/ Request \/ Passes \/ LoopTimesOut \/ RunOver \/ Interrupted \/ UNCHANGED vars
            \/ \E l \in Loops : LoopSteps(l) \/ LoopRests(l) \/ OrphanEnds(l)
  <2>1. UNCHANGED <<mgr, caller>>
    BY <1>12 DEF Begin, Look, Wake, PreOpenEnds, Opens, Closes, HookEnds, HookFails, Request,
                 Passes, LoopTimesOut, RunOver, Interrupted, vars, LoopSteps, LoopRests, OrphanEnds,
                 callVars
  <2> QED
    BY <1>1, <2>1
<1> QED
  BY <1>4, <1>5, <1>6, <1>7, <1>8, <1>9, <1>10, <1>11, <1>12 DEF Next, Lifecycle, Hooks

-----------------------------------------------------------------------------
(* The theorems.                                                           *)

LEMMA SessionInit == Init => SessionInv
<1> SUFFICES ASSUME Init PROVE SessionInv
  OBVIOUS
<1>1. TypeOK
  <2>1. 0 \in 0 .. MaxRuns
    BY SessionAssumption
  <2> QED
    BY <2>1, NoRunFacts DEF Init, TypeOK, StopAll, NoRequest, MgrType, RequestType
<1>2. DayInv
  BY DEF Init, NoRun, DayInv, FreshRuns, HooksFit, StatesInOrder, Watched, Final, Driving
<1>3. ServerEnds
  BY DEF Init, NoRun, ServerEnds, Alive
<1>4. Hurried
  BY DEF Init, NoRequest, Hurried
<1> QED
  BY <1>1, <1>2, <1>3, <1>4 DEF SessionInv

LEMMA SessionNext == SessionInv /\ [Next]_vars => SessionInv'
<1> SUFFICES ASSUME TypeOK, DayInv, ServerEnds, [Next]_vars PROVE TypeOK' /\ DayInv'
  BY ServerEndsStep, HurriedStep DEF SessionInv
<1>1. CASE Passes
  <2>1. UNCHANGED <<day, fits, run, loop, loopStop, orphans, mgr, caller, server>>
    BY <1>1 DEF Passes, loopVars, callVars
  <2>2. clock' \in clock .. 6 /\ clock' \in 0 .. 6
    BY <1>1 DEF Passes, TypeOK
  <2> QED
    BY <2>1, <2>2, OutsideSteps DEF TypeOK
<1>2. CASE Lifecycle
  BY <1>2, BeginStep, LookStep, WakeStep, EndStep DEF Lifecycle
<1>3. CASE Hooks
  BY <1>3, AttachStep, PreOpenEndsStep, OpensStep, HookStep DEF Hooks
<1>4. CASE Request
  BY <1>4, RequestStep
<1>5. CASE LoopTimesOut \/ \E l \in Loops : LoopSteps(l) \/ LoopRests(l) \/ OrphanEnds(l)
  BY <1>5, LoopStep
<1>6. CASE GraceEnds \/ \E c \in Clients : StopTimesOut(c)
  BY <1>6, CancelSteps
<1>7. CASE \E c \in Clients : Stop(c) \/ StopResumes(c) \/ StopReturns(c)
  <2>1. PICK c \in Clients : Stop(c) \/ StopResumes(c) \/ StopReturns(c)
    BY <1>7
  <2>2. Shutdown(c) \/ StopResumes(c) \/ StopReturns(c)
    BY <2>1 DEF Stop
  <2>3. server' \in [pc : {"launch", "up", "leaving", "stopping", "down"}, awaits : 0 .. MaxRuns]
    BY <2>1 DEF Stop, StopResumes, StopReturns, TypeOK
  <2> QED
    BY <2>2, <2>3, RequestsStep
<1>8. CASE Start \/ Launch \/ RunOver \/ Interrupted \/ Leaves
  BY <1>8, ServerStep
<1>9. CASE UNCHANGED vars
  <2>1. UNCHANGED <<day, fits, clock, run, loop, loopStop, orphans, mgr, caller, server>>
    BY <1>9 DEF vars
  <2>2. clock' \in clock .. 6
    BY <2>1 DEF TypeOK
  <2> QED
    BY <2>1, <2>2, OutsideSteps DEF TypeOK
<1>10. CASE \E r \in 1 .. MaxRuns : AdriftEnds(r)
  BY <1>10, AdriftStep
<1> QED
  BY <1>1, <1>2, <1>3, <1>4, <1>5, <1>6, <1>7, <1>8, <1>9, <1>10 DEF Next

LEMMA SessionHolds == Spec => []SessionInv
<1> QED
  BY SessionInit, SessionNext, PTL DEF Spec

(* The state of the session, its loops, its stop requests and its server   *)
(* is well formed.                                                         *)
THEOREM SessionTyped == Spec => []TypeOK
<1>1. SessionInv => TypeOK
  BY DEF SessionInv
<1> QED
  BY <1>1, SessionHolds, PTL

(* However late a run starts and whatever its hooks overrun: while the     *)
(* lifecycle sleeps in the session, every loop of the engine runs.         *)
THEOREM SessionWatched == Spec => []SessionIsWatched
<1>1. SessionInv => SessionIsWatched
  BY DEF SessionInv, DayInv, HooksFit, Watched, Driving, InSession, SessionIsWatched
<1> QED
  BY <1>1, SessionHolds, PTL

(* A report is made of a session that is over: its loops have stopped and  *)
(* its orders have expired, unless CLOSE was overrun or failed.            *)
THEOREM ReportFinal == Spec => []ReportIsFinal
<1>1. SessionInv => ReportIsFinal
  BY DEF SessionInv, DayInv, HooksFit, Final, Driving, ReportIsFinal
<1> QED
  BY <1>1, SessionHolds, PTL

(* The console leaves no run behind, whichever request ends it; an engine  *)
(* outlasts its run only where a stop was asked for during the build.      *)
THEOREM ConsoleLeavesNothing == Spec => []NothingLeftRunning
<1>1. SessionInv => NothingLeftRunning
  BY DEF SessionInv, ServerEnds, Hurried, NothingLeftRunning
<1> QED
  BY <1>1, SessionHolds, PTL

-----------------------------------------------------------------------------
(* The stream: what its variables hold.                                    *)
Kinds == {"event", "resync", "new_store", "subscribed"}
Msg == [kind : Kinds, seq : Nat, to : Nat, gen : Nat]
Item == [seq : Nat, wanted : BOOLEAN, gen : Nat]
SubType ==
    [on : BOOLEAN, queue : Seq(Msg), paused : BOOLEAN, replay : {<<>>} \cup (Nat \X Nat),
     ack : {<<>>} \cup {<<m>> : m \in Msg}, last : Nat]
SndType ==
    [pc : {"loop", "acked", "reading", "batch", "sent", "queue", "queued"},
     cursor : Nat, until : Nat, batch : Seq(Item) \cup {<<m>> : m \in Msg}]
TailerType == [pc : {"idle", "reading", "read"}, from : Nat, read : Seq(Item), conn : Nat]
ClientType == [status : {"open", "off"}, last : Nat, resume : Nat \cup {None}, floor : Nat,
               got : SUBSET Nat, gen : Nat]

DbType == [gen : Nat, print : Nat, log : Seq(BOOLEAN)]
HubType == [tail : Nat \cup {None}, fp : Nat, conn : Nat, gen : Nat]
CountType == [events : Nat, connects : Nat, swaps : Nat, resubs : Nat, blind : BOOLEAN]

StreamTyped ==
    /\ db \in DbType /\ conn \in Nat /\ hub \in HubType
    /\ tailer \in TailerType /\ sub \in SubType /\ snd \in SndType
    /\ wire \in Seq(Msg) /\ client \in ClientType
    /\ count \in CountType

(* The tailer reads on from where the hub is.                              *)
TailerOk ==
    /\ tailer.pc # "idle" => hub.tail # None /\ tailer.from = hub.tail
    /\ tailer.pc = "read" => Len(tailer.read) > 0
    /\ \A i \in 1 .. Len(tailer.read) : tailer.read[i].seq = tailer.from + i

(* The sender's batch goes on from its cursor and not beyond the replay.   *)
SenderOk(d) ==
    /\ d.pc \in {"batch", "sent"} =>
          /\ d.batch \in Seq(Item) /\ d.cursor + Len(d.batch) <= d.until
          /\ \A i \in 1 .. Len(d.batch) : d.batch[i].seq = d.cursor + i
    /\ d.pc = "sent" => Len(d.batch) > 0
    /\ d.pc = "queued" => d.batch \in {<<m>> : m \in Msg}

(* Acknowledgements are not queued.                                        *)
SubOk(s) ==
    /\ s.ack # <<>> => s.ack[1].kind = "subscribed"
    /\ \A i \in 1 .. Len(s.queue) : s.queue[i].kind # "subscribed"

ShapeInv ==
    /\ StreamTyped /\ TailerOk /\ SenderOk(snd) /\ SubOk(sub)
    /\ sub.on <=> client.status = "open"
    /\ sub.on => hub.tail # None
    /\ client.floor <= client.last

LEMMA ReadOk ==
    ASSUME db \in DbType, NEW a \in Nat, NEW b \in Nat, a < b, b <= LastSeq
    PROVE  /\ Read(a, b) \in Seq(Item) /\ Len(Read(a, b)) = b - a
           /\ \A i \in 1 .. (b - a) : /\ Read(a, b)[i].seq = a + i
                                      /\ Read(a, b)[i].wanted = db.log[a + i]
<1>1. b - a \in Nat /\ db.gen \in Nat /\ db.log \in Seq(BOOLEAN)
  BY DEF DbType
<1>2. \A i \in 1 .. (b - a) : a + i \in 1 .. Len(db.log)
  BY <1>1 DEF LastSeq
<1>3. \A i \in 1 .. (b - a) :
        [seq |-> a + i, wanted |-> db.log[a + i], gen |-> db.gen] \in Item
  <2> TAKE i \in 1 .. (b - a)
  <2>1. db.log[a + i] \in BOOLEAN
    BY <1>1, <1>2, ElementOfSeq
  <2> DEFINE w == db.log[a + i]
  <2>2. w \in BOOLEAN
    BY <2>1
  <2> HIDE DEF w
  <2>3. [seq |-> a + i, wanted |-> w, gen |-> db.gen] \in Item
    BY <1>1, <2>2 DEF Item
  <2> QED
    BY <2>3 DEF w
<1>4. Read(a, b) \in Seq(Item)
  BY <1>1, <1>3 DEF Read
<1>5. DOMAIN Read(a, b) = 1 .. (b - a)
  BY DEF Read
<1>6. Len(Read(a, b)) = b - a
  BY <1>1, <1>4, <1>5, LenProperties
<1> QED
  BY <1>1, <1>4, <1>6 DEF Read

LEMMA MinMax ==
    ASSUME NEW a \in Int, NEW b \in Int
    PROVE  /\ MinOf(a, b) \in {a, b} /\ MinOf(a, b) <= a /\ MinOf(a, b) <= b
           /\ MaxOf(a, b) \in {a, b} /\ MaxOf(a, b) >= a /\ MaxOf(a, b) >= b
BY DEF MinOf, MaxOf

(* A queue without its head, and with one message more.                    *)
LEMMA Shifted ==
    ASSUME NEW E, NEW q \in Seq(E), q # <<>>
    PROVE  /\ Tail(q) \in Seq(E) /\ Len(q) \in Nat /\ Len(q) > 0 /\ Len(Tail(q)) = Len(q) - 1
           /\ Head(q) = q[1] /\ q[1] \in E
           /\ \A i \in 1 .. Len(Tail(q)) : Tail(q)[i] = q[i + 1] /\ i + 1 \in 1 .. Len(q)
<1>1. Len(q) \in Nat /\ Len(q) > 0
  BY EmptySeq, LenProperties
<1> QED
  BY <1>1, HeadTailProperties, ElementOfSeq

LEMMA Longer ==
    ASSUME NEW E, NEW q \in Seq(E), NEW e \in E
    PROVE  /\ Append(q, e) \in Seq(E) /\ Len(q) \in Nat /\ Len(Append(q, e)) = Len(q) + 1
           /\ Append(q, e)[Len(q) + 1] = e /\ Append(q, e) # <<>>
           /\ \A i \in 1 .. Len(q) : Append(q, e)[i] = q[i]
BY AppendProperties, LenProperties, EmptySeq

-----------------------------------------------------------------------------
(* Counting up: a property of 0 that each number hands on to the next.     *)
LEMMA LeastExists ==
    ASSUME NEW S \in SUBSET Nat, S # {}
    PROVE  \E x \in S : \A y \in S : x <= y
<1> DEFINE T == {0 .. x : x \in S}
<1>1. T \subseteq FiniteSubsetsOf(Nat)
  <2> SUFFICES ASSUME NEW x \in S PROVE 0 .. x \in FiniteSubsetsOf(Nat)
    OBVIOUS
  <2>1. IsFiniteSet(0 .. x)
    BY FS_Interval
  <2> QED
    BY <2>1 DEF FiniteSubsetsOf
<1>2. T # {}
  OBVIOUS
<1>3. \E t \in T : \A u \in T : ~(<<u, t>> \in StrictSubsetOrdering(Nat))
  <2> HIDE DEF T
  <2> QED
    BY <1>1, <1>2, FS_StrictSubsetOrderingWellFounded, WFMin
<1>4. PICK x \in S : \A u \in T : ~(<<u, 0 .. x>> \in StrictSubsetOrdering(Nat))
  BY <1>3
<1>5. ASSUME NEW y \in S PROVE x <= y
  <2> SUFFICES ASSUME y < x PROVE FALSE
    OBVIOUS
  <2>1. 0 .. y \subseteq 0 .. x /\ x \in 0 .. x /\ x \notin 0 .. y
    OBVIOUS
  <2>2. <<0 .. y, 0 .. x>> \in StrictSubsetOrdering(Nat)
    BY <2>1 DEF StrictSubsetOrdering
  <2> QED
    BY <1>4, <2>2
<1> QED
  BY <1>5

LEMMA Counting ==
    ASSUME NEW N \in Nat, NEW T, 0 \in T, \A n \in 1 .. N : n - 1 \in T => n \in T
    PROVE  N \in T
<1> DEFINE Bad == {n \in 0 .. N : n \notin T}
<1> SUFFICES ASSUME Bad # {} PROVE FALSE
  OBVIOUS
<1>1. PICK n \in Bad : \A m \in Bad : n <= m
  <2>1. Bad \in SUBSET Nat
    OBVIOUS
  <2> HIDE DEF Bad
  <2> QED
    BY <2>1, LeastExists
<1>2. n \in 1 .. N
  BY <1>1
<1>3. n - 1 \in 0 .. N /\ n - 1 \notin Bad
  BY <1>1, <1>2
<1> QED
  BY <1>1, <1>2, <1>3

(* The fan-out: each event is told to what the ones before it have left.   *)
Fan(f, s, items) == f = [n \in 0 .. Len(items) |-> IF n = 0 THEN s ELSE Tell(f[n - 1], items[n])]

LEMMA FanExists ==
    ASSUME NEW s, NEW items, Len(items) \in Nat
    PROVE  \E f : Fan(f, s, items)
<1> DEFINE N == Len(items)
           Upto(f, n) == \A m \in 0 .. n : f[m] = IF m = 0 THEN s ELSE Tell(f[m - 1], items[m])
           T == {n \in 0 .. N : \E f : Upto(f, n)}
<1>1. 0 \in T
  <2>1. Upto([m \in {0} |-> s], 0)
    OBVIOUS
  <2>2. 0 \in 0 .. N
    OBVIOUS
  <2> HIDE DEF Upto
  <2> QED
    BY <2>1, <2>2
<1>2. ASSUME NEW n \in 1 .. N, n - 1 \in T PROVE n \in T
  <2>1. PICK f : Upto(f, n - 1)
    BY <1>2
  <2> DEFINE g == [m \in 0 .. n |-> IF m = n THEN Tell(f[n - 1], items[n]) ELSE f[m]]
  <2>2. ASSUME NEW m \in 0 .. n PROVE g[m] = IF m = 0 THEN s ELSE Tell(g[m - 1], items[m])
    <3>1. CASE m = n
      BY <3>1
    <3>2. CASE m # n
      <4>1. m \in 0 .. n - 1 /\ (m # 0 => m - 1 \in 0 .. n - 1 /\ m - 1 # n)
        BY <3>2
      <4>2. g[m] = f[m] /\ (m # 0 => g[m - 1] = f[m - 1])
        BY <4>1
      <4> QED
        BY <2>1, <4>1, <4>2
    <3> QED
      BY <3>1, <3>2
  <2>3. Upto(g, n)
    BY <2>2
  <2> HIDE DEF g
  <2> QED
    BY <2>3
<1>3. N \in T
  <2> HIDE DEF T
  <2> QED
    BY <1>1, <1>2, Counting
<1>4. PICK f : Upto(f, N)
  BY <1>3
<1> DEFINE h == [n \in 0 .. N |-> f[n]]
<1>5. Fan(h, s, items)
  BY <1>4 DEF Fan
<1> QED
  BY <1>5

(* So a relation that every telling keeps, holds at the end.               *)
LEMMA FansOut ==
    ASSUME TailFansOut, Len(tailer.read) \in Nat
    PROVE  \E f : Fan(f, sub, tailer.read) /\ sub' = f[Len(tailer.read)]
<1> DEFINE F == CHOOSE f : f = [n \in 0 .. Len(tailer.read) |->
                                  IF n = 0 THEN sub ELSE Tell(f[n - 1], tailer.read[n])]
<1>1. F = [n \in 0 .. Len(tailer.read) |-> IF n = 0 THEN sub ELSE Tell(F[n - 1], tailer.read[n])]
  BY FanExists DEF Fan
<1>2. sub' = F[Len(tailer.read)]
  BY DEF TailFansOut
<1> HIDE DEF F
<1> QED
  BY <1>1, <1>2 DEF Fan

-----------------------------------------------------------------------------
(* The shape of the stream's state is kept.                                *)
LEMMA PushShape ==
    ASSUME db.gen \in Nat, NEW s \in SubType, SubOk(s), NEW m \in Msg, m.kind = "event"
    PROVE  /\ Push(s, m) \in SubType /\ SubOk(Push(s, m))
           /\ Push(s, m).on = s.on /\ Push(s, m).last = s.last /\ Push(s, m).ack = s.ack
<1>1. Resync(s.last, "resync") \in Msg /\ Resync(s.last, "resync").kind = "resync"
  BY DEF Resync, Msg, Kinds, SubType
<1>2. CASE s.paused
  BY <1>2 DEF Push
<1>3. CASE ~s.paused /\ Len(s.queue) >= QueueMax
  <2> DEFINE q == <<Resync(s.last, "resync")>>
  <2>1. q \in Seq(Msg) /\ Len(q) = 1 /\ q[1].kind = "resync"
    BY <1>1
  <2> HIDE DEF q
  <2>2. Push(s, m) = [s EXCEPT !.queue = q, !.paused = TRUE, !.replay = <<>>]
    BY <1>3 DEF Push, q
  <2> DEFINE new == [s EXCEPT !.queue = q, !.paused = TRUE, !.replay = <<>>]
  <2>3. new \in SubType /\ new.queue = q /\ new.on = s.on /\ new.last = s.last /\ new.ack = s.ack
    BY <2>1 DEF SubType
  <2> HIDE DEF new
  <2>4. Push(s, m) = new
    BY <2>2 DEF new
  <2> QED
    BY <2>1, <2>3, <2>4 DEF SubOk
<1>4. CASE ~s.paused /\ ~(Len(s.queue) >= QueueMax)
  <2>1. Push(s, m) = [s EXCEPT !.queue = Append(@, m)]
    BY <1>4 DEF Push
  <2>2. s.queue \in Seq(Msg)
    BY DEF SubType
  <2>3. /\ Append(s.queue, m) \in Seq(Msg) /\ Len(Append(s.queue, m)) = Len(s.queue) + 1
        /\ Len(s.queue) \in Nat
        /\ Append(s.queue, m)[Len(s.queue) + 1] = m
        /\ \A i \in 1 .. Len(s.queue) : Append(s.queue, m)[i] = s.queue[i]
    BY <2>2, Longer
  <2>4. \A i \in 1 .. Len(Append(s.queue, m)) : Append(s.queue, m)[i].kind # "subscribed"
    BY <2>3 DEF SubOk
  <2> QED
    BY <2>1, <2>3, <2>4 DEF SubType, SubOk
<1> QED
  BY <1>2, <1>3, <1>4

LEMMA TellShape ==
    ASSUME db.gen \in Nat, NEW s \in SubType, SubOk(s), NEW e \in Item
    PROVE  /\ Tell(s, e) \in SubType /\ SubOk(Tell(s, e))
           /\ Tell(s, e).on = s.on /\ Tell(s, e).last = s.last /\ Tell(s, e).ack = s.ack
<1>1. Event(e) \in Msg /\ Event(e).kind = "event"
  BY DEF Event, Item, Msg, Kinds
<1> QED
  BY <1>1, PushShape DEF Tell

LEMMA FanShape ==
    ASSUME ShapeInv, TailFansOut
    PROVE  /\ sub' \in SubType /\ SubOk(sub')
           /\ sub'.on = sub.on /\ sub'.last = sub.last /\ sub'.ack = sub.ack
<1>1. /\ tailer.read \in Seq(Item) /\ Len(tailer.read) \in Nat
      /\ \A i \in 1 .. Len(tailer.read) : tailer.read[i] \in Item
  <2>1. tailer.read \in Seq(Item)
    BY DEF ShapeInv, StreamTyped, TailerType
  <2> QED
    BY <2>1, LenProperties, ElementOfSeq
<1>2. PICK f : Fan(f, sub, tailer.read) /\ sub' = f[Len(tailer.read)]
  BY <1>1, FansOut
<1> DEFINE Same(s) == /\ s \in SubType /\ SubOk(s)
                      /\ s.on = sub.on /\ s.last = sub.last /\ s.ack = sub.ack
           T == {n \in 0 .. Len(tailer.read) : Same(f[n])}
<1>3. Same(sub) /\ db.gen \in Nat
  BY DEF ShapeInv, StreamTyped, DbType
<1>4. 0 \in T
  BY <1>1, <1>2, <1>3 DEF Fan
<1>5. ASSUME NEW n \in 1 .. Len(tailer.read), n - 1 \in T PROVE n \in T
  <2>1. f[n] = Tell(f[n - 1], tailer.read[n]) /\ Same(f[n - 1])
    BY <1>1, <1>2, <1>5 DEF Fan
  <2>2. Same(Tell(f[n - 1], tailer.read[n]))
    BY <1>1, <1>3, <2>1, TellShape
  <2> QED
    BY <2>1, <2>2
<1>6. Len(tailer.read) \in T
  <2> HIDE DEF T
  <2> QED
    BY <1>1, <1>4, <1>5, Counting
<1> QED
  BY <1>2, <1>6

LEMMA CountKept ==
    ASSUME NEW c \in CountType, NEW n \in Nat, NEW b \in BOOLEAN
    PROVE  /\ [c EXCEPT !.swaps = n, !.blind = b] \in CountType
           /\ [c EXCEPT !.resubs = n, !.blind = b] \in CountType
           /\ [c EXCEPT !.blind = b] \in CountType
<1>1. [c EXCEPT !.swaps = n, !.blind = b] \in CountType
  BY Zenon DEF CountType
<1>2. [c EXCEPT !.resubs = n, !.blind = b] \in CountType
  BY Zenon DEF CountType
<1>3. [c EXCEPT !.blind = b] \in CountType
  BY Zenon DEF CountType
<1> QED
  BY <1>1, <1>2, <1>3

LEMMA AppendShape ==
    ASSUME ShapeInv, NEW wanted \in BOOLEAN, Append1(wanted)
    PROVE  ShapeInv'
<1>1. db \in DbType /\ count \in CountType
  BY DEF ShapeInv, StreamTyped
<1>2. Append(db.log, wanted) \in Seq(BOOLEAN)
  BY <1>1, AppendProperties DEF DbType
<1>3. db' = [db EXCEPT !.log = Append(@, wanted)] /\ count' = [count EXCEPT !.events = @ + 1]
  BY DEF Append1
<1>4. db' \in DbType
  BY <1>1, <1>2, <1>3 DEF DbType
<1>5. count' \in CountType
  BY <1>1, <1>3 DEF CountType
<1> QED
  BY <1>4, <1>5 DEF Append1, ShapeInv, StreamTyped, TailerOk

LEMMA SwapShape ==
    ASSUME ShapeInv, NEW new \in BOOLEAN, Swap(new)
    PROVE  ShapeInv'
<1>1. db \in DbType /\ count \in CountType /\ conn \in Nat
  BY DEF ShapeInv, StreamTyped
<1>2. <<>> \in Seq(BOOLEAN)
  BY EmptySeq
<1>3. db' \in DbType
  <2>1. CASE new
    <3>1. PICK print \in 1 .. db.gen + 1 :
             db' = [gen |-> db.gen + 1, print |-> print, log |-> <<>>]
      BY <2>1 DEF Swap
    <3> QED
      BY <1>1, <1>2, <3>1 DEF DbType
  <2> QED
    BY <1>1, <2>1 DEF Swap
<1>4. count' = [count EXCEPT !.swaps = @ + 1, !.blind = @ \/ (new /\ Blinds)]
  BY DEF Swap
<1>5. count' \in CountType
  <2>1. (count.blind \/ (new /\ Blinds)) \in BOOLEAN /\ count.swaps + 1 \in Nat
    BY <1>1 DEF CountType
  <2> QED
    BY <1>1, <1>4, <2>1, CountKept, Zenon
<1>6. conn' \in Nat
  BY <1>1 DEF Swap
<1> QED
  BY <1>3, <1>5, <1>6 DEF Swap, ShapeInv, StreamTyped, TailerOk

LEMMA Parts ==
    ASSUME ShapeInv
    PROVE  /\ db \in DbType /\ conn \in Nat /\ hub \in HubType /\ tailer \in TailerType
           /\ sub \in SubType /\ snd \in SndType /\ wire \in Seq(Msg) /\ client \in ClientType
           /\ count \in CountType /\ SubOk(sub) /\ SenderOk(snd) /\ TailerOk
           /\ LastSeq \in Nat /\ db.gen \in Nat /\ db.log \in Seq(BOOLEAN)
<1>1. db.log \in Seq(BOOLEAN) /\ db.gen \in Nat
  BY DEF ShapeInv, StreamTyped, DbType
<1> QED
  BY <1>1, LenProperties DEF ShapeInv, StreamTyped, LastSeq

(* What a new database leaves in a subscriber.                             *)
Overs(over, s, m) == over = [s EXCEPT !.queue = <<m>>, !.paused = TRUE, !.replay = <<>>]

LEMMA OverShape ==
    ASSUME NEW s \in SubType, NEW m \in Msg, m.kind # "subscribed", NEW over, Overs(over, s, m)
    PROVE  /\ (s.ack # <<>> => s.ack[1].kind = "subscribed") => SubOk(over)
           /\ over \in SubType /\ over.on = s.on /\ over.ack = s.ack /\ over.last = s.last
           /\ over.queue = <<m>> /\ over.paused = TRUE /\ over.replay = <<>>
<1> DEFINE q == <<m>>
<1>1. q \in Seq(Msg) /\ Len(q) = 1 /\ q[1] = m /\ over = [s EXCEPT !.queue = q, !.paused = TRUE, !.replay = <<>>]
  BY DEF Overs
<1> HIDE DEF q
<1>2. /\ over \in SubType /\ over.on = s.on /\ over.ack = s.ack /\ over.last = s.last
      /\ over.queue = q /\ over.paused = TRUE /\ over.replay = <<>>
  <2>1. over = [on |-> s.on, queue |-> q, paused |-> TRUE, replay |-> <<>>, ack |-> s.ack, last |-> s.last]
    BY <1>1 DEF SubType
  <2>2. s.on \in BOOLEAN /\ s.ack \in {<<>>} \cup {<<x>> : x \in Msg} /\ s.last \in Nat
    BY DEF SubType
  <2> QED
    BY <1>1, <2>1, <2>2 DEF SubType
<1>3. (s.ack # <<>> => s.ack[1].kind = "subscribed") => SubOk(over)
  <2>1. \A i \in 1 .. Len(over.queue) : over.queue[i].kind # "subscribed"
    <3>1. Len(over.queue) = 1 /\ over.queue[1] = m
      BY <1>1, <1>2
    <3>2. \A i \in 1 .. 1 : i = 1
      OBVIOUS
    <3> QED
      BY <3>1, <3>2
  <2> QED
    BY <1>2, <2>1 DEF SubOk
<1> QED
  BY <1>2, <1>3 DEF q

LEMMA TailBeginsShape ==
    ASSUME ShapeInv, TailBegins
    PROVE  ShapeInv'
<1>1. Fingerprint \in Nat /\ Resync(0, "new_store") \in Msg /\ Resync(0, "new_store").kind = "new_store"
  BY Parts DEF Fingerprint, Resync, Msg, Kinds, DbType
<1>2. CASE hub.conn # conn /\ hub.fp # 0 /\ Fingerprint # hub.fp
  <2>1. /\ hub' = [tail |-> LastSeq, fp |-> Fingerprint, conn |-> conn, gen |-> db.gen]
        /\ sub' = IF sub.on THEN [sub EXCEPT !.queue = <<Resync(0, "new_store")>>,
                                             !.paused = TRUE, !.replay = <<>>]
                  ELSE sub
        /\ tailer' = tailer
    BY <1>2 DEF TailBegins
  <2>2. hub' \in HubType /\ hub'.tail # None
    BY <1>1, <2>1, Parts DEF HubType, None
  <2>3. sub' \in SubType /\ SubOk(sub') /\ sub'.on = sub.on
    <3>1. sub \in SubType /\ SubOk(sub)
      BY Parts
    <3>2. CASE sub.on
      <4>1. sub' = [sub EXCEPT !.queue = <<Resync(0, "new_store")>>, !.paused = TRUE, !.replay = <<>>]
        BY <2>1, <3>2
      <4>2. sub.ack # <<>> => sub.ack[1].kind = "subscribed"
        BY <3>1 DEF SubOk
      <4> DEFINE m == Resync(0, "new_store")
      <4>3. m \in Msg /\ m.kind # "subscribed" /\ Overs(sub', sub, m)
        BY <1>1, <4>1 DEF Overs
      <4> HIDE DEF m
      <4> QED
        BY <3>1, <4>2, <4>3, OverShape
    <3> QED
      BY <2>1, <3>1, <3>2
  <2> QED
    BY <2>1, <2>2, <2>3 DEF TailBegins, ShapeInv, StreamTyped, TailerOk
<1>3. CASE ~(hub.conn # conn /\ hub.fp # 0 /\ Fingerprint # hub.fp)
  <2>1. /\ hub' = [hub EXCEPT !.conn = conn, !.fp = IF hub.conn = conn THEN @ ELSE Fingerprint]
        /\ tailer' = [Resting EXCEPT !.pc = "reading", !.from = hub.tail, !.conn = conn]
        /\ sub' = sub /\ hub.tail # None
    BY <1>3 DEF TailBegins
  <2>2. hub' \in HubType /\ hub'.tail = hub.tail
    BY <1>1, <2>1, Parts DEF HubType
  <2>3. tailer' = [pc |-> "reading", from |-> hub.tail, read |-> <<>>, conn |-> conn]
    BY <2>1 DEF Resting
  <2>4. hub.tail \in Nat /\ <<>> \in Seq(Item) /\ Len(<<>>) = 0
    BY <2>1, Parts DEF HubType
  <2>5. tailer' \in TailerType
    <3>1. conn \in Nat
      BY Parts
    <3> QED
      BY <2>3, <2>4, <3>1 DEF TailerType
  <2>6. TailerOk'
    <3>1. tailer'.pc = "reading" /\ tailer'.from = hub.tail /\ tailer'.read = <<>>
      BY <2>3
    <3>2. Len(tailer'.read) = 0
      BY <3>1
    <3> QED
      BY <2>1, <2>2, <3>1, <3>2 DEF TailerOk
  <2> QED
    BY <2>1, <2>2, <2>5, <2>6 DEF TailBegins, ShapeInv, StreamTyped
<1> QED
  BY <1>2, <1>3

LEMMA TailReadsShape ==
    ASSUME ShapeInv, TailReads
    PROVE  ShapeInv'
<1> DEFINE upto == MinOf(tailer.from + Batch, LastSeq)
<1>1. <<>> \in Seq(Item) /\ Len(<<>>) = 0
  OBVIOUS
<1>2. CASE tailer' = Resting
  <2>1. tailer' \in TailerType /\ TailerOk'
    BY <1>1, <1>2 DEF Resting, TailerType, TailerOk
  <2> QED
    BY <2>1 DEF TailReads, ShapeInv, StreamTyped
<1>3. CASE tailer' = [tailer EXCEPT !.pc = "read", !.read = Read(tailer.from, upto)] /\ ~(upto <= tailer.from)
  <2>1. tailer.from \in Nat /\ upto \in Nat /\ upto <= LastSeq /\ tailer.from < upto
    <3>1. tailer.from \in Nat /\ LastSeq \in Nat /\ Batch \in Nat \ {0}
      BY Parts, StreamAssumption DEF TailerType
    <3> QED
      BY <1>3, <3>1 DEF MinOf
  <2> HIDE DEF upto
  <2>2. /\ Read(tailer.from, upto) \in Seq(Item) /\ Len(Read(tailer.from, upto)) = upto - tailer.from
        /\ \A i \in 1 .. (upto - tailer.from) : Read(tailer.from, upto)[i].seq = tailer.from + i
    BY <2>1, Parts, ReadOk
  <2>3. tailer' \in TailerType /\ tailer'.from = tailer.from /\ tailer'.read = Read(tailer.from, upto)
    BY <1>3, <2>2, Parts DEF TailerType
  <2>4. tailer.from = hub.tail /\ hub.tail # None
    BY Parts DEF TailerOk, TailReads
  <2>5. TailerOk'
    BY <2>1, <2>2, <2>3, <2>4 DEF TailReads, TailerOk
  <2> QED
    BY <2>3, <2>5 DEF TailReads, ShapeInv, StreamTyped
<1> QED
  BY <1>2, <1>3 DEF TailReads

LEMMA TailFansOutShape ==
    ASSUME ShapeInv, TailFansOut
    PROVE  /\ ShapeInv' /\ hub' = [hub EXCEPT !.tail = tailer.from + Len(tailer.read)]
           /\ tailer.from = hub.tail /\ hub.tail \in Nat /\ tailer.read \in Seq(Item)
           /\ Len(tailer.read) \in Nat
<1>1. /\ tailer.read \in Seq(Item) /\ Len(tailer.read) \in Nat /\ Len(tailer.read) > 0
      /\ tailer.from = hub.tail /\ hub.tail # None /\ hub.tail \in Nat /\ tailer.from \in Nat
      /\ \A i \in 1 .. Len(tailer.read) : tailer.read[i].seq = tailer.from + i
  BY Parts, LenProperties DEF TailFansOut, TailerOk, TailerType, HubType
<1>2. hub' = [hub EXCEPT !.tail = tailer.from + Len(tailer.read)]
  BY <1>1 DEF TailFansOut, Last
<1>3. hub' \in HubType /\ hub'.tail # None
  <2>1. hub \in HubType
    BY Parts
  <2> DEFINE t == tailer.from + Len(tailer.read)
  <2>2. t \in Nat
    BY <1>1
  <2> HIDE DEF t
  <2>3. hub' = [hub EXCEPT !.tail = t]
    BY <1>2 DEF t
  <2> QED
    BY <2>1, <2>2, <2>3 DEF HubType, None
<1>4. sub' \in SubType /\ SubOk(sub') /\ sub'.on = sub.on
  BY FanShape
<1>5. <<>> \in Seq(Item) /\ Len(<<>>) = 0
  OBVIOUS
<1>6. tailer' \in TailerType /\ TailerOk'
  BY <1>5 DEF TailFansOut, Resting, TailerType, TailerOk
<1> QED
  BY <1>1, <1>2, <1>3, <1>4, <1>6 DEF TailFansOut, ShapeInv, StreamTyped

(* The sender leaves the store, the hub and the client alone.              *)
LEMMA SenderShape ==
    ASSUME ShapeInv, UNCHANGED storeVars, sub' \in SubType, SubOk(sub'), sub'.on = sub.on,
           snd' \in SndType, SenderOk(snd'), wire' \in Seq(Msg)
    PROVE  ShapeInv'
BY DEF ShapeInv, StreamTyped, TailerOk, SenderOk, SubOk, storeVars

LEMMA IdleSender ==
    /\ NoSend \in SndType /\ SenderOk(NoSend)
    /\ [NoSend EXCEPT !.pc = "queue"] \in SndType /\ SenderOk([NoSend EXCEPT !.pc = "queue"])
<1>1. <<>> \in Seq(Item)
  OBVIOUS
<1>2. /\ NoSend = [pc |-> "loop", cursor |-> 0, until |-> 0, batch |-> <<>>]
      /\ [NoSend EXCEPT !.pc = "queue"] = [pc |-> "queue", cursor |-> 0, until |-> 0, batch |-> <<>>]
  BY DEF NoSend
<1> QED
  BY <1>1, <1>2 DEF SndType, SenderOk

LEMMA SendsAckShape ==
    ASSUME ShapeInv, SendsAck
    PROVE  ShapeInv' /\ sub.ack[1] \in Msg /\ sub.ack = <<sub.ack[1]>>
<1>1. PICK m \in Msg : sub.ack = <<m>>
  BY Parts DEF SendsAck, SubType
<1>2. sub.ack[1] = m
  BY <1>1
<1>3. wire' \in Seq(Msg)
  BY <1>2, Parts, Longer DEF SendsAck
<1>4. sub' \in SubType /\ SubOk(sub') /\ sub'.on = sub.on
  BY Parts DEF SendsAck, SubType, SubOk
<1>5. snd' \in SndType /\ SenderOk(snd')
  BY Parts DEF SendsAck, SndType, SenderOk
<1> QED
  BY <1>1, <1>2, <1>3, <1>4, <1>5, SenderShape DEF SendsAck

LEMMA ProceedsShape ==
    ASSUME ShapeInv, Proceeds
    PROVE  ShapeInv'
<1>1. sub \in SubType /\ wire \in Seq(Msg) /\ SubOk(sub)
  BY Parts
<1>2. <<>> \in Seq(Item)
  OBVIOUS
<1>3. CASE sub.replay = <<>>
  <2>1. snd' = [NoSend EXCEPT !.pc = "queue"]
    BY <1>3 DEF Proceeds
  <2> QED
    BY <1>1, <2>1, IdleSender, SenderShape DEF Proceeds
<1>4. CASE sub.replay # <<>>
  <2>1. sub.replay \in Nat \X Nat
    BY <1>1, <1>4 DEF SubType
  <2>2. snd' = [pc |-> "reading", cursor |-> sub.replay[1], until |-> sub.replay[2], batch |-> <<>>]
    BY <1>4 DEF Proceeds, NoSend
  <2>3. snd' \in SndType /\ SenderOk(snd')
    BY <1>2, <2>1, <2>2 DEF SndType, SenderOk
  <2> QED
    BY <1>1, <2>3, SenderShape DEF Proceeds
<1> QED
  BY <1>3, <1>4

LEMMA ReplayedShape ==
    ASSUME ShapeInv, Replayed, UNCHANGED <<storeVars, wire>>
    PROVE  ShapeInv'
<1>1. sub \in SubType /\ SubOk(sub) /\ snd \in SndType /\ wire \in Seq(Msg)
  BY Parts
<1> DEFINE n == MaxOf(sub.last, snd.until)
<1>2. n \in Nat
  BY <1>1 DEF MaxOf, SubType, SndType
<1> HIDE DEF n
<1>3. sub' = [sub EXCEPT !.replay = <<>>, !.last = n]
  BY DEF Replayed, n
<1>4. sub' \in SubType /\ SubOk(sub') /\ sub'.on = sub.on
  BY <1>1, <1>2, <1>3 DEF SubType, SubOk
<1> QED
  BY <1>1, <1>4, IdleSender, SenderShape DEF Replayed

LEMMA ReadsBatchShape ==
    ASSUME ShapeInv, ReadsBatch
    PROVE  ShapeInv'
<1> DEFINE upto == MinOf(MinOf(snd.cursor + Batch, snd.until), LastSeq)
<1>1. sub \in SubType /\ SubOk(sub) /\ snd \in SndType /\ wire \in Seq(Msg) /\ LastSeq \in Nat
      /\ db \in DbType
  BY Parts
<1>2. CASE upto <= snd.cursor
  BY <1>2, ReplayedShape DEF ReadsBatch
<1>3. CASE ~(upto <= snd.cursor)
  <2>1. /\ snd' = [snd EXCEPT !.pc = "batch", !.batch = Read(snd.cursor, upto)]
        /\ sub' = sub /\ wire' = wire /\ UNCHANGED storeVars
    BY <1>3 DEF ReadsBatch
  <2>2. /\ upto \in Nat /\ upto <= LastSeq /\ snd.cursor < upto /\ snd.cursor \in Nat
        /\ upto <= snd.until /\ snd.until \in Nat
    BY <1>1, <1>3, StreamAssumption DEF MinOf, SndType
  <2> HIDE DEF upto
  <2>3. /\ Read(snd.cursor, upto) \in Seq(Item) /\ Len(Read(snd.cursor, upto)) = upto - snd.cursor
        /\ \A i \in 1 .. (upto - snd.cursor) : Read(snd.cursor, upto)[i].seq = snd.cursor + i
    BY <1>1, <2>2, ReadOk
  <2>4. /\ snd' \in SndType /\ snd'.cursor = snd.cursor /\ snd'.until = snd.until
        /\ snd'.batch = Read(snd.cursor, upto) /\ snd'.pc = "batch"
    BY <1>1, <2>1, <2>3 DEF SndType
  <2>5. SenderOk(snd')
    BY <2>2, <2>3, <2>4 DEF SenderOk
  <2> QED
    BY <1>1, <2>1, <2>4, <2>5, SenderShape
<1> QED
  BY <1>2, <1>3

(* The batch that is under way, and the step to its next event.            *)
LEMMA BatchHead ==
    ASSUME ShapeInv, snd.pc \in {"batch", "sent"}, snd.batch # <<>>
    PROVE  /\ Head(snd.batch) \in Item /\ Head(snd.batch) = snd.batch[1]
           /\ Head(snd.batch).seq = snd.cursor + 1 /\ Head(snd.batch).seq <= snd.until
           /\ SentOne = [snd EXCEPT !.cursor = snd.cursor + 1, !.batch = Tail(snd.batch), !.pc = "batch"]
           /\ SentOne \in SndType /\ SenderOk(SentOne)
           /\ SentOne.pc = "batch" /\ SentOne.cursor = snd.cursor + 1 /\ SentOne.until = snd.until
           /\ SentOne.batch = Tail(snd.batch) /\ snd.batch \in Seq(Item)
           /\ snd.cursor \in Nat /\ snd.until \in Nat
<1>1. snd \in SndType /\ SenderOk(snd)
  BY Parts
<1>2. /\ snd.batch \in Seq(Item) /\ snd.cursor \in Nat /\ snd.until \in Nat
      /\ snd.cursor + Len(snd.batch) <= snd.until
      /\ \A i \in 1 .. Len(snd.batch) : snd.batch[i].seq = snd.cursor + i
  BY <1>1 DEF SndType, SenderOk
<1>3. /\ Tail(snd.batch) \in Seq(Item) /\ Len(snd.batch) \in Nat /\ Len(snd.batch) > 0
      /\ Len(Tail(snd.batch)) = Len(snd.batch) - 1
      /\ Head(snd.batch) = snd.batch[1] /\ snd.batch[1] \in Item
      /\ \A i \in 1 .. Len(Tail(snd.batch)) : Tail(snd.batch)[i] = snd.batch[i + 1] /\ i + 1 \in 1 .. Len(snd.batch)
  BY <1>2, Shifted
<1>4. Head(snd.batch).seq = snd.cursor + 1 /\ snd.cursor + 1 <= snd.until
  BY <1>2, <1>3
<1>5. SentOne = [snd EXCEPT !.cursor = snd.cursor + 1, !.batch = Tail(snd.batch), !.pc = "batch"]
  BY <1>4 DEF SentOne
<1>6. /\ SentOne \in SndType /\ SentOne.pc = "batch" /\ SentOne.cursor = snd.cursor + 1
      /\ SentOne.until = snd.until /\ SentOne.batch = Tail(snd.batch)
  <2> DEFINE c == snd.cursor + 1
             rest == Tail(snd.batch)
  <2>1. c \in Nat /\ rest \in Seq(Item)
    BY <1>2, <1>3
  <2>2. SentOne = [snd EXCEPT !.cursor = c, !.batch = rest, !.pc = "batch"]
    BY <1>5
  <2> HIDE DEF c, rest
  <2>3. /\ SentOne \in SndType /\ SentOne.pc = "batch" /\ SentOne.cursor = c
        /\ SentOne.until = snd.until /\ SentOne.batch = rest
    BY <1>1, <2>1, <2>2 DEF SndType
  <2> QED
    BY <2>3 DEF c, rest
<1>7. SenderOk(SentOne)
  <2>1. \A i \in 1 .. Len(Tail(snd.batch)) : Tail(snd.batch)[i].seq = snd.cursor + 1 + i
    <3> TAKE i \in 1 .. Len(Tail(snd.batch))
    <3>1. Tail(snd.batch)[i] = snd.batch[i + 1] /\ i + 1 \in 1 .. Len(snd.batch)
      BY <1>3
    <3>2. snd.batch[i + 1].seq = snd.cursor + (i + 1)
      BY <1>2, <3>1
    <3> QED
      BY <1>2, <3>1, <3>2
  <2>2. snd.cursor + 1 + Len(Tail(snd.batch)) <= snd.until
    BY <1>2, <1>3
  <2> QED
    BY <1>3, <1>6, <2>1, <2>2 DEF SenderOk
<1> QED
  BY <1>2, <1>3, <1>4, <1>5, <1>6, <1>7

LEMMA SendsReplayShape ==
    ASSUME ShapeInv, SendsReplay
    PROVE  ShapeInv'
<1>1. /\ Head(snd.batch) \in Item /\ SentOne \in SndType /\ SenderOk(SentOne)
      /\ snd.batch \in Seq(Item) /\ Len(snd.batch) \in Nat /\ Len(snd.batch) > 0
  BY BatchHead, EmptySeq, LenProperties DEF SendsReplay
<1>2. sub \in SubType /\ SubOk(sub) /\ snd \in SndType /\ SenderOk(snd) /\ wire \in Seq(Msg)
  BY Parts
<1>3. CASE Head(snd.batch).wanted
  <2>1. /\ wire' = Append(wire, Event(Head(snd.batch))) /\ snd' = [snd EXCEPT !.pc = "sent"]
        /\ sub' = sub /\ UNCHANGED storeVars
    BY <1>3 DEF SendsReplay
  <2>2. Event(Head(snd.batch)) \in Msg
    BY <1>1 DEF Event, Item, Msg, Kinds
  <2>3. wire' \in Seq(Msg)
    BY <1>2, <2>1, <2>2, Longer
  <2>4. /\ snd' \in SndType /\ snd'.batch = snd.batch /\ snd'.cursor = snd.cursor
        /\ snd'.until = snd.until /\ snd'.pc = "sent"
    BY <1>2, <2>1 DEF SndType
  <2>5. SenderOk(snd')
    BY <1>1, <1>2, <2>4 DEF SenderOk, SendsReplay
  <2> QED
    BY <1>2, <2>1, <2>3, <2>4, <2>5, SenderShape
<1>4. CASE ~Head(snd.batch).wanted
  <2>1. /\ snd' = SentOne /\ sub' = [sub EXCEPT !.last = Head(snd.batch).seq]
        /\ wire' = wire /\ UNCHANGED storeVars
    BY <1>4 DEF SendsReplay
  <2>2. sub' \in SubType /\ SubOk(sub') /\ sub'.on = sub.on
    BY <1>1, <1>2, <2>1 DEF SubType, SubOk, Item
  <2> QED
    BY <1>1, <1>2, <2>1, <2>2, SenderShape
<1> QED
  BY <1>3, <1>4

LEMMA ReplaySentShape ==
    ASSUME ShapeInv, ReplaySent
    PROVE  ShapeInv'
<1>1. sub \in SubType /\ SubOk(sub) /\ SenderOk(snd) /\ wire \in Seq(Msg)
  BY Parts
<1>2. snd.batch # <<>>
  BY <1>1, EmptySeq DEF SenderOk, ReplaySent
<1>3. Head(snd.batch) \in Item /\ SentOne \in SndType /\ SenderOk(SentOne)
  BY <1>2, BatchHead DEF ReplaySent
<1>4. sub' \in SubType /\ SubOk(sub') /\ sub'.on = sub.on
  BY <1>1, <1>3 DEF SubType, SubOk, Item, ReplaySent
<1> QED
  BY <1>1, <1>3, <1>4, SenderShape DEF ReplaySent

LEMMA BatchDoneShape ==
    ASSUME ShapeInv, BatchDone
    PROVE  ShapeInv'
<1>1. sub \in SubType /\ SubOk(sub) /\ snd \in SndType /\ SenderOk(snd) /\ wire \in Seq(Msg)
  BY Parts
<1>2. CASE sub.replay = <<>>
  BY <1>1, <1>2, IdleSender, SenderShape DEF BatchDone
<1>3. CASE sub.replay # <<>> /\ snd.cursor < snd.until
  <2>1. snd.cursor \in Nat /\ snd.until \in Nat
    BY <1>1 DEF SndType
  <2>2. /\ sub' = [sub EXCEPT !.replay = <<snd.cursor, snd.until>>]
        /\ snd' = [snd EXCEPT !.pc = "reading"] /\ wire' = wire /\ UNCHANGED storeVars
    BY <1>3 DEF BatchDone
  <2>3. sub' \in SubType /\ SubOk(sub') /\ sub'.on = sub.on
    BY <1>1, <2>1, <2>2 DEF SubType, SubOk
  <2>4. snd' \in SndType /\ SenderOk(snd')
    BY <1>1, <2>2 DEF SndType, SenderOk
  <2> QED
    BY <1>1, <2>2, <2>3, <2>4, SenderShape
<1>4. CASE sub.replay # <<>> /\ ~(snd.cursor < snd.until)
  BY <1>4, ReplayedShape DEF BatchDone
<1> QED
  BY <1>2, <1>3, <1>4

LEMMA SendsQueuedShape ==
    ASSUME ShapeInv, SendsQueued
    PROVE  ShapeInv'
<1>1. sub \in SubType /\ SubOk(sub) /\ snd \in SndType /\ wire \in Seq(Msg)
  BY Parts
<1>2. sub.queue \in Seq(Msg) /\ sub.queue # <<>>
  BY <1>1 DEF SubType, SendsQueued
<1>3. /\ Tail(sub.queue) \in Seq(Msg) /\ Head(sub.queue) \in Msg
      /\ \A i \in 1 .. Len(Tail(sub.queue)) : Tail(sub.queue)[i].kind # "subscribed"
  BY <1>1, <1>2, Shifted DEF SubOk
<1>4. sub' = [sub EXCEPT !.queue = Tail(sub.queue)]
  BY DEF SendsQueued
<1>5. sub' \in SubType /\ SubOk(sub') /\ sub'.on = sub.on
  BY <1>1, <1>3, <1>4 DEF SubType, SubOk
<1>6. wire' \in Seq(Msg)
  BY <1>1, <1>3, Longer DEF SendsQueued
<1>7. snd' \in SndType /\ SenderOk(snd')
  BY <1>1, <1>3 DEF SendsQueued, SndType, SenderOk
<1> QED
  BY <1>5, <1>6, <1>7, SenderShape DEF SendsQueued

LEMMA QueuedSentShape ==
    ASSUME ShapeInv, QueuedSent
    PROVE  ShapeInv'
<1>1. sub \in SubType /\ SubOk(sub) /\ SenderOk(snd) /\ wire \in Seq(Msg)
  BY Parts
<1>2. PICK m \in Msg : snd.batch = <<m>>
  BY <1>1 DEF SenderOk, QueuedSent
<1> DEFINE n == IF snd.batch[1].kind = "event" THEN snd.batch[1].seq ELSE sub.last
<1>3. n \in Nat
  BY <1>1, <1>2 DEF Msg, SubType
<1> HIDE DEF n
<1>4. sub' = [sub EXCEPT !.last = n]
  BY DEF QueuedSent, n
<1>5. sub' \in SubType /\ SubOk(sub') /\ sub'.on = sub.on
  BY <1>1, <1>3, <1>4 DEF SubType, SubOk
<1> QED
  BY <1>1, <1>5, IdleSender, SenderShape DEF QueuedSent

LEMMA QueueEmptyShape ==
    ASSUME ShapeInv, QueueEmpty
    PROVE  ShapeInv'
BY Parts, IdleSender, SenderShape DEF QueueEmpty

(* A subscription that has just been made.                                 *)
LEMMA SubscriptionIs ==
    ASSUME ShapeInv, NEW since \in Nat
    PROVE  /\ Head1 \in Nat /\ HubNow \in HubType /\ HubNow.tail = Head1 /\ HubNow.tail # None
           /\ Subscription(since) \in SubType /\ SubOk(Subscription(since))
           /\ HubNow.gen \in Nat
<1>1. hub \in HubType /\ LastSeq \in Nat /\ conn \in Nat /\ db.gen \in Nat /\ db.print \in Nat
  BY Parts DEF DbType
<1>2. Head1 \in Nat /\ HubNow \in HubType /\ HubNow.tail = Head1 /\ HubNow.tail # None /\ HubNow.gen \in Nat
  BY <1>1 DEF Head1, HubNow, HubType, Fingerprint, None
<1>3. MinOf(since, Head1) \in Nat
  BY <1>2 DEF MinOf
<1>4. Replay(since) \in {<<>>} \cup (Nat \X Nat)
  BY <1>2, <1>3 DEF Replay
<1> DEFINE m == Subscribed(MinOf(since, Head1), Head1)
<1>5. m \in Msg /\ m.kind = "subscribed"
  BY <1>2, <1>3 DEF Subscribed, Msg, Kinds
<1> HIDE DEF m
<1> DEFINE q == <<>>
<1>6. q \in Seq(Msg) /\ Len(q) = 0
  OBVIOUS
<1>7. Subscription(since) =
        [on |-> TRUE, queue |-> q, paused |-> FALSE, last |-> MinOf(since, Head1),
         replay |-> Replay(since), ack |-> <<m>>]
  BY DEF Subscription, m
<1> HIDE DEF q
<1>8. Subscription(since) \in SubType
  BY <1>3, <1>4, <1>5, <1>6, <1>7 DEF SubType
<1>9. SubOk(Subscription(since))
  BY <1>5, <1>6, <1>7 DEF SubOk
<1> QED
  BY <1>2, <1>8, <1>9

LEMMA SinceIs ==
    ASSUME ShapeInv
    PROVE  Since \in Nat /\ client.last \in Nat
<1>1. client \in ClientType /\ LastSeq \in Nat /\ MaxSeq \in Nat
  BY Parts, StreamAssumption
<1> QED
  BY <1>1 DEF Since, ClientType

(* The tailer does not care which end the hub starts from.                 *)
LEMMA HubStarts ==
    ASSUME ShapeInv, hub' = HubNow, tailer' = tailer
    PROVE  TailerOk'
<1>1. TailerOk
  BY Parts
<1>2. hub.tail # None => HubNow = hub
  BY DEF HubNow
<1> QED
  BY <1>1, <1>2 DEF TailerOk

LEMMA ConnectsShape ==
    ASSUME ShapeInv, Connects
    PROVE  ShapeInv'
<1>1. count \in CountType /\ client \in ClientType /\ db \in DbType /\ conn \in Nat /\ tailer \in TailerType
  BY Parts
<1>2. /\ HubNow \in HubType /\ HubNow.tail # None
      /\ Subscription(Since) \in SubType /\ SubOk(Subscription(Since)) /\ Subscription(Since).on
  BY SinceIs, SubscriptionIs DEF Subscription
<1>3. count' \in CountType
  BY <1>1 DEF Connects, CountType
<1>4. client' \in ClientType /\ client'.status = "open" /\ client'.floor = client.floor /\ client'.last = client.last
  BY <1>1 DEF Connects, ClientType
<1>5. <<>> \in Seq(Msg)
  OBVIOUS
<1>6. TailerOk'
  BY HubStarts DEF Connects
<1>7. client.floor <= client.last
  BY DEF ShapeInv
<1> QED
  BY <1>1, <1>2, <1>3, <1>4, <1>5, <1>6, <1>7, IdleSender DEF Connects, ShapeInv, StreamTyped

LEMMA ResubscribesShape ==
    ASSUME ShapeInv, Resubscribes
    PROVE  ShapeInv'
<1>1. /\ count \in CountType /\ client \in ClientType /\ db \in DbType /\ conn \in Nat
      /\ tailer \in TailerType /\ wire \in Seq(Msg) /\ snd \in SndType /\ SenderOk(snd)
  BY Parts
<1>2. /\ HubNow \in HubType /\ HubNow.tail # None
      /\ Subscription(client.last) \in SubType /\ SubOk(Subscription(client.last))
      /\ Subscription(client.last).on
  BY SinceIs, SubscriptionIs DEF Subscription
<1>3. count' \in CountType
  <2>1. count' = [count EXCEPT !.resubs = @ + 1,
                               !.blind = @ \/ snd.pc # "loop" \/ client.gen # db.gen]
    BY DEF Resubscribes
  <2>2. (count.blind \/ snd.pc # "loop" \/ client.gen # db.gen) \in BOOLEAN /\ count.resubs + 1 \in Nat
    BY <1>1 DEF CountType
  <2> QED
    BY <1>1, <2>1, <2>2, CountKept, Zenon
<1>6. TailerOk'
  BY HubStarts DEF Resubscribes
<1>7. client.floor <= client.last /\ client.status = "open"
  BY DEF ShapeInv, Resubscribes
<1> QED
  BY <1>1, <1>2, <1>3, <1>6, <1>7 DEF Resubscribes, ShapeInv, StreamTyped

LEMMA NothingLeft == NoSub \in SubType /\ SubOk(NoSub) /\ ~NoSub.on /\ <<>> \in Seq(Msg)
<1>1. <<>> \in Seq(Msg) /\ Len(<<>>) = 0
  OBVIOUS
<1>2. NoSub \in SubType
  BY <1>1 DEF NoSub, SubType
<1>3. SubOk(NoSub)
  BY <1>1 DEF NoSub, SubOk
<1> QED
  BY <1>1, <1>2, <1>3 DEF NoSub

LEMMA DisconnectsShape ==
    ASSUME ShapeInv, NEW c \in ClientType, Disconnects(c), c.floor <= c.last,
           UNCHANGED <<db, conn, hub, tailer>>
    PROVE  ShapeInv'
<1>1. count \in CountType /\ db \in DbType /\ conn \in Nat /\ hub \in HubType /\ tailer \in TailerType
  BY Parts
<1>2. count' \in CountType
  <2>1. count' = [count EXCEPT !.blind = @ \/ (Resumes(c) /\ c.gen # db.gen)]
    BY DEF Disconnects
  <2>2. (count.blind \/ (Resumes(c) /\ c.gen # db.gen)) \in BOOLEAN /\ 0 \in Nat
    OBVIOUS
  <2> QED
    BY <1>1, <2>1, <2>2, CountKept, Zenon
<1>3. client' \in ClientType /\ client'.status = "off" /\ client'.floor = c.floor /\ client'.last = c.last
  BY DEF Disconnects, ClientType
<1>4. TailerOk'
  BY Parts DEF TailerOk
<1>5. sub' = NoSub /\ snd' = NoSend /\ wire' = <<>>
  BY DEF Disconnects
<1> QED
  BY <1>1, <1>2, <1>3, <1>4, <1>5, NothingLeft, IdleSender DEF ShapeInv, StreamTyped

LEMMA AppliedShape ==
    ASSUME ShapeInv, NEW m \in Msg
    PROVE  /\ Applied(m) \in ClientType /\ Applied(m).floor <= Applied(m).last
           /\ Applied(m).status = client.status
<1>1. client \in ClientType /\ client.floor <= client.last
  BY Parts DEF ShapeInv
<1>2. m.seq \in Nat /\ m.to \in Nat /\ m.gen \in Nat
  BY DEF Msg
<1>3. client.got \in SUBSET Nat /\ client.last \in Nat /\ client.floor \in Nat /\ client.gen \in Nat
  BY <1>1 DEF ClientType
<1>4. CASE m.kind = "event"
  <2> DEFINE got == client.got \cup {m.seq}
  <2>1. got \in SUBSET Nat
    BY <1>2, <1>3
  <2>2. Applied(m) = IF m.seq <= client.last THEN client
                     ELSE [client EXCEPT !.last = m.seq, !.got = got]
    BY <1>4 DEF Applied
  <2> HIDE DEF got
  <2> DEFINE n == m.seq
             new == [client EXCEPT !.last = n, !.got = got]
  <2>3. n \in Nat /\ client.floor \in Nat
    BY <1>2, <1>3
  <2> HIDE DEF n
  <2>4. new.floor = client.floor /\ new.last = n /\ new.status = client.status
    BY <1>1 DEF ClientType
  <2>5. new \in ClientType
    BY <1>1, <2>1, <2>3, Zenon DEF ClientType
  <2> HIDE DEF new
  <2>6. Applied(m) = IF n <= client.last THEN client ELSE new
    BY <2>2 DEF n, new
  <2>7. CASE n <= client.last
    BY <1>1, <2>6, <2>7
  <2>8. CASE ~(n <= client.last)
    BY <1>1, <1>3, <2>3, <2>4, <2>5, <2>6, <2>8
  <2> QED
    BY <2>7, <2>8
<1>5. CASE m.kind = "subscribed"
  <2> DEFINE l == IF m.seq >= m.to THEN MaxOf(client.last, m.to) ELSE client.last
             f == IF client.last = 0 /\ m.seq >= m.to THEN m.to ELSE client.floor
             g == IF client.last = 0 THEN m.gen ELSE client.gen
  <2>1. l \in Nat /\ f \in Nat /\ g \in Nat /\ f <= l
    BY <1>1, <1>2, <1>3 DEF MaxOf
  <2>2. Applied(m) = [client EXCEPT !.last = l, !.floor = f, !.gen = g]
    BY <1>5 DEF Applied
  <2> HIDE DEF l, f, g
  <2>3. Applied(m).floor = f /\ Applied(m).last = l /\ Applied(m).status = client.status
    BY <1>1, <2>2 DEF ClientType
  <2>4. [client EXCEPT !.last = l, !.floor = f, !.gen = g] \in ClientType
    BY <1>1, <2>1, Zenon DEF ClientType
  <2> QED
    BY <2>1, <2>2, <2>3, <2>4
<1>6. CASE m.kind = "new_store"
  <2>1. Applied(m) = [client EXCEPT !.last = 0, !.resume = 0, !.floor = 0, !.got = {}, !.gen = m.gen]
    BY <1>6 DEF Applied
  <2> DEFINE new == [client EXCEPT !.last = 0, !.resume = 0, !.floor = 0, !.got = {}, !.gen = m.gen]
  <2>2. {} \in SUBSET Nat /\ 0 \in Nat /\ 0 \in Nat \cup {None}
    OBVIOUS
  <2>3. new \in ClientType
    BY <1>1, <1>2, <2>2, Zenon DEF ClientType
  <2>4. new.floor = 0 /\ new.last = 0 /\ new.status = client.status
    BY <1>1 DEF ClientType
  <2> QED
    BY <2>1, <2>3, <2>4
<1>7. CASE m.kind = "resync"
  <2>1. Applied(m) = [client EXCEPT !.resume = m.seq]
    BY <1>7 DEF Applied
  <2>2. m.seq \in Nat \cup {None}
    BY <1>2
  <2>3. /\ Applied(m).floor = client.floor /\ Applied(m).last = client.last
        /\ Applied(m).status = client.status
    BY <1>1, <2>1 DEF ClientType
  <2>4. [client EXCEPT !.resume = m.seq] \in ClientType
    BY <1>1, <2>2, Zenon DEF ClientType
  <2> QED
    BY <1>1, <2>1, <2>3, <2>4
<1> QED
  BY <1>4, <1>5, <1>6, <1>7 DEF Msg, Kinds

LEMMA ReceivesShape ==
    ASSUME ShapeInv, Receives
    PROVE  ShapeInv'
<1> DEFINE m == Head(wire)
<1>1. wire \in Seq(Msg) /\ Tail(wire) \in Seq(Msg) /\ m \in Msg
  BY Parts, Shifted DEF Receives
<1> HIDE DEF m
<1>2. Applied(m) \in ClientType /\ Applied(m).floor <= Applied(m).last /\ Applied(m).status = client.status
  BY <1>1, AppliedShape
<1>3. CASE m.kind \in {"resync", "new_store"}
  BY <1>2, <1>3, DisconnectsShape DEF Receives, m
<1>4. CASE m.kind \notin {"resync", "new_store"}
  BY <1>1, <1>2, <1>4 DEF Receives, m, ShapeInv, StreamTyped, TailerOk
<1> QED
  BY <1>3, <1>4

LEMMA DropsShape ==
    ASSUME ShapeInv, Drops
    PROVE  ShapeInv'
<1>1. client \in ClientType /\ client.floor <= client.last
  BY Parts DEF ShapeInv
<1> QED
  BY <1>1, DisconnectsShape DEF Drops

LEMMA ShapeStays ==
    ASSUME ShapeInv, StreamNext
    PROVE  ShapeInv'
BY AppendShape, SwapShape, TailBeginsShape, TailReadsShape, TailFansOutShape, SendsAckShape,
   ProceedsShape, ReadsBatchShape, SendsReplayShape, ReplaySentShape, BatchDoneShape,
   SendsQueuedShape, QueuedSentShape, QueueEmptyShape, ConnectsShape, DropsShape,
   ResubscribesShape, ReceivesShape
   DEF StreamNext, Tailing, Sending

LEMMA ShapeStarts ==
    ASSUME StreamInit
    PROVE  ShapeInv
<1>1. <<>> \in Seq(BOOLEAN) /\ <<>> \in Seq(Item) /\ <<>> \in Seq(Msg) /\ Len(<<>>) = 0
  OBVIOUS
<1>2. db \in DbType /\ LastSeq \in Nat
  <2>1. PICK log \in {<<>>, <<TRUE>>} : db = [gen |-> 1, print |-> 1, log |-> log]
    BY DEF StreamInit
  <2>2. <<TRUE>> \in Seq(BOOLEAN)
    OBVIOUS
  <2>3. log \in Seq(BOOLEAN)
    BY <1>1, <2>1, <2>2
  <2> QED
    BY <2>1, <2>3, LenProperties DEF DbType, LastSeq
<1>3. count \in CountType
  BY <1>2 DEF StreamInit, CountType
<1>4. hub \in HubType /\ conn \in Nat
  BY DEF StreamInit, HubType
<1>5. tailer \in TailerType /\ TailerOk
  BY <1>1 DEF StreamInit, Resting, TailerType, TailerOk
<1>6. client \in ClientType /\ client.status = "off" /\ client.floor <= client.last
  BY DEF StreamInit, ClientType, None
<1> QED
  BY <1>1, <1>2, <1>3, <1>4, <1>5, <1>6, NothingLeft, IdleSender DEF StreamInit, ShapeInv, StreamTyped

-----------------------------------------------------------------------------
(* The order in which events are sent.                                     *)

(* The part of the store that the sender still has to replay: from an      *)
(* event (exclusive) to an event.                                          *)
Replaying(s, d) == (d.pc \in {"loop", "acked"} /\ s.replay # <<>>) \/ d.pc \in {"reading", "batch", "sent"}
LeftFrom(s, d) ==
    IF d.pc \in {"loop", "acked"} THEN s.replay[1] ELSE IF d.pc = "sent" THEN d.cursor + 1 ELSE d.cursor
LeftTo(s, d) == IF d.pc \in {"loop", "acked"} THEN s.replay[2] ELSE d.until

Rising(q) ==
    \A i, j \in 1 .. Len(q) : i < j /\ q[i].kind = "event" /\ q[j].kind = "event" => q[i].seq < q[j].seq

(* Event n goes before all that is queued, or will be from event t on.     *)
Precedes(n, s, t) ==
    /\ \A i \in 1 .. Len(s.queue) : s.queue[i].kind = "event" => n < s.queue[i].seq
    /\ ~s.paused => n <= t

OrderOk(w, s, d, t) ==
    /\ Rising(w) /\ Rising(s.queue)
    /\ \A i \in 1 .. Len(w) : w[i].kind = "event" => Precedes(w[i].seq, s, t)
    /\ ~s.paused => \A i \in 1 .. Len(s.queue) : s.queue[i].kind = "event" => s.queue[i].seq <= t
    /\ d.pc \in {"queue", "queued"} => s.replay = <<>>
    /\ Replaying(s, d) =>
          /\ \A i \in 1 .. Len(w) : w[i].kind = "event" => w[i].seq <= LeftFrom(s, d)
          /\ Precedes(LeftTo(s, d), s, t)

OrderInv == count.resubs = 0 /\ sub.on => OrderOk(wire, sub, snd, hub.tail)

LEMMA RisingTail ==
    ASSUME NEW q \in Seq(Msg), q # <<>>, Rising(q)
    PROVE  /\ Rising(Tail(q))
           /\ \A i \in 1 .. Len(Tail(q)) :
                 Head(q).kind = "event" /\ Tail(q)[i].kind = "event" => Head(q).seq < Tail(q)[i].seq
<1>1. /\ Len(q) \in Nat /\ Len(q) > 0 /\ Len(Tail(q)) = Len(q) - 1 /\ Head(q) = q[1]
      /\ \A i \in 1 .. Len(Tail(q)) : Tail(q)[i] = q[i + 1] /\ i + 1 \in 1 .. Len(q)
  BY Shifted
<1>2. Rising(Tail(q))
  <2> SUFFICES ASSUME NEW i \in 1 .. Len(Tail(q)), NEW j \in 1 .. Len(Tail(q)), i < j,
                      Tail(q)[i].kind = "event", Tail(q)[j].kind = "event"
               PROVE  Tail(q)[i].seq < Tail(q)[j].seq
    BY DEF Rising
  <2>1. /\ Tail(q)[i] = q[i + 1] /\ i + 1 \in 1 .. Len(q)
        /\ Tail(q)[j] = q[j + 1] /\ j + 1 \in 1 .. Len(q) /\ i + 1 < j + 1
    BY <1>1
  <2> QED
    BY <2>1 DEF Rising
<1>3. ASSUME NEW i \in 1 .. Len(Tail(q)), Head(q).kind = "event", Tail(q)[i].kind = "event"
      PROVE  Head(q).seq < Tail(q)[i].seq
  <2>1. Tail(q)[i] = q[i + 1] /\ i + 1 \in 1 .. Len(q) /\ 1 \in 1 .. Len(q) /\ 1 < i + 1
    BY <1>1
  <2> QED
    BY <1>1, <1>3, <2>1 DEF Rising
<1> QED
  BY <1>2, <1>3

LEMMA RisingAppend ==
    ASSUME NEW q \in Seq(Msg), NEW m \in Msg, Rising(q),
           m.kind = "event" => \A i \in 1 .. Len(q) : q[i].kind = "event" => q[i].seq < m.seq
    PROVE  Rising(Append(q, m))
<1>1. /\ Len(q) \in Nat /\ Len(Append(q, m)) = Len(q) + 1 /\ Append(q, m)[Len(q) + 1] = m
      /\ \A i \in 1 .. Len(q) : Append(q, m)[i] = q[i]
  BY Longer
<1> SUFFICES ASSUME NEW i \in 1 .. Len(Append(q, m)), NEW j \in 1 .. Len(Append(q, m)), i < j,
                    Append(q, m)[i].kind = "event", Append(q, m)[j].kind = "event"
             PROVE  Append(q, m)[i].seq < Append(q, m)[j].seq
  BY DEF Rising
<1>2. i \in 1 .. Len(q)
  BY <1>1
<1>3. CASE j \in 1 .. Len(q)
  BY <1>1, <1>2, <1>3 DEF Rising
<1>4. CASE j = Len(q) + 1
  BY <1>1, <1>2, <1>4
<1> QED
  BY <1>1, <1>3, <1>4

(* One message more on the wire.                                           *)
LEMMA WireGrows ==
    ASSUME NEW w \in Seq(Msg), NEW m \in Msg, NEW s, NEW t \in Nat, Rising(w),
           m.kind = "event" => \A i \in 1 .. Len(w) : w[i].kind = "event" => w[i].seq < m.seq,
           m.kind = "event" => Precedes(m.seq, s, t),
           \A i \in 1 .. Len(w) : w[i].kind = "event" => Precedes(w[i].seq, s, t)
    PROVE  /\ Rising(Append(w, m))
           /\ \A i \in 1 .. Len(Append(w, m)) :
                 Append(w, m)[i].kind = "event" => Precedes(Append(w, m)[i].seq, s, t)
           /\ \A n \in Nat :
                 /\ \A i \in 1 .. Len(w) : w[i].kind = "event" => w[i].seq <= n
                 /\ m.kind = "event" => m.seq <= n
                 => \A i \in 1 .. Len(Append(w, m)) :
                       Append(w, m)[i].kind = "event" => Append(w, m)[i].seq <= n
<1>1. /\ Len(w) \in Nat /\ Len(Append(w, m)) = Len(w) + 1 /\ Append(w, m)[Len(w) + 1] = m
      /\ \A i \in 1 .. Len(w) : Append(w, m)[i] = w[i]
  BY Longer
<1>2. \A i \in 1 .. Len(Append(w, m)) : i \in 1 .. Len(w) \/ i = Len(w) + 1
  BY <1>1
<1> QED
  BY <1>1, <1>2, RisingAppend

LEMMA LeftTyped ==
    ASSUME NEW s \in SubType, NEW d \in SndType, Replaying(s, d)
    PROVE  LeftFrom(s, d) \in Nat /\ LeftTo(s, d) \in Nat
<1>1. CASE d.pc \in {"loop", "acked"}
  <2>1. s.replay \in Nat \X Nat
    BY <1>1 DEF Replaying, SubType
  <2> QED
    BY <1>1, <2>1 DEF LeftFrom, LeftTo
<1>2. CASE d.pc \notin {"loop", "acked"}
  BY <1>2 DEF LeftFrom, LeftTo, SndType
<1> QED
  BY <1>1, <1>2

LEMMA PushOrder ==
    ASSUME NEW w \in Seq(Msg), NEW s \in SubType, NEW d \in SndType, NEW t \in Nat, OrderOk(w, s, d, t),
           NEW m \in Msg, m.kind = "event", m.seq = t + 1
    PROVE  OrderOk(w, Push(s, m), d, t + 1)
<1>0. \A n \in Nat : Precedes(n, s, t) /\ ~s.paused => n < t + 1
  BY DEF Precedes
<1>1. CASE s.paused
  BY <1>1 DEF Push, OrderOk, Precedes
<1>2. CASE ~s.paused /\ Len(s.queue) >= QueueMax
  <2> DEFINE q == <<Resync(s.last, "resync")>>
  <2>1. Len(q) = 1 /\ q[1].kind = "resync"
    BY DEF Resync
  <2>2. Push(s, m) = [s EXCEPT !.queue = q, !.paused = TRUE, !.replay = <<>>]
    BY <1>2 DEF Push
  <2> HIDE DEF q
  <2>3. Push(s, m).queue = q /\ Push(s, m).paused = TRUE /\ Push(s, m).replay = <<>>
    BY <2>2 DEF SubType
  <2>4. Rising(q) /\ \A n : Precedes(n, Push(s, m), t + 1)
    <3>1. \A i \in 1 .. Len(q) : i = 1 /\ q[i].kind # "event"
      BY <2>1
    <3>2. Push(s, m).paused
      BY <2>3
    <3> QED
      BY <2>3, <3>1, <3>2 DEF Rising, Precedes
  <2>5. Replaying(Push(s, m), d) => Replaying(s, d) /\ LeftFrom(Push(s, m), d) = LeftFrom(s, d)
    BY <2>3 DEF Replaying, LeftFrom
  <2> DEFINE p == Push(s, m)
  <2>6. Rising(w) /\ (d.pc \in {"queue", "queued"} => s.replay = <<>>)
    BY DEF OrderOk
  <2>7. Replaying(p, d) => \A i \in 1 .. Len(w) : w[i].kind = "event" => w[i].seq <= LeftFrom(p, d)
    BY <2>5 DEF OrderOk
  <2> HIDE DEF p
  <2> QED
    BY <2>3, <2>4, <2>6, <2>7 DEF OrderOk, p
<1>3. CASE ~s.paused /\ ~(Len(s.queue) >= QueueMax)
  <2> DEFINE p == Push(s, m)
             q == Append(s.queue, m)
  <2>1. s.queue \in Seq(Msg) /\ p = [s EXCEPT !.queue = q]
    BY <1>3 DEF Push, SubType
  <2>2. /\ Len(s.queue) \in Nat /\ Len(q) = Len(s.queue) + 1 /\ q[Len(s.queue) + 1] = m
        /\ \A i \in 1 .. Len(s.queue) : q[i] = s.queue[i]
    BY <2>1, Longer
  <2>3. p.queue = q /\ p.paused = s.paused /\ p.replay = s.replay
    BY <2>1 DEF SubType
  <2>4. \A i \in 1 .. Len(s.queue) : s.queue[i].kind = "event" => s.queue[i].seq <= t
    BY <1>3 DEF OrderOk
  <2>5. \A i \in 1 .. Len(s.queue) : s.queue[i] \in Msg
    BY <2>1, ElementOfSeq
  <2>6. Rising(q)
    <3>1. \A i \in 1 .. Len(s.queue) : s.queue[i].kind = "event" => s.queue[i].seq < m.seq
      BY <2>4, <2>5 DEF Msg
    <3> QED
      BY <2>1, <3>1, RisingAppend DEF OrderOk
  <2>7. ASSUME NEW n \in Nat, Precedes(n, s, t) PROVE Precedes(n, p, t + 1)
    <3>1. \A i \in 1 .. Len(q) : i \in 1 .. Len(s.queue) \/ i = Len(s.queue) + 1
      BY <2>2
    <3> QED
      BY <1>3, <2>2, <2>3, <2>7, <3>1 DEF Precedes
  <2>8. \A i \in 1 .. Len(q) : q[i].kind = "event" => q[i].seq <= t + 1
    BY <2>2, <2>4, <2>5 DEF Msg
  <2>10. \A i \in 1 .. Len(w) : w[i].seq \in Nat
    <3>1. \A i \in 1 .. Len(w) : w[i] \in Msg
      BY ElementOfSeq
    <3> QED
      BY <3>1 DEF Msg
  <2>11. Replaying(s, d) => LeftTo(s, d) \in Nat
    BY LeftTyped
  <2> HIDE DEF p, q
  <2>9. /\ Replaying(p, d) = Replaying(s, d) /\ LeftFrom(p, d) = LeftFrom(s, d) /\ LeftTo(p, d) = LeftTo(s, d)
    BY <2>3 DEF Replaying, LeftFrom, LeftTo
  <2>12. \A i \in 1 .. Len(w) : w[i].kind = "event" => Precedes(w[i].seq, p, t + 1)
    BY <2>7, <2>10 DEF OrderOk
  <2>13. Replaying(p, d) => Precedes(LeftTo(p, d), p, t + 1)
    BY <2>7, <2>9, <2>11 DEF OrderOk
  <2>14. OrderOk(w, p, d, t + 1)
    BY <2>3, <2>6, <2>8, <2>9, <2>12, <2>13 DEF OrderOk
  <2> QED
    BY <2>14 DEF p
<1> QED
  BY <1>1, <1>2, <1>3

LEMMA FanOrder ==
    ASSUME ShapeInv, TailFansOut, sub.on, OrderOk(wire, sub, snd, hub.tail)
    PROVE  OrderOk(wire, sub', snd, hub'.tail)
<1> DEFINE N == Len(tailer.read)
<1>1. /\ N \in Nat /\ tailer.read \in Seq(Item) /\ tailer.from = hub.tail /\ hub.tail \in Nat
      /\ hub' = [hub EXCEPT !.tail = tailer.from + N] /\ hub \in HubType /\ db.gen \in Nat
      /\ sub \in SubType /\ SubOk(sub) /\ snd \in SndType /\ wire \in Seq(Msg) /\ TailerOk
  BY TailFansOutShape, Parts
<1>2. \A i \in 1 .. N : tailer.read[i] \in Item /\ tailer.read[i].seq = hub.tail + i
  BY <1>1, ElementOfSeq DEF TailerOk
<1>3. PICK f : Fan(f, sub, tailer.read) /\ sub' = f[N]
  BY <1>1, FansOut
<1> DEFINE Good(n) == f[n] \in SubType /\ SubOk(f[n]) /\ f[n].on /\ OrderOk(wire, f[n], snd, hub.tail + n)
           T == {n \in 0 .. N : Good(n)}
<1>4. 0 \in T
  <2>1. f[0] = sub /\ hub.tail + 0 = hub.tail /\ 0 \in 0 .. N
    BY <1>1, <1>3 DEF Fan
  <2> QED
    BY <1>1, <2>1
<1>5. ASSUME NEW n \in 1 .. N, n - 1 \in T PROVE n \in T
  <2> DEFINE s == f[n - 1]
             e == tailer.read[n]
             t == hub.tail + (n - 1)
  <2>1. f[n] = Tell(s, e) /\ Good(n - 1)
    <3>1. n \in 0 .. Len(tailer.read) /\ n # 0
      BY <1>1
    <3>2. f[n] = Tell(f[n - 1], tailer.read[n])
      BY <1>3, <3>1 DEF Fan
    <3>3. Good(n - 1)
      <4> HIDE DEF Good
      <4> QED
        BY <1>5 DEF T
    <3> QED
      BY <3>2, <3>3 DEF s, e
  <2>2. t \in Nat /\ t + 1 = hub.tail + n /\ e \in Item /\ e.seq = t + 1
    BY <1>1, <1>2
  <2> HIDE DEF s, e, t
  <2>3. s \in SubType /\ SubOk(s) /\ s.on /\ OrderOk(wire, s, snd, t)
    BY <2>1 DEF s, t
  <2>4. Tell(s, e) \in SubType /\ SubOk(Tell(s, e)) /\ Tell(s, e).on
    BY <1>1, <2>2, <2>3, TellShape
  <2>5. Event(e) \in Msg /\ Event(e).kind = "event" /\ Event(e).seq = t + 1
    BY <2>2 DEF Event, Item, Msg, Kinds
  <2>6. OrderOk(wire, Tell(s, e), snd, t + 1)
    <3>1. CASE e.wanted
      BY <1>1, <2>2, <2>3, <2>5, <3>1, PushOrder DEF Tell
    <3>2. CASE ~e.wanted
      <4>1. Tell(s, e) = s
        BY <3>2 DEF Tell
      <4>2. \A n1 \in Nat : Precedes(n1, s, t) => Precedes(n1, s, t + 1)
        BY <2>2 DEF Precedes
      <4>3. \A i \in 1 .. Len(wire) : wire[i].seq \in Nat
        <5>1. \A i \in 1 .. Len(wire) : wire[i] \in Msg
          BY <1>1, ElementOfSeq
        <5> QED
          BY <5>1 DEF Msg
      <4>4. \A i \in 1 .. Len(s.queue) : s.queue[i].seq \in Nat
        <5>1. \A i \in 1 .. Len(s.queue) : s.queue[i] \in Msg
          BY <2>3, ElementOfSeq DEF SubType
        <5> QED
          BY <5>1 DEF Msg
      <4>5. Replaying(s, snd) => LeftTo(s, snd) \in Nat
        BY <1>1, <2>3, LeftTyped
      <4>6. \A n2 \in Nat : n2 <= t => n2 <= t + 1
        BY <2>2
      <4>7. OrderOk(wire, s, snd, t + 1)
        BY <2>3, <4>2, <4>3, <4>4, <4>5, <4>6 DEF OrderOk
      <4> QED
        BY <4>1, <4>7
    <3> QED
      BY <3>1, <3>2
  <2>7. Good(n)
    BY <2>1, <2>2, <2>4, <2>6
  <2> QED
    BY <2>7
<1>6. N \in T
  <2> HIDE DEF N, T
  <2> QED
    BY <1>1, <1>4, <1>5, Counting
<1>7. hub'.tail = hub.tail + N
  BY <1>1 DEF HubType
<1> QED
  BY <1>3, <1>6, <1>7

LEMMA TailingOrder ==
    ASSUME ShapeInv, OrderInv, Tailing
    PROVE  OrderInv'
<1> SUFFICES ASSUME count'.resubs = 0, sub'.on PROVE OrderOk(wire', sub', snd', hub'.tail)
  BY DEF OrderInv
<1>1. CASE TailBegins
  <2>1. CASE hub.conn # conn /\ hub.fp # 0 /\ Fingerprint # hub.fp
    <3> DEFINE m == Resync(0, "new_store")
    <3>1. sub \in SubType /\ db.gen \in Nat /\ wire \in Seq(Msg)
      BY Parts
    <3>2. sub' = IF sub.on THEN [sub EXCEPT !.queue = <<m>>, !.paused = TRUE, !.replay = <<>>] ELSE sub
      BY <1>1, <2>1 DEF TailBegins
    <3>3. sub.on
      BY <3>2
    <3>4. m \in Msg /\ m.kind = "new_store"
      BY <3>1 DEF Resync, Msg, Kinds
    <3> HIDE DEF m
    <3>5. sub' = [sub EXCEPT !.queue = <<m>>, !.paused = TRUE, !.replay = <<>>] /\ m.kind # "subscribed"
      BY <3>2, <3>3, <3>4
    <3>6. sub'.queue = <<m>> /\ sub'.paused = TRUE /\ sub'.replay = <<>>
      BY <3>1, <3>5 DEF SubType
    <3>7. sub'.paused /\ \A i \in 1 .. Len(sub'.queue) : i = 1 /\ sub'.queue[i].kind # "event"
      BY <3>4, <3>6
    <3>8. Rising(sub'.queue) /\ \A n : Precedes(n, sub', hub'.tail)
      BY <3>7 DEF Rising, Precedes
    <3>9. OrderOk(wire, sub, snd, hub.tail)
      BY <1>1, <3>3 DEF OrderInv, TailBegins
    <3>10. Replaying(sub', snd) => Replaying(sub, snd) /\ LeftFrom(sub', snd) = LeftFrom(sub, snd)
      BY <3>6 DEF Replaying, LeftFrom
    <3>11. OrderOk(wire, sub', snd, hub'.tail)
      BY <3>6, <3>7, <3>8, <3>9, <3>10 DEF OrderOk
    <3> QED
      BY <1>1, <3>11 DEF TailBegins
  <2>2. CASE ~(hub.conn # conn /\ hub.fp # 0 /\ Fingerprint # hub.fp)
    <3>1. hub'.tail = hub.tail
      BY <1>1, <2>2, Parts DEF TailBegins, HubType
    <3>2. sub' = sub /\ wire' = wire /\ snd' = snd /\ count' = count
      BY <1>1, <2>2 DEF TailBegins
    <3> QED
      BY <3>1, <3>2 DEF OrderInv
  <2> QED
    BY <2>1, <2>2
<1>2. CASE TailReads
  BY <1>2 DEF TailReads, OrderInv
<1>3. CASE TailFansOut
  <2>1. sub.on
    BY <1>3, FanShape
  <2>2. OrderOk(wire, sub, snd, hub.tail)
    BY <1>3, <2>1 DEF OrderInv, TailFansOut
  <2>3. OrderOk(wire, sub', snd, hub'.tail)
    BY <1>3, <2>1, <2>2, FanOrder
  <2> QED
    BY <1>3, <2>3 DEF TailFansOut
<1> QED
  BY <1>1, <1>2, <1>3 DEF Tailing

LEMMA OnWire ==
    ASSUME ShapeInv
    PROVE  /\ sub \in SubType /\ SubOk(sub) /\ snd \in SndType /\ wire \in Seq(Msg)
           /\ sub.queue \in Seq(Msg) /\ (sub.on => hub.tail \in Nat)
           /\ \A i \in 1 .. Len(wire) : wire[i] \in Msg /\ wire[i].seq \in Nat
           /\ \A i \in 1 .. Len(sub.queue) : sub.queue[i] \in Msg /\ sub.queue[i].seq \in Nat
<1>1. /\ sub \in SubType /\ SubOk(sub) /\ snd \in SndType /\ wire \in Seq(Msg) /\ hub \in HubType
      /\ (sub.on => hub.tail # None)
  BY Parts DEF ShapeInv
<1>2. sub.queue \in Seq(Msg)
  BY <1>1 DEF SubType
<1>3. \A i \in 1 .. Len(wire) : wire[i] \in Msg
  BY <1>1, ElementOfSeq
<1>4. \A i \in 1 .. Len(sub.queue) : sub.queue[i] \in Msg
  BY <1>2, ElementOfSeq
<1>5. \A m \in Msg : m.seq \in Nat
  BY DEF Msg
<1>6. sub.on => hub.tail \in Nat
  BY <1>1 DEF HubType
<1> QED
  BY <1>1, <1>2, <1>3, <1>4, <1>5, <1>6

(* The replay is over.                                                     *)
LEMMA ReplayedOrder ==
    ASSUME ShapeInv, OrderOk(wire, sub, snd, hub.tail), Replayed
    PROVE  OrderOk(wire, sub', snd', hub.tail)
<1>1. /\ sub'.queue = sub.queue /\ sub'.paused = sub.paused /\ sub'.replay = <<>>
      /\ snd'.pc = "queue"
  BY Parts DEF Replayed, SubType, NoSend
<1>2. ~Replaying(sub', snd') /\ \A n : Precedes(n, sub, hub.tail) <=> Precedes(n, sub', hub.tail)
  BY <1>1 DEF Replaying, Precedes
<1> QED
  BY <1>1, <1>2 DEF OrderOk

LEMMA SendingOrder ==
    ASSUME ShapeInv, OrderInv, Sending
    PROVE  OrderInv'
<1>1. hub' = hub /\ count' = count
  BY DEF Sending, SendsAck, Proceeds, ReadsBatch, SendsReplay, ReplaySent, BatchDone,
         SendsQueued, QueuedSent, QueueEmpty, storeVars
<1>2. sub'.on = sub.on
  BY Parts DEF Sending, SendsAck, Proceeds, ReadsBatch, Replayed, SendsReplay, ReplaySent, BatchDone,
         SendsQueued, QueuedSent, QueueEmpty, SubType
<1> SUFFICES ASSUME sub.on, OrderOk(wire, sub, snd, hub.tail)
             PROVE  OrderOk(wire', sub', snd', hub.tail)
  BY <1>1, <1>2 DEF OrderInv
<1>3. /\ sub \in SubType /\ SubOk(sub) /\ snd \in SndType /\ wire \in Seq(Msg)
      /\ sub.queue \in Seq(Msg) /\ hub.tail \in Nat
      /\ \A i \in 1 .. Len(wire) : wire[i] \in Msg /\ wire[i].seq \in Nat
      /\ \A i \in 1 .. Len(sub.queue) : sub.queue[i] \in Msg /\ sub.queue[i].seq \in Nat
  BY OnWire
<1>4. CASE SendsAck
  <2> DEFINE m == sub.ack[1]
  <2>1. m \in Msg /\ m.kind # "event"
    BY <1>3, <1>4, SendsAckShape DEF SubOk, SendsAck
  <2>2. /\ sub'.queue = sub.queue /\ sub'.paused = sub.paused /\ sub'.replay = sub.replay
        /\ snd'.pc = "acked" /\ snd.pc = "loop" /\ wire' = Append(wire, m)
    BY <1>3, <1>4 DEF SendsAck, SubType, SndType
  <2> HIDE DEF m
  <2>3. /\ Replaying(sub', snd') = Replaying(sub, snd) /\ LeftFrom(sub', snd') = LeftFrom(sub, snd)
        /\ LeftTo(sub', snd') = LeftTo(sub, snd)
        /\ \A n : Precedes(n, sub', hub.tail) <=> Precedes(n, sub, hub.tail)
    BY <2>2 DEF Replaying, LeftFrom, LeftTo, Precedes
  <2>4. Replaying(sub, snd) => LeftFrom(sub, snd) \in Nat
    BY <1>3, LeftTyped
  <2>5. /\ Rising(Append(wire, m))
        /\ \A i \in 1 .. Len(Append(wire, m)) :
              Append(wire, m)[i].kind = "event" => Precedes(Append(wire, m)[i].seq, sub, hub.tail)
        /\ \A n \in Nat :
              (\A i \in 1 .. Len(wire) : wire[i].kind = "event" => wire[i].seq <= n)
              => \A i \in 1 .. Len(Append(wire, m)) :
                    Append(wire, m)[i].kind = "event" => Append(wire, m)[i].seq <= n
    BY <1>3, <2>1, WireGrows DEF OrderOk
  <2> QED
    BY <2>2, <2>3, <2>4, <2>5 DEF OrderOk
<1>5. CASE Proceeds
  <2>1. sub' = sub /\ wire' = wire
    BY <1>5 DEF Proceeds
  <2>2. CASE sub.replay = <<>>
    <3>1. snd'.pc = "queue"
      BY <1>5, <2>2 DEF Proceeds, NoSend
    <3> QED
      BY <2>1, <2>2, <3>1 DEF OrderOk, Replaying
  <2>3. CASE sub.replay # <<>>
    <3>1. /\ snd'.pc = "reading" /\ snd'.cursor = sub.replay[1] /\ snd'.until = sub.replay[2]
          /\ snd.pc \in {"loop", "acked"}
      BY <1>5, <2>3 DEF Proceeds, NoSend
    <3> QED
      BY <2>1, <2>3, <3>1 DEF OrderOk, Replaying, LeftFrom, LeftTo
  <2> QED
    BY <2>2, <2>3
<1>6. CASE ReadsBatch
  <2> DEFINE upto == MinOf(MinOf(snd.cursor + Batch, snd.until), LastSeq)
  <2>1. CASE upto <= snd.cursor
    BY <1>6, <2>1, ReplayedOrder DEF ReadsBatch, storeVars
  <2>2. CASE ~(upto <= snd.cursor)
    <3>1. /\ snd'.pc = "batch" /\ snd'.cursor = snd.cursor /\ snd'.until = snd.until
          /\ sub' = sub /\ wire' = wire /\ snd.pc = "reading"
      BY <1>3, <1>6, <2>2 DEF ReadsBatch, SndType
    <3> QED
      BY <3>1 DEF OrderOk, Replaying, LeftFrom, LeftTo
  <2> QED
    BY <2>1, <2>2
<1>7. CASE SendsReplay
  <2>1. /\ Head(snd.batch) \in Item /\ Head(snd.batch).seq = snd.cursor + 1
        /\ Head(snd.batch).seq <= snd.until
        /\ SentOne.pc = "batch" /\ SentOne.cursor = snd.cursor + 1 /\ SentOne.until = snd.until
        /\ snd.cursor \in Nat /\ snd.until \in Nat
    BY <1>7, BatchHead DEF SendsReplay
  <2>2. /\ snd.pc = "batch" /\ Replaying(sub, snd) /\ LeftFrom(sub, snd) = snd.cursor
        /\ LeftTo(sub, snd) = snd.until
    BY <1>7 DEF SendsReplay, Replaying, LeftFrom, LeftTo
  <2>3. CASE Head(snd.batch).wanted
    <3> DEFINE m == Event(Head(snd.batch))
    <3>1. m \in Msg /\ m.kind = "event" /\ m.seq = snd.cursor + 1
      BY <2>1 DEF Event, Item, Msg, Kinds
    <3>2. /\ wire' = Append(wire, m) /\ sub' = sub
          /\ snd'.pc = "sent" /\ snd'.cursor = snd.cursor /\ snd'.until = snd.until
      BY <1>3, <1>7, <2>3 DEF SendsReplay, SndType
    <3> HIDE DEF m
    <3>3. \A i \in 1 .. Len(wire) : wire[i].kind = "event" => wire[i].seq <= snd.cursor
      BY <2>2 DEF OrderOk
    <3>4. Precedes(snd.until, sub, hub.tail)
      BY <2>2 DEF OrderOk
    <3>5. Precedes(m.seq, sub, hub.tail)
      BY <1>3, <2>1, <3>1, <3>4 DEF Precedes
    <3>6. \A i \in 1 .. Len(wire) : wire[i].kind = "event" => wire[i].seq < m.seq /\ wire[i].seq <= m.seq
      BY <1>3, <2>1, <3>1, <3>3
    <3>7. /\ Rising(Append(wire, m))
          /\ \A i \in 1 .. Len(Append(wire, m)) :
                Append(wire, m)[i].kind = "event" => Precedes(Append(wire, m)[i].seq, sub, hub.tail)
          /\ \A n \in Nat :
                /\ \A i \in 1 .. Len(wire) : wire[i].kind = "event" => wire[i].seq <= n
                /\ m.kind = "event" => m.seq <= n
                => \A i \in 1 .. Len(Append(wire, m)) :
                      Append(wire, m)[i].kind = "event" => Append(wire, m)[i].seq <= n
      BY <1>3, <3>1, <3>5, <3>6, WireGrows DEF OrderOk
    <3>8. \A i \in 1 .. Len(Append(wire, m)) :
              Append(wire, m)[i].kind = "event" => Append(wire, m)[i].seq <= snd.cursor + 1
      BY <2>1, <3>1, <3>6, <3>7
    <3>9. /\ Replaying(sub', snd') /\ LeftFrom(sub', snd') = snd.cursor + 1
          /\ LeftTo(sub', snd') = snd.until
      BY <3>2 DEF Replaying, LeftFrom, LeftTo
    <3> QED
      BY <3>2, <3>4, <3>7, <3>8, <3>9 DEF OrderOk
  <2>4. CASE ~Head(snd.batch).wanted
    <3>1. /\ wire' = wire /\ sub' = [sub EXCEPT !.last = Head(snd.batch).seq] /\ snd' = SentOne
      BY <1>7, <2>4 DEF SendsReplay
    <3>2. sub'.queue = sub.queue /\ sub'.paused = sub.paused /\ sub'.replay = sub.replay
      BY <1>3, <3>1 DEF SubType
    <3>3. /\ Replaying(sub', snd') /\ LeftFrom(sub', snd') = snd.cursor + 1
          /\ LeftTo(sub', snd') = snd.until
      BY <2>1, <3>1 DEF Replaying, LeftFrom, LeftTo
    <3>4. \A n : Precedes(n, sub, hub.tail) <=> Precedes(n, sub', hub.tail)
      BY <3>2 DEF Precedes
    <3>5. \A i \in 1 .. Len(wire) : wire[i].kind = "event" => wire[i].seq <= snd.cursor + 1
      BY <1>3, <2>1, <2>2 DEF OrderOk
    <3> QED
      BY <2>1, <2>2, <3>1, <3>2, <3>3, <3>4, <3>5 DEF OrderOk
  <2> QED
    BY <2>3, <2>4
<1>8. CASE ReplaySent
  <2>1. snd.batch # <<>>
    BY <1>8, Parts, EmptySeq DEF ReplaySent, SenderOk
  <2>2. /\ SentOne.pc = "batch" /\ SentOne.cursor = snd.cursor + 1 /\ SentOne.until = snd.until
    BY <1>8, <2>1, BatchHead DEF ReplaySent
  <2>3. /\ wire' = wire /\ sub'.queue = sub.queue /\ sub'.paused = sub.paused
        /\ sub'.replay = sub.replay /\ snd' = SentOne /\ snd.pc = "sent"
    BY <1>3, <1>8 DEF ReplaySent, SubType
  <2>4. /\ Replaying(sub', snd') /\ LeftFrom(sub', snd') = LeftFrom(sub, snd)
        /\ LeftTo(sub', snd') = LeftTo(sub, snd) /\ Replaying(sub, snd)
        /\ \A n : Precedes(n, sub, hub.tail) <=> Precedes(n, sub', hub.tail)
    BY <2>2, <2>3 DEF Replaying, LeftFrom, LeftTo, Precedes
  <2> QED
    BY <2>2, <2>3, <2>4 DEF OrderOk
<1>9. CASE BatchDone
  <2>1. CASE sub.replay = <<>>
    <3>1. snd'.pc = "queue" /\ sub' = sub /\ wire' = wire
      BY <1>9, <2>1 DEF BatchDone, NoSend
    <3> QED
      BY <2>1, <3>1 DEF OrderOk, Replaying
  <2>2. CASE sub.replay # <<>> /\ snd.cursor < snd.until
    <3>1. /\ sub'.queue = sub.queue /\ sub'.paused = sub.paused /\ wire' = wire
          /\ snd'.pc = "reading" /\ snd'.cursor = snd.cursor /\ snd'.until = snd.until /\ snd.pc = "batch"
      BY <1>3, <1>9, <2>2 DEF BatchDone, SubType, SndType
    <3>2. /\ Replaying(sub', snd') /\ LeftFrom(sub', snd') = LeftFrom(sub, snd)
          /\ LeftTo(sub', snd') = LeftTo(sub, snd) /\ Replaying(sub, snd)
          /\ \A n : Precedes(n, sub, hub.tail) <=> Precedes(n, sub', hub.tail)
      BY <3>1 DEF Replaying, LeftFrom, LeftTo, Precedes
    <3> QED
      BY <3>1, <3>2 DEF OrderOk
  <2>3. CASE sub.replay # <<>> /\ ~(snd.cursor < snd.until)
    BY <1>9, <2>3, ReplayedOrder DEF BatchDone
  <2> QED
    BY <2>1, <2>2, <2>3
<1>10. CASE SendsQueued
  <2> DEFINE m == Head(sub.queue)
             q == Tail(sub.queue)
  <2>1. /\ sub.queue # <<>> /\ snd.pc = "queue" /\ snd'.pc = "queued"
        /\ wire' = Append(wire, m) /\ sub'.queue = q /\ sub'.paused = sub.paused
        /\ sub'.replay = sub.replay
    BY <1>3, <1>10 DEF SendsQueued, SubType, SndType
  <2>2. /\ m \in Msg /\ m = sub.queue[1] /\ 1 \in 1 .. Len(sub.queue)
        /\ \A i \in 1 .. Len(q) : q[i] = sub.queue[i + 1] /\ i + 1 \in 1 .. Len(sub.queue)
    BY <1>3, <2>1, Shifted
  <2>3. /\ Rising(q)
        /\ \A i \in 1 .. Len(q) : m.kind = "event" /\ q[i].kind = "event" => m.seq < q[i].seq
    BY <1>3, <2>1, RisingTail DEF OrderOk
  <2> HIDE DEF m, q
  <2>4. \A n : Precedes(n, sub, hub.tail) => Precedes(n, sub', hub.tail)
    BY <2>1, <2>2 DEF Precedes
  <2>5. m.kind = "event" => Precedes(m.seq, sub', hub.tail)
    BY <2>1, <2>2, <2>3 DEF Precedes, OrderOk
  <2>6. m.kind = "event" => \A i \in 1 .. Len(wire) : wire[i].kind = "event" => wire[i].seq < m.seq
    BY <2>2 DEF Precedes, OrderOk
  <2>7. /\ Rising(Append(wire, m))
        /\ \A i \in 1 .. Len(Append(wire, m)) :
              Append(wire, m)[i].kind = "event" => Precedes(Append(wire, m)[i].seq, sub', hub.tail)
    <3>1. \A i \in 1 .. Len(wire) : wire[i].kind = "event" => Precedes(wire[i].seq, sub', hub.tail)
      BY <2>4 DEF OrderOk
    <3>2. Rising(wire)
      BY DEF OrderOk
    <3> QED
      BY <1>3, <2>2, <2>5, <2>6, <3>1, <3>2, WireGrows
  <2>8. ~Replaying(sub', snd') /\ sub'.replay = <<>>
    BY <2>1 DEF Replaying, OrderOk
  <2>9. ~sub'.paused => \A i \in 1 .. Len(q) : q[i].kind = "event" => q[i].seq <= hub.tail
    BY <2>1, <2>2 DEF OrderOk
  <2> QED
    BY <2>1, <2>3, <2>7, <2>8, <2>9 DEF OrderOk
<1>11. CASE QueuedSent
  <2>1. /\ wire' = wire /\ sub'.queue = sub.queue /\ sub'.paused = sub.paused
        /\ sub'.replay = sub.replay /\ snd'.pc = "queue" /\ snd.pc = "queued"
    BY <1>3, <1>11 DEF QueuedSent, SubType, NoSend
  <2>2. ~Replaying(sub', snd') /\ \A n : Precedes(n, sub, hub.tail) <=> Precedes(n, sub', hub.tail)
    BY <2>1 DEF Replaying, Precedes
  <2> QED
    BY <2>1, <2>2 DEF OrderOk
<1>12. CASE QueueEmpty
  <2>1. wire' = wire /\ sub' = sub /\ snd'.pc = "loop" /\ snd.pc = "queue"
    BY <1>12 DEF QueueEmpty, NoSend
  <2> QED
    BY <2>1 DEF OrderOk, Replaying
<1> QED
  BY <1>4, <1>5, <1>6, <1>7, <1>8, <1>9, <1>10, <1>11, <1>12 DEF Sending

(* A subscription begins with nothing sent.                                *)
LEMMA ConnectsOrder ==
    ASSUME ShapeInv, Connects
    PROVE  OrderInv'
<1> DEFINE s == Subscription(Since)
<1>1. /\ s.queue = <<>> /\ s.paused = FALSE /\ s.replay = Replay(Since)
      /\ Head1 \in Nat /\ HubNow.tail = Head1
  BY SinceIs, SubscriptionIs DEF Subscription
<1>2. /\ wire' = <<>> /\ sub' = s /\ snd' = NoSend /\ hub' = HubNow
  BY DEF Connects
<1> HIDE DEF s
<1>3. sub'.replay # <<>> => sub'.replay[2] = Head1
  BY <1>1, <1>2 DEF Replay
<1>4. snd'.pc = "loop" /\ Len(wire') = 0 /\ Len(sub'.queue) = 0
  BY <1>1, <1>2 DEF NoSend
<1>5. Replaying(sub', snd') => LeftTo(sub', snd') = Head1
  BY <1>3, <1>4 DEF Replaying, LeftTo
<1>6. Rising(wire') /\ Rising(sub'.queue) /\ Precedes(Head1, sub', hub'.tail)
  BY <1>1, <1>2, <1>4 DEF Rising, Precedes
<1> QED
  BY <1>4, <1>5, <1>6 DEF OrderInv, OrderOk

LEMMA DisconnectsOrder ==
    ASSUME NEW c, Disconnects(c)
    PROVE  OrderInv'
BY DEF Disconnects, NoSub, OrderInv

LEMMA ReceivesOrder ==
    ASSUME ShapeInv, OrderInv, Receives
    PROVE  OrderInv'
<1>1. CASE Head(wire).kind \in {"resync", "new_store"}
  BY <1>1, DisconnectsOrder DEF Receives
<1>2. CASE Head(wire).kind \notin {"resync", "new_store"}
  <2> SUFFICES ASSUME count.resubs = 0, sub.on, OrderOk(wire, sub, snd, hub.tail)
               PROVE  OrderOk(Tail(wire), sub, snd, hub.tail)
    BY <1>2 DEF Receives, OrderInv
  <2>1. wire # <<>> /\ wire \in Seq(Msg)
    BY OnWire DEF Receives
  <2>2. \A i \in 1 .. Len(Tail(wire)) : Tail(wire)[i] = wire[i + 1] /\ i + 1 \in 1 .. Len(wire)
    BY <2>1, Shifted
  <2>3. Rising(Tail(wire))
    BY <2>1, RisingTail DEF OrderOk
  <2> DEFINE w == Tail(wire)
  <2>4. /\ \A i \in 1 .. Len(w) : w[i].kind = "event" => Precedes(w[i].seq, sub, hub.tail)
        /\ Replaying(sub, snd) => \A i \in 1 .. Len(w) : w[i].kind = "event" => w[i].seq <= LeftFrom(sub, snd)
    BY <2>2 DEF OrderOk
  <2> HIDE DEF w
  <2> QED
    BY <2>3, <2>4 DEF OrderOk, w
<1> QED
  BY <1>1, <1>2

LEMMA OrderStays ==
    ASSUME ShapeInv, OrderInv, StreamNext
    PROVE  OrderInv'
<1>1. ASSUME NEW wanted \in BOOLEAN, Append1(wanted) PROVE OrderInv'
  BY <1>1 DEF Append1, OrderInv
<1>2. ASSUME NEW new \in BOOLEAN, Swap(new) PROVE OrderInv'
  <2>1. count'.resubs = count.resubs
    <3>1. count \in CountType
      BY Parts
    <3> QED
      BY <1>2, <3>1 DEF Swap, CountType
  <2> QED
    BY <1>2, <2>1 DEF Swap, OrderInv
<1>3. CASE Resubscribes
  <2>1. count'.resubs = count.resubs + 1 /\ count.resubs \in Nat
    BY <1>3, Parts DEF Resubscribes, CountType
  <2> QED
    BY <2>1 DEF OrderInv
<1>4. CASE Drops
  BY <1>4, DisconnectsOrder DEF Drops
<1> QED
  BY <1>1, <1>2, <1>3, <1>4, TailingOrder, SendingOrder, ConnectsOrder, ReceivesOrder DEF StreamNext

(* There is nothing on the way to a client that is off.                    *)
OffInv == ~sub.on => wire = <<>>

LEMMA OffStays ==
    ASSUME ShapeInv, OffInv, StreamNext
    PROVE  OffInv'
<1>1. CASE Sending
  <2>1. wire' = wire \/ sub.on
    BY <1>1 DEF Sending, SendsAck, Proceeds, ReadsBatch, Replayed, SendsReplay, ReplaySent, BatchDone,
         SendsQueued, QueuedSent, QueueEmpty, Room
  <2>2. sub'.on = sub.on
    BY <1>1, Parts DEF Sending, SendsAck, Proceeds, ReadsBatch, Replayed, SendsReplay, ReplaySent, BatchDone,
         SendsQueued, QueuedSent, QueueEmpty, SubType
  <2> QED
    BY <2>1, <2>2 DEF OffInv
<1>2. CASE TailBegins
  <2>1. sub'.on = sub.on /\ wire' = wire
    BY <1>2, Parts DEF TailBegins, SubType
  <2> QED
    BY <2>1 DEF OffInv
<1>3. CASE TailFansOut
  <2>1. sub'.on = sub.on /\ wire' = wire
    BY <1>3, FanShape DEF TailFansOut
  <2> QED
    BY <2>1 DEF OffInv
<1>4. CASE Connects \/ Resubscribes
  BY <1>4 DEF Connects, Resubscribes, Subscription, OffInv
<1>5. CASE Receives \/ Drops
  <2>1. sub.on
    BY <1>5 DEF ShapeInv, Receives, Drops
  <2> QED
    BY <1>5, <2>1 DEF OffInv, Receives, Drops, Disconnects
<1>6. CASE TailReads \/ (\E wanted \in BOOLEAN : Append1(wanted)) \/ (\E new \in BOOLEAN : Swap(new))
  BY <1>6 DEF TailReads, Append1, Swap, OffInv
<1> QED
  BY <1>1, <1>2, <1>3, <1>4, <1>5, <1>6 DEF StreamNext, Tailing

(* On one connection the events are sent in order and none twice, whatever *)
(* becomes of the queue, the replay and the connection of the store        *)
(* (Hub.subscribe, Hub.send_loop: the replay ends where the queue begins). *)
THEOREM EventsInOrder == StreamSpec => []InOrder
<1>1. StreamInit => ShapeInv /\ OffInv /\ OrderInv
  <2> SUFFICES ASSUME StreamInit PROVE ShapeInv /\ OffInv /\ OrderInv
    OBVIOUS
  <2>1. ~sub.on /\ wire = <<>>
    BY Zenon DEF StreamInit, NoSub
  <2> QED
    BY <2>1, ShapeStarts DEF OffInv, OrderInv
<1>2. ShapeInv /\ OffInv /\ OrderInv /\ [StreamNext]_streamVars => (ShapeInv /\ OffInv /\ OrderInv)'
  <2> SUFFICES ASSUME ShapeInv, OffInv, OrderInv, [StreamNext]_streamVars PROVE (ShapeInv /\ OffInv /\ OrderInv)'
    OBVIOUS
  <2>1. CASE StreamNext
    BY <2>1, ShapeStays, OffStays, OrderStays
  <2>2. CASE UNCHANGED streamVars
    BY <2>2 DEF streamVars, ShapeInv, StreamTyped, TailerOk, OffInv, OrderInv
  <2> QED
    BY <2>1, <2>2
<1>3. ShapeInv /\ OffInv /\ OrderInv => InOrder
  <2> SUFFICES ASSUME ShapeInv, OffInv, OrderInv, count.resubs = 0, NEW i \in DOMAIN wire, NEW j \in DOMAIN wire,
                      i < j, wire[i].kind = "event", wire[j].kind = "event"
               PROVE  wire[i].seq < wire[j].seq
    BY DEF InOrder
  <2>1. wire \in Seq(Msg) /\ DOMAIN wire = 1 .. Len(wire)
    BY OnWire, LenProperties
  <2>2. sub.on
    BY <2>1 DEF OffInv
  <2> QED
    BY <2>1, <2>2 DEF OrderInv, OrderOk, Rising
<1> QED
  BY <1>1, <1>2, <1>3, PTL DEF StreamSpec

-----------------------------------------------------------------------------
(* What a client gets to know.                                             *)

(* What is under way to the client, the acknowledgement last.              *)
Out(w, s) == w \o s.ack

(* A message that tells the client of event t, or that t was there before. *)
Answers(m) == m.kind = "subscribed" /\ m.seq >= m.to
Tells(m, t) == (m.kind = "event" /\ m.seq = t) \/ (Answers(m) /\ t <= m.to)

(* What the client knows once it has had the messages before the i-th.     *)
Knows(c, o, i) ==
    {t \in Nat : t <= c.floor \/ t \in c.got \/ \E k \in 1 .. Len(o) : k < i /\ Tells(o[k], t)}

(* Of log g, every wanted event up to the n-th is in K.                    *)
Upto(g, K, n) == n <= Len(g) /\ \A t \in 1 .. n : g[t] => t \in K

(* What the replay has still to send, and what waits in a queue.           *)
Pending(s, d) == {t \in Nat : Replaying(s, d) /\ LeftFrom(s, d) < t /\ t <= LeftTo(s, d)}
Ahead(q, i) == {t \in Nat : \E k \in 1 .. Len(q) : k < i /\ q[k].kind = "event" /\ q[k].seq = t}

(* Each message on the wire takes the client on without a gap.             *)
MessageOk(g, c, o, i) ==
    /\ o[i].kind = "event" => Upto(g, Knows(c, o, i + 1), o[i].seq)
    /\ o[i].kind = "resync" => Upto(g, Knows(c, o, i), o[i].seq)
    /\ Answers(o[i]) => o[i].to <= Len(g) /\ ((c.last = 0 /\ i = 1) \/ Upto(g, Knows(c, o, i), o[i].to))
    /\ o[i].kind # "new_store"
WireOk(g, c, o) == \A i \in 1 .. Len(o) : MessageOk(g, c, o, i)

(* And so does the queue, after A, the rest of the replay being in B.      *)
QueueOk(g, A, B, s, t) ==
    /\ \A i \in 1 .. Len(s.queue) :
          /\ s.queue[i].kind = "event" => ~s.paused /\ Upto(g, B \cup Ahead(s.queue, i + 1), s.queue[i].seq)
          /\ s.queue[i].kind = "resync" => Upto(g, A, s.queue[i].seq)
          /\ s.queue[i].kind # "new_store"
    /\ ~s.paused => Upto(g, B \cup Ahead(s.queue, Len(s.queue) + 1), t)

(* The sender: last_sent, the replay and the message in its hand.          *)
SendOk(g, A, s, d) ==
    /\ s.ack # <<>> => d.pc = "loop"
    /\ Upto(g, A, s.last)
    /\ d.pc \in {"queue", "queued"} => s.replay = <<>>
    /\ Replaying(s, d) => Upto(g, A, LeftFrom(s, d)) /\ LeftTo(s, d) <= Len(g)
    /\ d.pc \in {"reading", "batch", "sent"} /\ ~s.paused => s.replay # <<>>
    /\ d.pc \in {"batch", "sent"} => \A i \in 1 .. Len(d.batch) : d.batch[i].wanted = g[d.batch[i].seq]
    /\ d.pc = "queued" /\ d.batch[1].kind = "event" => Upto(g, A, d.batch[1].seq)

Sent(c, o) == Knows(c, o, Len(o) + 1)
LiveOk(g, c, o, s, d, t) ==
    /\ WireOk(g, c, o)
    /\ QueueOk(g, Sent(c, o), Sent(c, o) \cup Pending(s, d), s, t)
    /\ SendOk(g, Sent(c, o), s, d)

(* The client is, or will be by the acknowledgement under way, in the      *)
(* database that is in use.                                                *)
Now(c, o, gen) ==
    c.gen = gen \/ (c.last = 0 /\ Len(o) > 0 /\ o[1].kind = "subscribed" /\ o[1].gen = gen)
Current == sub.on /\ ~count.blind /\ Now(client, Out(wire, sub), db.gen)

LiveInv == Current => LiveOk(db.log, client, Out(wire, sub), sub, snd, hub.tail)

(* What the client has applied, and where it would resume.                 *)
KnownInv ==
    ~count.blind /\ client.gen = db.gen =>
        /\ Upto(db.log, Knows(client, <<>>, 1), client.last)
        /\ client.resume # None => Upto(db.log, Knows(client, <<>>, 1), client.resume)

(* Clients, messages, hub and database are of one generation after the     *)
(* other.                                                                  *)
QueueGens(s, n) == \A i \in 1 .. Len(s.queue) : s.queue[i].kind = "new_store" => s.queue[i].gen <= n
GensOk ==
    /\ client.gen <= hub.gen /\ hub.gen <= db.gen
    /\ \A i \in 1 .. Len(wire) : wire[i].kind \in {"subscribed", "new_store"} => wire[i].gen <= hub.gen
    /\ sub.ack # <<>> => sub.ack[1].gen <= hub.gen
    /\ QueueGens(sub, hub.gen)

(* A client that has applied nothing gets its acknowledgement first.       *)
AckFirst ==
    client.last = 0 =>
        /\ \A i \in 1 .. Len(wire) : wire[i].kind = "subscribed" => i = 1
        /\ sub.ack # <<>> => wire = <<>> /\ snd.pc = "loop"

(* A hub in the database that is in use has read what is in its log.       *)
HubOk ==
    /\ hub.gen = db.gen /\ hub.tail # None => hub.tail <= LastSeq
    /\ hub.gen = db.gen /\ tailer.pc = "read" =>
         \A i \in 1 .. Len(tailer.read) :
            tailer.read[i].seq <= LastSeq /\ tailer.read[i].wanted = db.log[tailer.read[i].seq]

(* A hub in the database that is in use knows its first event, if any; a   *)
(* client that is away resumes in that database.                           *)
SeenOk ==
    /\ hub.gen = db.gen /\ hub.fp # 0 => LastSeq > 0 /\ hub.fp = db.print
    /\ ~count.blind => (~sub.on /\ Resumes(client) => client.gen = db.gen)

IdleOk == (sub.on => client.resume = None) /\ (~sub.on => wire = <<>> /\ sub.ack = <<>>)

KeptInv == GensOk /\ AckFirst /\ HubOk /\ SeenOk /\ IdleOk /\ LiveInv /\ KnownInv

LEMMA UptoCovers ==
    ASSUME NEW g \in Seq(BOOLEAN), NEW K, NEW L, NEW n \in Nat, Upto(g, K, n),
           \A t \in 1 .. Len(g) : g[t] /\ t \in K => t \in L
    PROVE  Upto(g, L, n)
<1>1. Len(g) \in Nat /\ n <= Len(g)
  BY LenProperties DEF Upto
<1>2. \A t \in 1 .. n : t \in 1 .. Len(g)
  BY <1>1
<1> QED
  BY <1>1, <1>2 DEF Upto

LEMMA UptoLess ==
    ASSUME NEW g \in Seq(BOOLEAN), NEW K, NEW n \in Nat, NEW m \in Nat, Upto(g, K, n), m <= n
    PROVE  Upto(g, K, m)
<1>1. Len(g) \in Nat /\ \A t \in 1 .. m : t \in 1 .. n
  BY LenProperties
<1> QED
  BY <1>1 DEF Upto

LEMMA UptoLonger ==
    ASSUME NEW g \in Seq(BOOLEAN), NEW w \in BOOLEAN, NEW K, NEW n \in Nat, Upto(g, K, n)
    PROVE  Upto(Append(g, w), K, n)
<1>1. /\ Len(g) \in Nat /\ Len(Append(g, w)) = Len(g) + 1
      /\ \A t \in 1 .. Len(g) : Append(g, w)[t] = g[t]
  BY Longer
<1>2. \A t \in 1 .. n : t \in 1 .. Len(g)
  BY <1>1 DEF Upto
<1> QED
  BY <1>1, <1>2 DEF Upto

(* One event further.                                                      *)
LEMMA UptoNext ==
    ASSUME NEW g \in Seq(BOOLEAN), NEW K, NEW n \in Nat, Upto(g, K, n), n + 1 <= Len(g),
           g[n + 1] => n + 1 \in K
    PROVE  Upto(g, K, n + 1)
<1>1. \A t \in 1 .. n + 1 : t \in 1 .. n \/ t = n + 1
  OBVIOUS
<1> QED
  BY <1>1 DEF Upto

(* The client knows no less after more messages, and one message more adds *)
(* what it tells.                                                          *)
LEMMA KnowsMore ==
    ASSUME NEW c, NEW o, Len(o) \in Nat, NEW i \in Nat, NEW j \in Nat, i <= j
    PROVE  Knows(c, o, i) \subseteq Knows(c, o, j)
BY DEF Knows

LEMMA KnowsAppend ==
    ASSUME NEW c, NEW w \in Seq(Msg), NEW m \in Msg
    PROVE  /\ \A i \in 1 .. Len(w) + 1 : Knows(c, Append(w, m), i) = Knows(c, w, i)
           /\ Sent(c, Append(w, m)) = Sent(c, w) \cup {t \in Nat : Tells(m, t)}
           /\ Sent(c, w) = Knows(c, Append(w, m), Len(w) + 1)
           /\ Sent(c, Append(w, m)) = Knows(c, Append(w, m), Len(w) + 2)
<1> DEFINE o == Append(w, m)
<1>1. /\ Len(w) \in Nat /\ Len(o) = Len(w) + 1 /\ o[Len(w) + 1] = m
      /\ \A k \in 1 .. Len(w) : o[k] = w[k]
  BY Longer
<1> HIDE DEF o
<1>2. ASSUME NEW i \in 1 .. Len(w) + 1 PROVE Knows(c, o, i) = Knows(c, w, i)
  <2>1. \A k \in 1 .. Len(o) : k < i => k \in 1 .. Len(w)
    BY <1>1, <1>2
  <2>2. \A k \in 1 .. Len(w) : k \in 1 .. Len(o)
    BY <1>1
  <2> QED
    BY <1>1, <2>1, <2>2 DEF Knows
<1>3. Knows(c, o, Len(w) + 2) = Knows(c, w, Len(w) + 1) \cup {t \in Nat : Tells(m, t)}
  <2>1. /\ \A k \in 1 .. Len(o) : k < Len(w) + 2 /\ (k \in 1 .. Len(w) \/ k = Len(w) + 1)
        /\ \A k \in 1 .. Len(w) : k \in 1 .. Len(o) /\ k < Len(w) + 1
        /\ Len(w) + 1 \in 1 .. Len(o)
    BY <1>1
  <2> QED
    BY <1>1, <2>1 DEF Knows
<1>4. Len(o) + 1 = Len(w) + 2 /\ Len(w) + 1 \in 1 .. Len(w) + 1
  BY <1>1
<1> QED
  BY <1>1, <1>2, <1>3, <1>4 DEF Sent, o

(* The head of the queue, and what is before each of the others.           *)
LEMMA AheadTail ==
    ASSUME NEW q \in Seq(Msg), q # <<>>
    PROVE  \A i \in 1 .. Len(Tail(q)) + 1 :
              \A t \in Ahead(q, i + 1) : t \in Ahead(Tail(q), i) \/ (Head(q).kind = "event" /\ t = Head(q).seq)
<1>1. /\ Len(q) \in Nat /\ Len(q) > 0 /\ Len(Tail(q)) = Len(q) - 1 /\ Head(q) = q[1]
      /\ \A i \in 1 .. Len(Tail(q)) : Tail(q)[i] = q[i + 1]
  BY Shifted
<1> SUFFICES ASSUME NEW i \in 1 .. Len(Tail(q)) + 1, NEW t \in Ahead(q, i + 1)
             PROVE  t \in Ahead(Tail(q), i) \/ (Head(q).kind = "event" /\ t = Head(q).seq)
  OBVIOUS
<1>2. PICK k \in 1 .. Len(q) : k < i + 1 /\ q[k].kind = "event" /\ q[k].seq = t
  BY DEF Ahead
<1>3. CASE k = 1
  BY <1>1, <1>2, <1>3
<1>4. CASE k # 1
  <2>1. k - 1 \in 1 .. Len(Tail(q)) /\ k - 1 < i /\ Tail(q)[k - 1] = q[k]
    BY <1>1, <1>2, <1>4
  <2> QED
    BY <1>2, <2>1 DEF Ahead
<1> QED
  BY <1>3, <1>4

LEMMA AheadAppend ==
    ASSUME NEW q \in Seq(Msg), NEW m \in Msg
    PROVE  /\ \A i \in 1 .. Len(q) + 1 : Ahead(Append(q, m), i) = Ahead(q, i)
           /\ \A t \in Ahead(q, Len(q) + 1) : t \in Ahead(Append(q, m), Len(q) + 2)
           /\ m.kind = "event" => m.seq \in Ahead(Append(q, m), Len(q) + 2)
<1> DEFINE o == Append(q, m)
<1>1. /\ Len(q) \in Nat /\ Len(o) = Len(q) + 1 /\ o[Len(q) + 1] = m
      /\ \A k \in 1 .. Len(q) : o[k] = q[k]
  BY Longer
<1> HIDE DEF o
<1>2. ASSUME NEW i \in 1 .. Len(q) + 1 PROVE Ahead(o, i) = Ahead(q, i)
  <2>1. \A k \in 1 .. Len(o) : k < i => k \in 1 .. Len(q)
    BY <1>1, <1>2
  <2>2. \A k \in 1 .. Len(q) : k \in 1 .. Len(o)
    BY <1>1
  <2> QED
    BY <1>1, <2>1, <2>2 DEF Ahead
<1>3. \A t \in Ahead(q, Len(q) + 1) : t \in Ahead(o, Len(q) + 2)
  BY <1>1 DEF Ahead
<1>4. m.kind = "event" => m.seq \in Ahead(o, Len(q) + 2)
  <2>1. m.seq \in Nat
    BY DEF Msg
  <2> QED
    BY <1>1, <2>1 DEF Ahead
<1> QED
  BY <1>2, <1>3, <1>4 DEF o

(* A queue stays in order while what the client knows or is sent grows.    *)
LEMMA QueueCarries ==
    ASSUME NEW g \in Seq(BOOLEAN), NEW A, NEW B, NEW C, NEW D, NEW s \in SubType, NEW t \in Nat,
           QueueOk(g, A, B, s, t),
           \A x \in 1 .. Len(g) : g[x] /\ x \in A => x \in C,
           \A x \in 1 .. Len(g) : g[x] /\ x \in B => x \in D
    PROVE  QueueOk(g, C, D, s, t)
<1>1. s.queue \in Seq(Msg) /\ Len(s.queue) \in Nat
  BY LenProperties DEF SubType
<1>2. \A i \in 1 .. Len(s.queue) : s.queue[i].seq \in Nat
  <2>1. \A i \in 1 .. Len(s.queue) : s.queue[i] \in Msg
    BY <1>1, ElementOfSeq
  <2> QED
    BY <2>1 DEF Msg
<1>3. \A F : \A x \in 1 .. Len(g) : g[x] /\ x \in B \cup F => x \in D \cup F
  OBVIOUS
<1>4. \A F : \A n \in Nat : Upto(g, B \cup F, n) => Upto(g, D \cup F, n)
  BY <1>3, UptoCovers
<1>5. \A n \in Nat : Upto(g, A, n) => Upto(g, C, n)
  BY UptoCovers
<1>6. ASSUME NEW i \in 1 .. Len(s.queue)
      PROVE  /\ s.queue[i].kind = "event" => ~s.paused /\ Upto(g, D \cup Ahead(s.queue, i + 1), s.queue[i].seq)
             /\ s.queue[i].kind = "resync" => Upto(g, C, s.queue[i].seq)
             /\ s.queue[i].kind # "new_store"
  BY <1>2, <1>4, <1>5 DEF QueueOk
<1>7. ~s.paused => Upto(g, D \cup Ahead(s.queue, Len(s.queue) + 1), t)
  BY <1>4 DEF QueueOk
<1> QED
  BY <1>6, <1>7 DEF QueueOk

(* The store grows.                                                        *)
LEMMA LogGrows ==
    ASSUME NEW g \in Seq(BOOLEAN), NEW w \in BOOLEAN, NEW c, NEW o \in Seq(Msg), NEW s \in SubType,
           NEW d \in SndType, SenderOk(d), NEW t \in Nat, LiveOk(g, c, o, s, d, t)
    PROVE  LiveOk(Append(g, w), c, o, s, d, t)
<1> DEFINE h == Append(g, w)
           A == Sent(c, o)
           B == A \cup Pending(s, d)
<1>1. /\ Len(g) \in Nat /\ Len(h) = Len(g) + 1 /\ \A i \in 1 .. Len(g) : h[i] = g[i]
  BY Longer
<1>2. \A K : \A n \in Nat : Upto(g, K, n) => Upto(h, K, n)
  BY UptoLonger
<1>3. \A i \in 1 .. Len(o) : o[i].seq \in Nat /\ o[i].to \in Nat
  <2>1. \A i \in 1 .. Len(o) : o[i] \in Msg
    BY ElementOfSeq
  <2> QED
    BY <2>1 DEF Msg
<1>4. s.queue \in Seq(Msg) /\ s.last \in Nat
  BY DEF SubType
<1>5. \A i \in 1 .. Len(s.queue) : s.queue[i].seq \in Nat
  <2>1. \A i \in 1 .. Len(s.queue) : s.queue[i] \in Msg
    BY <1>4, ElementOfSeq
  <2> QED
    BY <2>1 DEF Msg
<1> HIDE DEF h, A, B
<1>6. WireOk(g, c, o) /\ QueueOk(g, A, B, s, t) /\ SendOk(g, A, s, d)
  BY DEF LiveOk, A, B
<1>7. WireOk(h, c, o)
  <2> SUFFICES ASSUME NEW i \in 1 .. Len(o) PROVE MessageOk(h, c, o, i)
    BY DEF WireOk
  <2>1. MessageOk(g, c, o, i)
    BY <1>6 DEF WireOk
  <2>2. o[i].to <= Len(g) => o[i].to <= Len(h)
    BY <1>1, <1>3
  <2> QED
    BY <1>2, <1>3, <2>1, <2>2 DEF MessageOk
<1>8. QueueOk(h, A, B, s, t)
  <2>1. ASSUME NEW i \in 1 .. Len(s.queue)
        PROVE  /\ s.queue[i].kind = "event" => ~s.paused /\ Upto(h, B \cup Ahead(s.queue, i + 1), s.queue[i].seq)
               /\ s.queue[i].kind = "resync" => Upto(h, A, s.queue[i].seq)
               /\ s.queue[i].kind # "new_store"
    BY <1>2, <1>5, <1>6 DEF QueueOk
  <2>2. ~s.paused => Upto(h, B \cup Ahead(s.queue, Len(s.queue) + 1), t)
    BY <1>2, <1>6 DEF QueueOk
  <2> QED
    BY <2>1, <2>2 DEF QueueOk
<1>9. SendOk(h, A, s, d)
  <2>1. Replaying(s, d) => Upto(h, A, LeftFrom(s, d)) /\ LeftTo(s, d) <= Len(h)
    BY <1>1, <1>2, <1>6, LeftTyped DEF SendOk
  <2>2. d.pc \in {"batch", "sent"} => \A i \in 1 .. Len(d.batch) : d.batch[i].wanted = h[d.batch[i].seq]
    <3> SUFFICES ASSUME d.pc \in {"batch", "sent"}, NEW i \in 1 .. Len(d.batch)
                 PROVE  d.batch[i].wanted = h[d.batch[i].seq]
      OBVIOUS
    <3>1. /\ d.batch \in Seq(Item) /\ d.cursor + Len(d.batch) <= d.until
          /\ d.batch[i].seq = d.cursor + i /\ d.cursor \in Nat /\ d.until \in Nat
      BY DEF SenderOk, SndType
    <3>2. d.until <= Len(g)
      BY <1>6 DEF SendOk, Replaying, LeftTo
    <3>3. Len(d.batch) \in Nat
      BY <3>1, LenProperties
    <3>4. d.batch[i].seq \in 1 .. Len(g)
      BY <1>1, <3>1, <3>2, <3>3
    <3> QED
      BY <1>1, <1>6, <3>4 DEF SendOk
  <2>3. d.pc = "queued" /\ d.batch[1].kind = "event" => Upto(h, A, d.batch[1].seq)
    <3> SUFFICES ASSUME d.pc = "queued", d.batch[1].kind = "event" PROVE Upto(h, A, d.batch[1].seq)
      OBVIOUS
    <3>1. d.batch[1].seq \in Nat
      BY DEF SenderOk, Msg
    <3> QED
      BY <1>2, <1>6, <3>1 DEF SendOk
  <2>4. Upto(h, A, s.last)
    BY <1>2, <1>4, <1>6 DEF SendOk
  <2> QED
    BY <1>6, <2>1, <2>2, <2>3, <2>4 DEF SendOk
<1> QED
  BY <1>7, <1>8, <1>9 DEF LiveOk, h, A, B

(* The fan-out of one event.                                               *)
LEMMA TellLive ==
    ASSUME NEW g \in Seq(BOOLEAN), NEW c, NEW o \in Seq(Msg), NEW s \in SubType, s.on,
           NEW d \in SndType, NEW t \in Nat, LiveOk(g, c, o, s, d, t),
           NEW e \in Item, e.seq = t + 1, e.seq <= Len(g), e.wanted = g[e.seq], db.gen \in Nat
    PROVE  LiveOk(g, c, o, Tell(s, e), d, t + 1)
<1> DEFINE A == Sent(c, o)
           B == A \cup Pending(s, d)
           q == s.queue
           N == Len(s.queue)
<1>1. q \in Seq(Msg) /\ N \in Nat /\ Len(g) \in Nat /\ s.last \in Nat
  BY LenProperties DEF SubType
<1>2. \A i \in 1 .. N : q[i].seq \in Nat
  <2>1. \A i \in 1 .. N : q[i] \in Msg
    BY <1>1, ElementOfSeq
  <2> QED
    BY <2>1 DEF Msg
<1>3. WireOk(g, c, o) /\ QueueOk(g, A, B, s, t) /\ SendOk(g, A, s, d)
  BY DEF LiveOk
<1> HIDE DEF A, B, q, N
<1>4. ~s.paused => Upto(g, B \cup Ahead(q, N + 1), t)
  BY <1>3 DEF QueueOk, q, N
<1>5. CASE s.paused
  <2>1. Tell(s, e) = s
    BY <1>5 DEF Tell, Push
  <2>2. QueueOk(g, A, B, s, t + 1)
    BY <1>3, <1>5 DEF QueueOk
  <2> QED
    BY <1>3, <2>1, <2>2 DEF LiveOk, A, B
<1>6. CASE ~s.paused /\ ~e.wanted
  <2>1. Tell(s, e) = s
    BY <1>6 DEF Tell
  <2>2. Upto(g, B \cup Ahead(q, N + 1), t + 1)
    BY <1>4, <1>6, UptoNext
  <2>3. QueueOk(g, A, B, s, t + 1)
    BY <1>3, <2>2 DEF QueueOk, q, N
  <2> QED
    BY <1>3, <2>1, <2>3 DEF LiveOk, A, B
<1>7. CASE ~s.paused /\ e.wanted /\ Len(s.queue) >= QueueMax
  <2> DEFINE m == Resync(s.last, "resync")
             p == Tell(s, e)
  <2>1. m.kind = "resync" /\ m.seq = s.last
    BY DEF Resync
  <2> HIDE DEF m
  <2>2. p = [s EXCEPT !.queue = <<m>>, !.paused = TRUE, !.replay = <<>>]
    BY <1>7 DEF Tell, Push, m
  <2>3. /\ p.queue = <<m>> /\ p.paused = TRUE /\ p.replay = <<>> /\ p.last = s.last /\ p.ack = s.ack
    BY <2>2 DEF SubType
  <2>4. Replaying(p, d) => Replaying(s, d) /\ LeftFrom(p, d) = LeftFrom(s, d) /\ LeftTo(p, d) = LeftTo(s, d)
    BY <2>3 DEF Replaying, LeftFrom, LeftTo
  <2> HIDE DEF p
  <2>5. p.paused /\ \A i \in 1 .. Len(p.queue) : p.queue[i] = m
    BY <2>3
  <2>6. Upto(g, A, s.last)
    BY <1>3 DEF SendOk
  <2>7. QueueOk(g, A, A \cup Pending(p, d), p, t + 1)
    BY <2>1, <2>5, <2>6 DEF QueueOk
  <2>8. SendOk(g, A, p, d)
    BY <1>3, <2>3, <2>4, <2>5 DEF SendOk
  <2> QED
    BY <1>3, <2>7, <2>8 DEF LiveOk, A, p
<1>8. CASE ~s.paused /\ e.wanted /\ ~(Len(s.queue) >= QueueMax)
  <2> DEFINE m == Event(e)
             p == Tell(s, e)
             r == Append(q, m)
  <2>1. m \in Msg /\ m.kind = "event" /\ m.seq = t + 1
    BY DEF Event, Item, Msg, Kinds
  <2> HIDE DEF m
  <2>2. p = [s EXCEPT !.queue = r]
    BY <1>8 DEF Tell, Push, m, q
  <2>3. p.queue = r /\ p.paused = s.paused /\ p.replay = s.replay /\ p.last = s.last /\ p.ack = s.ack
    BY <2>2 DEF SubType
  <2>4. Replaying(p, d) = Replaying(s, d) /\ LeftFrom(p, d) = LeftFrom(s, d) /\ LeftTo(p, d) = LeftTo(s, d)
    BY <2>3 DEF Replaying, LeftFrom, LeftTo
  <2>5. Pending(p, d) = Pending(s, d)
    BY <2>4 DEF Pending
  <2>6. /\ Len(r) = N + 1 /\ r[N + 1] = m /\ \A i \in 1 .. N : r[i] = q[i]
    BY <1>1, <2>1, Longer DEF N, q
  <2>7. /\ \A i \in 1 .. N + 1 : Ahead(r, i) = Ahead(q, i)
        /\ \A x \in Ahead(q, N + 1) : x \in Ahead(r, N + 2)
        /\ t + 1 \in Ahead(r, N + 2)
    BY <1>1, <2>1, AheadAppend DEF N, q
  <2> HIDE DEF p, r
  <2>8. Upto(g, B \cup Ahead(r, N + 2), t + 1)
    <3>1. Upto(g, B \cup Ahead(r, N + 2), t)
      BY <1>4, <1>8, <2>7, UptoCovers
    <3> QED
      BY <2>7, <3>1, UptoNext
  <2>9. QueueOk(g, A, B, p, t + 1)
    <3>1. ASSUME NEW i \in 1 .. N
          PROVE  /\ r[i].kind = "event" => ~p.paused /\ Upto(g, B \cup Ahead(r, i + 1), r[i].seq)
                 /\ r[i].kind = "resync" => Upto(g, A, r[i].seq)
                 /\ r[i].kind # "new_store"
      <4>1. i + 1 \in 1 .. N + 1
        BY <1>1
      <4>2. r[i] = q[i] /\ Ahead(r, i + 1) = Ahead(q, i + 1)
        BY <2>6, <2>7, <4>1
      <4> QED
        BY <1>3, <2>3, <4>2 DEF QueueOk, q, N
    <3>2. ~p.paused /\ Upto(g, B \cup Ahead(r, (N + 1) + 1), r[N + 1].seq)
      <4>1. (N + 1) + 1 = N + 2
        BY <1>1
      <4> QED
        BY <1>8, <2>1, <2>3, <2>6, <2>8, <4>1
    <3>3. Len(r) = N + 1 /\ \A i \in 1 .. Len(r) : i \in 1 .. N \/ i = N + 1
      BY <1>1, <2>6
    <3>4. ~p.paused => Upto(g, B \cup Ahead(r, Len(r) + 1), t + 1)
      <4>1. Len(r) + 1 = N + 2
        BY <1>1, <3>3
      <4> QED
        BY <2>8, <4>1
    <3>5. ASSUME NEW i \in 1 .. Len(r)
          PROVE  /\ r[i].kind = "event" => ~p.paused /\ Upto(g, B \cup Ahead(r, i + 1), r[i].seq)
                 /\ r[i].kind = "resync" => Upto(g, A, r[i].seq)
                 /\ r[i].kind # "new_store"
      <4>1. CASE i \in 1 .. N
        BY <3>1, <4>1
      <4>2. CASE i = N + 1
        BY <2>1, <2>6, <3>2, <4>2
      <4> QED
        BY <3>3, <4>1, <4>2
    <3> QED
      BY <2>3, <3>4, <3>5 DEF QueueOk
  <2>10. SendOk(g, A, p, d)
    BY <1>3, <2>3, <2>4 DEF SendOk
  <2> QED
    BY <1>3, <2>5, <2>9, <2>10 DEF LiveOk, A, B, p
<1> QED
  BY <1>5, <1>6, <1>7, <1>8

LEMMA OutIs ==
    ASSUME NEW w \in Seq(Msg), NEW s \in SubType
    PROVE  /\ s.ack = <<>> => Out(w, s) = w
           /\ s.ack # <<>> => s.ack[1] \in Msg /\ s.ack = <<s.ack[1]>> /\ Out(w, s) = Append(w, s.ack[1])
           /\ Out(w, s) \in Seq(Msg)
<1>1. CASE s.ack = <<>>
  <2>1. w \o <<>> = w
    BY ConcatEmptySeq
  <2> QED
    BY <1>1, <2>1 DEF Out
<1>2. CASE s.ack # <<>>
  <2>1. PICK m \in Msg : s.ack = <<m>>
    BY <1>2 DEF SubType
  <2>2. Out(w, s) = Append(w, m) /\ s.ack[1] = m
    BY <2>1, AppendIsConcat DEF Out
  <2> QED
    BY <1>2, <2>1, <2>2, AppendProperties
<1> QED
  BY <1>1, <1>2

LEMMA QueueSame ==
    ASSUME NEW g, NEW A, NEW B, NEW s, NEW p, NEW t, p.queue = s.queue, p.paused = s.paused,
           QueueOk(g, A, B, s, t)
    PROVE  QueueOk(g, A, B, p, t)
BY DEF QueueOk

(* A queue that is paused holds no event: what is pending does not count.  *)
LEMMA QueuePaused ==
    ASSUME NEW g, NEW A, NEW B, NEW C, NEW s, NEW t, s.paused, QueueOk(g, A, B, s, t)
    PROVE  QueueOk(g, A, C, s, t)
BY DEF QueueOk

LEMMA NonePending ==
    ASSUME NEW s, NEW d, ~Replaying(s, d)
    PROVE  Pending(s, d) = {}
BY DEF Pending

LEMMA SamePending ==
    ASSUME NEW s, NEW d, NEW p, NEW e, Replaying(p, e) = Replaying(s, d),
           LeftFrom(p, e) = LeftFrom(s, d), LeftTo(p, e) = LeftTo(s, d)
    PROVE  Pending(p, e) = Pending(s, d)
BY DEF Pending

(* What the lemmas on the sender start from.                               *)
LEMMA LiveTypes ==
    ASSUME ShapeInv, NEW A, NEW t, LiveOk(db.log, client, Out(wire, sub), sub, snd, t), A = Sent(client, Out(wire, sub))
    PROVE  /\ sub \in SubType /\ snd \in SndType /\ wire \in Seq(Msg) /\ Out(wire, sub) \in Seq(Msg)
           /\ db.log \in Seq(BOOLEAN) /\ LastSeq \in Nat /\ Len(db.log) = LastSeq
           /\ snd.cursor \in Nat /\ snd.until \in Nat /\ sub.last \in Nat /\ SenderOk(snd)
           /\ WireOk(db.log, client, Out(wire, sub)) /\ QueueOk(db.log, A, A \cup Pending(sub, snd), sub, t)
           /\ SendOk(db.log, A, sub, snd)
           /\ snd.pc # "loop" => sub.ack = <<>> /\ Out(wire, sub) = wire
<1>1. sub \in SubType /\ snd \in SndType /\ wire \in Seq(Msg) /\ SenderOk(snd)
  BY Parts
<1>2. db.log \in Seq(BOOLEAN) /\ LastSeq \in Nat /\ Len(db.log) = LastSeq
  BY Parts DEF LastSeq
<1>3. WireOk(db.log, client, Out(wire, sub)) /\ QueueOk(db.log, A, A \cup Pending(sub, snd), sub, t)
      /\ SendOk(db.log, A, sub, snd)
  BY DEF LiveOk
<1>4. snd.pc # "loop" => sub.ack = <<>>
  BY <1>3 DEF SendOk
<1>5. snd.cursor \in Nat /\ snd.until \in Nat /\ sub.last \in Nat
  BY <1>1 DEF SubType, SndType
<1> QED
  BY <1>1, <1>2, <1>3, <1>4, <1>5, OutIs

LEMMA ReplayedLive ==
    ASSUME ShapeInv, NEW t \in Nat, LiveOk(db.log, client, Out(wire, sub), sub, snd, t),
           Replayed, snd.pc \in {"reading", "batch"}, snd.until <= snd.cursor, wire' = wire
    PROVE  LiveOk(db.log, client, Out(wire', sub'), sub', snd', t)
<1> DEFINE g == db.log
           A == Sent(client, Out(wire, sub))
           B == A \cup Pending(sub, snd)
           l == MaxOf(sub.last, snd.until)
<1>1. /\ sub \in SubType /\ snd \in SndType /\ g \in Seq(BOOLEAN) /\ Len(g) = LastSeq
      /\ snd.cursor \in Nat /\ snd.until \in Nat /\ sub.last \in Nat
      /\ WireOk(g, client, Out(wire, sub)) /\ QueueOk(g, A, B, sub, t) /\ SendOk(g, A, sub, snd)
      /\ sub.ack = <<>>
  BY LiveTypes
<1>2. sub' = [sub EXCEPT !.replay = <<>>, !.last = l] /\ snd'.pc = "queue"
  BY DEF Replayed, NoSend
<1> HIDE DEF l
<1>3. /\ sub'.queue = sub.queue /\ sub'.paused = sub.paused /\ sub'.replay = <<>> /\ sub'.ack = sub.ack
      /\ sub'.last = l
  BY <1>1, <1>2 DEF SubType
<1>4. Out(wire', sub') = Out(wire, sub)
  BY <1>3 DEF Out
<1>5. Pending(sub, snd) = {} /\ Pending(sub', snd') = {}
  BY <1>1, <1>2 DEF Pending, Replaying, LeftFrom, LeftTo
<1> HIDE DEF A
<1>6. Upto(g, A, snd.cursor)
  BY <1>1 DEF SendOk, Replaying, LeftFrom
<1>7. Upto(g, A, l)
  <2>1. Upto(g, A, snd.until) /\ Upto(g, A, sub.last)
    BY <1>1, <1>6, UptoLess DEF SendOk
  <2> QED
    BY <2>1 DEF l, MaxOf
<1>8. SendOk(g, A, sub', snd')
  BY <1>1, <1>2, <1>3, <1>7 DEF SendOk, Replaying
<1>9. QueueOk(g, A, A \cup Pending(sub', snd'), sub', t)
  BY <1>1, <1>3, <1>5, QueueSame
<1> QED
  BY <1>1, <1>4, <1>8, <1>9 DEF LiveOk, A

LEMMA AckLive ==
    ASSUME ShapeInv, NEW t \in Nat, LiveOk(db.log, client, Out(wire, sub), sub, snd, t), SendsAck
    PROVE  LiveOk(db.log, client, Out(wire', sub'), sub', snd', t)
<1> DEFINE g == db.log
           A == Sent(client, Out(wire, sub))
<1>1. /\ sub \in SubType /\ snd \in SndType /\ wire \in Seq(Msg)
      /\ WireOk(g, client, Out(wire, sub)) /\ QueueOk(g, A, A \cup Pending(sub, snd), sub, t)
      /\ SendOk(g, A, sub, snd)
  BY LiveTypes
<1>2. /\ wire' = Append(wire, sub.ack[1]) /\ sub' = [sub EXCEPT !.ack = <<>>]
      /\ snd' = [snd EXCEPT !.pc = "acked"] /\ snd.pc = "loop" /\ sub.ack # <<>>
  BY DEF SendsAck
<1>3. /\ sub'.queue = sub.queue /\ sub'.paused = sub.paused /\ sub'.replay = sub.replay /\ sub'.ack = <<>>
      /\ sub'.last = sub.last /\ snd'.pc = "acked"
  BY <1>1, <1>2 DEF SubType, SndType
<1>4. sub' \in SubType /\ wire' \in Seq(Msg)
  BY SendsAckShape DEF ShapeInv, StreamTyped
<1>5. Out(wire', sub') = Out(wire, sub)
  BY <1>1, <1>2, <1>3, <1>4, OutIs
<1>6. Replaying(sub', snd') = Replaying(sub, snd) /\ LeftFrom(sub', snd') = LeftFrom(sub, snd)
      /\ LeftTo(sub', snd') = LeftTo(sub, snd)
  BY <1>2, <1>3 DEF Replaying, LeftFrom, LeftTo
<1> HIDE DEF A
<1>7. SendOk(g, A, sub', snd')
  BY <1>1, <1>3, <1>6 DEF SendOk
<1>8. QueueOk(g, A, A \cup Pending(sub', snd'), sub', t)
  <2>1. Pending(sub', snd') = Pending(sub, snd)
    BY <1>6, SamePending
  <2> QED
    BY <1>1, <1>3, <2>1, QueueSame
<1> QED
  BY <1>1, <1>5, <1>7, <1>8 DEF LiveOk, A

LEMMA ProceedsLive ==
    ASSUME ShapeInv, NEW t \in Nat, LiveOk(db.log, client, Out(wire, sub), sub, snd, t), Proceeds
    PROVE  LiveOk(db.log, client, Out(wire', sub'), sub', snd', t)
<1> DEFINE g == db.log
           A == Sent(client, Out(wire, sub))
<1>1. /\ sub \in SubType /\ snd \in SndType
      /\ WireOk(g, client, Out(wire, sub)) /\ QueueOk(g, A, A \cup Pending(sub, snd), sub, t)
      /\ SendOk(g, A, sub, snd)
      /\ snd.pc # "loop" => sub.ack = <<>>
  BY LiveTypes
<1>2. sub' = sub /\ wire' = wire /\ snd.pc \in {"loop", "acked"} /\ sub.ack = <<>>
  BY <1>1 DEF Proceeds
<1> HIDE DEF A
<1>3. CASE sub.replay = <<>>
  <2>1. snd'.pc = "queue"
    BY <1>3 DEF Proceeds, NoSend
  <2>2. ~Replaying(sub, snd) /\ ~Replaying(sub', snd')
    BY <1>2, <1>3, <2>1 DEF Replaying
  <2>3. SendOk(g, A, sub', snd')
    BY <1>1, <1>2, <1>3, <2>1, <2>2 DEF SendOk
  <2>4. QueueOk(g, A, A \cup Pending(sub', snd'), sub', t)
    BY <1>1, <1>2, <2>2, NonePending
  <2> QED
    BY <1>1, <1>2, <2>3, <2>4 DEF LiveOk, A
<1>4. CASE sub.replay # <<>>
  <2>1. snd'.pc = "reading" /\ snd'.cursor = sub.replay[1] /\ snd'.until = sub.replay[2]
    BY <1>4 DEF Proceeds, NoSend
  <2>2. Replaying(sub', snd') = Replaying(sub, snd) /\ LeftFrom(sub', snd') = LeftFrom(sub, snd)
        /\ LeftTo(sub', snd') = LeftTo(sub, snd)
    BY <1>2, <1>4, <2>1 DEF Replaying, LeftFrom, LeftTo
  <2>3. SendOk(g, A, sub', snd')
    BY <1>1, <1>2, <1>4, <2>1, <2>2 DEF SendOk
  <2>4. QueueOk(g, A, A \cup Pending(sub', snd'), sub', t)
    <3>1. Pending(sub', snd') = Pending(sub, snd)
      BY <2>2, SamePending
    <3> QED
      BY <1>1, <1>2, <3>1
  <2> QED
    BY <1>1, <1>2, <2>3, <2>4 DEF LiveOk, A
<1> QED
  BY <1>3, <1>4

LEMMA WireAppend ==
    ASSUME NEW g, NEW c, NEW w \in Seq(Msg), NEW m \in Msg, WireOk(g, c, w),
           m.kind = "event" => Upto(g, Sent(c, Append(w, m)), m.seq),
           m.kind = "resync" => Upto(g, Sent(c, w), m.seq),
           Answers(m) => m.to <= Len(g) /\ ((c.last = 0 /\ w = <<>>) \/ Upto(g, Sent(c, w), m.to)),
           m.kind # "new_store"
    PROVE  WireOk(g, c, Append(w, m))
<1> DEFINE o == Append(w, m)
<1>1. /\ Len(w) \in Nat /\ Len(o) = Len(w) + 1 /\ o[Len(w) + 1] = m
      /\ \A i \in 1 .. Len(w) : o[i] = w[i]
  BY Longer
<1>2. /\ \A i \in 1 .. Len(w) + 1 : Knows(c, o, i) = Knows(c, w, i)
      /\ Sent(c, w) = Knows(c, o, Len(w) + 1) /\ Sent(c, o) = Knows(c, o, Len(w) + 2)
  BY KnowsAppend
<1> HIDE DEF o
<1>3. ASSUME NEW i \in 1 .. Len(w) PROVE MessageOk(g, c, o, i)
  <2>1. i \in 1 .. Len(w) + 1 /\ i + 1 \in 1 .. Len(w) + 1
    BY <1>1
  <2>2. o[i] = w[i] /\ Knows(c, o, i) = Knows(c, w, i) /\ Knows(c, o, i + 1) = Knows(c, w, i + 1)
    BY <1>1, <1>2, <2>1
  <2>3. MessageOk(g, c, w, i)
    BY DEF WireOk
  <2> QED
    BY <2>2, <2>3 DEF MessageOk
<1>4. MessageOk(g, c, o, Len(w) + 1)
  <2>1. (Len(w) + 1) + 1 = Len(w) + 2
    BY <1>1
  <2>2. w = <<>> => Len(w) + 1 = 1
    OBVIOUS
  <2> QED
    BY <1>1, <1>2, <2>1, <2>2 DEF MessageOk, o
<1>5. \A i \in 1 .. Len(o) : i \in 1 .. Len(w) \/ i = Len(w) + 1
  BY <1>1
<1> QED
  BY <1>3, <1>4, <1>5 DEF WireOk, o

LEMMA ReadsBatchLive ==
    ASSUME ShapeInv, NEW t \in Nat, LiveOk(db.log, client, Out(wire, sub), sub, snd, t), ReadsBatch
    PROVE  LiveOk(db.log, client, Out(wire', sub'), sub', snd', t)
<1> DEFINE g == db.log
           A == Sent(client, Out(wire, sub))
           upto == MinOf(MinOf(snd.cursor + Batch, snd.until), LastSeq)
<1>1. /\ sub \in SubType /\ snd \in SndType /\ g \in Seq(BOOLEAN) /\ Len(g) = LastSeq /\ LastSeq \in Nat
      /\ snd.cursor \in Nat /\ snd.until \in Nat
      /\ WireOk(g, client, Out(wire, sub)) /\ QueueOk(g, A, A \cup Pending(sub, snd), sub, t)
      /\ SendOk(g, A, sub, snd)
  BY LiveTypes
<1>2. snd.pc = "reading" /\ Batch \in Nat \ {0} /\ wire' = wire
  BY StreamAssumption DEF ReadsBatch
<1>3. snd.until <= LastSeq
  BY <1>1, <1>2 DEF SendOk, Replaying, LeftTo
<1>4. CASE upto <= snd.cursor
  <2>1. snd.until <= snd.cursor
    BY <1>1, <1>2, <1>3, <1>4 DEF MinOf
  <2>2. Replayed
    BY <1>4 DEF ReadsBatch
  <2> QED
    BY <1>2, <2>1, <2>2, ReplayedLive
<1>5. CASE ~(upto <= snd.cursor)
  <2>1. upto \in Nat /\ snd.cursor < upto /\ upto <= LastSeq
    BY <1>1, <1>2, <1>5 DEF MinOf
  <2>2. sub' = sub /\ snd' = [snd EXCEPT !.pc = "batch", !.batch = Read(snd.cursor, upto)]
    BY <1>5 DEF ReadsBatch
  <2>3. /\ Len(Read(snd.cursor, upto)) = upto - snd.cursor
        /\ \A i \in 1 .. (upto - snd.cursor) : /\ Read(snd.cursor, upto)[i].seq = snd.cursor + i
                                               /\ Read(snd.cursor, upto)[i].wanted = g[snd.cursor + i]
    BY <1>1, <2>1, ReadOk, Parts
  <2> DEFINE b == Read(snd.cursor, upto)
  <2>4. \A i \in 1 .. Len(b) : b[i].wanted = g[b[i].seq]
    BY <2>3
  <2> HIDE DEF b, upto
  <2>5. snd' = [snd EXCEPT !.pc = "batch", !.batch = b]
    BY <2>2 DEF b
  <2>6. snd'.pc = "batch" /\ snd'.cursor = snd.cursor /\ snd'.until = snd.until /\ snd'.batch = b
    BY <1>1, <2>5 DEF SndType
  <2>7. Replaying(sub', snd') = Replaying(sub, snd) /\ LeftFrom(sub', snd') = LeftFrom(sub, snd)
        /\ LeftTo(sub', snd') = LeftTo(sub, snd)
    BY <1>2, <2>2, <2>6 DEF Replaying, LeftFrom, LeftTo
  <2> HIDE DEF A
  <2>8. SendOk(g, A, sub', snd')
    BY <1>1, <1>2, <2>2, <2>4, <2>6, <2>7 DEF SendOk
  <2>9. Pending(sub', snd') = Pending(sub, snd)
    BY <2>7, SamePending
  <2> QED
    BY <1>1, <1>2, <2>2, <2>8, <2>9 DEF LiveOk, A
<1> QED
  BY <1>4, <1>5

(* One event of the replay further, sent or of no interest.                *)
LEMMA BatchRest ==
    ASSUME ShapeInv, snd.pc \in {"batch", "sent"}, snd.batch # <<>>,
           \A i \in 1 .. Len(snd.batch) : snd.batch[i].wanted = db.log[snd.batch[i].seq]
    PROVE  /\ \A i \in 1 .. Len(SentOne.batch) : SentOne.batch[i].wanted = db.log[SentOne.batch[i].seq]
           /\ SentOne.batch = Tail(snd.batch)
<1>1. snd.batch \in Seq(Item) /\ snd \in SndType
  BY Parts DEF SenderOk
<1>2. \A i \in 1 .. Len(Tail(snd.batch)) : Tail(snd.batch)[i] = snd.batch[i + 1] /\ i + 1 \in 1 .. Len(snd.batch)
  BY <1>1, Shifted
<1>3. SentOne.batch = Tail(snd.batch)
  BY <1>1 DEF SentOne, SndType
<1> QED
  BY <1>2, <1>3

LEMMA ReplaySentLive ==
    ASSUME ShapeInv, NEW t \in Nat, LiveOk(db.log, client, Out(wire, sub), sub, snd, t), ReplaySent
    PROVE  LiveOk(db.log, client, Out(wire', sub'), sub', snd', t)
<1> DEFINE g == db.log
           A == Sent(client, Out(wire, sub))
<1>1. /\ sub \in SubType /\ snd \in SndType /\ SenderOk(snd) /\ snd.cursor \in Nat
      /\ WireOk(g, client, Out(wire, sub)) /\ QueueOk(g, A, A \cup Pending(sub, snd), sub, t)
      /\ SendOk(g, A, sub, snd)
  BY LiveTypes
<1>2. snd.pc = "sent" /\ snd.batch # <<>>
  BY <1>1, EmptySeq DEF ReplaySent, SenderOk
<1>3. /\ Head(snd.batch).seq = snd.cursor + 1
      /\ SentOne.pc = "batch" /\ SentOne.cursor = snd.cursor + 1 /\ SentOne.until = snd.until
  BY <1>2, BatchHead
<1>4. \A i \in 1 .. Len(SentOne.batch) : SentOne.batch[i].wanted = g[SentOne.batch[i].seq]
  BY <1>1, <1>2, BatchRest DEF SendOk
<1>5. snd' = SentOne /\ sub' = [sub EXCEPT !.last = snd.cursor + 1] /\ wire' = wire
  BY <1>3 DEF ReplaySent
<1>6. /\ sub'.queue = sub.queue /\ sub'.paused = sub.paused /\ sub'.replay = sub.replay
      /\ sub'.ack = sub.ack /\ sub'.last = snd.cursor + 1
  BY <1>1, <1>5 DEF SubType
<1>7. /\ Replaying(sub', snd') /\ Replaying(sub, snd) /\ LeftFrom(sub', snd') = LeftFrom(sub, snd)
      /\ LeftTo(sub', snd') = LeftTo(sub, snd) /\ LeftFrom(sub, snd) = snd.cursor + 1
  BY <1>2, <1>3, <1>5 DEF Replaying, LeftFrom, LeftTo
<1>8. Out(wire', sub') = Out(wire, sub)
  BY <1>5, <1>6 DEF Out
<1> HIDE DEF A
<1>9. SendOk(g, A, sub', snd')
  BY <1>1, <1>2, <1>3, <1>4, <1>5, <1>6, <1>7 DEF SendOk
<1>10. QueueOk(g, A, A \cup Pending(sub', snd'), sub', t)
  <2>1. Pending(sub', snd') = Pending(sub, snd)
    BY <1>7 DEF Pending
  <2> QED
    BY <1>1, <1>6, <2>1, QueueSame
<1> QED
  BY <1>1, <1>8, <1>9, <1>10 DEF LiveOk, A

LEMMA SendsReplayLive ==
    ASSUME ShapeInv, NEW t \in Nat, LiveOk(db.log, client, Out(wire, sub), sub, snd, t), SendsReplay
    PROVE  LiveOk(db.log, client, Out(wire', sub'), sub', snd', t)
<1> DEFINE g == db.log
           A == Sent(client, Out(wire, sub))
           h == Head(snd.batch)
           n == snd.cursor + 1
<1>1. /\ sub \in SubType /\ snd \in SndType /\ SenderOk(snd) /\ snd.cursor \in Nat /\ snd.until \in Nat
      /\ wire \in Seq(Msg) /\ g \in Seq(BOOLEAN) /\ Len(g) = LastSeq /\ LastSeq \in Nat
      /\ WireOk(g, client, Out(wire, sub)) /\ QueueOk(g, A, A \cup Pending(sub, snd), sub, t)
      /\ SendOk(g, A, sub, snd)
      /\ snd.pc # "loop" => sub.ack = <<>> /\ Out(wire, sub) = wire
  BY LiveTypes
<1>2. snd.pc = "batch" /\ snd.batch # <<>> /\ sub.ack = <<>> /\ Out(wire, sub) = wire
  BY <1>1 DEF SendsReplay
<1>3. /\ h \in Item /\ h.seq = n /\ n <= snd.until /\ n \in Nat /\ h = snd.batch[1]
      /\ SentOne.pc = "batch" /\ SentOne.cursor = n /\ SentOne.until = snd.until
  BY <1>1, <1>2, BatchHead
<1>4. \A i \in 1 .. Len(SentOne.batch) : SentOne.batch[i].wanted = g[SentOne.batch[i].seq]
  BY <1>1, <1>2, BatchRest DEF SendOk
<1>5. Replaying(sub, snd) /\ LeftFrom(sub, snd) = snd.cursor /\ LeftTo(sub, snd) = snd.until
  BY <1>2 DEF Replaying, LeftFrom, LeftTo
<1>6. /\ Upto(g, A, snd.cursor) /\ snd.until <= Len(g) /\ n <= Len(g)
  BY <1>1, <1>3, <1>5 DEF SendOk
<1>7. h.wanted = g[n]
  <2>1. snd.batch \in Seq(Item) /\ 1 \in 1 .. Len(snd.batch)
    BY <1>2, Parts, Shifted DEF SenderOk
  <2> QED
    BY <1>1, <1>2, <1>3, <2>1 DEF SendOk
<1> HIDE DEF A, h, n
<1>8. CASE h.wanted
  <2> DEFINE m == Event(h)
             C == Sent(client, Append(wire, m))
  <2>1. m \in Msg /\ m.kind = "event" /\ m.seq = n
    BY <1>3 DEF Event, Item, Msg, Kinds
  <2>2. wire' = Append(wire, m) /\ sub' = sub /\ snd' = [snd EXCEPT !.pc = "sent"]
    BY <1>8 DEF SendsReplay, h
  <2> HIDE DEF m
  <2>3. snd'.pc = "sent" /\ snd'.cursor = snd.cursor /\ snd'.until = snd.until /\ snd'.batch = snd.batch
    BY <1>1, <2>2 DEF SndType
  <2>4. C = A \cup {x \in Nat : Tells(m, x)}
    BY <1>1, <1>2, <2>1, KnowsAppend DEF A
  <2>5. n \in C /\ A \subseteq C
    BY <1>3, <2>1, <2>4 DEF Tells
  <2>6. Out(wire', sub') = Append(wire, m)
    <3>1. Append(wire, m) \in Seq(Msg)
      BY <1>1, <2>1, Longer
    <3> QED
      BY <1>1, <1>2, <2>2, <3>1, OutIs
  <2> HIDE DEF C
  <2>7. \A k \in Nat : Upto(g, A, k) => Upto(g, C, k)
    BY <1>1, <2>5, UptoCovers
  <2>8. Upto(g, C, n)
    <3>1. Upto(g, C, snd.cursor)
      BY <1>1, <1>6, <2>7
    <3> QED
      BY <1>1, <1>6, <2>5, <3>1, UptoNext DEF n
  <2>9. /\ Replaying(sub', snd') /\ LeftFrom(sub', snd') = n /\ LeftTo(sub', snd') = snd.until
    BY <2>3 DEF Replaying, LeftFrom, LeftTo, n
  <2>10. SendOk(g, C, sub', snd')
    <3>1. Upto(g, C, sub.last)
      BY <1>1, <2>7 DEF SendOk, SubType
    <3> QED
      BY <1>1, <1>2, <1>6, <2>2, <2>3, <2>8, <2>9, <3>1 DEF SendOk
  <2>11. \A x \in A \cup Pending(sub, snd) : x \in C \cup Pending(sub', snd')
    <3>1. \A x \in Pending(sub, snd) : x = n \/ x \in Pending(sub', snd')
      BY <1>1, <1>5, <2>9 DEF Pending, n
    <3> QED
      BY <2>5, <3>1
  <2>12. QueueOk(g, C, C \cup Pending(sub', snd'), sub', t)
    <3> DEFINE B == A \cup Pending(sub, snd)
               D == C \cup Pending(sub', snd')
    <3>1. QueueOk(g, A, B, sub, t) /\ \A x \in B : x \in D
      BY <1>1, <2>11
    <3> HIDE DEF B, D
    <3>2. QueueOk(g, C, D, sub, t)
      BY <1>1, <2>5, <3>1, QueueCarries
    <3> QED
      BY <2>2, <3>2 DEF D
  <2>13. WireOk(g, client, Append(wire, m))
    BY <1>1, <1>2, <2>1, <2>8, WireAppend DEF C, Answers
  <2> QED
    BY <2>6, <2>10, <2>12, <2>13 DEF LiveOk, C
<1>9. CASE ~h.wanted
  <2>1. wire' = wire /\ snd' = SentOne /\ sub' = [sub EXCEPT !.last = n]
    BY <1>3, <1>9 DEF SendsReplay, h
  <2>2. /\ sub'.queue = sub.queue /\ sub'.paused = sub.paused /\ sub'.replay = sub.replay
        /\ sub'.ack = sub.ack /\ sub'.last = n
    BY <1>1, <2>1 DEF SubType
  <2>3. /\ Replaying(sub', snd') /\ LeftFrom(sub', snd') = n /\ LeftTo(sub', snd') = snd.until
    BY <1>3, <2>1 DEF Replaying, LeftFrom, LeftTo
  <2>4. Upto(g, A, n)
    BY <1>1, <1>6, <1>7, <1>9, UptoNext DEF n
  <2>5. SendOk(g, A, sub', snd')
    BY <1>1, <1>2, <1>3, <1>4, <1>6, <2>1, <2>2, <2>3, <2>4 DEF SendOk
  <2>6. \A x \in 1 .. Len(g) : g[x] /\ x \in A \cup Pending(sub, snd) => x \in A \cup Pending(sub', snd')
    <3>1. \A x \in Pending(sub, snd) : x = n \/ x \in Pending(sub', snd')
      BY <1>1, <1>5, <2>3 DEF Pending, n
    <3> QED
      BY <1>7, <1>9, <3>1
  <2>7. QueueOk(g, A, A \cup Pending(sub', snd'), sub', t)
    <3> DEFINE B == A \cup Pending(sub, snd)
               D == A \cup Pending(sub', snd')
    <3>1. QueueOk(g, A, B, sub, t) /\ \A x \in 1 .. Len(g) : g[x] /\ x \in B => x \in D
      BY <1>1, <2>6
    <3> HIDE DEF B, D
    <3>2. QueueOk(g, A, D, sub, t)
      BY <1>1, <3>1, QueueCarries
    <3> QED
      BY <2>2, <3>2, QueueSame DEF D
  <2>8. Out(wire', sub') = Out(wire, sub)
    BY <2>1, <2>2 DEF Out
  <2> QED
    BY <1>1, <2>5, <2>7, <2>8 DEF LiveOk, A
<1> QED
  BY <1>8, <1>9

LEMMA BatchDoneLive ==
    ASSUME ShapeInv, NEW t \in Nat, LiveOk(db.log, client, Out(wire, sub), sub, snd, t), BatchDone
    PROVE  LiveOk(db.log, client, Out(wire', sub'), sub', snd', t)
<1> DEFINE g == db.log
           A == Sent(client, Out(wire, sub))
<1>1. /\ sub \in SubType /\ snd \in SndType /\ snd.cursor \in Nat /\ snd.until \in Nat
      /\ WireOk(g, client, Out(wire, sub)) /\ QueueOk(g, A, A \cup Pending(sub, snd), sub, t)
      /\ SendOk(g, A, sub, snd)
      /\ snd.pc # "loop" => sub.ack = <<>>
  BY LiveTypes
<1>2. snd.pc = "batch" /\ wire' = wire /\ sub.ack = <<>>
  BY <1>1 DEF BatchDone
<1>3. Replaying(sub, snd) /\ LeftFrom(sub, snd) = snd.cursor /\ LeftTo(sub, snd) = snd.until
  BY <1>2 DEF Replaying, LeftFrom, LeftTo
<1>4. CASE sub.replay = <<>>
  <2>1. sub' = sub /\ snd'.pc = "queue"
    BY <1>4 DEF BatchDone, NoSend
  <2> HIDE DEF A
  <2>2. sub.paused
    BY <1>1, <1>2, <1>4 DEF SendOk
  <2>3. SendOk(g, A, sub', snd')
    BY <1>1, <1>2, <1>4, <2>1 DEF SendOk, Replaying
  <2>4. QueueOk(g, A, A \cup Pending(sub', snd'), sub', t)
    BY <1>1, <2>1, <2>2, QueuePaused
  <2> QED
    BY <1>1, <1>2, <2>1, <2>3, <2>4 DEF LiveOk, A
<1>5. CASE sub.replay # <<>> /\ snd.cursor < snd.until
  <2>1. sub' = [sub EXCEPT !.replay = <<snd.cursor, snd.until>>] /\ snd' = [snd EXCEPT !.pc = "reading"]
    BY <1>5 DEF BatchDone
  <2>2. /\ sub'.queue = sub.queue /\ sub'.paused = sub.paused /\ sub'.replay = <<snd.cursor, snd.until>>
        /\ sub'.ack = sub.ack /\ sub'.last = sub.last
        /\ snd'.pc = "reading" /\ snd'.cursor = snd.cursor /\ snd'.until = snd.until
    BY <1>1, <2>1 DEF SubType, SndType
  <2>3. sub'.replay # <<>>
    BY <2>2
  <2>4. Replaying(sub', snd') /\ LeftFrom(sub', snd') = snd.cursor /\ LeftTo(sub', snd') = snd.until
    BY <2>2 DEF Replaying, LeftFrom, LeftTo
  <2>5. Out(wire', sub') = Out(wire, sub)
    BY <1>2, <2>2 DEF Out
  <2> HIDE DEF A
  <2>6. SendOk(g, A, sub', snd')
    BY <1>1, <1>2, <1>3, <2>2, <2>3, <2>4 DEF SendOk
  <2>7. Pending(sub', snd') = Pending(sub, snd)
    BY <1>3, <2>4 DEF Pending
  <2>8. QueueOk(g, A, A \cup Pending(sub', snd'), sub', t)
    BY <1>1, <2>2, <2>7, QueueSame
  <2> QED
    BY <1>1, <2>5, <2>6, <2>8 DEF LiveOk, A
<1>6. CASE sub.replay # <<>> /\ ~(snd.cursor < snd.until)
  <2>1. Replayed /\ snd.until <= snd.cursor
    BY <1>1, <1>6 DEF BatchDone
  <2> QED
    BY <1>2, <2>1, ReplayedLive
<1> QED
  BY <1>4, <1>5, <1>6

LEMMA SendsQueuedLive ==
    ASSUME ShapeInv, NEW t \in Nat, LiveOk(db.log, client, Out(wire, sub), sub, snd, t), SendsQueued
    PROVE  LiveOk(db.log, client, Out(wire', sub'), sub', snd', t)
<1> DEFINE g == db.log
           A == Sent(client, Out(wire, sub))
           m == Head(sub.queue)
           q == Tail(sub.queue)
           C == Sent(client, Append(wire, m))
<1>1. /\ sub \in SubType /\ snd \in SndType /\ wire \in Seq(Msg) /\ g \in Seq(BOOLEAN)
      /\ WireOk(g, client, Out(wire, sub)) /\ QueueOk(g, A, A \cup Pending(sub, snd), sub, t)
      /\ SendOk(g, A, sub, snd) /\ sub.last \in Nat
      /\ snd.pc # "loop" => sub.ack = <<>> /\ Out(wire, sub) = wire
  BY LiveTypes
<1>2. snd.pc = "queue" /\ sub.queue # <<>> /\ sub.ack = <<>> /\ Out(wire, sub) = wire
  BY <1>1 DEF SendsQueued
<1>3. sub.queue \in Seq(Msg) /\ sub.replay = <<>> /\ ~Replaying(sub, snd) /\ Pending(sub, snd) = {}
  BY <1>1, <1>2, NonePending DEF SubType, SendOk, Replaying
<1>4. /\ Len(sub.queue) \in Nat /\ m \in Msg /\ m = sub.queue[1] /\ 1 \in 1 .. Len(sub.queue)
      /\ Len(q) = Len(sub.queue) - 1
      /\ \A i \in 1 .. Len(q) : q[i] = sub.queue[i + 1] /\ i + 1 \in 1 .. Len(sub.queue)
  BY <1>2, <1>3, Shifted
<1>5. /\ wire' = Append(wire, m) /\ sub' = [sub EXCEPT !.queue = q]
      /\ snd' = [snd EXCEPT !.pc = "queued", !.batch = <<m>>]
  BY DEF SendsQueued
<1>6. \A i \in 1 .. Len(q) + 1 : \A x \in Ahead(sub.queue, i + 1) :
         x \in Ahead(q, i) \/ (m.kind = "event" /\ x = m.seq)
  BY <1>2, <1>3, AheadTail
<1>7. C = A \cup {x \in Nat : Tells(m, x)}
  BY <1>1, <1>2, <1>4, KnowsAppend
<1>8. m.kind # "subscribed" /\ m.seq \in Nat
  BY <1>4, Parts DEF SubOk, Msg
<1>9. Ahead(sub.queue, 2) \subseteq {x \in Nat : Tells(m, x)}
  BY <1>4 DEF Ahead, Tells
<1>10. QueueOk(g, A, A, sub, t)
  BY <1>1, <1>3
<1> HIDE DEF A, C, m, q
<1>11. A \subseteq C /\ (m.kind = "event" => m.seq \in C) /\ A \cup Ahead(sub.queue, 2) \subseteq C
  BY <1>7, <1>8, <1>9 DEF Tells
<1>12. \A K : \A n \in Nat : Upto(g, K, n) /\ K \subseteq C => Upto(g, C, n)
  BY <1>1, UptoCovers
<1>13. /\ m.kind = "event" => Upto(g, C, m.seq)
       /\ m.kind = "resync" => Upto(g, A, m.seq)
       /\ m.kind # "new_store"
  <2>1. /\ m.kind = "event" => Upto(g, A \cup Ahead(sub.queue, 2), m.seq)
        /\ m.kind = "resync" => Upto(g, A, m.seq)
        /\ m.kind # "new_store"
    <3>1. 1 + 1 = 2
      OBVIOUS
    <3> QED
      BY <1>4, <1>10, <3>1 DEF QueueOk
  <2> QED
    BY <1>8, <1>11, <1>12, <2>1
<1>14. WireOk(g, client, Append(wire, m))
  BY <1>1, <1>2, <1>4, <1>8, <1>13, WireAppend DEF A, C, Answers
<1>15. /\ sub'.queue = q /\ sub'.paused = sub.paused /\ sub'.replay = <<>> /\ sub'.ack = <<>>
       /\ sub'.last = sub.last /\ snd'.pc = "queued" /\ snd'.batch = <<m>>
  BY <1>1, <1>2, <1>3, <1>5 DEF SubType, SndType
<1>16. Out(wire', sub') = Append(wire, m)
  <2>1. Append(wire, m) \in Seq(Msg)
    BY <1>1, <1>4, Longer
  <2>2. Append(wire, m) \o <<>> = Append(wire, m)
    BY <2>1, ConcatEmptySeq
  <2> QED
    BY <1>5, <1>15, <2>2 DEF Out
<1>17. ~Replaying(sub', snd') /\ Pending(sub', snd') = {}
  BY <1>15, NonePending DEF Replaying
<1>18. SendOk(g, C, sub', snd')
  <2>1. Upto(g, C, sub.last)
    BY <1>1, <1>11, <1>12 DEF SendOk
  <2>2. snd'.batch[1] = m
    BY <1>15
  <2> QED
    BY <1>13, <1>15, <1>17, <2>1, <2>2 DEF SendOk
<1>19. QueueOk(g, C, C, sub', t)
  <2>1. \A i \in 1 .. Len(q) + 1 : A \cup Ahead(sub.queue, i + 1) \subseteq C \cup Ahead(q, i)
    BY <1>6, <1>11
  <2>2. \A i \in 1 .. Len(q) + 1 : \A n \in Nat :
           Upto(g, A \cup Ahead(sub.queue, i + 1), n) => Upto(g, C \cup Ahead(q, i), n)
    <3>1. \A K, L : \A n \in Nat : Upto(g, K, n) /\ K \subseteq L => Upto(g, L, n)
      BY <1>1, UptoCovers
    <3> QED
      BY <2>1, <3>1
  <2>3. ASSUME NEW i \in 1 .. Len(q)
        PROVE  /\ q[i].kind = "event" => ~sub'.paused /\ Upto(g, C \cup Ahead(q, i + 1), q[i].seq)
               /\ q[i].kind = "resync" => Upto(g, C, q[i].seq)
               /\ q[i].kind # "new_store"
    <3>1. q[i] = sub.queue[i + 1] /\ i + 1 \in 1 .. Len(sub.queue) /\ i + 1 \in 1 .. Len(q) + 1
      BY <1>4
    <3>2. q[i].seq \in Nat
      <4>1. q[i] \in Msg
        BY <1>3, <3>1, ElementOfSeq
      <4> QED
        BY <4>1 DEF Msg
    <3>3. /\ q[i].kind = "event" => ~sub.paused /\ Upto(g, A \cup Ahead(sub.queue, (i + 1) + 1), q[i].seq)
          /\ q[i].kind = "resync" => Upto(g, A, q[i].seq)
          /\ q[i].kind # "new_store"
      BY <1>10, <3>1 DEF QueueOk
    <3> QED
      BY <1>11, <1>12, <1>15, <2>2, <3>1, <3>2, <3>3
  <2>4. ~sub'.paused => Upto(g, C \cup Ahead(q, Len(q) + 1), t)
    <3>1. Len(q) + 1 \in 1 .. Len(q) + 1 /\ (Len(q) + 1) + 1 = Len(sub.queue) + 1
      BY <1>4
    <3> QED
      BY <1>10, <1>15, <2>2, <3>1 DEF QueueOk
  <2> QED
    BY <1>15, <2>3, <2>4 DEF QueueOk
<1>20. C \cup Pending(sub', snd') = C
  BY <1>17
<1> QED
  BY <1>14, <1>16, <1>18, <1>19, <1>20 DEF LiveOk, C

LEMMA QueuedSentLive ==
    ASSUME ShapeInv, NEW t \in Nat, LiveOk(db.log, client, Out(wire, sub), sub, snd, t), QueuedSent
    PROVE  LiveOk(db.log, client, Out(wire', sub'), sub', snd', t)
<1> DEFINE g == db.log
           A == Sent(client, Out(wire, sub))
           l == IF snd.batch[1].kind = "event" THEN snd.batch[1].seq ELSE sub.last
<1>1. /\ sub \in SubType /\ snd \in SndType
      /\ WireOk(g, client, Out(wire, sub)) /\ QueueOk(g, A, A \cup Pending(sub, snd), sub, t)
      /\ SendOk(g, A, sub, snd)
      /\ snd.pc # "loop" => sub.ack = <<>>
  BY LiveTypes
<1>2. snd.pc = "queued" /\ wire' = wire /\ sub.ack = <<>> /\ sub' = [sub EXCEPT !.last = l] /\ snd'.pc = "queue"
  BY <1>1 DEF QueuedSent, NoSend
<1> HIDE DEF A
<1>3. Upto(g, A, l)
  BY <1>1, <1>2 DEF SendOk
<1> HIDE DEF l
<1>4. /\ sub'.queue = sub.queue /\ sub'.paused = sub.paused /\ sub'.replay = sub.replay
      /\ sub'.ack = sub.ack /\ sub'.last = l
  BY <1>1, <1>2 DEF SubType
<1>5. ~Replaying(sub, snd) /\ ~Replaying(sub', snd')
  BY <1>2 DEF Replaying
<1>6. Pending(sub', snd') = Pending(sub, snd)
  BY <1>5, NonePending
<1>7. SendOk(g, A, sub', snd')
  BY <1>1, <1>2, <1>3, <1>4, <1>5 DEF SendOk
<1>8. QueueOk(g, A, A \cup Pending(sub', snd'), sub', t)
  BY <1>1, <1>4, <1>6, QueueSame
<1>9. Out(wire', sub') = Out(wire, sub)
  BY <1>2, <1>4 DEF Out
<1> QED
  BY <1>1, <1>7, <1>8, <1>9 DEF LiveOk, A

LEMMA QueueEmptyLive ==
    ASSUME ShapeInv, NEW t \in Nat, LiveOk(db.log, client, Out(wire, sub), sub, snd, t), QueueEmpty
    PROVE  LiveOk(db.log, client, Out(wire', sub'), sub', snd', t)
<1> DEFINE g == db.log
           A == Sent(client, Out(wire, sub))
<1>1. /\ WireOk(g, client, Out(wire, sub)) /\ QueueOk(g, A, A \cup Pending(sub, snd), sub, t)
      /\ SendOk(g, A, sub, snd)
  BY LiveTypes
<1>2. snd.pc = "queue" /\ wire' = wire /\ sub' = sub /\ snd'.pc = "loop"
  BY DEF QueueEmpty, NoSend
<1> HIDE DEF A
<1>3. sub.replay = <<>>
  BY <1>1, <1>2 DEF SendOk
<1>4. ~Replaying(sub, snd) /\ ~Replaying(sub', snd')
  BY <1>2, <1>3 DEF Replaying
<1>5. Pending(sub', snd') = Pending(sub, snd)
  BY <1>4, NonePending
<1>6. SendOk(g, A, sub', snd')
  BY <1>1, <1>2, <1>4 DEF SendOk
<1> QED
  BY <1>1, <1>2, <1>5, <1>6 DEF LiveOk, A

LEMMA SendingLive ==
    ASSUME ShapeInv, NEW t \in Nat, LiveOk(db.log, client, Out(wire, sub), sub, snd, t), Sending
    PROVE  LiveOk(db.log, client, Out(wire', sub'), sub', snd', t)
BY AckLive, ProceedsLive, ReadsBatchLive, SendsReplayLive, ReplaySentLive, BatchDoneLive,
   SendsQueuedLive, QueuedSentLive, QueueEmptyLive DEF Sending

(* What is under way: what is on the wire, then the acknowledgement.       *)
LEMMA OutSplit ==
    ASSUME NEW w \in Seq(Msg), NEW s \in SubType, NEW i \in 1 .. Len(Out(w, s))
    PROVE  \/ i \in 1 .. Len(w) /\ Out(w, s)[i] = w[i]
           \/ s.ack # <<>> /\ i = Len(w) + 1 /\ Out(w, s)[i] = s.ack[1]
<1>1. CASE s.ack = <<>>
  BY <1>1, OutIs
<1>2. CASE s.ack # <<>>
  <2>1. s.ack[1] \in Msg /\ Out(w, s) = Append(w, s.ack[1])
    BY <1>2, OutIs
  <2>2. /\ Len(w) \in Nat /\ Len(Out(w, s)) = Len(w) + 1 /\ Out(w, s)[Len(w) + 1] = s.ack[1]
        /\ \A k \in 1 .. Len(w) : Out(w, s)[k] = w[k]
    BY <2>1, Longer
  <2> QED
    BY <1>2, <2>2
<1> QED
  BY <1>1, <1>2

LEMMA OutGens ==
    ASSUME ShapeInv, GensOk, NEW i \in 1 .. Len(Out(wire, sub)),
           Out(wire, sub)[i].kind \in {"subscribed", "new_store"}
    PROVE  Out(wire, sub)[i].gen <= hub.gen
<1>1. \/ i \in 1 .. Len(wire) /\ Out(wire, sub)[i] = wire[i]
      \/ sub.ack # <<>> /\ Out(wire, sub)[i] = sub.ack[1]
  BY OutSplit, Parts
<1> QED
  BY <1>1 DEF GensOk

LEMMA CurrentHub ==
    ASSUME ShapeInv, GensOk, Now(client, Out(wire, sub), db.gen)
    PROVE  hub.gen = db.gen
<1>1. client.gen \in Nat /\ hub.gen \in Nat /\ db.gen \in Nat /\ client.gen <= hub.gen /\ hub.gen <= db.gen
  BY Parts DEF ClientType, HubType, GensOk
<1>2. CASE client.gen = db.gen
  BY <1>1, <1>2
<1>3. CASE Len(Out(wire, sub)) > 0 /\ Out(wire, sub)[1].kind = "subscribed" /\ Out(wire, sub)[1].gen = db.gen
  <2>1. Out(wire, sub) \in Seq(Msg)
    BY OutIs, Parts
  <2>2. 1 \in 1 .. Len(Out(wire, sub))
    BY <1>3, <2>1, LenProperties
  <2>3. db.gen <= hub.gen
    BY <1>3, <2>2, OutGens
  <2> QED
    BY <1>1, <2>3
<1> QED
  BY <1>2, <1>3 DEF Now

LEMMA FanLive ==
    ASSUME ShapeInv, TailFansOut, sub.on, hub.gen = db.gen, HubOk,
           LiveOk(db.log, client, Out(wire, sub), sub, snd, hub.tail)
    PROVE  LiveOk(db.log, client, Out(wire, sub), sub', snd, hub'.tail)
<1> DEFINE N == Len(tailer.read)
           g == db.log
           o == Out(wire, sub)
<1>1. /\ N \in Nat /\ tailer.read \in Seq(Item) /\ tailer.from = hub.tail /\ hub.tail \in Nat
      /\ hub' = [hub EXCEPT !.tail = tailer.from + N] /\ hub \in HubType /\ db.gen \in Nat
      /\ sub \in SubType /\ SubOk(sub) /\ snd \in SndType /\ g \in Seq(BOOLEAN) /\ TailerOk
      /\ o \in Seq(Msg)
  BY TailFansOutShape, Parts, OutIs
<1>2. \A i \in 1 .. N : /\ tailer.read[i] \in Item /\ tailer.read[i].seq = hub.tail + i
                        /\ tailer.read[i].seq <= Len(g) /\ tailer.read[i].wanted = g[tailer.read[i].seq]
  <2>1. \A i \in 1 .. N : tailer.read[i] \in Item /\ tailer.read[i].seq = hub.tail + i
    BY <1>1, ElementOfSeq DEF TailerOk
  <2> QED
    BY <2>1 DEF HubOk, LastSeq, TailFansOut
<1>3. PICK f : Fan(f, sub, tailer.read) /\ sub' = f[N]
  BY <1>1, FansOut
<1> HIDE DEF g, o
<1> DEFINE Good(n) == f[n] \in SubType /\ SubOk(f[n]) /\ f[n].on /\ LiveOk(g, client, o, f[n], snd, hub.tail + n)
           T == {n \in 0 .. N : Good(n)}
<1>4. 0 \in T
  <2>1. f[0] = sub /\ hub.tail + 0 = hub.tail /\ 0 \in 0 .. N
    BY <1>1, <1>3 DEF Fan
  <2> QED
    BY <1>1, <2>1 DEF g, o
<1>5. ASSUME NEW n \in 1 .. N, n - 1 \in T PROVE n \in T
  <2> DEFINE s == f[n - 1]
             e == tailer.read[n]
             t == hub.tail + (n - 1)
  <2>1. f[n] = Tell(s, e) /\ Good(n - 1)
    <3>1. Good(n - 1)
      <4> HIDE DEF Good
      <4> QED
        BY <1>5
    <3>2. n \in 0 .. N /\ n # 0
      BY <1>1
    <3>3. f[n] = Tell(f[n - 1], tailer.read[n])
      BY <1>3, <3>2 DEF Fan
    <3> QED
      BY <3>1, <3>3
  <2>2. t \in Nat /\ t + 1 = hub.tail + n /\ e \in Item /\ e.seq = t + 1 /\ e.seq <= Len(g) /\ e.wanted = g[e.seq]
    BY <1>1, <1>2
  <2> HIDE DEF s, e, t
  <2>3. s \in SubType /\ SubOk(s) /\ s.on /\ LiveOk(g, client, o, s, snd, t)
    BY <2>1 DEF s, t
  <2>4. Tell(s, e) \in SubType /\ SubOk(Tell(s, e)) /\ Tell(s, e).on
    BY <1>1, <2>2, <2>3, TellShape
  <2>5. LiveOk(g, client, o, Tell(s, e), snd, t + 1)
    <3>1. g \in Seq(BOOLEAN) /\ o \in Seq(Msg) /\ snd \in SndType /\ db.gen \in Nat
      BY <1>1 DEF g, o
    <3> QED
      BY <2>2, <2>3, <3>1, TellLive
  <2>6. Good(n)
    BY <2>1, <2>2, <2>4, <2>5
  <2> QED
    BY <2>6
<1>6. N \in T
  <2> HIDE DEF N, T
  <2> QED
    BY <1>1, <1>4, <1>5, Counting
<1>7. hub'.tail = hub.tail + N
  BY <1>1 DEF HubType
<1> QED
  BY <1>3, <1>6, <1>7 DEF g, o

LEMMA WirePrefix ==
    ASSUME NEW g, NEW c, NEW w \in Seq(Msg), NEW m \in Msg, WireOk(g, c, Append(w, m))
    PROVE  WireOk(g, c, w)
<1> DEFINE o == Append(w, m)
<1>1. /\ Len(w) \in Nat /\ Len(o) = Len(w) + 1 /\ \A i \in 1 .. Len(w) : o[i] = w[i]
  BY Longer
<1>2. \A i \in 1 .. Len(w) + 1 : Knows(c, o, i) = Knows(c, w, i)
  BY KnowsAppend
<1> HIDE DEF o
<1> SUFFICES ASSUME NEW i \in 1 .. Len(w) PROVE MessageOk(g, c, w, i)
  BY DEF WireOk
<1>3. i \in 1 .. Len(w) + 1 /\ i + 1 \in 1 .. Len(w) + 1 /\ i \in 1 .. Len(o)
  BY <1>1
<1>4. o[i] = w[i] /\ Knows(c, o, i) = Knows(c, w, i) /\ Knows(c, o, i + 1) = Knows(c, w, i + 1)
  BY <1>1, <1>2, <1>3
<1>5. MessageOk(g, c, o, i)
  BY <1>3 DEF WireOk, o
<1> QED
  BY <1>4, <1>5 DEF MessageOk

(* A subscription that begins at or before what the client will know       *)
(* leaves nothing out: its replay ends where its queue begins.             *)
LEMMA SubscriptionLive ==
    ASSUME ShapeInv, NEW c, NEW w \in Seq(Msg), NEW since \in Nat, NEW d \in SndType, d.pc = "loop",
           Head1 <= LastSeq, WireOk(db.log, c, w),
           \/ c.last = 0 /\ w = <<>> /\ since >= Head1
           \/ Upto(db.log, Sent(c, w), since)
    PROVE  LiveOk(db.log, c, Out(w, Subscription(since)), Subscription(since), d, Head1)
<1> DEFINE s == Subscription(since)
           p == MinOf(since, Head1)
           m == Subscribed(p, Head1)
           g == db.log
           o == Append(w, m)
           C == Sent(c, o)
           A == Sent(c, w)
<1>1. Head1 \in Nat /\ HubNow.gen \in Nat /\ g \in Seq(BOOLEAN) /\ Len(g) = LastSeq /\ LastSeq \in Nat
  BY SubscriptionIs, Parts DEF LastSeq
<1>2. p \in Nat /\ p <= Head1 /\ p <= since /\ (p >= Head1 <=> since >= Head1) /\ (p = since \/ p = Head1)
  BY <1>1 DEF MinOf
<1>3. /\ s.queue = <<>> /\ s.paused = FALSE /\ s.last = p /\ s.ack = <<m>>
      /\ s.replay = IF since < Head1 THEN <<p, Head1>> ELSE <<>>
  BY DEF Subscription, Replay
<1> HIDE DEF p
<1>4. m \in Msg /\ m.kind = "subscribed" /\ m.seq = p /\ m.to = Head1
  BY <1>1, <1>2 DEF Subscribed, Msg, Kinds
<1> HIDE DEF m, s
<1>5. Out(w, s) = o
  BY <1>3, <1>4, AppendIsConcat DEF Out
<1>6. C = A \cup {x \in Nat : Tells(m, x)}
  BY <1>4, KnowsAppend
<1> HIDE DEF A, C, o
<1>7. A \subseteq C /\ (since >= Head1 => \A x \in 1 .. Head1 : x \in C)
  BY <1>1, <1>2, <1>4, <1>6 DEF Tells, Answers
<1>8. Upto(g, C, p)
  <2>1. CASE since >= Head1
    <3>1. p = Head1
      BY <1>1, <1>2, <2>1
    <3> QED
      BY <1>1, <1>7, <2>1, <3>1 DEF Upto
  <2>2. CASE ~(since >= Head1)
    <3>1. p = since /\ Upto(g, A, since)
      BY <1>1, <1>2, <2>2 DEF A
    <3> QED
      BY <1>1, <1>7, <3>1, UptoCovers
  <2> QED
    BY <2>1, <2>2
<1>9. WireOk(g, c, o)
  <2>1. Answers(m) => Head1 <= Len(g) /\ ((c.last = 0 /\ w = <<>>) \/ Upto(g, A, Head1))
    <3>1. Answers(m) => since >= Head1
      BY <1>2, <1>4 DEF Answers
    <3>2. since >= Head1 /\ Upto(g, A, since) => Upto(g, A, Head1)
      BY <1>1, UptoLess
    <3> QED
      BY <1>1, <3>1, <3>2 DEF A
  <2> QED
    BY <1>4, <2>1, WireAppend DEF A, o
<1>10. SendOk(g, C, s, d)
  <2>1. Replaying(s, d) => LeftFrom(s, d) = p /\ LeftTo(s, d) = Head1
    BY <1>3 DEF Replaying, LeftFrom, LeftTo
  <2> QED
    BY <1>1, <1>3, <1>8, <2>1 DEF SendOk
<1>11. QueueOk(g, C, C \cup Pending(s, d), s, Head1)
  <2>1. Len(s.queue) = 0
    BY <1>3
  <2>2. \A x \in 1 .. Head1 : g[x] => x \in C \cup Pending(s, d)
    <3>1. CASE since >= Head1
      BY <1>7, <3>1
    <3>2. CASE ~(since >= Head1)
      <4>1. s.replay = <<p, Head1>> /\ s.replay # <<>>
        BY <1>1, <1>3, <3>2
      <4>2. Replaying(s, d) /\ LeftFrom(s, d) = p /\ LeftTo(s, d) = Head1
        BY <4>1 DEF Replaying, LeftFrom, LeftTo
      <4>3. \A x \in 1 .. Head1 : x \in 1 .. p \/ x \in Pending(s, d)
        BY <1>1, <1>2, <4>2 DEF Pending
      <4> QED
        BY <1>8, <4>3 DEF Upto
    <3> QED
      BY <3>1, <3>2
  <2>3. Upto(g, (C \cup Pending(s, d)) \cup Ahead(s.queue, Len(s.queue) + 1), Head1)
    BY <1>1, <2>2 DEF Upto
  <2> QED
    BY <2>1, <2>3 DEF QueueOk
<1> QED
  BY <1>5, <1>9, <1>10, <1>11 DEF LiveOk, C, s

LEMMA BlindIs ==
    ASSUME NEW c \in CountType, NEW n, NEW b
    PROVE  /\ [c EXCEPT !.swaps = n, !.blind = b].blind = b
           /\ [c EXCEPT !.resubs = n, !.blind = b].blind = b
           /\ [c EXCEPT !.blind = b].blind = b
           /\ [c EXCEPT !.connects = n].blind = c.blind
           /\ [c EXCEPT !.events = n].blind = c.blind
BY DEF CountType

LEMMA ClientIs ==
    ASSUME ShapeInv
    PROVE  /\ client.gen \in Nat /\ client.last \in Nat /\ client.floor \in Nat /\ client.got \in SUBSET Nat
           /\ client.resume \in Nat \cup {None} /\ client \in ClientType
BY Parts DEF ClientType

LEMMA ConnectsLive ==
    ASSUME ShapeInv, GensOk, HubOk, SeenOk, KnownInv, Connects, Current'
    PROVE  LiveOk(db'.log, client', Out(wire', sub'), sub', snd', hub'.tail)
<1> DEFINE s == Subscription(Since)
           g == db.log
<1>1. /\ client.gen \in Nat /\ client.last \in Nat /\ client.resume \in Nat \cup {None} /\ client \in ClientType
      /\ hub \in HubType /\ db.gen \in Nat /\ LastSeq \in Nat /\ g \in Seq(BOOLEAN) /\ Len(g) = LastSeq
      /\ MaxSeq \in Nat
  BY ClientIs, Parts, StreamAssumption DEF LastSeq
<1>2. /\ client.status = "off" /\ hub' = HubNow /\ sub' = s /\ snd' = NoSend /\ wire' = <<>> /\ db' = db
      /\ client' = [client EXCEPT !.status = "open", !.resume = None]
  BY DEF Connects
<1>3. /\ client'.gen = client.gen /\ client'.last = client.last /\ client'.floor = client.floor
      /\ client'.got = client.got
  BY <1>1, <1>2 DEF ClientType
<1>4. ~sub.on /\ ~count.blind
  <2>1. count'.blind = count.blind
    BY Parts, BlindIs DEF Connects
  <2> QED
    BY <1>2, <2>1 DEF ShapeInv, Current
<1>5. Since \in Nat /\ Head1 \in Nat /\ HubNow.tail = Head1 /\ HubNow.gen \in Nat
  BY SinceIs, SubscriptionIs
<1>6. \A i : Knows(client', <<>>, i) = Knows(client, <<>>, i)
  BY <1>3 DEF Knows
<1>7. Out(wire', sub') = s.ack /\ s.ack = <<Subscribed(MinOf(Since, Head1), Head1)>>
  <2>1. s.ack = <<Subscribed(MinOf(Since, Head1), Head1)>>
    BY DEF Subscription
  <2>2. <<>> \o s.ack = s.ack
    BY <2>1
  <2> QED
    BY <1>2, <2>1, <2>2 DEF Out
<1>8. HubNow.gen = db.gen
  <2>1. client.gen = db.gen \/ HubNow.gen = db.gen
    <3>1. Now(client', Out(wire', sub'), db'.gen)
      BY DEF Current
    <3>2. s.ack[1].gen = HubNow.gen
      BY <1>7 DEF Subscribed
    <3> QED
      BY <1>2, <1>3, <1>7, <3>1, <3>2 DEF Now
  <2>2. client.gen <= hub.gen /\ hub.gen <= db.gen /\ hub.gen \in Nat
    BY <1>1 DEF GensOk, HubType
  <2>3. HubNow.gen = db.gen \/ HubNow.gen = hub.gen
    BY DEF HubNow
  <2> QED
    BY <1>1, <2>1, <2>2, <2>3
<1>9. Head1 <= LastSeq
  <2>1. CASE hub.tail = None
    BY <1>1, <2>1 DEF Head1
  <2>2. CASE hub.tail # None
    <3>1. hub.gen = db.gen
      BY <1>8, <2>2 DEF HubNow
    <3> QED
      BY <2>2, <3>1 DEF HubOk, Head1
  <2> QED
    BY <2>1, <2>2
<1>10. \/ client.last = 0 /\ Since >= Head1
       \/ Upto(g, Sent(client', <<>>), Since)
  <2>1. Sent(client', <<>>) = Knows(client, <<>>, 1)
    <3>1. Len(<<>>) + 1 = 1
      OBVIOUS
    <3> QED
      BY <1>6, <3>1 DEF Sent
  <2>2. CASE client.gen = db.gen /\ client.resume # None
    <3>1. Since = client.resume
      BY <2>2 DEF Since
    <3> QED
      BY <1>4, <2>1, <2>2, <3>1 DEF KnownInv
  <2>3. CASE client.gen = db.gen /\ client.resume = None /\ client.last > 0
    <3>1. Since = client.last
      BY <2>3 DEF Since
    <3> QED
      BY <1>4, <2>1, <2>3, <3>1 DEF KnownInv
  <2>4. CASE client.resume = None /\ ~(client.last > 0)
    <3>1. Since = LastSeq + MaxSeq /\ client.last = 0
      BY <1>1, <2>4 DEF Since
    <3> QED
      BY <1>1, <1>5, <1>9, <3>1
  <2>5. CASE client.gen # db.gen
    <3>1. ~(client.last > 0) /\ ~(client.resume > 0)
      BY <1>4, <2>5 DEF SeenOk, Resumes
    <3>2. client.resume # None => Since = 0
      BY <1>1, <3>1 DEF Since
    <3>3. Upto(g, Sent(client', <<>>), 0)
      BY <1>1 DEF Upto
    <3> QED
      BY <2>4, <3>1, <3>2, <3>3
  <2> QED
    BY <2>2, <2>3, <2>4, <2>5
<1>11. <<>> \in Seq(Msg) /\ NoSend \in SndType /\ NoSend.pc = "loop" /\ WireOk(g, client', <<>>)
  <2>1. NoSend.pc = "loop" /\ <<>> \in Seq(Msg)
    BY DEF NoSend
  <2> QED
    BY <2>1, IdleSender DEF WireOk
<1> HIDE DEF g, s
<1>12. LiveOk(g, client', Out(<<>>, s), s, NoSend, Head1)
  <2>1. \/ client'.last = 0 /\ <<>> = <<>> /\ Since >= Head1
        \/ Upto(g, Sent(client', <<>>), Since)
    BY <1>3, <1>10
  <2> QED
    BY <1>5, <1>9, <1>11, <2>1, SubscriptionLive DEF g, s
<1> QED
  BY <1>2, <1>5, <1>12 DEF g

LEMMA ResubscribesLive ==
    ASSUME ShapeInv, GensOk, HubOk, KnownInv, LiveInv, Resubscribes, Current'
    PROVE  LiveOk(db'.log, client', Out(wire', sub'), sub', snd', hub'.tail)
<1> DEFINE s == Subscription(client.last)
           g == db.log
<1>1. /\ client.status = "open" /\ client.last > 0 /\ hub' = HubNow /\ sub' = s
      /\ snd' = snd /\ wire' = wire /\ db' = db /\ client' = client
  BY DEF Resubscribes
<1>2. ~count.blind /\ snd.pc = "loop" /\ client.gen = db.gen
  <2>1. count'.blind = (count.blind \/ snd.pc # "loop" \/ client.gen # db.gen)
    BY Parts, BlindIs DEF Resubscribes
  <2> QED
    BY <2>1 DEF Current
<1>3. sub.on /\ hub.tail # None /\ snd \in SndType /\ wire \in Seq(Msg) /\ sub \in SubType
  BY <1>1, Parts DEF ShapeInv
<1>4. LiveOk(g, client, Out(wire, sub), sub, snd, hub.tail)
  BY <1>2, <1>3 DEF LiveInv, Current, Now
<1>5. client.last \in Nat /\ Head1 \in Nat /\ HubNow.tail = Head1 /\ g \in Seq(BOOLEAN)
  BY ClientIs, SubscriptionIs, Parts
<1>6. Head1 <= LastSeq
  <2>1. hub.gen = db.gen
    BY <1>2, CurrentHub DEF Now
  <2> QED
    BY <1>3, <2>1 DEF HubOk, Head1
<1>7. WireOk(g, client, wire)
  <2>1. CASE sub.ack = <<>>
    BY <1>3, <1>4, <2>1, OutIs DEF LiveOk
  <2>2. CASE sub.ack # <<>>
    <3>1. sub.ack[1] \in Msg /\ Out(wire, sub) = Append(wire, sub.ack[1])
      BY <1>3, <2>2, OutIs
    <3>2. WireOk(g, client, Append(wire, sub.ack[1]))
      BY <1>4, <3>1 DEF LiveOk
    <3> QED
      BY <1>3, <3>1, <3>2, WirePrefix
  <2> QED
    BY <2>1, <2>2
<1>8. Upto(g, Sent(client, wire), client.last)
  <2>1. Upto(g, Knows(client, <<>>, 1), client.last)
    BY <1>2 DEF KnownInv
  <2>2. Knows(client, <<>>, 1) \subseteq Sent(client, wire)
    BY DEF Knows, Sent
  <2> QED
    BY <1>5, <2>1, <2>2, UptoCovers
<1> HIDE DEF g, s
<1>9. LiveOk(g, client, Out(wire, s), s, snd, Head1)
  BY <1>2, <1>3, <1>5, <1>6, <1>7, <1>8, SubscriptionLive DEF g, s
<1> QED
  BY <1>1, <1>5, <1>9 DEF g

LEMMA SendCarries ==
    ASSUME NEW g \in Seq(BOOLEAN), NEW A, NEW C, NEW s \in SubType, NEW d \in SndType, SenderOk(d),
           SendOk(g, A, s, d), \A x \in 1 .. Len(g) : g[x] /\ x \in A => x \in C
    PROVE  SendOk(g, C, s, d)
<1>1. \A n \in Nat : Upto(g, A, n) => Upto(g, C, n)
  BY UptoCovers
<1>2. s.last \in Nat /\ (d.pc = "queued" => d.batch[1].seq \in Nat)
  BY DEF SubType, SenderOk, Msg
<1>3. Replaying(s, d) => Upto(g, C, LeftFrom(s, d)) /\ LeftTo(s, d) <= Len(g)
  BY <1>1, LeftTyped DEF SendOk
<1> QED
  BY <1>1, <1>2, <1>3 DEF SendOk

(* The client has received the first message.                              *)
LEMMA ShiftKnows ==
    ASSUME NEW g, NEW c, NEW e, NEW o \in Seq(Msg), o # <<>>,
           \A x \in 1 .. Len(g) : g[x] /\ (x <= c.floor \/ x \in c.got \/ Tells(o[1], x))
                                  => x <= e.floor \/ x \in e.got
    PROVE  \A i \in 1 .. Len(Tail(o)) + 1 : \A x \in 1 .. Len(g) :
              g[x] /\ x \in Knows(c, o, i + 1) => x \in Knows(e, Tail(o), i)
<1>1. /\ Len(o) \in Nat /\ Len(o) > 0 /\ Len(Tail(o)) = Len(o) - 1
      /\ \A i \in 1 .. Len(Tail(o)) : Tail(o)[i] = o[i + 1]
  BY Shifted
<1> SUFFICES ASSUME NEW i \in 1 .. Len(Tail(o)) + 1, NEW x \in 1 .. Len(g), g[x], x \in Knows(c, o, i + 1)
             PROVE  x \in Knows(e, Tail(o), i)
  OBVIOUS
<1>2. CASE x <= c.floor \/ x \in c.got \/ Tells(o[1], x)
  <2>1. x <= e.floor \/ x \in e.got
    BY <1>2
  <2> QED
    BY <2>1 DEF Knows
<1>3. CASE ~(x <= c.floor \/ x \in c.got \/ Tells(o[1], x))
  <2>1. PICK k \in 1 .. Len(o) : k < i + 1 /\ Tells(o[k], x)
    BY <1>3 DEF Knows
  <2>2. k # 1
    BY <1>3, <2>1
  <2>3. k - 1 \in 1 .. Len(Tail(o)) /\ k - 1 < i /\ Tail(o)[k - 1] = o[k]
    BY <1>1, <2>1, <2>2
  <2> QED
    BY <2>1, <2>3 DEF Knows
<1> QED
  BY <1>2, <1>3

LEMMA ShiftLive ==
    ASSUME NEW g \in Seq(BOOLEAN), NEW c, NEW e, NEW o \in Seq(Msg), o # <<>>,
           \A x \in 1 .. Len(g) : g[x] /\ (x <= c.floor \/ x \in c.got \/ Tells(o[1], x))
                                  => x <= e.floor \/ x \in e.got,
           NEW s \in SubType, NEW d \in SndType, SenderOk(d), NEW t \in Nat, LiveOk(g, c, o, s, d, t)
    PROVE  LiveOk(g, e, Tail(o), s, d, t)
<1> DEFINE w == Tail(o)
           A == Sent(c, o)
           C == Sent(e, w)
<1>1. /\ Len(o) \in Nat /\ Len(o) > 0 /\ Len(w) = Len(o) - 1
      /\ \A i \in 1 .. Len(w) : w[i] = o[i + 1] /\ i + 1 \in 1 .. Len(o)
  BY Shifted
<1>2. \A i \in 1 .. Len(w) + 1 : \A x \in 1 .. Len(g) : g[x] /\ x \in Knows(c, o, i + 1) => x \in Knows(e, w, i)
  BY ShiftKnows
<1>3. WireOk(g, c, o) /\ QueueOk(g, A, A \cup Pending(s, d), s, t) /\ SendOk(g, A, s, d)
  BY DEF LiveOk
<1> HIDE DEF w
<1>4. \A x \in 1 .. Len(g) : g[x] /\ x \in A => x \in C
  <2>1. (Len(w) + 1) + 1 = Len(o) + 1 /\ Len(w) + 1 \in 1 .. Len(w) + 1
    BY <1>1
  <2> QED
    BY <1>2, <2>1 DEF Sent
<1> HIDE DEF A, C
<1>5. \A i \in 1 .. Len(w) + 1 : \A n \in Nat : Upto(g, Knows(c, o, i + 1), n) => Upto(g, Knows(e, w, i), n)
  BY <1>2, UptoCovers
<1>6. WireOk(g, e, w)
  <2> SUFFICES ASSUME NEW i \in 1 .. Len(w) PROVE MessageOk(g, e, w, i)
    BY DEF WireOk
  <2>1. /\ w[i] = o[i + 1] /\ i + 1 \in 1 .. Len(o) /\ i + 1 # 1 /\ i \in 1 .. Len(w) + 1
        /\ i + 1 \in 1 .. Len(w) + 1
    BY <1>1
  <2>2. MessageOk(g, c, o, i + 1)
    BY <1>3, <2>1 DEF WireOk
  <2>3. o[i + 1].seq \in Nat /\ o[i + 1].to \in Nat
    <3>1. o[i + 1] \in Msg
      BY <2>1, ElementOfSeq
    <3> QED
      BY <3>1 DEF Msg
  <2> QED
    BY <1>5, <2>1, <2>2, <2>3 DEF MessageOk
<1>7. QueueOk(g, C, C \cup Pending(s, d), s, t)
  <2> DEFINE B == A \cup Pending(s, d)
             D == C \cup Pending(s, d)
  <2>1. QueueOk(g, A, B, s, t) /\ \A x \in 1 .. Len(g) : g[x] /\ x \in B => x \in D
    BY <1>3, <1>4
  <2> HIDE DEF B, D
  <2>2. QueueOk(g, C, D, s, t)
    BY <1>4, <2>1, QueueCarries
  <2> QED
    BY <2>2 DEF D
<1>8. SendOk(g, C, s, d)
  BY <1>3, <1>4, SendCarries
<1> QED
  BY <1>6, <1>7, <1>8 DEF LiveOk, w, C

LEMMA OutTail ==
    ASSUME NEW w \in Seq(Msg), w # <<>>, NEW s \in SubType
    PROVE  /\ Out(w, s) \in Seq(Msg) /\ Out(w, s) # <<>> /\ Out(w, s)[1] = Head(w)
           /\ Tail(Out(w, s)) = Out(Tail(w), s) /\ Head(w) \in Msg
<1>1. Head(w) = w[1] /\ w[1] \in Msg /\ Tail(w) \in Seq(Msg) /\ Len(w) > 0 /\ Len(w) \in Nat
  BY Shifted
<1>2. CASE s.ack = <<>>
  BY <1>1, <1>2, OutIs
<1>3. CASE s.ack # <<>>
  <2>1. /\ s.ack[1] \in Msg /\ Out(w, s) = Append(w, s.ack[1])
        /\ Out(Tail(w), s) = Append(Tail(w), s.ack[1])
    BY <1>1, <1>3, OutIs
  <2>2. Tail(Append(w, s.ack[1])) = Append(Tail(w), s.ack[1])
    BY <2>1, HeadTailAppend
  <2>3. /\ Append(w, s.ack[1]) \in Seq(Msg) /\ Append(w, s.ack[1]) # <<>>
        /\ Append(w, s.ack[1])[1] = w[1]
    BY <1>1, <2>1, Longer
  <2> QED
    BY <1>1, <2>1, <2>2, <2>3
<1> QED
  BY <1>2, <1>3

LEMMA AppliedIs ==
    ASSUME ShapeInv, NEW m \in Msg
    PROVE  /\ m.kind = "event" /\ m.seq <= client.last => Applied(m) = client
           /\ m.kind = "event" /\ m.seq > client.last =>
                 /\ Applied(m).last = m.seq /\ Applied(m).got = client.got \cup {m.seq}
                 /\ Applied(m).floor = client.floor /\ Applied(m).gen = client.gen
                 /\ Applied(m).resume = client.resume
           /\ m.kind = "subscribed" =>
                 /\ Applied(m).last = IF m.seq >= m.to THEN MaxOf(client.last, m.to) ELSE client.last
                 /\ Applied(m).floor = IF client.last = 0 /\ m.seq >= m.to THEN m.to ELSE client.floor
                 /\ Applied(m).gen = IF client.last = 0 THEN m.gen ELSE client.gen
                 /\ Applied(m).got = client.got /\ Applied(m).resume = client.resume
           /\ m.kind = "new_store" =>
                 Applied(m).last = 0 /\ Applied(m).resume = 0 /\ Applied(m).gen = m.gen
           /\ m.kind = "resync" =>
                 /\ Applied(m).resume = m.seq /\ Applied(m).last = client.last /\ Applied(m).got = client.got
                 /\ Applied(m).floor = client.floor /\ Applied(m).gen = client.gen
<1>1. client \in ClientType /\ m.seq \in Nat /\ client.last \in Nat
  BY ClientIs DEF Msg
<1>2. CASE m.kind = "event"
  <2> DEFINE got == client.got \cup {m.seq}
             n == m.seq
  <2>1. Applied(m) = IF n <= client.last THEN client ELSE [client EXCEPT !.last = n, !.got = got]
    BY <1>2 DEF Applied
  <2>2. n \in Nat
    BY <1>1
  <2> HIDE DEF got, n
  <2>3. n > client.last =>
          /\ Applied(m).last = n /\ Applied(m).got = got
          /\ Applied(m).floor = client.floor /\ Applied(m).gen = client.gen
          /\ Applied(m).resume = client.resume
    BY <1>1, <2>1, <2>2 DEF ClientType
  <2>4. n <= client.last => Applied(m) = client
    BY <2>1
  <2> QED
    BY <1>2, <2>3, <2>4 DEF got, n
<1>3. CASE m.kind = "subscribed"
  <2> DEFINE l == IF m.seq >= m.to THEN MaxOf(client.last, m.to) ELSE client.last
             f == IF client.last = 0 /\ m.seq >= m.to THEN m.to ELSE client.floor
             g == IF client.last = 0 THEN m.gen ELSE client.gen
  <2>1. Applied(m) = [client EXCEPT !.last = l, !.floor = f, !.gen = g]
    BY <1>3 DEF Applied
  <2> HIDE DEF l, f, g
  <2>2. /\ Applied(m).last = l /\ Applied(m).floor = f /\ Applied(m).gen = g
        /\ Applied(m).got = client.got /\ Applied(m).resume = client.resume
    BY <1>1, <2>1 DEF ClientType
  <2> QED
    BY <1>3, <2>2 DEF l, f, g
<1>4. CASE m.kind = "new_store"
  <2> DEFINE none == {}
  <2>1. Applied(m) = [client EXCEPT !.last = 0, !.resume = 0, !.floor = 0, !.got = none, !.gen = m.gen]
    BY <1>4 DEF Applied
  <2> HIDE DEF none
  <2>2. Applied(m).last = 0 /\ Applied(m).resume = 0 /\ Applied(m).gen = m.gen
    BY <1>1, <2>1 DEF ClientType
  <2> QED
    BY <1>4, <2>2
<1>5. CASE m.kind = "resync"
  <2>1. Applied(m) = [client EXCEPT !.resume = m.seq]
    BY <1>5 DEF Applied
  <2>2. /\ Applied(m).resume = m.seq /\ Applied(m).last = client.last /\ Applied(m).got = client.got
        /\ Applied(m).floor = client.floor /\ Applied(m).gen = client.gen
    BY <1>1, <2>1 DEF ClientType
  <2> QED
    BY <1>5, <2>2
<1> QED
  BY <1>2, <1>3, <1>4, <1>5 DEF Msg, Kinds

(* The first message takes the client on without a gap, and what it tells  *)
(* is known to the client then.                                            *)
LEMMA AppliedKnows ==
    ASSUME ShapeInv, NEW o \in Seq(Msg), o # <<>>, NEW m \in Msg, m = o[1], m.kind \in {"event", "subscribed"},
           MessageOk(db.log, client, o, 1), client.gen # db.gen => client.last = 0 /\ m.kind = "subscribed",
           client.gen = db.gen => Upto(db.log, Knows(client, <<>>, 1), client.last)
    PROVE  /\ \A x \in 1 .. LastSeq :
                 db.log[x] /\ (x <= client.floor \/ x \in client.got \/ Tells(m, x))
                 => x <= Applied(m).floor \/ x \in Applied(m).got
           /\ Upto(db.log, Knows(Applied(m), <<>>, 1), Applied(m).last)
<1> DEFINE g == db.log
           e == Applied(m)
           K == Knows(client, <<>>, 1)
           L == Knows(e, <<>>, 1)
<1>1. /\ client.last \in Nat /\ client.floor \in Nat /\ client.got \in SUBSET Nat /\ client.floor <= client.last
      /\ m.seq \in Nat /\ m.to \in Nat /\ g \in Seq(BOOLEAN) /\ Len(g) = LastSeq /\ LastSeq \in Nat
      /\ e \in ClientType /\ e.floor \in Nat /\ e.got \in SUBSET Nat
  <2>1. e \in ClientType
    BY AppliedShape
  <2> QED
    BY <2>1, ClientIs, Parts DEF ShapeInv, Msg, LastSeq, ClientType
<1>2. K = {x \in Nat : x <= client.floor \/ x \in client.got} /\ L = {x \in Nat : x <= e.floor \/ x \in e.got}
  <2>1. \A k \in 1 .. Len(<<>>) : FALSE
    OBVIOUS
  <2> QED
    BY <2>1 DEF Knows
<1>3. K = Knows(client, o, 1)
  <2>1. \A k \in 1 .. Len(o) : ~(k < 1)
    BY LenProperties
  <2> QED
    BY <1>2, <2>1 DEF Knows
<1>4. Knows(client, o, 2) = K \cup {x \in Nat : Tells(m, x)}
  <2>1. 1 \in 1 .. Len(o) /\ \A k \in 1 .. Len(o) : k < 2 => k = 1
    BY EmptySeq, LenProperties
  <2>2. \A x \in Nat : (\E k \in 1 .. Len(o) : k < 2 /\ Tells(o[k], x)) <=> Tells(m, x)
    BY <2>1
  <2> QED
    BY <1>2, <2>2 DEF Knows
<1>5. /\ m.kind = "event" => Upto(g, K \cup {x \in Nat : Tells(m, x)}, m.seq)
      /\ Answers(m) => m.to <= Len(g) /\ (client.last = 0 \/ Upto(g, K, m.to))
  <2>1. 1 + 1 = 2
    OBVIOUS
  <2> QED
    BY <1>3, <1>4, <2>1 DEF MessageOk
<1> SUFFICES /\ \A x \in 1 .. Len(g) : g[x] /\ (x \in K \/ Tells(m, x)) => x \in L
             /\ Upto(g, L, e.last)
  BY <1>1, <1>2
<1>6. CASE m.kind = "event" /\ m.seq <= client.last
  <2>1. e = client /\ client.gen = db.gen
    BY <1>6, AppliedIs
  <2>2. Upto(g, K, client.last)
    BY <2>1
  <2>3. \A x \in 1 .. Len(g) : g[x] /\ Tells(m, x) => x \in K
    BY <1>1, <1>6, <2>2 DEF Tells, Answers, Upto
  <2> QED
    BY <2>1, <2>2, <2>3
<1>7. CASE m.kind = "event" /\ m.seq > client.last
  <2>1. e.last = m.seq /\ e.got = client.got \cup {m.seq} /\ e.floor = client.floor
    BY <1>7, AppliedIs
  <2>2. \A x \in Nat : x \in K \/ Tells(m, x) => x \in L
    BY <1>2, <1>7, <2>1 DEF Tells, Answers
  <2>3. Upto(g, L, m.seq)
    BY <1>1, <1>5, <1>7, <2>2, UptoCovers
  <2> QED
    BY <1>1, <2>1, <2>2, <2>3
<1>8. CASE m.kind = "subscribed" /\ ~(m.seq >= m.to)
  <2>1. e.last = client.last /\ e.got = client.got /\ e.floor = client.floor
    BY <1>8, AppliedIs
  <2>2. L = K
    BY <1>2, <2>1
  <2>3. \A x : ~Tells(m, x)
    BY <1>8 DEF Tells, Answers
  <2>4. Upto(g, K, client.last)
    BY <1>1 DEF Upto
  <2> QED
    BY <2>1, <2>2, <2>3, <2>4
<1>9. CASE m.kind = "subscribed" /\ m.seq >= m.to /\ client.last = 0
  <2>1. e.last = m.to /\ e.got = client.got /\ e.floor = m.to
    BY <1>1, <1>9, AppliedIs DEF MaxOf
  <2>2. Answers(m) /\ m.to <= Len(g)
    BY <1>5, <1>9 DEF Answers
  <2>3. \A x \in Nat : Tells(m, x) => x <= m.to
    BY <1>9 DEF Tells
  <2>4. client.floor = 0
    BY <1>1, <1>9
  <2>5. \A x \in 1 .. Len(g) : x \in K \/ Tells(m, x) => x \in L
    BY <1>2, <2>1, <2>3, <2>4
  <2>6. Upto(g, L, m.to)
    BY <1>1, <1>2, <2>1, <2>2 DEF Upto
  <2> QED
    BY <2>1, <2>5, <2>6
<1>10. CASE m.kind = "subscribed" /\ m.seq >= m.to /\ client.last # 0
  <2>1. e.last = MaxOf(client.last, m.to) /\ e.got = client.got /\ e.floor = client.floor
    BY <1>10, AppliedIs
  <2>2. L = K
    BY <1>2, <2>1
  <2>3. Upto(g, K, client.last) /\ Upto(g, K, m.to)
    BY <1>5, <1>10 DEF Answers
  <2>4. \A x \in 1 .. Len(g) : g[x] /\ Tells(m, x) => x \in K
    BY <1>1, <1>10, <2>3 DEF Tells, Upto
  <2>5. Upto(g, K, e.last)
    BY <2>1, <2>3 DEF MaxOf
  <2> QED
    BY <2>2, <2>4, <2>5
<1> QED
  BY <1>1, <1>6, <1>7, <1>8, <1>9, <1>10

-----------------------------------------------------------------------------
(* What a step of the sender does to what is under way.                    *)
LEMMA SendingIs ==
    ASSUME ShapeInv, Sending
    PROVE  /\ UNCHANGED storeVars /\ sub'.on = sub.on
           /\ sub'.queue = sub.queue \/ (sub.queue # <<>> /\ sub'.queue = Tail(sub.queue))
           /\ \/ wire' = wire /\ sub'.ack = sub.ack /\ (sub.ack = <<>> \/ snd.pc # "loop")
              \/ /\ sub.ack # <<>> /\ snd.pc = "loop" /\ sub.ack[1] \in Msg
                 /\ wire' = Append(wire, sub.ack[1]) /\ sub'.ack = <<>>
              \/ /\ snd.pc # "loop" /\ sub'.ack = sub.ack
                 /\ \E m \in Msg : /\ wire' = Append(wire, m) /\ m.kind # "subscribed"
                                   /\ m.kind = "new_store" => sub.queue # <<>> /\ m = sub.queue[1]
<1>1. /\ sub \in SubType /\ snd \in SndType /\ wire \in Seq(Msg) /\ SubOk(sub) /\ SenderOk(snd)
      /\ sub.queue \in Seq(Msg)
  BY Parts DEF SubType
<1>2. CASE SendsAck
  <2>1. sub' = [sub EXCEPT !.ack = <<>>] /\ sub.ack[1] \in Msg
    BY <1>2, SendsAckShape DEF SendsAck
  <2>2. sub'.on = sub.on /\ sub'.queue = sub.queue /\ sub'.ack = <<>>
    BY <1>1, <2>1 DEF SubType
  <2> QED
    BY <1>2, <2>1, <2>2 DEF SendsAck
<1>3. CASE Proceeds
  BY <1>3 DEF Proceeds
<1>4. ASSUME Replayed, UNCHANGED <<storeVars, wire>>, snd.pc # "loop"
      PROVE  UNCHANGED <<storeVars, wire>> /\ sub'.on = sub.on /\ sub'.queue = sub.queue /\ sub'.ack = sub.ack
  BY <1>1, <1>4 DEF Replayed, SubType
<1>5. CASE ReadsBatch
  BY <1>4, <1>5 DEF ReadsBatch
<1>6. CASE SendsReplay /\ Head(snd.batch).wanted
  <2> DEFINE m == Event(Head(snd.batch))
  <2>1. m \in Msg /\ m.kind = "event"
    <3>1. Head(snd.batch) \in Item
      BY <1>6, BatchHead DEF SendsReplay
    <3> QED
      BY <3>1 DEF Event, Item, Msg, Kinds
  <2>2. wire' = Append(wire, m) /\ sub' = sub /\ snd.pc = "batch" /\ UNCHANGED storeVars
    BY <1>6 DEF SendsReplay
  <2> HIDE DEF m
  <2> QED
    BY <2>1, <2>2
<1>7. CASE ReplaySent \/ (SendsReplay /\ ~Head(snd.batch).wanted)
  <2> DEFINE n == Head(snd.batch).seq
  <2>1. sub' = [sub EXCEPT !.last = n] /\ wire' = wire /\ snd.pc # "loop" /\ UNCHANGED storeVars
    BY <1>7 DEF ReplaySent, SendsReplay
  <2> HIDE DEF n
  <2>2. sub'.on = sub.on /\ sub'.queue = sub.queue /\ sub'.ack = sub.ack
    BY <1>1, <2>1 DEF SubType
  <2> QED
    BY <2>1, <2>2
<1>8. CASE BatchDone
  <2>1. snd.pc = "batch" /\ UNCHANGED <<storeVars, wire>>
    BY <1>8 DEF BatchDone
  <2>2. \/ Replayed \/ sub' = sub \/ sub' = [sub EXCEPT !.replay = <<snd.cursor, snd.until>>]
    BY <1>8 DEF BatchDone
  <2>3. sub'.on = sub.on /\ sub'.queue = sub.queue /\ sub'.ack = sub.ack
    BY <1>1, <1>4, <2>1, <2>2 DEF SubType
  <2> QED
    BY <2>1, <2>3
<1>9. CASE SendsQueued
  <2> DEFINE q == Tail(sub.queue)
             m == Head(sub.queue)
  <2>1. /\ sub' = [sub EXCEPT !.queue = q] /\ snd.pc # "loop" /\ UNCHANGED storeVars
        /\ wire' = Append(wire, m) /\ sub.queue # <<>>
    BY <1>9 DEF SendsQueued
  <2>2. m \in Msg /\ m = sub.queue[1] /\ 1 \in 1 .. Len(sub.queue)
    BY <1>1, <2>1, Shifted
  <2>3. m.kind # "subscribed"
    BY <1>1, <2>2 DEF SubOk
  <2> HIDE DEF q, m
  <2>4. sub'.on = sub.on /\ sub'.queue = q /\ sub'.ack = sub.ack
    BY <1>1, <2>1 DEF SubType
  <2> QED
    BY <2>1, <2>2, <2>3, <2>4 DEF q
<1>10. CASE QueuedSent
  <2> DEFINE n == IF snd.batch[1].kind = "event" THEN snd.batch[1].seq ELSE sub.last
  <2>1. sub' = [sub EXCEPT !.last = n] /\ wire' = wire /\ snd.pc # "loop" /\ UNCHANGED storeVars
    BY <1>10 DEF QueuedSent
  <2> HIDE DEF n
  <2>2. sub'.on = sub.on /\ sub'.queue = sub.queue /\ sub'.ack = sub.ack
    BY <1>1, <2>1 DEF SubType
  <2> QED
    BY <2>1, <2>2
<1>11. CASE QueueEmpty
  BY <1>11 DEF QueueEmpty
<1> QED
  BY <1>2, <1>3, <1>5, <1>6, <1>7, <1>8, <1>9, <1>10, <1>11 DEF Sending

(* A subscriber's queue gets events and a resync of its own from the       *)
(* fan-out, and no notice of a new database.                               *)
LEMMA TellGens ==
    ASSUME NEW s \in SubType, NEW e \in Item, NEW n \in Nat, db.gen \in Nat, QueueGens(s, n)
    PROVE  QueueGens(Tell(s, e), n)
<1> DEFINE m == Event(e)
           r == Resync(s.last, "resync")
<1>1. m \in Msg /\ m.kind = "event" /\ r.kind = "resync" /\ s.queue \in Seq(Msg)
  BY DEF Event, Item, Msg, Kinds, SubType, Resync
<1> HIDE DEF m, r
<1>2. \/ Tell(s, e).queue = s.queue \/ Tell(s, e).queue = <<r>> \/ Tell(s, e).queue = Append(s.queue, m)
  BY DEF Tell, Push, SubType, m, r
<1>3. CASE Tell(s, e).queue = Append(s.queue, m)
  <2>1. /\ Len(s.queue) \in Nat /\ Len(Append(s.queue, m)) = Len(s.queue) + 1
        /\ Append(s.queue, m)[Len(s.queue) + 1] = m
        /\ \A i \in 1 .. Len(s.queue) : Append(s.queue, m)[i] = s.queue[i]
    BY <1>1, Longer
  <2> QED
    BY <1>1, <1>3, <2>1 DEF QueueGens
<1>4. CASE Tell(s, e).queue = <<r>>
  BY <1>1, <1>4 DEF QueueGens
<1>5. CASE Tell(s, e).queue = s.queue
  BY <1>5 DEF QueueGens
<1> QED
  BY <1>2, <1>3, <1>4, <1>5

LEMMA FanGens ==
    ASSUME ShapeInv, TailFansOut, NEW n \in Nat, QueueGens(sub, n)
    PROVE  QueueGens(sub', n)
<1> DEFINE N == Len(tailer.read)
<1>1. /\ N \in Nat /\ tailer.read \in Seq(Item) /\ db.gen \in Nat /\ sub \in SubType /\ SubOk(sub)
  BY TailFansOutShape, Parts
<1>2. PICK f : Fan(f, sub, tailer.read) /\ sub' = f[N]
  BY <1>1, FansOut
<1> DEFINE Good(s) == s \in SubType /\ SubOk(s) /\ QueueGens(s, n)
           T == {i \in 0 .. N : Good(f[i])}
<1>3. 0 \in T
  BY <1>1, <1>2 DEF Fan
<1>4. ASSUME NEW i \in 1 .. N, i - 1 \in T PROVE i \in T
  <2>1. Good(f[i - 1])
    <3> HIDE DEF Good
    <3> QED
      BY <1>4
  <2>2. f[i] = Tell(f[i - 1], tailer.read[i]) /\ tailer.read[i] \in Item
    <3>1. i \in 0 .. N /\ i # 0
      BY <1>1
    <3>2. f[i] = Tell(f[i - 1], tailer.read[i])
      BY <1>2, <3>1 DEF Fan
    <3> QED
      BY <1>1, <3>2, ElementOfSeq
  <2>3. Good(Tell(f[i - 1], tailer.read[i]))
    BY <1>1, <2>1, <2>2, TellShape, TellGens
  <2> QED
    BY <2>2, <2>3
<1>5. N \in T
  <2> HIDE DEF N, T
  <2> QED
    BY <1>1, <1>3, <1>4, Counting
<1> QED
  BY <1>2, <1>5

(* Each step keeps to the order of the generations.                        *)
LEMMA AppendIs ==
    ASSUME NEW q \in Seq(Msg), NEW m \in Msg, NEW i \in 1 .. Len(Append(q, m))
    PROVE  (i \in 1 .. Len(q) /\ Append(q, m)[i] = q[i]) \/ (i = Len(q) + 1 /\ Append(q, m)[i] = m)
BY Longer

LEMMA TailIs ==
    ASSUME NEW q \in Seq(Msg), q # <<>>
    PROVE  /\ Head(q) \in Msg /\ 1 \in 1 .. Len(q) /\ Head(q) = q[1]
           /\ \A i \in 1 .. Len(Tail(q)) : Tail(q)[i] = q[i + 1] /\ i + 1 \in 1 .. Len(q)
BY Shifted

LEMMA GensTyped ==
    ASSUME ShapeInv
    PROVE  /\ client.gen \in Nat /\ hub.gen \in Nat /\ db.gen \in Nat /\ hub \in HubType /\ db \in DbType
           /\ sub \in SubType /\ wire \in Seq(Msg) /\ sub.queue \in Seq(Msg)
           /\ \A i \in 1 .. Len(wire) : wire[i] \in Msg /\ wire[i].gen \in Nat
           /\ \A i \in 1 .. Len(sub.queue) : sub.queue[i] \in Msg /\ sub.queue[i].gen \in Nat
           /\ sub.ack # <<>> => sub.ack[1] \in Msg /\ sub.ack[1].gen \in Nat
<1>1. /\ sub \in SubType /\ wire \in Seq(Msg) /\ hub \in HubType /\ db \in DbType
  BY Parts
<1>2. sub.queue \in Seq(Msg) /\ (sub.ack # <<>> => sub.ack[1] \in Msg)
  BY <1>1 DEF SubType
<1>3. /\ \A i \in 1 .. Len(wire) : wire[i] \in Msg
      /\ \A i \in 1 .. Len(sub.queue) : sub.queue[i] \in Msg
  BY <1>1, <1>2, ElementOfSeq
<1>4. \A m \in Msg : m.gen \in Nat
  BY DEF Msg
<1> QED
  BY <1>1, <1>2, <1>3, <1>4, ClientIs DEF HubType, DbType

(* A hub that moves on takes what is under way with it.                    *)
LEMMA GensUp ==
    ASSUME ShapeInv, GensOk, NEW n \in Nat, hub.gen <= n
    PROVE  /\ client.gen <= n
           /\ \A i \in 1 .. Len(wire) : wire[i].kind \in {"subscribed", "new_store"} => wire[i].gen <= n
           /\ sub.ack # <<>> => sub.ack[1].gen <= n
           /\ QueueGens(sub, n)
BY GensTyped DEF GensOk, QueueGens

LEMMA TailBeginsGens ==
    ASSUME ShapeInv, GensOk, TailBegins
    PROVE  GensOk'
<1>1. /\ client.gen \in Nat /\ hub.gen \in Nat /\ db.gen \in Nat /\ hub.gen <= db.gen
      /\ db' = db /\ wire' = wire /\ client' = client
  BY GensTyped DEF GensOk, TailBegins
<1>2. CASE hub.conn # conn /\ hub.fp # 0 /\ Fingerprint # hub.fp
  <2> DEFINE m == Resync(0, "new_store")
  <2>1. /\ hub'.gen = db.gen
        /\ sub' = IF sub.on THEN [sub EXCEPT !.queue = <<m>>, !.paused = TRUE, !.replay = <<>>] ELSE sub
    BY <1>2 DEF TailBegins
  <2>2. m \in Msg /\ m.gen = db.gen /\ m.kind = "new_store"
    BY <1>1 DEF Resync, Msg, Kinds
  <2> HIDE DEF m
  <2>3. sub \in SubType /\ SubOk(sub)
    BY Parts
  <2>4. CASE sub.on
    <3>1. sub'.ack = sub.ack /\ sub'.queue = <<m>>
      <4>1. Overs(sub', sub, m)
        BY <2>1, <2>4 DEF Overs
      <4>2. m.kind # "subscribed"
        BY <2>2
      <4> QED
        BY <2>2, <2>3, <4>1, <4>2, OverShape
    <3>2. QueueGens(sub', db.gen)
      BY <1>1, <2>2, <3>1 DEF QueueGens
    <3> QED
      BY <1>1, <2>1, <3>1, <3>2, GensUp DEF GensOk
  <2>5. CASE ~sub.on
    BY <1>1, <2>1, <2>5, GensUp DEF GensOk
  <2> QED
    BY <2>4, <2>5
<1>3. CASE ~(hub.conn # conn /\ hub.fp # 0 /\ Fingerprint # hub.fp)
  <2> DEFINE p == IF hub.conn = conn THEN hub.fp ELSE Fingerprint
  <2>1. sub' = sub /\ hub' = [hub EXCEPT !.conn = conn, !.fp = p]
    BY <1>3 DEF TailBegins
  <2> HIDE DEF p
  <2>2. hub'.gen = hub.gen
    BY <2>1, GensTyped DEF HubType
  <2> QED
    BY <1>1, <2>1, <2>2 DEF GensOk
<1> QED
  BY <1>2, <1>3

LEMMA FanGensStay ==
    ASSUME ShapeInv, GensOk, TailFansOut
    PROVE  GensOk' /\ hub'.gen = hub.gen
<1>1. hub'.gen = hub.gen /\ sub'.ack = sub.ack /\ db' = db /\ wire' = wire /\ client' = client
  BY TailFansOutShape, FanShape, GensTyped DEF HubType, TailFansOut
<1>2. QueueGens(sub', hub.gen)
  BY FanGens, GensTyped DEF GensOk
<1> QED
  BY <1>1, <1>2 DEF GensOk

LEMMA SendingGens ==
    ASSUME ShapeInv, GensOk, Sending
    PROVE  GensOk'
<1>1. /\ wire \in Seq(Msg) /\ sub.queue \in Seq(Msg) /\ hub' = hub /\ db' = db /\ client' = client
  BY GensTyped, SendingIs DEF storeVars
<1>2. QueueGens(sub', hub.gen)
  <2>1. CASE sub'.queue = sub.queue
    BY <2>1 DEF GensOk, QueueGens
  <2>2. CASE sub.queue # <<>> /\ sub'.queue = Tail(sub.queue)
    BY <1>1, <2>2, TailIs DEF GensOk, QueueGens
  <2> QED
    BY <2>1, <2>2, SendingIs
<1>3. sub'.ack # <<>> => sub'.ack[1].gen <= hub.gen
  BY SendingIs DEF GensOk
<1>4. \A i \in 1 .. Len(wire') : wire'[i].kind \in {"subscribed", "new_store"} => wire'[i].gen <= hub.gen
  <2>1. CASE wire' = wire
    BY <2>1 DEF GensOk
  <2>2. ASSUME NEW m \in Msg, wire' = Append(wire, m),
               m.kind \in {"subscribed", "new_store"} => m.gen <= hub.gen
        PROVE  \A i \in 1 .. Len(wire') : wire'[i].kind \in {"subscribed", "new_store"} => wire'[i].gen <= hub.gen
    BY <1>1, <2>2, AppendIs DEF GensOk
  <2>3. CASE sub.ack # <<>> /\ sub.ack[1] \in Msg /\ wire' = Append(wire, sub.ack[1])
    BY <2>2, <2>3 DEF GensOk
  <2>4. ASSUME NEW m \in Msg, wire' = Append(wire, m), m.kind # "subscribed",
               m.kind = "new_store" => sub.queue # <<>> /\ m = sub.queue[1]
        PROVE  \A i \in 1 .. Len(wire') : wire'[i].kind \in {"subscribed", "new_store"} => wire'[i].gen <= hub.gen
    <3>1. m.kind = "new_store" => m.gen <= hub.gen
      <4> SUFFICES ASSUME m.kind = "new_store" PROVE m.gen <= hub.gen
        OBVIOUS
      <4>1. 1 \in 1 .. Len(sub.queue) /\ m = sub.queue[1]
        BY <1>1, <2>4, TailIs
      <4> QED
        BY <4>1 DEF GensOk, QueueGens
    <3> QED
      BY <2>2, <2>4, <3>1
  <2> QED
    BY <2>1, <2>3, <2>4, SendingIs
<1> QED
  BY <1>1, <1>2, <1>3, <1>4 DEF GensOk

LEMMA SubscribedGens ==
    ASSUME ShapeInv, GensOk, hub' = HubNow, NEW since \in Nat, sub' = Subscription(since), db' = db,
           client'.gen = client.gen, wire' = wire \/ wire' = <<>>
    PROVE  GensOk'
<1>1. HubNow.gen \in Nat /\ hub.gen <= HubNow.gen /\ HubNow.gen <= db.gen
  BY GensTyped DEF GensOk, HubNow
<1>2. sub'.ack[1].gen = HubNow.gen /\ sub'.queue = <<>>
  BY DEF Subscription, Subscribed
<1>3. QueueGens(sub', hub'.gen)
  BY <1>2 DEF QueueGens
<1> QED
  BY <1>1, <1>2, <1>3, GensUp DEF GensOk

LEMMA DisconnectsGens ==
    ASSUME ShapeInv, GensOk, NEW c \in ClientType, Disconnects(c), c.gen <= hub.gen, UNCHANGED <<db, hub>>
    PROVE  GensOk'
<1>1. client'.gen = c.gen /\ wire' = <<>> /\ sub' = NoSub
  BY DEF Disconnects, ClientType
<1>2. sub'.ack = <<>> /\ sub'.queue = <<>>
  BY <1>1 DEF NoSub
<1> QED
  BY <1>1, <1>2 DEF GensOk, QueueGens

LEMMA ReceivesGens ==
    ASSUME ShapeInv, GensOk, Receives
    PROVE  GensOk'
<1> DEFINE m == Head(wire)
<1>1. /\ wire \in Seq(Msg) /\ wire # <<>> /\ m \in Msg /\ 1 \in 1 .. Len(wire) /\ m = wire[1]
      /\ \A i \in 1 .. Len(Tail(wire)) : Tail(wire)[i] = wire[i + 1] /\ i + 1 \in 1 .. Len(wire)
      /\ UNCHANGED <<db, hub>>
  BY GensTyped, TailIs DEF Receives
<1> HIDE DEF m
<1>2. Applied(m) \in ClientType /\ m.kind \in Kinds
  BY <1>1, AppliedShape DEF Msg
<1>3. Applied(m).gen <= hub.gen
  <2>1. Applied(m).gen = client.gen \/ (m.kind \in {"subscribed", "new_store"} /\ Applied(m).gen = m.gen)
    <3>1. m.seq \in Nat /\ client.last \in Nat
      BY <1>1, ClientIs DEF Msg
    <3>2. m.seq <= client.last \/ m.seq > client.last
      BY <3>1
    <3> QED
      BY <1>1, <1>2, <3>2, AppliedIs DEF Kinds
  <2> QED
    BY <1>1, <2>1 DEF GensOk
<1>4. CASE m.kind \in {"resync", "new_store"}
  BY <1>1, <1>2, <1>3, <1>4, DisconnectsGens DEF Receives, m
<1>5. CASE m.kind \notin {"resync", "new_store"}
  <2>1. client' = Applied(m) /\ wire' = Tail(wire) /\ sub' = sub
    BY <1>5 DEF Receives, m
  <2> QED
    BY <1>1, <1>3, <2>1 DEF GensOk
<1> QED
  BY <1>4, <1>5

LEMMA GensStay ==
    ASSUME ShapeInv, GensOk, StreamNext
    PROVE  GensOk'
<1>1. ASSUME NEW wanted \in BOOLEAN, Append1(wanted) PROVE GensOk'
  <2>1. db'.gen = db.gen
    BY <1>1, GensTyped DEF Append1, DbType
  <2> QED
    BY <1>1, <2>1 DEF Append1, GensOk, QueueGens
<1>2. ASSUME NEW new \in BOOLEAN, Swap(new) PROVE GensOk'
  <2>1. db'.gen \in Nat /\ db.gen <= db'.gen
    BY <1>2, GensTyped DEF Swap
  <2>2. hub.gen <= db'.gen
    BY <2>1, GensTyped DEF GensOk
  <2> QED
    BY <1>2, <2>2 DEF Swap, GensOk, QueueGens
<1>3. CASE TailReads
  BY <1>3 DEF TailReads, GensOk, QueueGens
<1>4. CASE Connects
  <2>1. client'.gen = client.gen
    BY <1>4, ClientIs DEF Connects, ClientType
  <2> QED
    BY <1>4, <2>1, SinceIs, SubscribedGens DEF Connects
<1>5. CASE Resubscribes
  BY <1>5, SinceIs, SubscribedGens DEF Resubscribes
<1>6. CASE Drops
  BY <1>6, ClientIs, DisconnectsGens DEF Drops, GensOk
<1> QED
  BY <1>1, <1>2, <1>3, <1>4, <1>5, <1>6, TailBeginsGens, FanGensStay, SendingGens, ReceivesGens
  DEF StreamNext, Tailing

(* The acknowledgement stays the first for a client that has nothing.      *)
LEMMA FreshAck ==
    ASSUME NEW w \in Seq(Msg), NEW m \in Msg, w = <<>> \/ m.kind # "subscribed",
           \A i \in 1 .. Len(w) : w[i].kind = "subscribed" => i = 1
    PROVE  \A i \in 1 .. Len(Append(w, m)) : Append(w, m)[i].kind = "subscribed" => i = 1
<1>1. w = <<>> => Len(w) + 1 = 1
  OBVIOUS
<1> QED
  BY <1>1, AppendIs

LEMMA AckFirstStays ==
    ASSUME ShapeInv, AckFirst, StreamNext
    PROVE  AckFirst'
<1>0. wire \in Seq(Msg) /\ sub \in SubType /\ client \in ClientType /\ client.last \in Nat
  BY GensTyped, ClientIs
<1>1. CASE Sending
  <2> SUFFICES ASSUME client.last = 0
               PROVE  /\ \A i \in 1 .. Len(wire') : wire'[i].kind = "subscribed" => i = 1
                      /\ sub'.ack # <<>> => wire' = <<>> /\ snd'.pc = "loop"
    BY <1>1, SendingIs DEF storeVars, AckFirst
  <2>1. /\ \A i \in 1 .. Len(wire) : wire[i].kind = "subscribed" => i = 1
        /\ sub.ack # <<>> => wire = <<>> /\ snd.pc = "loop"
    BY DEF AckFirst
  <2>2. CASE wire' = wire /\ sub'.ack = sub.ack /\ (sub.ack = <<>> \/ snd.pc # "loop")
    BY <2>1, <2>2
  <2>3. CASE /\ sub.ack # <<>> /\ snd.pc = "loop" /\ sub.ack[1] \in Msg
             /\ wire' = Append(wire, sub.ack[1]) /\ sub'.ack = <<>>
    BY <1>0, <2>1, <2>3, FreshAck
  <2>4. CASE /\ snd.pc # "loop" /\ sub'.ack = sub.ack
             /\ \E m \in Msg : wire' = Append(wire, m) /\ m.kind # "subscribed"
    BY <1>0, <2>1, <2>4, FreshAck
  <2> QED
    BY <1>1, <2>2, <2>3, <2>4, SendingIs
<1>2. CASE TailBegins
  <2>1. sub'.ack = sub.ack
    <3> DEFINE m == Resync(0, "new_store")
    <3>1. sub' = sub \/ sub' = [sub EXCEPT !.queue = <<m>>, !.paused = TRUE, !.replay = <<>>]
      BY <1>2 DEF TailBegins
    <3> HIDE DEF m
    <3> QED
      BY <1>0, <3>1 DEF SubType
  <2> QED
    BY <1>2, <2>1 DEF TailBegins, AckFirst
<1>3. CASE TailFansOut
  BY <1>3, FanShape DEF TailFansOut, AckFirst
<1>4. CASE Connects
  <2>1. wire' = <<>> /\ snd'.pc = "loop" /\ \A i \in 1 .. Len(wire') : FALSE
    BY <1>4 DEF Connects, NoSend
  <2> QED
    BY <2>1 DEF AckFirst
<1>5. CASE Resubscribes
  BY <1>5 DEF Resubscribes, AckFirst
<1>6. ASSUME NEW c, Disconnects(c) PROVE AckFirst'
  <2>1. wire' = <<>> /\ sub'.ack = <<>> /\ \A i \in 1 .. Len(wire') : FALSE
    BY <1>6 DEF Disconnects, NoSub
  <2> QED
    BY <2>1 DEF AckFirst
<1>7. CASE Receives
  <2> DEFINE m == Head(wire)
  <2>1. /\ wire # <<>> /\ m \in Msg /\ 1 \in 1 .. Len(wire) /\ m = wire[1]
        /\ \A i \in 1 .. Len(Tail(wire)) : Tail(wire)[i] = wire[i + 1] /\ i + 1 \in 1 .. Len(wire)
    BY <1>0, <1>7, TailIs DEF Receives
  <2>2. CASE m.kind \in {"resync", "new_store"}
    BY <1>6, <1>7, <2>2 DEF Receives
  <2>3. CASE m.kind \notin {"resync", "new_store"}
    <3>1. client' = Applied(m) /\ wire' = Tail(wire) /\ sub' = sub /\ snd' = snd
      BY <1>7, <2>3 DEF Receives
    <3> HIDE DEF m
    <3>2. m.kind \in {"event", "subscribed"} /\ m.seq \in Nat /\ m.to \in Nat
      BY <2>1, <2>3 DEF Msg, Kinds
    <3>3. client'.last >= client.last /\ client'.last \in Nat
      <4>1. m.seq <= client.last \/ m.seq > client.last
        BY <1>0, <3>2
      <4>2. client'.last \in {client.last, m.seq, m.to} /\ client'.last >= client.last
        BY <1>0, <2>1, <3>1, <3>2, <4>1, AppliedIs DEF MaxOf
      <4> QED
        BY <1>0, <3>2, <4>2
    <3> SUFFICES ASSUME client'.last = 0
                 PROVE  /\ \A i \in 1 .. Len(wire') : wire'[i].kind = "subscribed" => i = 1
                        /\ sub'.ack # <<>> => wire' = <<>> /\ snd'.pc = "loop"
      BY DEF AckFirst
    <3>4. client.last = 0
      BY <1>0, <3>3
    <3>5. \A i \in 1 .. Len(wire) : wire[i].kind = "subscribed" => i = 1
      BY <3>4 DEF AckFirst
    <3>6. sub.ack = <<>>
      BY <2>1, <3>4 DEF AckFirst
    <3>7. \A i \in 1 .. Len(Tail(wire)) : i + 1 # 1 /\ Tail(wire)[i].kind # "subscribed"
      <4>1. \A i \in 1 .. Len(Tail(wire)) : i \in Nat /\ i >= 1
        BY <1>0, <2>1, Shifted
      <4> QED
        BY <2>1, <3>5, <4>1
    <3> QED
      BY <3>1, <3>6, <3>7
  <2> QED
    BY <2>2, <2>3
<1>8. CASE Drops
  BY <1>6, <1>8 DEF Drops
<1>9. CASE TailReads \/ (\E wanted \in BOOLEAN : Append1(wanted)) \/ (\E new \in BOOLEAN : Swap(new))
  BY <1>9 DEF TailReads, Append1, Swap, AckFirst
<1> QED
  BY <1>1, <1>2, <1>3, <1>4, <1>5, <1>7, <1>8, <1>9 DEF StreamNext, Tailing

(* A client that is on does not resume, and nothing is under way to one    *)
(* that is off.                                                            *)
LEMMA ReceivesIs ==
    ASSUME ShapeInv, Receives
    PROVE  /\ wire \in Seq(Msg) /\ wire # <<>> /\ Head(wire) \in Msg /\ Head(wire) = wire[1] /\ sub.on
           /\ Applied(Head(wire)) \in ClientType
           /\ \/ Head(wire).kind \in {"resync", "new_store"} /\ Disconnects(Applied(Head(wire)))
              \/ /\ Head(wire).kind \in {"event", "subscribed"} /\ client' = Applied(Head(wire))
                 /\ wire' = Tail(wire) /\ sub' = sub /\ snd' = snd /\ count' = count
                 /\ Applied(Head(wire)).resume = client.resume
           /\ UNCHANGED <<db, conn, hub, tailer>>
<1> DEFINE m == Head(wire)
<1>1. wire \in Seq(Msg) /\ wire # <<>> /\ m \in Msg /\ m = wire[1] /\ sub.on
  BY GensTyped, TailIs DEF Receives, ShapeInv
<1>2. CASE m.kind \in {"resync", "new_store"}
  BY <1>1, <1>2, AppliedShape DEF Receives
<1>3. CASE m.kind \notin {"resync", "new_store"}
  <2>1. client' = Applied(m) /\ wire' = Tail(wire) /\ sub' = sub /\ snd' = snd /\ count' = count
    BY <1>3 DEF Receives
  <2>2. UNCHANGED <<db, conn, hub, tailer>>
    BY DEF Receives
  <2> HIDE DEF m
  <2>3. m.kind \in {"event", "subscribed"} /\ m.seq \in Nat /\ client.last \in Nat
    BY <1>1, <1>3, ClientIs DEF Msg, Kinds
  <2>4. m.seq <= client.last \/ m.seq > client.last
    BY <2>3
  <2>5. Applied(m).resume = client.resume /\ Applied(m) \in ClientType
    BY <1>1, <2>3, <2>4, AppliedIs, AppliedShape
  <2> QED
    BY <1>1, <2>1, <2>2, <2>3, <2>5 DEF m
<1> QED
  BY <1>2, <1>3

LEMMA IdleStays ==
    ASSUME ShapeInv, IdleOk, StreamNext
    PROVE  IdleOk'
<1>0. sub \in SubType /\ client \in ClientType
  BY GensTyped, ClientIs
<1>1. CASE Sending
  <2>1. wire' = wire \/ sub.on
    BY <1>1 DEF Sending, SendsAck, Proceeds, ReadsBatch, Replayed, SendsReplay, ReplaySent, BatchDone,
         SendsQueued, QueuedSent, QueueEmpty, Room
  <2> QED
    BY <1>1, <2>1, SendingIs DEF IdleOk, storeVars
<1>2. CASE TailBegins
  <2>1. sub'.ack = sub.ack /\ sub'.on = sub.on
    <3> DEFINE m == Resync(0, "new_store")
    <3>1. sub' = sub \/ sub' = [sub EXCEPT !.queue = <<m>>, !.paused = TRUE, !.replay = <<>>]
      BY <1>2 DEF TailBegins
    <3> HIDE DEF m
    <3> QED
      BY <1>0, <3>1 DEF SubType
  <2> QED
    BY <1>2, <2>1 DEF TailBegins, IdleOk
<1>3. CASE TailFansOut
  BY <1>3, FanShape DEF TailFansOut, IdleOk
<1>4. CASE Connects
  <2>1. client'.resume = None /\ sub'.on
    BY <1>0, <1>4 DEF Connects, ClientType, Subscription
  <2> QED
    BY <2>1 DEF IdleOk
<1>5. CASE Resubscribes
  BY <1>5 DEF Resubscribes, IdleOk, Subscription, ShapeInv
<1>6. ASSUME NEW c, Disconnects(c) PROVE IdleOk'
  <2>1. wire' = <<>> /\ sub'.ack = <<>> /\ ~sub'.on
    BY <1>6 DEF Disconnects, NoSub
  <2> QED
    BY <2>1 DEF IdleOk
<1>7. CASE Receives
  BY <1>6, <1>7, ReceivesIs DEF IdleOk
<1>8. CASE Drops
  BY <1>6, <1>8 DEF Drops
<1>9. CASE TailReads \/ (\E wanted \in BOOLEAN : Append1(wanted)) \/ (\E new \in BOOLEAN : Swap(new))
  BY <1>9 DEF TailReads, Append1, Swap, IdleOk
<1> QED
  BY <1>1, <1>2, <1>3, <1>4, <1>5, <1>7, <1>8, <1>9 DEF StreamNext, Tailing

(* The hub stays within the log of its database.                           *)
LEMMA HubStays ==
    ASSUME ShapeInv, GensOk, HubOk, StreamNext
    PROVE  HubOk'
<1>0. /\ hub.gen \in Nat /\ db.gen \in Nat /\ hub.gen <= db.gen /\ hub \in HubType /\ db \in DbType
      /\ LastSeq \in Nat /\ tailer \in TailerType
  BY GensTyped, Parts DEF GensOk
<1>1. ASSUME NEW wanted \in BOOLEAN, Append1(wanted) PROVE HubOk'
  <2>1. /\ db'.gen = db.gen /\ db'.log = Append(db.log, wanted) /\ hub' = hub /\ tailer' = tailer
        /\ db.log \in Seq(BOOLEAN)
    BY <1>0, <1>1 DEF Append1, DbType
  <2>2. LastSeq' = LastSeq + 1 /\ \A i \in 1 .. LastSeq : db'.log[i] = db.log[i]
    BY <2>1, AppendProperties, LenProperties DEF LastSeq
  <2>3. hub.gen = db.gen /\ hub.tail # None => hub.tail \in Nat /\ hub.tail <= LastSeq
    BY <1>0 DEF HubType, HubOk
  <2>4. \A i \in 1 .. Len(tailer.read) : tailer.read[i].seq \in Nat /\ tailer.read[i].seq > 0
    <3>1. tailer.read \in Seq(Item) /\ tailer.from \in Nat
      BY <1>0 DEF TailerType
    <3>2. \A i \in 1 .. Len(tailer.read) : tailer.read[i].seq = tailer.from + i
      BY Parts DEF TailerOk
    <3> QED
      BY <3>1, <3>2, LenProperties
  <2>5. hub.gen = db.gen /\ tailer.pc = "read" =>
          \A i \in 1 .. Len(tailer.read) :
             tailer.read[i].seq \in 1 .. LastSeq /\ tailer.read[i].wanted = db.log[tailer.read[i].seq]
    BY <1>0, <2>4 DEF HubOk
  <2>6. hub.gen = db.gen /\ tailer.pc = "read" =>
          \A i \in 1 .. Len(tailer.read) :
             tailer.read[i].seq <= LastSeq + 1 /\ tailer.read[i].wanted = db'.log[tailer.read[i].seq]
    BY <1>0, <2>2, <2>5
  <2> QED
    <3>1. hub'.gen = db'.gen /\ hub'.tail # None => hub'.tail <= LastSeq'
      BY <1>0, <2>1, <2>2, <2>3
    <3>2. hub'.gen = db'.gen /\ tailer'.pc = "read" =>
            \A i \in 1 .. Len(tailer'.read) :
               tailer'.read[i].seq <= LastSeq' /\ tailer'.read[i].wanted = db'.log[tailer'.read[i].seq]
      BY <2>1, <2>2, <2>6
    <3> QED
      BY <3>1, <3>2 DEF HubOk
<1>2. ASSUME NEW new \in BOOLEAN, Swap(new) PROVE HubOk'
  <2>1. hub' = hub /\ tailer' = tailer
    BY <1>2 DEF Swap
  <2>2. CASE new
    <3>1. db'.gen = db.gen + 1
      BY <1>2, <2>2 DEF Swap
    <3>2. hub'.gen # db'.gen
      BY <1>0, <2>1, <3>1
    <3> QED
      BY <3>2 DEF HubOk
  <2>3. CASE ~new
    <3>1. db' = db
      BY <1>2, <2>3 DEF Swap
    <3> QED
      BY <2>1, <3>1 DEF HubOk, LastSeq
  <2> QED
    BY <2>2, <2>3
<1>3. CASE TailBegins
  <2>1. tailer.pc = "idle" /\ db' = db
    BY <1>3 DEF TailBegins
  <2>2. CASE hub.conn # conn /\ hub.fp # 0 /\ Fingerprint # hub.fp
    <3>1. hub'.tail = LastSeq /\ tailer' = tailer
      BY <1>3, <2>2 DEF TailBegins
    <3> QED
      BY <1>0, <2>1, <3>1 DEF HubOk, LastSeq
  <2>3. CASE ~(hub.conn # conn /\ hub.fp # 0 /\ Fingerprint # hub.fp)
    <3> DEFINE p == IF hub.conn = conn THEN hub.fp ELSE Fingerprint
               from == hub.tail
    <3>1. hub' = [hub EXCEPT !.conn = conn, !.fp = p] /\ tailer' = [Resting EXCEPT !.pc = "reading", !.from = from, !.conn = conn]
      BY <1>3, <2>3 DEF TailBegins
    <3> HIDE DEF p, from
    <3>2. hub'.gen = hub.gen /\ hub'.tail = hub.tail /\ tailer'.pc = "reading"
      BY <1>0, <3>1 DEF HubType, Resting
    <3> QED
      BY <2>1, <3>2 DEF HubOk, LastSeq
  <2> QED
    BY <2>2, <2>3
<1>4. CASE TailReads
  <2> DEFINE upto == MinOf(tailer.from + Batch, LastSeq)
             r == Read(tailer.from, upto)
  <2>1. hub' = hub /\ db' = db /\ db.log' = db.log
    BY <1>4 DEF TailReads
  <2>2. CASE tailer.conn # conn \/ upto <= tailer.from
    <3>1. tailer'.pc = "idle"
      BY <1>4, <2>2 DEF TailReads, Resting
    <3> QED
      BY <2>1, <3>1 DEF HubOk, LastSeq
  <2>3. CASE ~(tailer.conn # conn \/ upto <= tailer.from)
    <3>1. tailer' = [tailer EXCEPT !.pc = "read", !.read = r]
      BY <1>4, <2>3 DEF TailReads
    <3>2. upto \in Nat /\ tailer.from \in Nat /\ tailer.from < upto /\ upto <= LastSeq
      BY <1>0, <2>3, StreamAssumption DEF TailerType, MinOf
    <3> HIDE DEF upto
    <3>3. /\ Len(r) = upto - tailer.from
          /\ \A i \in 1 .. (upto - tailer.from) : /\ r[i].seq = tailer.from + i
                                                  /\ r[i].wanted = db.log[tailer.from + i]
      BY <1>0, <3>2, ReadOk
    <3> HIDE DEF r
    <3>4. tailer'.read = r
      BY <1>0, <3>1 DEF TailerType
    <3>5. \A i \in 1 .. Len(r) : r[i].seq <= LastSeq /\ r[i].wanted = db.log[r[i].seq]
      BY <1>0, <3>2, <3>3
    <3> QED
      BY <2>1, <3>4, <3>5 DEF HubOk, LastSeq
  <2> QED
    BY <2>2, <2>3
<1>5. CASE TailFansOut
  <2>1. /\ hub'.gen = hub.gen /\ hub'.tail = tailer.from + Len(tailer.read) /\ db' = db
        /\ tailer'.pc = "idle" /\ tailer.pc = "read"
    BY <1>0, <1>5, TailFansOutShape DEF HubType, TailFansOut, Resting
  <2>2. Len(tailer.read) \in 1 .. Len(tailer.read) /\ tailer.read[Len(tailer.read)].seq = tailer.from + Len(tailer.read)
    <3>1. Len(tailer.read) \in Nat /\ Len(tailer.read) > 0
      BY <1>5, <2>1, TailFansOutShape, Parts DEF TailerOk
    <3>2. Len(tailer.read) \in 1 .. Len(tailer.read)
      BY <3>1
    <3> QED
      BY <3>2, Parts DEF TailerOk
  <2>3. hub.gen = db.gen => tailer.from + Len(tailer.read) <= LastSeq
    BY <2>1, <2>2 DEF HubOk
  <2> QED
    BY <2>1, <2>3 DEF HubOk, LastSeq
<1>6. CASE Connects \/ Resubscribes
  <2>1. hub' = HubNow /\ db' = db /\ tailer' = tailer
    BY <1>6 DEF Connects, Resubscribes
  <2>2. CASE hub.tail = None
    <3>1. hub'.tail = LastSeq /\ tailer'.pc # "read"
      BY <2>1, <2>2, Parts DEF HubNow, TailerOk, TailerType
    <3> QED
      BY <1>0, <2>1, <3>1 DEF HubOk, LastSeq
  <2>3. CASE hub.tail # None
    BY <2>1, <2>3 DEF HubNow, HubOk, LastSeq
  <2> QED
    BY <2>2, <2>3
<1>7. CASE Sending
  BY <1>7, SendingIs DEF storeVars, HubOk, LastSeq
<1>8. CASE Drops \/ Receives
  BY <1>8 DEF Drops, Receives, HubOk, LastSeq
<1> QED
  BY <1>1, <1>2, <1>3, <1>4, <1>5, <1>6, <1>7, <1>8 DEF StreamNext, Tailing

(* A client is blind from then on.                                         *)
LEMMA BlindStays ==
    ASSUME ShapeInv, StreamNext, ~count'.blind
    PROVE  ~count.blind
<1>0. count \in CountType
  BY Parts
<1>1. ASSUME NEW wanted \in BOOLEAN, Append1(wanted) PROVE ~count.blind
  <2>1. count'.blind = count.blind
    BY <1>0, <1>1 DEF Append1, CountType
  <2> QED
    BY <2>1
<1>2. ASSUME NEW new \in BOOLEAN, Swap(new) PROVE ~count.blind
  <2>1. count'.blind = (count.blind \/ (new /\ Blinds))
    BY <1>0, <1>2, BlindIs DEF Swap
  <2> QED
    BY <2>1
<1>3. CASE Connects
  <2>1. count'.blind = count.blind
    BY <1>0, <1>3, BlindIs DEF Connects
  <2> QED
    BY <2>1
<1>4. CASE Resubscribes
  <2>1. count'.blind = (count.blind \/ snd.pc # "loop" \/ client.gen # db.gen)
    BY <1>0, <1>4, BlindIs DEF Resubscribes
  <2> QED
    BY <2>1
<1>5. ASSUME NEW c, Disconnects(c) PROVE ~count.blind
  BY <1>0, <1>5, BlindIs DEF Disconnects
<1>6. CASE Drops
  BY <1>5, <1>6 DEF Drops
<1>7. CASE Receives
  BY <1>5, <1>7, ReceivesIs
<1>8. CASE Tailing
  BY <1>8 DEF Tailing, TailBegins, TailReads, TailFansOut
<1>9. CASE Sending
  BY <1>9, SendingIs DEF storeVars
<1> QED
  BY <1>1, <1>2, <1>3, <1>4, <1>6, <1>7, <1>8, <1>9 DEF StreamNext

LEMMA SwapBlinds ==
    ASSUME ShapeInv, Swap(TRUE), ~count'.blind
    PROVE  ~count.blind /\ ~Blinds
<1>1. count'.blind = (count.blind \/ (TRUE /\ Blinds))
  BY Parts, BlindIs DEF Swap
<1> QED
  BY <1>1

LEMMA DisconnectBlinds ==
    ASSUME ShapeInv, NEW c \in ClientType, Disconnects(c), ~count'.blind
    PROVE  /\ ~count.blind /\ (Resumes(c) => c.gen = db.gen)
           /\ client'.last = c.last /\ client'.resume = c.resume /\ client'.gen = c.gen
           /\ client'.floor = c.floor /\ client'.got = c.got /\ ~sub'.on
<1>1. count'.blind = (count.blind \/ (Resumes(c) /\ c.gen # db.gen))
  BY Parts, BlindIs DEF Disconnects
<1>2. /\ client'.last = c.last /\ client'.resume = c.resume /\ client'.gen = c.gen
      /\ client'.floor = c.floor /\ client'.got = c.got /\ ~sub'.on
  BY DEF Disconnects, ClientType, NoSub
<1> QED
  BY <1>1, <1>2

(* What the hub knows of its database, and a client that is away of its    *)
(* own.                                                                    *)
LEMMA SeenStays ==
    ASSUME ShapeInv, GensOk, SeenOk, StreamNext
    PROVE  SeenOk'
<1>0. /\ hub.gen \in Nat /\ db.gen \in Nat /\ hub.gen <= db.gen /\ hub \in HubType /\ db \in DbType
      /\ LastSeq \in Nat /\ hub.fp \in Nat
  BY GensTyped, Parts DEF GensOk, HubType
<1> DEFINE G == /\ hub'.gen = db'.gen /\ hub'.fp # 0 => LastSeq' > 0 /\ hub'.fp = db'.print
                /\ ~count'.blind => (~sub'.on /\ Resumes(client') => client'.gen = db'.gen)
<1> SUFFICES G
  BY DEF SeenOk, Resumes
<1>1. /\ hub.gen = db.gen /\ hub.fp # 0 => LastSeq > 0 /\ hub.fp = db.print
      /\ ~count'.blind => (~sub.on /\ Resumes(client) => client.gen = db.gen)
  BY BlindStays DEF SeenOk
<1>2. ASSUME NEW wanted \in BOOLEAN, Append1(wanted) PROVE G
  <2>1. /\ db'.gen = db.gen /\ db'.print = db.print /\ db'.log = Append(db.log, wanted)
        /\ hub' = hub /\ sub' = sub /\ client' = client /\ db.log \in Seq(BOOLEAN)
    BY <1>0, <1>2 DEF Append1, DbType
  <2>2. LastSeq' > 0
    BY <2>1, AppendProperties, LenProperties DEF LastSeq
  <2> QED
    BY <1>1, <2>1, <2>2
<1>3. CASE Swap(TRUE)
  <2>1. db'.gen = db.gen + 1 /\ UNCHANGED <<hub, sub, client>>
    BY <1>3 DEF Swap
  <2>2. hub.gen # db'.gen
    BY <1>0, <2>1
  <2>3. ~count'.blind => ~(~sub.on /\ Resumes(client))
    BY <1>3, SwapBlinds DEF Blinds, ShapeInv
  <2> QED
    BY <2>1, <2>2, <2>3
<1>4. CASE Swap(FALSE)
  BY <1>1, <1>4 DEF Swap, LastSeq
<1>5. CASE TailBegins
  <2>1. db' = db /\ client' = client /\ sub'.on = sub.on /\ LastSeq' = LastSeq /\ hub.tail # None
    <3>1. db' = db /\ client' = client /\ hub.tail # None
      BY <1>5 DEF TailBegins
    <3>2. sub'.on = sub.on
      <4> DEFINE m == Resync(0, "new_store")
      <4>1. sub' = sub \/ sub' = [sub EXCEPT !.queue = <<m>>, !.paused = TRUE, !.replay = <<>>]
        BY <1>5 DEF TailBegins
      <4> HIDE DEF m
      <4> QED
        BY <4>1, GensTyped DEF SubType
    <3> QED
      BY <3>1, <3>2 DEF LastSeq
  <2>2. Fingerprint # 0 => LastSeq > 0 /\ Fingerprint = db.print
    BY <1>0 DEF Fingerprint
  <2>3. CASE hub.conn # conn /\ hub.fp # 0 /\ Fingerprint # hub.fp
    <3>1. hub'.gen = db.gen /\ hub'.fp = Fingerprint
      BY <1>5, <2>3 DEF TailBegins
    <3> QED
      BY <1>1, <2>1, <2>2, <3>1
  <2>4. CASE ~(hub.conn # conn /\ hub.fp # 0 /\ Fingerprint # hub.fp)
    <3> DEFINE p == IF hub.conn = conn THEN hub.fp ELSE Fingerprint
    <3>1. hub' = [hub EXCEPT !.conn = conn, !.fp = p]
      BY <1>5, <2>4 DEF TailBegins
    <3>2. p = hub.fp \/ p = Fingerprint
      OBVIOUS
    <3> HIDE DEF p
    <3>3. hub'.gen = hub.gen /\ hub'.fp = p
      BY <1>0, <3>1 DEF HubType
    <3> QED
      BY <1>1, <2>1, <2>2, <3>2, <3>3
  <2> QED
    BY <2>3, <2>4
<1>6. CASE TailFansOut
  <2>1. hub'.gen = hub.gen /\ hub'.fp = hub.fp /\ hub.tail # None
    BY <1>0, <1>6, TailFansOutShape, Parts DEF HubType, TailerOk, TailFansOut
  <2>2. db' = db /\ client' = client /\ sub'.on = sub.on
    BY <1>6, FanShape DEF TailFansOut
  <2> QED
    BY <1>1, <2>1, <2>2 DEF LastSeq
<1>7. CASE Connects \/ Resubscribes
  <2>1. hub' = HubNow /\ db' = db /\ sub'.on
    BY <1>7 DEF Connects, Resubscribes, Subscription
  <2>2. CASE hub.tail = None
    <3>1. hub'.fp = Fingerprint /\ hub'.gen = db.gen
      BY <2>1, <2>2 DEF HubNow
    <3>2. LastSeq' = LastSeq
      BY <2>1 DEF LastSeq
    <3> QED
      BY <1>0, <2>1, <3>1, <3>2 DEF Fingerprint
  <2>3. CASE hub.tail # None
    BY <1>1, <2>1, <2>3 DEF HubNow, LastSeq
  <2> QED
    BY <2>2, <2>3
<1>8. CASE Sending
  BY <1>1, <1>8, SendingIs DEF storeVars, LastSeq
<1>9. ASSUME NEW c \in ClientType, Disconnects(c), UNCHANGED <<db, hub>> PROVE G
  BY <1>1, <1>9, DisconnectBlinds DEF LastSeq, Resumes
<1>10. CASE Drops
  BY <1>9, <1>10, ClientIs DEF Drops
<1>11. CASE Receives
  <2>1. CASE Disconnects(Applied(Head(wire)))
    BY <1>9, <1>11, <2>1, ReceivesIs
  <2>2. CASE sub' = sub
    BY <1>1, <1>11, <2>2, ReceivesIs DEF LastSeq
  <2> QED
    BY <1>11, <2>1, <2>2, ReceivesIs
<1>12. CASE TailReads
  BY <1>1, <1>12 DEF TailReads, LastSeq
<1>13. ASSUME NEW new \in BOOLEAN, Swap(new) PROVE Swap(TRUE) \/ Swap(FALSE)
  BY <1>13
<1> QED
  BY <1>2, <1>3, <1>4, <1>5, <1>6, <1>7, <1>8, <1>10, <1>11, <1>12, <1>13 DEF StreamNext, Tailing

(* A step after which the client is in the database that is in use found   *)
(* it there, unless it connects.                                           *)
LEMMA NowIs ==
    ASSUME NEW c, NEW w \in Seq(Msg), NEW s \in SubType, NEW n
    PROVE  /\ w # <<>> => (Now(c, Out(w, s), n) <=>
                c.gen = n \/ (c.last = 0 /\ w[1].kind = "subscribed" /\ w[1].gen = n))
           /\ w = <<>> /\ s.ack # <<>> => (Now(c, Out(w, s), n) <=>
                c.gen = n \/ (c.last = 0 /\ s.ack[1].kind = "subscribed" /\ s.ack[1].gen = n))
           /\ w = <<>> /\ s.ack = <<>> => (Now(c, Out(w, s), n) <=> c.gen = n)
<1>1. CASE w # <<>>
  <2>1. Out(w, s) \in Seq(Msg) /\ Out(w, s)[1] = w[1] /\ Out(w, s) # <<>>
    BY <1>1, OutTail, TailIs
  <2>2. Len(Out(w, s)) > 0
    BY <2>1, EmptySeq, LenProperties
  <2> QED
    BY <1>1, <2>1, <2>2 DEF Now
<1>2. CASE w = <<>> /\ s.ack # <<>>
  <2>1. Out(w, s) = Append(w, s.ack[1]) /\ s.ack[1] \in Msg
    BY <1>2, OutIs
  <2>2. Len(Out(w, s)) = 1 /\ Out(w, s)[1] = s.ack[1]
    BY <1>2, <2>1
  <2> QED
    BY <1>2, <2>2 DEF Now
<1>3. CASE w = <<>> /\ s.ack = <<>>
  <2>1. Out(w, s) = <<>> /\ Len(<<>>) = 0
    BY <1>3, OutIs
  <2> QED
    BY <1>3, <2>1 DEF Now
<1> QED
  BY <1>1, <1>2, <1>3

LEMMA SendingBack ==
    ASSUME ShapeInv, AckFirst, Sending, Current'
    PROVE  Current
<1>1. /\ wire \in Seq(Msg) /\ sub \in SubType /\ SubOk(sub) /\ sub' \in SubType
      /\ UNCHANGED storeVars /\ sub'.on = sub.on
  <2>1. ShapeInv'
    BY ShapeStays DEF StreamNext
  <2> QED
    BY <2>1, GensTyped, SendingIs, Parts DEF ShapeInv, StreamTyped
<1>2. sub.on /\ ~count.blind /\ Now(client, Out(wire', sub'), db.gen)
  BY <1>1 DEF Current, storeVars
<1> SUFFICES ASSUME client.gen # db.gen, client.last = 0,
                    Len(Out(wire', sub')) > 0, Out(wire', sub')[1].kind = "subscribed", Out(wire', sub')[1].gen = db.gen
             PROVE  Current
  BY <1>2 DEF Current, Now
<1>3. sub.ack # <<>> => wire = <<>> /\ snd.pc = "loop"
  BY DEF AckFirst
<1>4. CASE wire' = wire /\ sub'.ack = sub.ack
  BY <1>2, <1>4 DEF Current, Out
<1>5. CASE /\ sub.ack # <<>> /\ snd.pc = "loop" /\ sub.ack[1] \in Msg
           /\ wire' = Append(wire, sub.ack[1]) /\ sub'.ack = <<>>
  <2>1. Out(wire', sub') = Out(wire, sub)
    <3>1. Out(wire, sub) = Append(wire, sub.ack[1]) /\ wire' \in Seq(Msg)
      BY <1>1, <1>5, OutIs
    <3> QED
      BY <1>1, <1>5, <3>1, OutIs
  <2> QED
    BY <1>2, <2>1 DEF Current
<1>6. ASSUME NEW m \in Msg, snd.pc # "loop", sub'.ack = sub.ack, wire' = Append(wire, m), m.kind # "subscribed"
      PROVE  Current
  <2>1. sub.ack = <<>> /\ wire' \in Seq(Msg)
    BY <1>1, <1>3, <1>6
  <2>2. Out(wire', sub') = Append(wire, m) /\ Out(wire, sub) = wire
    BY <1>1, <1>6, <2>1, OutIs
  <2>3. wire # <<>>
    <3> SUFFICES ASSUME wire = <<>> PROVE FALSE
      OBVIOUS
    <3>1. Out(wire', sub')[1] = m
      BY <2>2
    <3> QED
      BY <1>6, <3>1
  <2>4. 1 \in 1 .. Len(wire) /\ Append(wire, m)[1] = wire[1] /\ Len(wire) > 0
    BY <1>1, <2>3, TailIs, Longer, LenProperties
  <2> QED
    BY <1>2, <2>2, <2>4 DEF Current, Now
<1> QED
  BY <1>4, <1>5, <1>6, SendingIs

LEMMA TailBeginsBack ==
    ASSUME ShapeInv, GensOk, SeenOk, TailBegins, Current'
    PROVE  /\ Current /\ UNCHANGED <<db, wire, client, snd>> /\ hub'.tail = hub.tail /\ sub' = sub
<1>1. /\ UNCHANGED <<db, wire, client, snd, count>> /\ hub.tail # None /\ ~count.blind
      /\ hub \in HubType /\ db.gen \in Nat /\ hub.gen \in Nat /\ hub.gen <= db.gen /\ LastSeq \in Nat
  BY GensTyped, Parts DEF TailBegins, Current, GensOk
<1>2. CASE hub.conn # conn /\ hub.fp # 0 /\ Fingerprint # hub.fp
  <2> DEFINE m == Resync(0, "new_store")
  <2>1. hub.gen # db.gen
    <3>1. hub.gen = db.gen => LastSeq > 0 /\ hub.fp = db.print
      BY <1>2 DEF SeenOk
    <3>2. LastSeq > 0 => Fingerprint = db.print
      BY <1>1 DEF Fingerprint
    <3> QED
      BY <1>2, <3>1, <3>2
  <2>2. sub' = sub \/ sub' = [sub EXCEPT !.queue = <<m>>, !.paused = TRUE, !.replay = <<>>]
    BY <1>2 DEF TailBegins
  <2> HIDE DEF m
  <2>3. sub'.ack = sub.ack
    BY <2>2, GensTyped DEF SubType
  <2>4. Now(client, Out(wire, sub), db.gen)
    BY <1>1, <2>3 DEF Current, Out
  <2> QED
    BY <2>1, <2>4, CurrentHub
<1>3. CASE ~(hub.conn # conn /\ hub.fp # 0 /\ Fingerprint # hub.fp)
  <2> DEFINE p == IF hub.conn = conn THEN hub.fp ELSE Fingerprint
  <2>1. sub' = sub /\ hub' = [hub EXCEPT !.conn = conn, !.fp = p]
    BY <1>3 DEF TailBegins
  <2> HIDE DEF p
  <2>2. hub'.tail = hub.tail
    BY <1>1, <2>1 DEF HubType
  <2> QED
    BY <1>1, <2>1, <2>2 DEF Current
<1> QED
  BY <1>2, <1>3

LEMMA ReceivesBack ==
    ASSUME ShapeInv, AckFirst, Receives, Current'
    PROVE  /\ Current /\ Head(wire).kind \in {"event", "subscribed"} /\ client' = Applied(Head(wire))
           /\ wire' = Tail(wire) /\ sub' = sub /\ snd' = snd /\ count' = count
<1> DEFINE m == Head(wire)
<1>1. /\ wire \in Seq(Msg) /\ wire # <<>> /\ m \in Msg /\ m = wire[1] /\ sub.on /\ db' = db
      /\ \/ Disconnects(Applied(m))
         \/ /\ m.kind \in {"event", "subscribed"} /\ client' = Applied(m)
            /\ wire' = Tail(wire) /\ sub' = sub /\ snd' = snd /\ count' = count
  BY ReceivesIs
<1> HIDE DEF m
<1>2. ~Disconnects(Applied(m))
  BY DEF Disconnects, NoSub, Current
<1>3. /\ m.kind \in {"event", "subscribed"} /\ client' = Applied(m)
      /\ wire' = Tail(wire) /\ sub' = sub /\ snd' = snd /\ count' = count
  BY <1>1, <1>2
<1>4. /\ m.seq \in Nat /\ m.to \in Nat /\ client.last \in Nat /\ client.gen \in Nat
      /\ sub \in SubType /\ Tail(wire) \in Seq(Msg)
  BY <1>1, ClientIs, GensTyped DEF Msg
<1>5. /\ client'.gen = client.gen \/ (client.last = 0 /\ m.kind = "subscribed" /\ client'.gen = m.gen)
      /\ client'.last >= client.last
  <2>1. m.seq <= client.last \/ m.seq > client.last
    BY <1>4
  <2> QED
    BY <1>1, <1>3, <1>4, <2>1, AppliedIs DEF MaxOf
<1>6. client'.gen = db.gen
  <2> SUFFICES ASSUME client'.gen # db.gen PROVE FALSE
    OBVIOUS
  <2>1. client'.last = 0 /\ Len(Out(Tail(wire), sub)) > 0 /\ Out(Tail(wire), sub)[1].kind = "subscribed"
    BY <1>1, <1>3 DEF Current, Now
  <2>2. client.last = 0 /\ client'.last \in Int
    BY <1>4, <1>5, <2>1
  <2>3. /\ \A i \in 1 .. Len(wire) : wire[i].kind = "subscribed" => i = 1
        /\ sub.ack = <<>>
    BY <1>1, <2>2 DEF AckFirst
  <2>4. Out(Tail(wire), sub) = Tail(wire)
    BY <1>4, <2>3, OutIs
  <2>5. 1 \in 1 .. Len(Tail(wire)) /\ Tail(wire)[1] = wire[1 + 1] /\ 1 + 1 \in 1 .. Len(wire)
    <3>1. 1 \in 1 .. Len(Tail(wire))
      BY <1>4, <2>1, <2>4, LenProperties
    <3> QED
      BY <1>1, <3>1, TailIs
  <2>6. wire[1 + 1].kind = "subscribed"
    BY <2>1, <2>4, <2>5
  <2>7. 1 + 1 = 1
    BY <2>3, <2>5, <2>6
  <2> QED
    BY <2>7
<1>7. Now(client, Out(wire, sub), db.gen)
  <2>1. client.gen = db.gen \/ (client.last = 0 /\ wire[1].kind = "subscribed" /\ wire[1].gen = db.gen)
    BY <1>1, <1>5, <1>6
  <2> QED
    BY <1>1, <1>4, <2>1, NowIs
<1>8. Current
  BY <1>1, <1>3, <1>7 DEF Current
<1> QED
  BY <1>3, <1>8 DEF m

LEMMA SwapBack ==
    ASSUME ShapeInv, GensOk, NEW new \in BOOLEAN, Swap(new), Current'
    PROVE  Current /\ UNCHANGED <<db, hub, sub, snd, wire, client>>
<1>1. CASE new
  <2>1. /\ hub.gen \in Nat /\ db.gen \in Nat /\ hub.gen <= db.gen /\ db'.gen = db.gen + 1 /\ hub' = hub
    BY <1>1, GensTyped DEF Swap, GensOk
  <2>2. ShapeInv' /\ GensOk'
    BY ShapeStays, GensStay DEF StreamNext
  <2>3. (ShapeInv /\ GensOk /\ Now(client, Out(wire, sub), db.gen) => hub.gen = db.gen)'
    BY CurrentHub, PTL
  <2> QED
    BY <2>1, <2>2, <2>3 DEF Current
<1>2. CASE ~new
  <2>1. UNCHANGED <<db, hub, sub, snd, wire, client>>
    BY <1>2 DEF Swap
  <2>2. ~count.blind
    BY BlindStays DEF StreamNext, Current
  <2> QED
    BY <2>1, <2>2 DEF Current
<1> QED
  BY <1>1, <1>2

(* What is under way stays what the client needs.                          *)
LEMMA AppendLive ==
    ASSUME ShapeInv, LiveInv, NEW wanted \in BOOLEAN, Append1(wanted), Current'
    PROVE  LiveOk(db'.log, client', Out(wire', sub'), sub', snd', hub'.tail)
<1>1. /\ db'.gen = db.gen /\ db'.log = Append(db.log, wanted) /\ db.log \in Seq(BOOLEAN)
      /\ UNCHANGED <<conn, hub, tailer, sub, snd, wire, client>>
  BY GensTyped DEF Append1, DbType
<1>2. ~count.blind
  BY BlindStays DEF StreamNext, Current
<1>3. LiveOk(db.log, client, Out(wire, sub), sub, snd, hub.tail)
  BY <1>1, <1>2 DEF LiveInv, Current
<1>4. /\ Out(wire, sub) \in Seq(Msg) /\ sub \in SubType /\ snd \in SndType /\ SenderOk(snd)
      /\ (sub.on => hub.tail \in Nat)
  BY Parts, OutIs, OnWire
<1>5. hub.tail \in Nat
  BY <1>1, <1>4 DEF Current
<1> QED
  BY <1>1, <1>3, <1>4, <1>5, LogGrows

LEMMA FansOutLive ==
    ASSUME ShapeInv, GensOk, HubOk, LiveInv, TailFansOut, Current'
    PROVE  LiveOk(db'.log, client', Out(wire', sub'), sub', snd', hub'.tail)
<1>1. sub'.on = sub.on /\ sub'.ack = sub.ack /\ UNCHANGED <<db, conn, snd, wire, client, count>>
  BY FanShape DEF TailFansOut
<1>2. Out(wire', sub') = Out(wire, sub) /\ Current
  BY <1>1 DEF Out, Current
<1>3. hub.gen = db.gen /\ LiveOk(db.log, client, Out(wire, sub), sub, snd, hub.tail)
  BY <1>2, CurrentHub DEF Current, LiveInv
<1>4. LiveOk(db.log, client, Out(wire, sub), sub', snd, hub'.tail)
  BY <1>2, <1>3, FanLive DEF Current
<1> QED
  BY <1>1, <1>2, <1>4

LEMMA SenderLive ==
    ASSUME ShapeInv, AckFirst, LiveInv, Sending, Current'
    PROVE  LiveOk(db'.log, client', Out(wire', sub'), sub', snd', hub'.tail)
<1>1. Current /\ UNCHANGED storeVars
  BY SendingBack, SendingIs
<1>2. LiveOk(db.log, client, Out(wire, sub), sub, snd, hub.tail) /\ hub.tail \in Nat
  BY <1>1, OnWire DEF LiveInv, Current
<1>3. LiveOk(db.log, client, Out(wire', sub'), sub', snd', hub.tail)
  BY <1>2, SendingLive
<1> QED
  BY <1>1, <1>3 DEF storeVars

(* The client applies the next message.                                    *)
LEMMA AppliesNext ==
    ASSUME ShapeInv, LiveInv, KnownInv, Receives, Current,
           Head(wire).kind \in {"event", "subscribed"}, client' = Applied(Head(wire))
    PROVE  /\ \A x \in 1 .. LastSeq :
                 db.log[x] /\ (x <= client.floor \/ x \in client.got \/ Tells(Head(wire), x))
                 => x <= client'.floor \/ x \in client'.got
           /\ Upto(db.log, Knows(client', <<>>, 1), client'.last)
           /\ LiveOk(db.log, client, Out(wire, sub), sub, snd, hub.tail)
<1> DEFINE o == Out(wire, sub)
           m == Head(wire)
<1>1. wire \in Seq(Msg) /\ wire # <<>> /\ m \in Msg /\ m = wire[1] /\ sub.on /\ sub \in SubType
  BY ReceivesIs, GensTyped
<1>2. o \in Seq(Msg) /\ o # <<>> /\ o[1] = m
  BY <1>1, OutTail
<1>3. LiveOk(db.log, client, o, sub, snd, hub.tail) /\ ~count.blind
  BY DEF LiveInv, Current
<1>4. MessageOk(db.log, client, o, 1)
  <2>1. 1 \in 1 .. Len(o)
    BY <1>2, EmptySeq, LenProperties
  <2> QED
    BY <1>3, <2>1 DEF LiveOk, WireOk
<1>5. client.gen = db.gen \/ (client.last = 0 /\ m.kind = "subscribed")
  BY <1>1, NowIs DEF Current
<1>6. client.gen = db.gen => Upto(db.log, Knows(client, <<>>, 1), client.last)
  BY <1>3 DEF KnownInv
<1> HIDE DEF o, m
<1>7. m \in Msg /\ m = o[1] /\ m.kind \in {"event", "subscribed"} /\ client' = Applied(m)
  BY <1>1, <1>2 DEF m
<1>8. /\ \A x \in 1 .. LastSeq :
            db.log[x] /\ (x <= client.floor \/ x \in client.got \/ Tells(m, x))
            => x <= Applied(m).floor \/ x \in Applied(m).got
      /\ Upto(db.log, Knows(Applied(m), <<>>, 1), Applied(m).last)
  BY <1>2, <1>4, <1>5, <1>6, <1>7, AppliedKnows
<1> QED
  BY <1>3, <1>7, <1>8 DEF o, m

LEMMA ReceivesLive ==
    ASSUME ShapeInv, AckFirst, LiveInv, KnownInv, Receives, Current'
    PROVE  LiveOk(db'.log, client', Out(wire', sub'), sub', snd', hub'.tail)
<1> DEFINE o == Out(wire, sub)
           m == Head(wire)
<1>1. /\ Current /\ m.kind \in {"event", "subscribed"} /\ client' = Applied(m)
      /\ wire' = Tail(wire) /\ sub' = sub /\ snd' = snd /\ db' = db /\ hub' = hub
  BY ReceivesBack DEF Receives
<1>2. /\ wire \in Seq(Msg) /\ wire # <<>> /\ m \in Msg /\ m = wire[1] /\ sub.on
      /\ sub \in SubType /\ snd \in SndType /\ SenderOk(snd) /\ db.log \in Seq(BOOLEAN) /\ hub.tail \in Nat
  BY ReceivesIs, Parts, OnWire
<1>3. o \in Seq(Msg) /\ o # <<>> /\ o[1] = m /\ Tail(o) = Out(wire', sub')
  BY <1>1, <1>2, OutTail
<1>4. /\ \A x \in 1 .. Len(db.log) :
            db.log[x] /\ (x <= client.floor \/ x \in client.got \/ Tells(m, x))
            => x <= client'.floor \/ x \in client'.got
      /\ LiveOk(db.log, client, o, sub, snd, hub.tail)
  BY <1>1, AppliesNext DEF LastSeq
<1> HIDE DEF o, m
<1>5. LiveOk(db.log, client', Tail(o), sub, snd, hub.tail)
  BY <1>2, <1>3, <1>4, ShiftLive
<1> QED
  BY <1>1, <1>3, <1>5

LEMMA LiveStays ==
    ASSUME ShapeInv, KeptInv, StreamNext
    PROVE  LiveInv'
<1> SUFFICES ASSUME Current' PROVE LiveOk(db'.log, client', Out(wire', sub'), sub', snd', hub'.tail)
  BY DEF LiveInv
<1> USE DEF KeptInv
<1>1. ASSUME NEW wanted \in BOOLEAN, Append1(wanted)
      PROVE  LiveOk(db'.log, client', Out(wire', sub'), sub', snd', hub'.tail)
  BY <1>1, AppendLive
<1>2. ASSUME NEW new \in BOOLEAN, Swap(new)
      PROVE  LiveOk(db'.log, client', Out(wire', sub'), sub', snd', hub'.tail)
  BY <1>2, SwapBack DEF LiveInv
<1>3. CASE TailBegins
  BY <1>3, TailBeginsBack DEF LiveInv
<1>4. CASE TailReads
  BY <1>4 DEF TailReads, LiveInv, Current
<1>5. CASE TailFansOut
  BY <1>5, FansOutLive
<1>6. CASE Sending
  BY <1>6, SenderLive
<1>7. CASE Connects
  BY <1>7, ConnectsLive
<1>8. CASE Resubscribes
  BY <1>8, ResubscribesLive
<1>9. CASE Drops
  BY <1>9 DEF Drops, Disconnects, NoSub, Current
<1>10. CASE Receives
  BY <1>10, ReceivesLive
<1> QED
  BY <1>1, <1>2, <1>3, <1>4, <1>5, <1>6, <1>7, <1>8, <1>9, <1>10 DEF StreamNext, Tailing

(* What the client has applied, and where it would resume, stays without   *)
(* a gap.                                                                  *)
LEMMA KnowsNone ==
    ASSUME NEW c, NEW o \in Seq(Msg)
    PROVE  /\ Knows(c, <<>>, 1) = {t \in Nat : t <= c.floor \/ t \in c.got}
           /\ Knows(c, o, 1) = Knows(c, <<>>, 1)
<1>1. \A k \in 1 .. Len(<<>>) : FALSE
  OBVIOUS
<1>2. \A k \in 1 .. Len(o) : ~(k < 1)
  BY LenProperties
<1> QED
  BY <1>1, <1>2 DEF Knows

LEMMA ReceivesKnown ==
    ASSUME ShapeInv, LiveInv, KnownInv, IdleOk, Receives, ~count'.blind, client'.gen = db.gen
    PROVE  /\ Upto(db.log, Knows(client', <<>>, 1), client'.last)
           /\ client'.resume # None => Upto(db.log, Knows(client', <<>>, 1), client'.resume)
<1> DEFINE m == Head(wire)
           o == Out(wire, sub)
<1>1. /\ wire \in Seq(Msg) /\ wire # <<>> /\ m \in Msg /\ m = wire[1] /\ sub.on /\ Applied(m) \in ClientType
      /\ \/ m.kind \in {"resync", "new_store"} /\ Disconnects(Applied(m))
         \/ /\ m.kind \in {"event", "subscribed"} /\ client' = Applied(m)
            /\ wire' = Tail(wire) /\ sub' = sub /\ snd' = snd /\ count' = count
            /\ Applied(m).resume = client.resume
      /\ UNCHANGED <<db, conn, hub, tailer>>
  BY ReceivesIs
<1>2. m.seq \in Nat /\ client.last \in Nat /\ sub \in SubType /\ o \in Seq(Msg) /\ o # <<>> /\ o[1] = m
  BY <1>1, ClientIs, GensTyped, OutTail DEF Msg
<1> HIDE DEF m, o
<1>3. m.seq <= client.last \/ m.seq > client.last
  BY <1>2
<1>4. ~count.blind
  BY BlindStays DEF StreamNext
<1>5. CASE m.kind \in {"event", "subscribed"}
  <2>1. client' = Applied(m) /\ client'.resume = None
    BY <1>1, <1>5 DEF IdleOk, Disconnects
  <2>2. client.gen = db.gen \/ (client.last = 0 /\ m.kind = "subscribed" /\ m.gen = db.gen)
    BY <1>1, <1>3, <1>5, <2>1, AppliedIs
  <2>3. Current
    BY <1>1, <1>2, <1>4, <2>2, NowIs DEF Current, m, o
  <2> QED
    BY <1>5, <2>1, <2>3, AppliesNext DEF m
<1>6. CASE m.kind = "resync"
  <2>1. /\ client'.last = client.last /\ client'.floor = client.floor /\ client'.got = client.got
        /\ client'.gen = client.gen /\ client'.resume = m.seq
    BY <1>1, <1>6, AppliedIs, DisconnectBlinds
  <2>2. LiveOk(db.log, client, o, sub, snd, hub.tail)
    BY <1>1, <1>4, <2>1 DEF LiveInv, Current, Now, o
  <2>3. MessageOk(db.log, client, o, 1)
    <3>1. 1 \in 1 .. Len(o)
      BY <1>2, EmptySeq, LenProperties
    <3> QED
      BY <2>2, <3>1 DEF LiveOk, WireOk
  <2>4. Knows(client', <<>>, 1) = Knows(client, <<>>, 1) /\ Knows(client, o, 1) = Knows(client, <<>>, 1)
    BY <1>2, <2>1, KnowsNone
  <2>5. Upto(db.log, Knows(client, o, 1), m.seq)
    BY <1>2, <1>6, <2>3 DEF MessageOk
  <2>6. Upto(db.log, Knows(client, <<>>, 1), client.last)
    BY <1>4, <2>1 DEF KnownInv
  <2> QED
    BY <2>1, <2>4, <2>5, <2>6
<1>7. CASE m.kind = "new_store"
  <2>1. client'.last = 0 /\ client'.resume = 0
    BY <1>1, <1>7, AppliedIs, DisconnectBlinds
  <2>2. Len(db.log) \in Nat
    BY Parts, LenProperties
  <2> QED
    BY <2>1, <2>2 DEF Upto
<1> QED
  BY <1>1, <1>5, <1>6, <1>7

LEMMA KnownStays ==
    ASSUME ShapeInv, KeptInv, StreamNext
    PROVE  KnownInv'
<1> SUFFICES ASSUME ~count'.blind, client'.gen = db'.gen
             PROVE  /\ Upto(db'.log, Knows(client', <<>>, 1), client'.last)
                    /\ client'.resume # None => Upto(db'.log, Knows(client', <<>>, 1), client'.resume)
  BY DEF KnownInv
<1> DEFINE G == /\ Upto(db'.log, Knows(client', <<>>, 1), client'.last)
                /\ client'.resume # None => Upto(db'.log, Knows(client', <<>>, 1), client'.resume)
<1>1. client.gen = db.gen => /\ Upto(db.log, Knows(client, <<>>, 1), client.last)
                             /\ client.resume # None => Upto(db.log, Knows(client, <<>>, 1), client.resume)
  BY BlindStays DEF KnownInv, KeptInv
<1>2. ASSUME NEW wanted \in BOOLEAN, Append1(wanted) PROVE G
  <2>1. /\ db'.gen = db.gen /\ db'.log = Append(db.log, wanted) /\ db.log \in Seq(BOOLEAN) /\ client' = client
        /\ client.last \in Nat /\ client.resume \in Nat \cup {None}
    BY <1>2, GensTyped, ClientIs DEF Append1, DbType
  <2> DEFINE K == Knows(client, <<>>, 1)
  <2> HIDE DEF K
  <2>2. Upto(Append(db.log, wanted), K, client.last)
    BY <1>1, <2>1, UptoLonger DEF K
  <2>3. client.resume # None => Upto(Append(db.log, wanted), K, client.resume)
    BY <1>1, <2>1, UptoLonger DEF K
  <2> QED
    BY <2>1, <2>2, <2>3 DEF K
<1>3. ASSUME NEW new \in BOOLEAN, Swap(new) PROVE G
  <2>1. ~new
    <3> SUFFICES ASSUME new PROVE FALSE
      OBVIOUS
    <3>1. client.gen \in Nat /\ db.gen \in Nat /\ client.gen <= db.gen
      BY GensTyped DEF KeptInv, GensOk
    <3>2. db'.gen = db.gen + 1 /\ client' = client
      BY <1>3 DEF Swap
    <3> QED
      BY <3>1, <3>2
  <2> QED
    BY <1>1, <1>3, <2>1 DEF Swap
<1>4. CASE Tailing
  BY <1>1, <1>4 DEF Tailing, TailBegins, TailReads, TailFansOut
<1>5. CASE Sending
  BY <1>1, <1>5, SendingIs DEF storeVars
<1>6. CASE Connects
  <2>1. /\ client'.last = client.last /\ client'.floor = client.floor /\ client'.got = client.got
        /\ client'.gen = client.gen /\ client'.resume = None /\ db' = db
    BY <1>6, ClientIs DEF Connects, ClientType
  <2>2. Knows(client', <<>>, 1) = Knows(client, <<>>, 1)
    BY <2>1 DEF Knows
  <2> QED
    BY <1>1, <2>1, <2>2
<1>7. CASE Resubscribes
  BY <1>1, <1>7 DEF Resubscribes
<1>8. CASE Drops
  <2>1. /\ client'.last = client.last /\ client'.floor = client.floor /\ client'.got = client.got
        /\ client'.gen = client.gen /\ client'.resume = client.resume /\ db' = db
    BY <1>8, ClientIs, DisconnectBlinds DEF Drops
  <2>2. Knows(client', <<>>, 1) = Knows(client, <<>>, 1)
    BY <2>1 DEF Knows
  <2> QED
    BY <1>1, <2>1, <2>2
<1>9. CASE Receives
  BY <1>9, ReceivesKnown, ReceivesIs DEF KeptInv
<1> QED
  BY <1>2, <1>3, <1>4, <1>5, <1>6, <1>7, <1>8, <1>9 DEF StreamNext

LEMMA KeptStays ==
    ASSUME ShapeInv, KeptInv, StreamNext
    PROVE  KeptInv'
BY GensStay, AckFirstStays, HubStays, SeenStays, IdleStays, LiveStays, KnownStays DEF KeptInv

LEMMA KeptStarts ==
    ASSUME StreamInit
    PROVE  KeptInv
<1>1. /\ hub.tail = None /\ hub.fp = 0 /\ hub.gen = 0 /\ tailer.pc = "idle" /\ wire = <<>> /\ db.gen = 1
      /\ client.last = 0 /\ client.resume = None /\ client.gen = 0
      /\ sub.on = FALSE /\ sub.ack = <<>> /\ sub.queue = <<>>
  <2>1. hub.tail = None /\ hub.fp = 0 /\ hub.gen = 0
    BY DEF StreamInit
  <2>2. tailer.pc = "idle" /\ wire = <<>>
    BY DEF StreamInit, Resting
  <2>3. client.last = 0 /\ client.resume = None /\ client.gen = 0
    BY DEF StreamInit
  <2>4. sub.on = FALSE /\ sub.ack = <<>> /\ sub.queue = <<>>
    BY Zenon DEF StreamInit, NoSub
  <2>5. db.gen = 1
    <3>1. CASE db = [gen |-> 1, log |-> <<>>]
      BY <3>1
    <3>2. CASE db = [gen |-> 1, log |-> <<TRUE>>]
      BY <3>2
    <3> QED
      BY <3>1, <3>2 DEF StreamInit
  <2> QED
    BY <2>1, <2>2, <2>3, <2>4, <2>5
<1>2. ~(None > 0) /\ ~(0 > 0)
  BY DEF None
<1>3. GensOk
  BY <1>1 DEF GensOk, QueueGens
<1>4. AckFirst
  BY <1>1 DEF AckFirst
<1>5. HubOk
  BY <1>1 DEF HubOk
<1>6. SeenOk
  BY <1>1, <1>2 DEF SeenOk, Resumes
<1>7. IdleOk
  BY <1>1 DEF IdleOk
<1>8. LiveInv
  BY <1>1 DEF LiveInv, Current
<1>9. KnownInv
  BY <1>1 DEF KnownInv
<1> QED
  BY <1>3, <1>4, <1>5, <1>6, <1>7, <1>8, <1>9 DEF KeptInv

(* No wanted event is missing between where the client began and the last  *)
(* it applied, whatever was dropped, overflowed or swapped meanwhile       *)
(* (Hub.subscribe, Subscriber.push, Hub.send_loop, stream.ts).             *)
THEOREM EventsNotLost == StreamSpec => []NothingLost
<1>1. StreamInit => ShapeInv /\ KeptInv
  BY ShapeStarts, KeptStarts
<1>2. ShapeInv /\ KeptInv /\ [StreamNext]_streamVars => (ShapeInv /\ KeptInv)'
  <2> SUFFICES ASSUME ShapeInv, KeptInv, [StreamNext]_streamVars PROVE (ShapeInv /\ KeptInv)'
    OBVIOUS
  <2>1. CASE StreamNext
    BY <2>1, ShapeStays, KeptStays
  <2>2. CASE UNCHANGED streamVars
    <3>1. ShapeInv'
      BY <2>2 DEF streamVars, ShapeInv, StreamTyped, TailerOk
    <3>2. GensOk' /\ AckFirst' /\ HubOk' /\ SeenOk' /\ IdleOk'
      BY <2>2 DEF streamVars, KeptInv, GensOk, AckFirst, HubOk, SeenOk, IdleOk, LastSeq
    <3>3. LiveInv' /\ KnownInv'
      BY <2>2 DEF streamVars, KeptInv, LiveInv, Current, KnownInv
    <3> QED
      BY <3>1, <3>2, <3>3 DEF KeptInv
  <2> QED
    BY <2>1, <2>2
<1>3. ShapeInv /\ KeptInv => NothingLost
  <2> SUFFICES ASSUME ShapeInv, KeptInv, client.gen = db.gen, ~count.blind,
                      NEW s \in client.floor + 1 .. MinOf(client.last, LastSeq), db.log[s]
               PROVE  s \in client.got
    BY DEF NothingLost
  <2>1. client.floor \in Nat /\ client.last \in Nat /\ LastSeq \in Nat /\ <<>> \in Seq(Msg)
    BY ClientIs, Parts
  <2>2. s \in Nat /\ s > client.floor /\ s \in 1 .. client.last
    BY <2>1 DEF MinOf
  <2>3. s \in Knows(client, <<>>, 1)
    BY <2>2 DEF KeptInv, KnownInv, Upto
  <2>4. Knows(client, <<>>, 1) = {t \in Nat : t <= client.floor \/ t \in client.got}
    BY <2>1, KnowsNone
  <2>5. s <= client.floor \/ s \in client.got
    BY <2>3, <2>4
  <2> QED
    BY <2>1, <2>2, <2>5
<1> QED
  BY <1>1, <1>2, <1>3, PTL DEF StreamSpec

=============================================================================
