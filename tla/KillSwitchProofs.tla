-------------------------- MODULE KillSwitchProofs --------------------------
(***************************************************************************)
(* Proofs about the risk controls: switches latch and no entry slips       *)
(* through when handlers are not torn and daily trips are not re-armed,    *)
(* and a daily loss stays on record whatever crashes and restarts.  The    *)
(* day's entries and losses are kept, and a streak counts exits that lost, *)
(* in however many pieces each closed.                                     *)
(***************************************************************************)
EXTENDS KillSwitch, FiniteSetTheorems, TLAPS

(* The types these proofs need.                                            *)
Shape ==
    [day : Nat, sod : Nat, peak : Nat, last : Nat, low : Nat,
     entries : [Strategies -> Nat], losses : [Strategies -> Nat],
     lastExit : [Strategies -> SUBSET Exits], breaches : SUBSET BreachType]

(* A rank is a number; only ARMED has rank 0.                              *)
LEMMA RankType ==
    ASSUME NEW state \in KillStates
    PROVE  Rank(state) \in Nat /\ (Rank(state) = 0 <=> state = "ARMED")
BY DEF KillStates, Kills, Rank

(* start_day() yields a state of the day, and either keeps the entries of  *)
(* the day or starts them at zero.                                         *)
LEMMA StartDayShape ==
    ASSUME NEW r \in Shape, NEW equity \in Nat, today \in Nat
    PROVE  /\ StartDay(r, equity) \in Shape
           /\ StartDay(r, equity).day = today
           /\ \/ StartDay(r, equity) = r
              \/ /\ r.day # today
                 /\ StartDay(r, equity).entries = NoEntries
                 /\ StartDay(r, equity).sod = equity
                 /\ StartDay(r, equity).low = equity
<1>1. NoEntries \in [Strategies -> Nat]
  BY DEF NoEntries
<1> QED
  BY <1>1 DEF StartDay, Shape

(* A fall of nothing never reaches the limit.                              *)
LEMMA NoFall ==
    ASSUME NEW equity \in Nat
    PROVE  ~ReachesLimit(equity, equity)
<1>1. SUFFICES ASSUME equity > 0 PROVE ~(0 >= equity * DailyLossPct)
  BY DEF ReachesLimit
<1>2. equity * DailyLossPct > 0
  BY <1>1, LimitsAssumption
<1> QED
  BY <1>2, LimitsAssumption

-----------------------------------------------------------------------------
(* The risk state.                                                         *)

Recorded(r) ==
    ReachesLimit(r.sod, r.low) => Breach("global", "PF_DAILY_LOSS_MTM") \in r.breaches

RiskInv == today \in Nat /\ risk \in Shape /\ Recorded(risk)

(* A new day starts at its start-of-day equity, with nothing lost.         *)
LEMMA StartDayRecorded ==
    ASSUME NEW r \in Shape, NEW equity \in Nat, today \in Nat, Recorded(r)
    PROVE  StartDay(r, equity) \in Shape /\ Recorded(StartDay(r, equity))
BY StartDayShape, NoFall DEF Recorded

(* A closed trade touches only the streaks.                                *)
LEMMA RecordTradeShape ==
    ASSUME NEW r \in Shape, NEW x \in Exits, NEW result \in {"loss", "win", "even"}
    PROVE  /\ RecordTrade(r, x, result) \in Shape
           /\ RecordTrade(r, x, result).sod = r.sod
           /\ RecordTrade(r, x, result).low = r.low
           /\ RecordTrade(r, x, result).day = r.day
           /\ RecordTrade(r, x, result).entries = r.entries
           /\ RecordTrade(r, x, result).breaches = r.breaches
<1>1. Owner[x] \in Strategies
  BY StrategiesAssumption
<1>2. CASE r.lastExit[Owner[x]] = {x}
  BY <1>2 DEF RecordTrade
<1>3. CASE r.lastExit[Owner[x]] # {x}
  <2> DEFINE n == CASE result = "loss" -> r.losses[Owner[x]] + 1
                    [] result = "win" -> 0
                    [] OTHER -> r.losses[Owner[x]]
  <2>1. n \in Nat
    BY <1>1 DEF Shape
  <2>2. RecordTrade(r, x, result) = [r EXCEPT !.lastExit[Owner[x]] = {x}, !.losses[Owner[x]] = n]
    BY <1>3 DEF RecordTrade
  <2>3. [r.lastExit EXCEPT ![Owner[x]] = {x}] \in [Strategies -> SUBSET Exits]
    BY <1>1 DEF Shape
  <2>4. [r.losses EXCEPT ![Owner[x]] = n] \in [Strategies -> Nat]
    BY <1>1, <2>1 DEF Shape
  <2>5. RecordTrade(r, x, result) =
          [r EXCEPT !.lastExit = [r.lastExit EXCEPT ![Owner[x]] = {x}],
                    !.losses = [r.losses EXCEPT ![Owner[x]] = n]]
    BY <2>2 DEF Shape
  <2> HIDE DEF n
  <2> QED
    BY <2>3, <2>4, <2>5 DEF Shape
<1> QED
  BY <1>2, <1>3

(* An acknowledged streak leaves the loss of the day on record.            *)
LEMMA AcknowledgedShape ==
    ASSUME NEW r \in Shape, NEW s \in Strategies
    PROVE  /\ Acknowledged(r, s) \in Shape
           /\ Acknowledged(r, s).entries = r.entries
           /\ Acknowledged(r, s).day = r.day
           /\ Recorded(r) => Recorded(Acknowledged(r, s))
<1>1. CASE r.day = 0 \/ r.losses[s] = 0
  BY <1>1 DEF Acknowledged
<1>2. CASE ~(r.day = 0 \/ r.losses[s] = 0)
  <2>1. Acknowledged(r, s) = [r EXCEPT !.losses[s] = 0, !.breaches = @ \ {Breach(s, "STR_CONSEC_LOSSES")}]
    BY <1>2 DEF Acknowledged
  <2>2. Breach(s, "STR_CONSEC_LOSSES") # Breach("global", "PF_DAILY_LOSS_MTM")
    BY DEF Breach
  <2>3. [r.losses EXCEPT ![s] = 0] \in [Strategies -> Nat]
    BY DEF Shape
  <2>4. Acknowledged(r, s) =
          [r EXCEPT !.losses = [r.losses EXCEPT ![s] = 0],
                    !.breaches = r.breaches \ {Breach(s, "STR_CONSEC_LOSSES")}]
    BY <2>1 DEF Shape
  <2> QED
    BY <2>2, <2>3, <2>4 DEF Shape, Recorded
<1> QED
  BY <1>1, <1>2

(* A mark at the limit goes on record.                                     *)
LEMMA MarkRecorded ==
    ASSUME NEW r \in Shape, NEW mark \in Marks, Recorded(r)
    PROVE  LET new == Found(r, mark) \ r.breaches
               n == [Marked(r, mark.equity) EXCEPT !.breaches = @ \cup new]
           IN  n \in Shape /\ Recorded(n) /\ n.entries = r.entries /\ n.day = r.day
<1> DEFINE new == Found(r, mark) \ r.breaches
           n == [Marked(r, mark.equity) EXCEPT !.breaches = @ \cup new]
<1>1. mark.equity \in Nat
  BY LimitsAssumption
<1>2. new \subseteq BreachType
  BY DEF Found
<1>3. n \in Shape /\ n.sod = r.sod /\ n.breaches = r.breaches \cup new /\ n.entries = r.entries /\ n.day = r.day
  BY <1>1, <1>2 DEF Marked, Shape
<1>4. n.low = r.low \/ n.low = mark.equity
  BY DEF Marked, Shape
<1>5. ASSUME ReachesLimit(r.sod, mark.equity)
      PROVE  Breach("global", "PF_DAILY_LOSS_MTM") \in r.breaches \cup new
  <2>1. Breach("global", "PF_DAILY_LOSS_MTM") \in BreachType
    BY DEF Breach, BreachType, BreachCodes, Daily, Switches
  <2> QED
    BY <1>5, <2>1 DEF Found, DailyLoss
<1>6. Recorded(n)
  <2> HIDE DEF n, new
  <2> QED
    BY <1>3, <1>4, <1>5 DEF Recorded
<1> QED
  BY <1>3, <1>6

LEMMA RiskInit ==
    Init => RiskInv
<1> SUFFICES ASSUME Init PROVE RiskInv
  OBVIOUS
<1>1. today \in Nat /\ risk \in Shape
  BY DEF Init, NoRisk, NoEntries, Shape
<1>2. risk.sod = 0 /\ risk.low = 0
  BY DEF Init, NoRisk
<1>3. Recorded(risk)
  BY <1>2, NoFall DEF Recorded
<1> QED
  BY <1>1, <1>3 DEF RiskInv

LEMMA RiskStep ==
    ASSUME RiskInv, [Next]_vars
    PROVE  RiskInv'
<1> USE DEF RiskInv
<1>0. \A mark \in Marks : mark.equity \in Nat
  BY LimitsAssumption
<1>e. \A equity \in Equities : equity \in Nat
  BY <1>0 DEF Equities
<1>l. risk.last \in Nat
  BY DEF Shape
<1>r. Recorded(risk)' <=> Recorded(risk')
  BY DEF Recorded, ReachesLimit, Breach
<1>1. CASE UNCHANGED <<risk, today>>
  BY <1>1 DEF Recorded, ReachesLimit, Breach
<1>2. ASSUME NEW mark \in Marks, TickMarks(mark)
      PROVE  RiskInv'
  <2>1. /\ StartDay(risk, mark.equity) \in Shape
        /\ Recorded(StartDay(risk, mark.equity))
    BY <1>0, StartDayRecorded
  <2> QED
    BY <1>2, <2>1, <1>r, MarkRecorded DEF TickMarks
<1>3. ASSUME NEW s \in Strategies, Enter(s)
      PROVE  RiskInv'
  <2>1. CASE risk.day = 0
    BY <1>3, <2>1, <1>1 DEF Enter
  <2>2. CASE risk.day # 0
    <3> DEFINE c == Current(risk)
    <3>1. c \in Shape /\ Recorded(c)
      BY <1>l, StartDayRecorded DEF Current
    <3>2. risk' = [c EXCEPT !.entries[s] = @ + 1] /\ today' = today
      BY <1>3, <2>2 DEF Enter
    <3> HIDE DEF c
    <3>3. [c.entries EXCEPT ![s] = @ + 1] \in [Strategies -> Nat]
      BY <3>1 DEF Shape
    <3>4. risk' = [c EXCEPT !.entries = [c.entries EXCEPT ![s] = @ + 1]]
      BY <3>2
    <3> QED
      BY <3>1, <3>2, <3>3, <3>4, <1>r DEF Shape, Recorded
  <2> QED
    BY <2>1, <2>2
<1>4. CASE Reduce
  <2>1. Current(risk) \in Shape /\ Recorded(Current(risk))
    BY <1>l, StartDayRecorded DEF Current
  <2> QED
    BY <1>4, <2>1, <1>r DEF Reduce
<1>5. ASSUME NEW x \in Exits, NEW result \in {"loss", "win", "even"}, TradeCloses(x, result)
      PROVE  RiskInv'
  <2>1. Current(risk) \in Shape /\ Recorded(Current(risk))
    BY <1>l, StartDayRecorded DEF Current
  <2>2. /\ RecordTrade(Current(risk), x, result) \in Shape
        /\ Recorded(RecordTrade(Current(risk), x, result))
    BY <2>1, RecordTradeShape DEF Recorded
  <2> QED
    BY <1>5, <2>2, <1>r DEF TradeCloses
<1>6. ASSUME NEW s \in Switches, Acknowledge(s)
      PROVE  RiskInv'
  BY <1>6, <1>r, AcknowledgedShape DEF Acknowledge
<1>7. ASSUME NEW equity \in Equities, NEW hookFails \in BOOLEAN, SessionStarts(equity, hookFails)
      PROVE  RiskInv'
  BY <1>7, <1>e, <1>r, StartDayRecorded DEF SessionStarts
<1>8. CASE NextDay
  BY <1>8, <1>r DEF NextDay
<1>9. CASE \/ TickStarts \/ TickHalt \/ Vetoed \/ Stop \/ Crash
           \/ UNCHANGED vars
           \/ \E b \in BreachType : TickApplies(b)
           \/ OperatorTrips("HALT_NEW", "API_HALT") \/ OperatorTrips("FLATTEN", "API_FLATTEN")
           \/ \E s \in Switches : Resume(s)
           \/ \E content \in {"absent"} \cup Kills : HaltFile(content)
  BY <1>9, <1>1 DEF TickStarts, TickHalt, Vetoed, Stop, Crash, Dies, vars, TickApplies,
                    OperatorTrips, Resume, HaltFile
<1> QED
  BY <1>2, <1>3, <1>4, <1>5, <1>6, <1>7, <1>8, <1>9 DEF Next, Tick

(* A mark at or below the daily loss limit is never forgotten (risk_tick,  *)
(* start_day): over any restarts and crashes of the day the breach stays   *)
(* on record.                                                              *)
THEOREM LossStaysOnRecord ==
    Spec => []LossOnRecord
<1>1. RiskInv => LossOnRecord
  BY DEF RiskInv, Recorded, LossOnRecord
<1> QED
  BY <1>1, RiskInit, RiskStep, PTL DEF Spec

-----------------------------------------------------------------------------
(* The switches, when handlers run to their end and no trip re-arms.       *)

Lasting(states) == [state : states, day : {0}]

(* What has been asked of a switch: it stands there, or the running tick   *)
(* still has to act on the breach that asks for it.                        *)
Met(s, q) ==
    \/ Rank(q.state) <= Rank(switch[s].state)
    \/ pc = "apply" /\ \E b \in todo : b.name = s /\ Action(b) = q.state

LatchInv ==
    /\ switch \in [Switches -> Lasting(KillStates)]
    /\ requests \in [Switches -> SUBSET Lasting(Kills)]
    /\ halt \in {"absent"} \cup Kills
    /\ todo \subseteq BreachType
    /\ \A s \in Switches : \A q \in requests[s] : Met(s, q)

LEMMA RecordLasts ==
    ASSUME ~RearmOnNewDay, NEW target \in Kills, NEW code
    PROVE  Record(target, code) \in Lasting(Kills) /\ Record(target, code).state = target
BY DEF Record, Lasting

LEMMA ActionType ==
    ASSUME NEW b
    PROVE  Action(b) \in Kills
BY LimitsAssumption DEF Action, Kills

(* A trip lowers no switch and brings its own to the target.               *)
LEMMA TripLatches ==
    ASSUME NEW sw \in [Switches -> Lasting(KillStates)], NEW s \in Switches,
           NEW record \in Lasting(Kills)
    PROVE  /\ Trip(sw, s, record) \in [Switches -> Lasting(KillStates)]
           /\ \A u \in Switches : Rank(sw[u].state) <= Rank(Trip(sw, s, record)[u].state)
           /\ Rank(record.state) <= Rank(Trip(sw, s, record)[s].state)
<1>1. record \in Lasting(KillStates)
  BY DEF Lasting, KillStates
<1>2. Rank(record.state) \in Nat /\ \A u \in Switches : Rank(sw[u].state) \in Nat
  BY <1>1, RankType DEF Lasting
<1> QED
  BY <1>1, <1>2 DEF Trip

(* A HALT file, once looked at, holds the global switch.                   *)
LEMMA HaltFileLatches ==
    ASSUME ~RearmOnNewDay, NEW sw \in [Switches -> Lasting(KillStates)], halt \in {"absent"} \cup Kills
    PROVE  /\ CheckHaltFile(sw) \in [Switches -> Lasting(KillStates)]
           /\ \A u \in Switches : Rank(sw[u].state) <= Rank(CheckHaltFile(sw)[u].state)
           /\ halt # "absent" => Rank(halt) <= Rank(CheckHaltFile(sw)["global"].state)
<1>1. "global" \in Switches
  BY DEF Switches
<1>2. CASE halt = "absent"
  BY <1>2, RankType DEF CheckHaltFile, Lasting
<1>3. CASE halt # "absent"
  <2>1. Record(halt, "HALT_FILE") \in Lasting(Kills) /\ Record(halt, "HALT_FILE").state = halt
    BY <1>3, RecordLasts
  <2> QED
    BY <1>1, <1>3, <2>1, TripLatches DEF CheckHaltFile
<1> QED
  BY <1>2, <1>3

(* The requests that were met stay met when no switch falls.               *)
LEMMA StillMet ==
    ASSUME LatchInv, pc # "apply",
           switch' \in [Switches -> Lasting(KillStates)],
           \A u \in Switches : Rank(switch[u].state) <= Rank(switch'[u].state)
    PROVE  \A u \in Switches : \A q \in requests[u] : Rank(q.state) <= Rank(switch'[u].state)
<1> SUFFICES ASSUME NEW u \in Switches, NEW q \in requests[u]
             PROVE  Rank(q.state) <= Rank(switch'[u].state)
  OBVIOUS
<1>1. Rank(q.state) <= Rank(switch[u].state)
  BY DEF LatchInv, Met
<1>2. q.state \in KillStates /\ switch[u].state \in KillStates /\ switch'[u].state \in KillStates
  BY DEF LatchInv, Lasting, KillStates
<1>3. Rank(q.state) \in Nat /\ Rank(switch[u].state) \in Nat /\ Rank(switch'[u].state) \in Nat
  BY <1>2, RankType
<1> QED
  BY <1>1, <1>3

(* Looking at the HALT file keeps every request met.                       *)
LEMMA HaltSeenLatches ==
    ASSUME ~RearmOnNewDay, LatchInv, pc # "apply", HaltSeen, UNCHANGED <<halt, todo>>
    PROVE  LatchInv'
<1>1. /\ switch' \in [Switches -> Lasting(KillStates)]
      /\ \A u \in Switches : Rank(switch[u].state) <= Rank(switch'[u].state)
      /\ halt # "absent" => Rank(halt) <= Rank(switch'["global"].state)
  BY HaltFileLatches DEF HaltSeen, LatchInv
<1>2. \A u \in Switches : \A q \in requests[u] : Rank(q.state) <= Rank(switch'[u].state)
  BY <1>1, StillMet
<1>3. CASE halt = "absent"
  BY <1>1, <1>2, <1>3 DEF HaltSeen, LatchInv, Met
<1>4. CASE halt # "absent"
  <2>1. Record(halt, "HALT_FILE") \in Lasting(Kills) /\ Record(halt, "HALT_FILE").state = halt
    BY <1>4, RecordLasts DEF LatchInv
  <2>2. requests' = [requests EXCEPT !["global"] = @ \cup {Record(halt, "HALT_FILE")}]
    BY <1>4 DEF HaltSeen
  <2>3. requests' \in [Switches -> SUBSET Lasting(Kills)]
    BY <2>1, <2>2 DEF LatchInv
  <2>4. \A u \in Switches : \A q \in requests'[u] : Rank(q.state) <= Rank(switch'[u].state)
    BY <1>1, <1>2, <1>4, <2>1, <2>2 DEF LatchInv
  <2> QED
    BY <1>1, <2>3, <2>4 DEF LatchInv, Met
<1> QED
  BY <1>3, <1>4

LEMMA LatchInit ==
    Init => LatchInv
BY DEF Init, LatchInv, Rearmed, Lasting, KillStates, Kills

LEMMA LatchStep ==
    ASSUME ~Torn, ~RearmOnNewDay, LatchInv, [Next]_vars
    PROVE  LatchInv'
<1>1. CASE UNCHANGED <<switch, requests, halt, todo, pc>>
  BY <1>1 DEF LatchInv, Met
<1>2. CASE TickStarts
  <2>1. \A s \in Switches : ~Lapsed(switch[s])
    BY DEF Lapsed, LatchInv, Lasting
  <2>2. switch' = switch
    BY <1>2, <2>1 DEF TickStarts, LatchInv
  <2>3. pc # "apply" /\ \A s \in Switches : requests'[s] \subseteq requests[s]
    BY <1>2 DEF TickStarts, Running
  <2>4. requests' \in [Switches -> SUBSET Lasting(Kills)]
    BY <1>2 DEF TickStarts, LatchInv
  <2> QED
    BY <1>2, <2>2, <2>3, <2>4 DEF TickStarts, LatchInv, Met
<1>3. CASE TickHalt \/ Vetoed \/ Reduce \/ \E s \in Strategies : Enter(s)
  BY <1>3, HaltSeenLatches DEF TickHalt, Vetoed, Reduce, Enter, Running
<1>4. ASSUME NEW mark \in Marks, TickMarks(mark)
      PROVE  LatchInv'
  <2> DEFINE new == Found(StartDay(risk, mark.equity), mark) \ StartDay(risk, mark.equity).breaches
             Asked(s) == {Record(Action(b), b.code) : b \in {n \in new : n.name = s}}
  <2>1. /\ pc = "mark" /\ todo' = new
        /\ requests' = [s \in Switches |-> requests[s] \cup Asked(s)]
        /\ pc' = IF new = {} THEN "idle" ELSE "apply"
        /\ UNCHANGED <<switch, halt>>
    BY <1>4 DEF TickMarks
  <2>2. new \subseteq BreachType
    BY DEF Found
  <2>3. \A b \in new : Record(Action(b), b.code) \in Lasting(Kills) /\ Record(Action(b), b.code).state = Action(b)
    BY ActionType, RecordLasts
  <2> HIDE DEF new
  <2>4. requests' \in [Switches -> SUBSET Lasting(Kills)]
    BY <2>1, <2>3 DEF LatchInv
  <2>5. ASSUME NEW s \in Switches, NEW q \in requests'[s]
        PROVE  Met(s, q)'
    <3>1. CASE q \in requests[s]
      BY <2>1, <3>1 DEF LatchInv, Met
    <3>2. CASE q \in Asked(s)
      BY <2>1, <2>3, <3>2 DEF Met
    <3> QED
      BY <2>1, <2>5, <3>1, <3>2
  <2> QED
    BY <2>1, <2>2, <2>4, <2>5 DEF LatchInv
<1>5. ASSUME NEW b \in BreachType, TickApplies(b)
      PROVE  LatchInv'
  <2> DEFINE record == Record(Action(b), b.code)
  <2>1. record \in Lasting(Kills) /\ record.state = Action(b)
    BY ActionType, RecordLasts
  <2>2. b.name \in Switches
    BY DEF BreachType
  <2>3. /\ pc = "apply" /\ b \in todo /\ switch' = Trip(switch, b.name, record)
        /\ todo' = todo \ {b} /\ pc' = IF todo = {b} THEN "idle" ELSE "apply"
        /\ UNCHANGED <<requests, halt>>
    BY <1>5 DEF TickApplies
  <2> HIDE DEF record
  <2>4. /\ switch' \in [Switches -> Lasting(KillStates)]
        /\ \A u \in Switches : Rank(switch[u].state) <= Rank(switch'[u].state)
        /\ Rank(record.state) <= Rank(switch'[b.name].state)
    BY <2>1, <2>2, <2>3, TripLatches DEF LatchInv
  <2>5. ASSUME NEW s \in Switches, NEW q \in requests'[s]
        PROVE  Met(s, q)'
    <3>1. Met(s, q) /\ q \in Lasting(Kills)
      BY <2>3, <2>5 DEF LatchInv
    <3>2. CASE Rank(q.state) <= Rank(switch[s].state)
      <4>1. Rank(q.state) \in Nat /\ Rank(switch[s].state) \in Nat /\ Rank(switch'[s].state) \in Nat
        BY <2>4, <3>1, RankType DEF LatchInv, Lasting, KillStates
      <4> QED
        BY <2>4, <3>2, <4>1 DEF Met
    <3>3. CASE \E a \in todo : a.name = s /\ Action(a) = q.state
      <4>1. PICK a \in todo : a.name = s /\ Action(a) = q.state
        BY <3>3
      <4>2. CASE a = b
        BY <2>1, <2>4, <4>1, <4>2 DEF Met
      <4>3. CASE a # b
        BY <2>3, <4>1, <4>3 DEF Met
      <4> QED
        BY <4>2, <4>3
    <3> QED
      BY <3>1, <3>2, <3>3 DEF Met
  <2> QED
    BY <2>3, <2>4, <2>5 DEF LatchInv
<1>6. ASSUME NEW target \in Kills, NEW code, OperatorTrips(target, code)
      PROVE  LatchInv'
  <2> DEFINE record == Record(target, code)
  <2>1. record \in Lasting(Kills) /\ "global" \in Switches
    BY RecordLasts DEF Switches
  <2>2. /\ pc # "apply" /\ switch' = Trip(switch, "global", record)
        /\ requests' = [requests EXCEPT !["global"] = @ \cup {record}]
        /\ UNCHANGED <<halt, todo>>
    BY <1>6 DEF OperatorTrips
  <2> HIDE DEF record
  <2>3. /\ switch' \in [Switches -> Lasting(KillStates)]
        /\ \A u \in Switches : Rank(switch[u].state) <= Rank(switch'[u].state)
        /\ Rank(record.state) <= Rank(switch'["global"].state)
    BY <2>1, <2>2, TripLatches DEF LatchInv
  <2>4. \A u \in Switches : \A q \in requests[u] : Rank(q.state) <= Rank(switch'[u].state)
    BY <2>2, <2>3, StillMet
  <2> QED
    BY <2>1, <2>2, <2>3, <2>4 DEF LatchInv, Met
<1>7. ASSUME NEW s \in Switches, Resume(s)
      PROVE  LatchInv'
  <2>1. Rearmed \in Lasting(KillStates)
    BY DEF Rearmed, Lasting, KillStates
  <2>2. pc # "apply"
    BY <1>7 DEF Resume, Resumes
  <2> QED
    BY <1>7, <2>1, <2>2 DEF Resume, LatchInv, Met
<1>8. CASE Stop
  BY <1>8 DEF Stop, Dies, LatchInv, Met
<1>9. ASSUME NEW content \in {"absent"} \cup Kills, HaltFile(content)
      PROVE  LatchInv'
  BY <1>9 DEF HaltFile, LatchInv, Met
<1>10. ASSUME NEW s \in Switches, Acknowledge(s)
       PROVE  LatchInv'
  BY <1>10 DEF Acknowledge, LatchInv, Met
<1>11. CASE \/ \E x \in Exits, result \in {"loss", "win", "even"} : TradeCloses(x, result)
            \/ \E equity \in Equities, hookFails \in BOOLEAN : SessionStarts(equity, hookFails)
            \/ NextDay \/ UNCHANGED vars
  BY <1>1, <1>11 DEF TradeCloses, SessionStarts, NextDay, vars
<1> QED
  BY <1>2, <1>3, <1>4, <1>5, <1>6, <1>7, <1>8, <1>9, <1>10, <1>11 DEF Next, Tick, Crash, Kills

(* Switches latch (trip, apply, check_halt_file, resume): when handlers    *)
(* run to their end and daily trips are not re-armed, every switch stands  *)
(* at least where anything since its last resume asked it to stand.        *)
THEOREM SwitchesLatch ==
    ASSUME ~Torn, ~RearmOnNewDay
    PROVE  Spec => []Latched
<1>1. LatchInv => Latched
  BY DEF LatchInv, Met, Latched
<1> QED
  BY <1>1, LatchInit, LatchStep, PTL DEF Spec

(* The only step that raises an entry count is Enter, which the gate lets  *)
(* through only with both switches armed and no HALT file.                 *)
Counted(s) == risk'.entries[s] <= (IF risk'.day = risk.day THEN risk.entries[s] ELSE 0)

(* Keeping the state, or starting its day, raises no count.                *)
LEMMA StartDayCounts ==
    ASSUME NEW r \in Shape, NEW equity \in Nat, today \in Nat, NEW s \in Strategies
    PROVE  StartDay(r, equity).entries[s] <=
               (IF StartDay(r, equity).day = r.day THEN r.entries[s] ELSE 0)
<1>1. r.entries[s] \in Nat
  BY DEF Shape
<1>2. CASE StartDay(r, equity) = r
  BY <1>1, <1>2
<1>3. CASE r.day # today /\ StartDay(r, equity).entries = NoEntries
  BY <1>3, StartDayShape DEF NoEntries
<1> QED
  BY <1>2, <1>3, StartDayShape

LEMMA EntryNeedsArmed ==
    ASSUME ~RearmOnNewDay, LatchInv, NEW s \in Strategies, Enter(s)
    PROVE  ~Halted(s)
<1>1. pc # "apply" /\ s \in Switches /\ "global" \in Switches
  BY DEF Enter, Running, Switches
<1>2. /\ CheckHaltFile(switch) \in [Switches -> Lasting(KillStates)]
      /\ \A u \in Switches : Rank(switch[u].state) <= Rank(CheckHaltFile(switch)[u].state)
      /\ halt # "absent" => Rank(halt) <= Rank(CheckHaltFile(switch)["global"].state)
  BY HaltFileLatches DEF LatchInv
<1>3. Rank(CheckHaltFile(switch)["global"].state) = 0 /\ Rank(CheckHaltFile(switch)[s].state) = 0
  BY DEF Enter, MayEnter, Rank
<1>4. \A kill \in Kills : Rank(kill) \in Nat /\ Rank(kill) # 0
  BY RankType DEF Kills, KillStates
<1>5. halt = "absent"
  BY <1>2, <1>3, <1>4 DEF LatchInv
<1>6. ASSUME NEW u \in {"global", s}
      PROVE  requests[u] = {}
  <2>1. Rank(switch[u].state) = 0
    <3>1. Rank(switch[u].state) \in Nat
      BY <1>1, RankType DEF LatchInv, Lasting
    <3> QED
      BY <1>1, <1>2, <1>3, <3>1
  <2>2. ASSUME NEW q \in requests[u] PROVE FALSE
    <3>1. q.state \in Kills /\ Met(u, q)
      BY <1>1 DEF LatchInv, Lasting
    <3> QED
      BY <1>1, <1>4, <2>1, <3>1 DEF Met
  <2> QED
    BY <2>2
<1> QED
  BY <1>5, <1>6 DEF Halted

LEMMA EntryStep ==
    ASSUME ~RearmOnNewDay, RiskInv, LatchInv, [Next]_vars, NEW s \in Strategies, Halted(s)
    PROVE  Counted(s)
<1> USE DEF RiskInv, Counted
<1>0. \A mark \in Marks : mark.equity \in Nat
  BY LimitsAssumption
<1>e. \A equity \in Equities : equity \in Nat
  BY <1>0 DEF Equities
<1>l. risk.last \in Nat
  BY DEF Shape
<1>s. risk.entries[s] \in Nat
  BY DEF Shape
<1>1. CASE risk' = risk
  BY <1>1, <1>s
<1>2. ASSUME NEW mark \in Marks, TickMarks(mark)
      PROVE  Counted(s)
  <2> DEFINE r == StartDay(risk, mark.equity)
  <2>1. r \in Shape /\ Recorded(r) /\ r.entries[s] <= (IF r.day = risk.day THEN risk.entries[s] ELSE 0)
    BY <1>0, StartDayRecorded, StartDayCounts
  <2>2. risk'.entries = r.entries /\ risk'.day = r.day
    <3> HIDE DEF r
    <3>1. risk' = [Marked(r, mark.equity) EXCEPT !.breaches = @ \cup (Found(r, mark) \ r.breaches)]
      BY <1>2 DEF TickMarks, r
    <3> QED
      BY <2>1, <3>1, MarkRecorded
  <2> QED
    BY <2>1, <2>2
<1>3. ASSUME NEW u \in Strategies, Enter(u)
      PROVE  Counted(s)
  <2>1. u # s
    BY <1>3, EntryNeedsArmed
  <2>2. CASE risk.day = 0
    BY <1>1, <1>3, <2>2 DEF Enter
  <2>3. CASE risk.day # 0
    <3> DEFINE c == Current(risk)
    <3>1. c \in Shape /\ c.entries[s] <= (IF c.day = risk.day THEN risk.entries[s] ELSE 0)
      BY <1>l, StartDayShape, StartDayCounts DEF Current
    <3>2. risk' = [c EXCEPT !.entries[u] = @ + 1]
      BY <1>3, <2>3 DEF Enter
    <3> HIDE DEF c
    <3>3. risk'.entries[s] = c.entries[s] /\ risk'.day = c.day
      BY <2>1, <3>1, <3>2 DEF Shape
    <3> QED
      BY <3>1, <3>3
  <2> QED
    BY <2>2, <2>3
<1>4. CASE Reduce
  <2>1. CASE risk.day = 0
    BY <1>1, <1>4, <2>1 DEF Reduce
  <2>2. CASE risk.day # 0
    BY <1>4, <1>l, <2>2, StartDayCounts DEF Reduce, Current
  <2> QED
    BY <2>1, <2>2
<1>5. ASSUME NEW x \in Exits, NEW result \in {"loss", "win", "even"}, TradeCloses(x, result)
      PROVE  Counted(s)
  <2>1. CASE risk.day = 0
    BY <1>1, <1>5, <2>1 DEF TradeCloses
  <2>2. CASE risk.day # 0
    <3>1. /\ Current(risk) \in Shape
          /\ Current(risk).entries[s] <= (IF Current(risk).day = risk.day THEN risk.entries[s] ELSE 0)
      BY <1>l, StartDayShape, StartDayCounts DEF Current
    <3> QED
      BY <1>5, <2>2, <3>1, RecordTradeShape DEF TradeCloses
  <2> QED
    BY <2>1, <2>2
<1>6. ASSUME NEW u \in Switches, Acknowledge(u)
      PROVE  Counted(s)
  BY <1>1, <1>6, <1>s, AcknowledgedShape DEF Acknowledge
<1>7. ASSUME NEW equity \in Equities, NEW hookFails \in BOOLEAN, SessionStarts(equity, hookFails)
      PROVE  Counted(s)
  BY <1>1, <1>7, <1>e, StartDayCounts DEF SessionStarts
<1>8. CASE \/ TickStarts \/ TickHalt \/ Vetoed \/ Stop \/ Crash \/ NextDay
           \/ UNCHANGED vars
           \/ \E b \in BreachType : TickApplies(b)
           \/ OperatorTrips("HALT_NEW", "API_HALT") \/ OperatorTrips("FLATTEN", "API_FLATTEN")
           \/ \E u \in Switches : Resume(u)
           \/ \E content \in {"absent"} \cup Kills : HaltFile(content)
  BY <1>8, <1>1 DEF TickStarts, TickHalt, Vetoed, Stop, Crash, Dies, NextDay, vars, TickApplies,
                    OperatorTrips, Resume, HaltFile
<1> QED
  BY <1>2, <1>3, <1>4, <1>5, <1>6, <1>7, <1>8 DEF Next, Tick

(* No entry slips through (RiskGate.__call__, record_order): with handlers *)
(* that run to their end and daily trips that stay, no opening order is    *)
(* counted for a strategy while a HALT file exists or anything asked of    *)
(* its switch or the global one is outstanding.                            *)
THEOREM NoEntrySlipsThrough ==
    ASSUME ~Torn, ~RearmOnNewDay
    PROVE  Spec => NoEntryWhileHalted
<1>1. RiskInv /\ LatchInv /\ [Next]_vars =>
          [\A s \in Strategies :
              Halted(s) => risk'.entries[s] <= (IF risk'.day = risk.day THEN risk.entries[s] ELSE 0)]_vars
  BY EntryStep DEF Counted
<1> QED
  BY <1>1, RiskInit, RiskStep, LatchInit, LatchStep, PTL DEF Spec, NoEntryWhileHalted

-----------------------------------------------------------------------------
(* The day is kept.                                                        *)

(* What one state of the day may become.                                   *)
Kept(r, n) ==
    /\ n.peak >= r.peak
    /\ n.day >= r.day
    /\ n.day = r.day => /\ n.sod = r.sod
                        /\ n.low <= r.low
                        /\ \A s \in Strategies : n.entries[s] >= r.entries[s]

(* The state is of today or of an earlier day.                             *)
DayInv == RiskInv /\ today >= 1 /\ risk.day <= today

LEMMA KeptSame ==
    ASSUME NEW r \in Shape
    PROVE  Kept(r, r)
BY DEF Kept, Shape

LEMMA KeptTwice ==
    ASSUME NEW r \in Shape, NEW m \in Shape, NEW n \in Shape, Kept(r, m), Kept(m, n), m.day = n.day
    PROVE  Kept(r, n)
BY DEF Kept, Shape

(* start_day() keeps the state of the day, and the peak across days.       *)
LEMMA StartDayKeeps ==
    ASSUME NEW r \in Shape, NEW equity \in Nat, today \in Nat, r.day <= today
    PROVE  Kept(r, StartDay(r, equity))
<1>1. CASE r.day = today
  BY <1>1, KeptSame DEF StartDay
<1>2. CASE r.day # today
  BY <1>2 DEF StartDay, Kept, Shape
<1> QED
  BY <1>1, <1>2

(* A mark lowers the day's low and raises the peak, no more.               *)
LEMMA MarkKeeps ==
    ASSUME NEW r \in Shape, NEW equity \in Nat, NEW new \in SUBSET BreachType
    PROVE  LET n == [Marked(r, equity) EXCEPT !.breaches = @ \cup new]
           IN  n \in Shape /\ n.day = r.day /\ Kept(r, n)
<1> DEFINE n == [Marked(r, equity) EXCEPT !.breaches = @ \cup new]
<1>1. n \in Shape /\ n.day = r.day /\ n.sod = r.sod /\ n.entries = r.entries
  BY DEF Marked, Shape
<1>2. n.peak = (IF equity > r.peak THEN equity ELSE r.peak) /\ n.low = (IF equity < r.low THEN equity ELSE r.low)
  BY DEF Marked, Shape
<1> HIDE DEF n
<1>3. Kept(r, n)
  BY <1>1, <1>2 DEF Kept, Shape
<1> QED
  BY <1>1, <1>3 DEF n

(* So does a closed trade, which touches neither.                          *)
LEMMA TradeKeeps ==
    ASSUME NEW r \in Shape, NEW x \in Exits, NEW result \in {"loss", "win", "even"}
    PROVE  Kept(r, RecordTrade(r, x, result)) /\ RecordTrade(r, x, result).peak = r.peak
<1>1. RecordTrade(r, x, result).peak = r.peak
  BY DEF RecordTrade, Shape
<1> QED
  BY <1>1, RecordTradeShape DEF Kept, Shape

LEMMA AcknowledgedKeeps ==
    ASSUME NEW r \in Shape, NEW s \in Strategies
    PROVE  Kept(r, Acknowledged(r, s))
<1>1. /\ Acknowledged(r, s).peak = r.peak /\ Acknowledged(r, s).sod = r.sod
      /\ Acknowledged(r, s).low = r.low
  BY DEF Acknowledged, Shape
<1> QED
  BY <1>1, AcknowledgedShape DEF Kept, Shape

(* What a step does to the state of the day.                               *)
LEMMA DayStep ==
    ASSUME DayInv, [Next]_vars
    PROVE  DayInv' /\ Kept(risk, risk')
<1>a. RiskInv'
  BY RiskStep DEF DayInv
<1>t. today \in Nat /\ risk \in Shape /\ risk' \in Shape /\ today' \in Nat /\ risk.day <= today
  BY <1>a DEF DayInv, RiskInv
<1>d. today' = today \/ today' = today + 1
  BY <1>t DEF Next, vars, Tick, TickStarts, TickHalt, TickMarks, TickApplies, Enter, Vetoed, Reduce,
        TradeCloses, OperatorTrips, Resume, Acknowledge, HaltFile, SessionStarts, Stop, Crash, Dies, NextDay
<1> SUFFICES risk'.day <= today' /\ Kept(risk, risk')
  BY <1>a, <1>d, <1>t DEF DayInv
<1>0. \A mark \in Marks : mark.equity \in Nat
  BY LimitsAssumption
<1>e. \A equity \in Equities : equity \in Nat
  BY <1>0 DEF Equities
<1>l. risk.last \in Nat /\ risk.day \in Nat
  BY <1>t DEF Shape
<1>c. ASSUME NEW equity \in Nat
      PROVE  /\ StartDay(risk, equity) \in Shape /\ StartDay(risk, equity).day = today
             /\ Kept(risk, StartDay(risk, equity))
  BY <1>t, StartDayShape, StartDayKeeps
<1>1. CASE risk' = risk
  BY <1>1, <1>d, <1>t, <1>l, KeptSame
<1>2. ASSUME NEW mark \in Marks, TickMarks(mark)
      PROVE  risk'.day <= today' /\ Kept(risk, risk')
  <2> DEFINE r == StartDay(risk, mark.equity)
             new == Found(r, mark) \ r.breaches
  <2>1. r \in Shape /\ r.day = today /\ Kept(risk, r)
    BY <1>0, <1>c
  <2>2. new \in SUBSET BreachType
    BY DEF Found
  <2>3. risk' = [Marked(r, mark.equity) EXCEPT !.breaches = @ \cup new] /\ today' = today
    BY <1>2 DEF TickMarks
  <2> HIDE DEF r, new
  <2>4. risk'.day = r.day /\ Kept(r, risk')
    BY <1>0, <2>1, <2>2, <2>3, MarkKeeps
  <2>5. Kept(risk, risk')
    BY <1>t, <2>1, <2>4, KeptTwice
  <2> QED
    BY <1>t, <2>1, <2>3, <2>4, <2>5
<1>3. ASSUME NEW s \in Strategies, Enter(s), risk.day # 0
      PROVE  risk'.day <= today' /\ Kept(risk, risk')
  <2> DEFINE c == Current(risk)
  <2>1. c \in Shape /\ c.day = today /\ Kept(risk, c)
    BY <1>l, <1>c DEF Current
  <2>2. risk' = [c EXCEPT !.entries[s] = @ + 1] /\ today' = today
    BY <1>3 DEF Enter
  <2> HIDE DEF c
  <2>3. \A u \in Strategies : risk'.entries[u] >= c.entries[u]
    BY <2>1, <2>2 DEF Shape
  <2>4. risk'.day = c.day /\ risk'.peak = c.peak /\ risk'.sod = c.sod /\ risk'.low = c.low
    BY <2>1, <2>2 DEF Shape
  <2>5. Kept(c, risk')
    BY <2>1, <2>3, <2>4 DEF Kept, Shape
  <2>6. Kept(risk, risk')
    BY <1>t, <2>1, <2>4, <2>5, KeptTwice
  <2> QED
    BY <1>t, <2>1, <2>2, <2>4, <2>6
<1>4. ASSUME Reduce, risk.day # 0
      PROVE  risk'.day <= today' /\ Kept(risk, risk')
  BY <1>4, <1>l, <1>t, <1>c DEF Reduce, Current
<1>5. ASSUME NEW x \in Exits, NEW result \in {"loss", "win", "even"}, TradeCloses(x, result), risk.day # 0
      PROVE  risk'.day <= today' /\ Kept(risk, risk')
  <2> DEFINE c == Current(risk)
  <2>1. c \in Shape /\ c.day = today /\ Kept(risk, c)
    BY <1>l, <1>c DEF Current
  <2>2. risk' = RecordTrade(c, x, result) /\ today' = today
    BY <1>5 DEF TradeCloses
  <2> HIDE DEF c
  <2>3. risk'.day = c.day /\ Kept(c, risk')
    BY <2>1, <2>2, TradeKeeps, RecordTradeShape
  <2>4. Kept(risk, risk')
    BY <1>t, <2>1, <2>3, KeptTwice
  <2> QED
    BY <1>t, <2>1, <2>2, <2>3, <2>4
<1>6. ASSUME NEW s \in Switches, Acknowledge(s)
      PROVE  risk'.day <= today' /\ Kept(risk, risk')
  BY <1>6, <1>1, <1>t, AcknowledgedShape, AcknowledgedKeeps DEF Acknowledge
<1>7. ASSUME NEW equity \in Equities, NEW hookFails \in BOOLEAN, SessionStarts(equity, hookFails)
      PROVE  risk'.day <= today' /\ Kept(risk, risk')
  BY <1>7, <1>1, <1>e, <1>c, <1>t DEF SessionStarts
<1>8. CASE risk.day = 0 /\ (Reduce \/ (\E s \in Strategies : Enter(s))
              \/ \E x \in Exits, result \in {"loss", "win", "even"} : TradeCloses(x, result))
  BY <1>8, <1>1 DEF Reduce, Enter, TradeCloses
<1>9. CASE \/ TickStarts \/ TickHalt \/ Vetoed \/ Stop \/ Crash \/ NextDay
           \/ UNCHANGED vars
           \/ \E b \in BreachType : TickApplies(b)
           \/ OperatorTrips("HALT_NEW", "API_HALT") \/ OperatorTrips("FLATTEN", "API_FLATTEN")
           \/ \E s \in Switches : Resume(s)
           \/ \E content \in {"absent"} \cup Kills : HaltFile(content)
  BY <1>9, <1>1 DEF TickStarts, TickHalt, Vetoed, Stop, Crash, Dies, NextDay, vars, TickApplies,
                    OperatorTrips, Resume, HaltFile
<1> QED
  BY <1>2, <1>3, <1>4, <1>5, <1>6, <1>7, <1>8, <1>9 DEF Next, Tick

LEMMA DayInit ==
    Init => DayInv
BY RiskInit DEF Init, NoRisk, DayInv

(* The day is kept (start_day, _current): whatever stops, crashes and      *)
(* restarts come, within a day the start-of-day equity stands, the low     *)
(* only falls and no entry is uncounted; across days the peak never falls. *)
THEOREM DayStaysKept ==
    Spec => DayIsKept
<1>1. DayInv /\ [Next]_vars => [Kept(risk, risk')]_vars
  BY DayStep
<1>2. DayInv /\ [Next]_vars => DayInv'
  BY DayStep
<1>3. Spec => [][Kept(risk, risk')]_vars
  BY <1>1, <1>2, DayInit, PTL DEF Spec
<1> QED
  BY <1>3 DEF Kept, DayIsKept

-----------------------------------------------------------------------------
(* Streaks.                                                                *)

(* The count by hand remembers the same last exit as the code, an exit     *)
(* that has not closed is in neither, and but for a strategy that is being *)
(* re-armed the two counts agree.                                          *)
Agrees(s) == tally[s].odd \/ s \in cur \/ risk.losses[s] = Cardinality(tally[s].lost)

EarnedInv ==
    /\ DayInv
    /\ pieces \in [Exits -> Nat]
    /\ tally \in [Strategies -> TallyType]
    /\ pc # "ack" => cur = {}
    /\ risk.day = 0 => \A s \in Strategies : risk.losses[s] = 0
    /\ \A s \in Strategies : tally[s].latest = risk.lastExit[s]
    /\ \A s \in Strategies : \A x \in Exits :
          pieces[x] = 0 => x \notin tally[s].lost /\ x \notin tally[s].latest
    /\ \A s \in Strategies : s \in cur => tally[s].lost = {}
    /\ \A s \in Strategies : Agrees(s)

LEMMA LostFinite ==
    ASSUME NEW set \in SUBSET Exits
    PROVE  /\ Cardinality(set) \in Nat
           /\ \A x \in Exits \ set : Cardinality(set \cup {x}) = Cardinality(set) + 1
<1>1. IsFiniteSet(set)
  BY StrategiesAssumption, FS_Subset
<1> QED
  BY <1>1, FS_CardinalityType, FS_AddElement

(* Starting a day leaves the streaks.                                      *)
LEMMA StartDayLosses ==
    ASSUME NEW r \in Shape, NEW equity \in Nat
    PROVE  StartDay(r, equity).losses = r.losses /\ StartDay(r, equity).lastExit = r.lastExit
BY DEF StartDay, Shape

(* A closed trade touches its strategy's streak only, and only if its exit *)
(* is not the last one counted.                                            *)
LEMMA RecordTradeLosses ==
    ASSUME NEW r \in Shape, NEW x \in Exits, NEW result \in {"loss", "win", "even"}
    PROVE  LET n == RecordTrade(r, x, result)
               o == Owner[x]
           IN  /\ \A s \in Strategies \ {o} : n.losses[s] = r.losses[s] /\ n.lastExit[s] = r.lastExit[s]
               /\ n.lastExit[o] = {x}
               /\ r.lastExit[o] = {x} => n.losses[o] = r.losses[o]
               /\ r.lastExit[o] # {x} =>
                     /\ result = "loss" => n.losses[o] = r.losses[o] + 1
                     /\ result = "win" => n.losses[o] = 0
                     /\ result = "even" => n.losses[o] = r.losses[o]
<1>1. Owner[x] \in Strategies
  BY StrategiesAssumption
<1>2. r.losses \in [Strategies -> Nat] /\ r.lastExit \in [Strategies -> SUBSET Exits]
  BY DEF Shape
<1>3. CASE r.lastExit[Owner[x]] = {x}
  BY <1>1, <1>2, <1>3 DEF RecordTrade
<1>4. CASE r.lastExit[Owner[x]] # {x}
  <2> DEFINE n == CASE result = "loss" -> r.losses[Owner[x]] + 1
                    [] result = "win" -> 0
                    [] OTHER -> r.losses[Owner[x]]
  <2>1. /\ RecordTrade(r, x, result).losses = [r.losses EXCEPT ![Owner[x]] = n]
        /\ RecordTrade(r, x, result).lastExit = [r.lastExit EXCEPT ![Owner[x]] = {x}]
    BY <1>4 DEF RecordTrade, Shape
  <2>2. n = CASE result = "loss" -> r.losses[Owner[x]] + 1
              [] result = "win" -> 0
              [] OTHER -> r.losses[Owner[x]]
    OBVIOUS
  <2> HIDE DEF n
  <2> QED
    BY <1>1, <1>2, <1>4, <2>1, <2>2
<1> QED
  BY <1>3, <1>4

LEMMA AcknowledgedLosses ==
    ASSUME NEW r \in Shape, NEW s \in Strategies, r.day = 0 => r.losses[s] = 0
    PROVE  /\ Acknowledged(r, s).losses[s] = 0
           /\ Acknowledged(r, s).lastExit = r.lastExit
           /\ \A u \in Strategies \ {s} : Acknowledged(r, s).losses[u] = r.losses[u]
BY DEF Acknowledged, Shape

LEMMA EarnedInit ==
    Init => EarnedInv
<1> SUFFICES ASSUME Init PROVE EarnedInv
  OBVIOUS
<1>1. \A s \in Strategies : /\ tally[s] = [lost |-> {}, latest |-> {}, odd |-> FALSE]
                            /\ risk.losses[s] = 0 /\ risk.lastExit[s] = {}
  BY DEF Init, NoRisk
<1>2. tally \in [Strategies -> TallyType] /\ pieces \in [Exits -> Nat] /\ cur = {}
  BY DEF Init, TallyType
<1>3. \A s \in Strategies : Agrees(s)
  BY <1>1, FS_EmptySet DEF Agrees
<1> QED
  <2>1. \A s \in Strategies : tally[s].lost = {} /\ tally[s].latest = {}
    <3> TAKE s \in Strategies
    <3>1. tally[s] = [lost |-> {}, latest |-> {}, odd |-> FALSE]
      BY <1>1
    <3> QED
      BY <3>1
  <2>2. \A s \in Strategies : tally[s].latest = risk.lastExit[s] /\ risk.losses[s] = 0
    <3> TAKE s \in Strategies
    <3>1. tally[s] = [lost |-> {}, latest |-> {}, odd |-> FALSE]
      BY <1>1
    <3>2. risk.losses[s] = 0 /\ risk.lastExit[s] = {}
      BY <1>1
    <3> QED
      BY <3>1, <3>2
  <2>3. DayInv
    BY DayInit
  <2> QED
    BY <2>1, <2>2, <2>3, <1>2, <1>3 DEF EarnedInv

LEMMA EarnedStep ==
    ASSUME EarnedInv, [Next]_vars
    PROVE  EarnedInv'
<1>a. DayInv' /\ risk' \in Shape /\ risk \in Shape /\ today \in Nat /\ today >= 1 /\ risk.last \in Nat
  BY DayStep DEF EarnedInv, DayInv, RiskInv, Shape
<1>0. \A mark \in Marks : mark.equity \in Nat
  BY LimitsAssumption
<1>e. \A equity \in Equities : equity \in Nat
  BY <1>0 DEF Equities
<1>c. ASSUME NEW equity \in Nat
      PROVE  /\ StartDay(risk, equity) \in Shape /\ StartDay(risk, equity).day = today
             /\ StartDay(risk, equity).losses = risk.losses
             /\ StartDay(risk, equity).lastExit = risk.lastExit
  BY <1>a, StartDayShape, StartDayLosses
<1>1. ASSUME risk'.losses = risk.losses, risk'.lastExit = risk.lastExit,
             risk'.day = 0 => risk.day = 0, UNCHANGED <<pieces, tally>>,
             pc' # "ack" => cur' = {}, \A s \in Strategies : s \in cur' <=> s \in cur
      PROVE  EarnedInv'
  <2>1. \A s \in Strategies : Agrees(s)'
    BY <1>1 DEF EarnedInv, Agrees
  <2> QED
    BY <1>1, <1>a, <2>1 DEF EarnedInv
<1>2. ASSUME NEW mark \in Marks, TickMarks(mark)
      PROVE  EarnedInv'
  <2> DEFINE r == StartDay(risk, mark.equity)
             new == Found(r, mark) \ r.breaches
  <2>1. r \in Shape /\ r.day = today /\ r.losses = risk.losses /\ r.lastExit = risk.lastExit
    BY <1>0, <1>c
  <2>2. /\ risk' = [Marked(r, mark.equity) EXCEPT !.breaches = @ \cup new]
        /\ UNCHANGED <<pieces, tally, cur>> /\ pc' # "ack" /\ cur = {}
    BY <1>2 DEF TickMarks, EarnedInv
  <2> HIDE DEF r, new
  <2>3. risk'.losses = r.losses /\ risk'.day = r.day /\ risk'.lastExit = r.lastExit
    BY <2>1, <2>2 DEF Marked, Shape
  <2> QED
    BY <1>1, <1>a, <2>1, <2>2, <2>3
<1>3. ASSUME NEW s \in Strategies, Enter(s), risk.day # 0
      PROVE  EarnedInv'
  <2> DEFINE c == Current(risk)
  <2>1. c \in Shape /\ c.day = today /\ c.losses = risk.losses /\ c.lastExit = risk.lastExit
    BY <1>a, <1>c DEF Current
  <2>2. risk' = [c EXCEPT !.entries[s] = @ + 1] /\ UNCHANGED <<pieces, tally, cur, pc>>
    BY <1>3 DEF Enter
  <2> HIDE DEF c
  <2>3. risk'.losses = c.losses /\ risk'.day = c.day /\ risk'.lastExit = c.lastExit
    BY <2>1, <2>2 DEF Shape
  <2>4. pc' # "ack" => cur' = {}
    BY <2>2 DEF EarnedInv
  <2> QED
    BY <1>1, <1>a, <2>1, <2>2, <2>3, <2>4
<1>4. ASSUME Reduce, risk.day # 0
      PROVE  EarnedInv'
  <2>1. risk' = Current(risk) /\ UNCHANGED <<pieces, tally, cur, pc>> /\ (pc' # "ack" => cur' = {})
    BY <1>4 DEF Reduce, EarnedInv
  <2>2. risk'.losses = risk.losses /\ risk'.day = today /\ risk'.lastExit = risk.lastExit
    BY <1>a, <1>c, <2>1 DEF Current
  <2> QED
    BY <1>1, <1>a, <2>1, <2>2
<1>5. ASSUME NEW x \in Exits, NEW result \in {"loss", "win", "even"}, TradeCloses(x, result)
      PROVE  EarnedInv'
  <2> DEFINE o == Owner[x]
  <2>1. o \in Strategies
    BY StrategiesAssumption
  <2>2. /\ pc = "idle" /\ cur = {} /\ cur' = {}
        /\ pieces \in [Exits -> Nat] /\ pieces' = [pieces EXCEPT ![x] = @ + 1]
        /\ tally \in [Strategies -> TallyType]
    BY <1>5 DEF TradeCloses, Running, EarnedInv
  <2>3. pieces' \in [Exits -> Nat] /\ pieces'[x] # 0 /\ \A y \in Exits \ {x} : pieces'[y] = pieces[y]
    BY <2>2
  <2>4. CASE risk.day = 0
    <3>1. risk' = risk /\ tally' = tally
      BY <1>5, <2>4 DEF TradeCloses
    <3>2. \A s \in Strategies : Agrees(s)'
      BY <2>2, <3>1 DEF EarnedInv, Agrees
    <3> QED
      BY <1>a, <2>2, <2>3, <3>1, <3>2 DEF EarnedInv
  <2>5. CASE risk.day # 0
    <3> DEFINE c == Current(risk)
               t == tally[o]
               n == Tallied(t, x, result)
    <3>1. c \in Shape /\ c.day = today /\ c.losses = risk.losses /\ c.lastExit = risk.lastExit
      BY <1>a, <1>c DEF Current
    <3>2. risk' = RecordTrade(c, x, result) /\ tally' = [tally EXCEPT ![o] = n]
      BY <1>5, <2>5 DEF TradeCloses
    <3>3. t \in TallyType
      BY <2>1, <2>2
    <3>4. /\ n \in TallyType
          /\ n.latest = {x}
          /\ n.lost \subseteq t.lost \cup {x}
          /\ pieces[x] > 0 => n.lost = t.lost /\ (n.odd <=> t.odd \/ t.latest # {x})
          /\ ~(pieces[x] > 0) =>
                /\ result = "loss" => n.lost = t.lost \cup {x}
                /\ result = "win" => n.lost = {}
                /\ result = "even" => n.lost = t.lost
                /\ n.odd <=> t.odd /\ result # "win"
      <4> HIDE DEF t
      <4>1. CASE pieces[x] > 0
        BY <3>3, <4>1 DEF Tallied, TallyType
      <4>2. CASE ~(pieces[x] > 0)
        BY <3>3, <4>2 DEF Tallied, TallyType
      <4> QED
        BY <4>1, <4>2
    <3>5. tally' \in [Strategies -> TallyType] /\ tally'[o] = n
          /\ \A s \in Strategies \ {o} : tally'[s] = tally[s]
      BY <2>1, <2>2, <3>2, <3>4
    <3>6. t.latest = risk.lastExit[o] /\ (pieces[x] = 0 => x \notin t.lost /\ x \notin t.latest)
      BY <2>1 DEF EarnedInv
    <3> HIDE DEF c, n
    <3>d. risk'.day # 0
      <4>1. RecordTrade(c, x, result).day = c.day
        BY <3>1, RecordTradeShape
      <4> QED
        BY <1>a, <3>1, <3>2, <4>1
    <3>7. /\ \A s \in Strategies \ {o} : risk'.losses[s] = risk.losses[s] /\ risk'.lastExit[s] = risk.lastExit[s]
          /\ risk'.lastExit[o] = {x}
          /\ risk.lastExit[o] = {x} => risk'.losses[o] = risk.losses[o]
          /\ risk.lastExit[o] # {x} =>
                /\ result = "loss" => risk'.losses[o] = risk.losses[o] + 1
                /\ result = "win" => risk'.losses[o] = 0
                /\ result = "even" => risk'.losses[o] = risk.losses[o]
      <4>1. LET m == RecordTrade(c, x, result)
                u == Owner[x]
            IN  /\ \A s \in Strategies \ {u} : m.losses[s] = c.losses[s] /\ m.lastExit[s] = c.lastExit[s]
                /\ m.lastExit[u] = {x}
                /\ c.lastExit[u] = {x} => m.losses[u] = c.losses[u]
                /\ c.lastExit[u] # {x} =>
                      /\ result = "loss" => m.losses[u] = c.losses[u] + 1
                      /\ result = "win" => m.losses[u] = 0
                      /\ result = "even" => m.losses[u] = c.losses[u]
        BY <3>1, RecordTradeLosses, Zenon
      <4> QED
        BY <3>1, <3>2, <4>1
    <3>8. \A s \in Strategies : tally'[s].latest = risk'.lastExit[s]
      <4>1. ASSUME NEW s \in Strategies, s # o PROVE tally'[s].latest = risk'.lastExit[s]
        BY <3>5, <3>7, <4>1 DEF EarnedInv
      <4>2. tally'[o].latest = risk'.lastExit[o]
        BY <3>4, <3>5, <3>7
      <4> HIDE DEF o
      <4> QED
        BY <4>1, <4>2
    <3>9. \A s \in Strategies : \A y \in Exits :
             pieces'[y] = 0 => y \notin tally'[s].lost /\ y \notin tally'[s].latest
      <4> SUFFICES ASSUME NEW s \in Strategies, NEW y \in Exits, pieces'[y] = 0
                   PROVE  y \notin tally'[s].lost /\ y \notin tally'[s].latest
        OBVIOUS
      <4>1. y # x /\ pieces[y] = 0
        BY <2>3
      <4>2. y \notin tally[s].lost /\ y \notin tally[s].latest
        BY <4>1 DEF EarnedInv
      <4> QED
        BY <3>4, <3>5, <4>1, <4>2
    <3>10. ASSUME NEW s \in Strategies, s # o PROVE Agrees(s)'
      BY <2>2, <3>5, <3>7, <3>10 DEF EarnedInv, Agrees
    <3>11. Agrees(o)'
      <4>1. t.odd \/ risk.losses[o] = Cardinality(t.lost)
        BY <2>1, <2>2 DEF EarnedInv, Agrees
      <4>2. t.lost \in SUBSET Exits /\ risk.losses[o] \in Nat
        BY <1>a, <2>1, <3>3 DEF TallyType, Shape
      <4>3. CASE pieces[x] > 0
        <5>1. t.odd \/ t.latest # {x} => n.odd
          BY <3>4, <4>3
        <5>2. ~t.odd /\ t.latest = {x} => risk'.losses[o] = Cardinality(n.lost)
          BY <3>4, <3>6, <3>7, <4>1, <4>3
        <5> QED
          BY <3>5, <5>1, <5>2 DEF Agrees
      <4>4. CASE ~(pieces[x] > 0)
        <5>1. pieces[x] = 0
          BY <2>2, <4>4
        <5>2. x \notin t.lost /\ risk.lastExit[o] # {x}
          BY <3>6, <5>1
        <5>3. CASE result = "loss"
          <6>1. n.lost = t.lost \cup {x} /\ risk'.losses[o] = risk.losses[o] + 1 /\ (n.odd <=> t.odd)
            BY <3>4, <3>7, <4>4, <5>2, <5>3
          <6>2. Cardinality(n.lost) = Cardinality(t.lost) + 1
            BY <4>2, <5>2, <6>1, LostFinite
          <6> QED
            BY <3>5, <4>1, <6>1, <6>2 DEF Agrees
        <5>4. CASE result = "win"
          <6>1. n.lost = {} /\ risk'.losses[o] = 0
            BY <3>4, <3>7, <4>4, <5>2, <5>4
          <6> QED
            BY <3>5, <6>1, FS_EmptySet DEF Agrees
        <5>5. CASE result = "even"
          <6>1. n.lost = t.lost /\ risk'.losses[o] = risk.losses[o] /\ (n.odd <=> t.odd)
            BY <3>4, <3>7, <4>4, <5>2, <5>5
          <6> QED
            BY <3>5, <4>1, <6>1 DEF Agrees
        <5> QED
          BY <5>3, <5>4, <5>5
      <4> QED
        BY <4>3, <4>4
    <3> HIDE DEF o, t
    <3> QED
      BY <1>a, <2>2, <2>3, <3>5, <3>8, <3>9, <3>10, <3>11, <3>d DEF EarnedInv
  <2> QED
    BY <2>4, <2>5
<1>6. ASSUME NEW s \in Switches, Acknowledge(s)
      PROVE  EarnedInv'
  <2>0. cur = {s} /\ cur' = {} /\ UNCHANGED <<pieces, tally>>
    BY <1>6 DEF Acknowledge
  <2>1. CASE s \notin Strategies
    BY <1>1, <1>6, <2>0, <2>1 DEF Acknowledge
  <2>2. CASE s \in Strategies
    <3>1. risk' = Acknowledged(risk, s)
      BY <1>6, <2>2 DEF Acknowledge
    <3>2. /\ risk'.losses[s] = 0 /\ risk'.day = risk.day /\ risk'.lastExit = risk.lastExit
          /\ \A u \in Strategies \ {s} : risk'.losses[u] = risk.losses[u]
      BY <1>a, <2>2, <3>1, AcknowledgedLosses, AcknowledgedShape DEF EarnedInv
    <3>3. tally[s].lost = {}
      BY <2>0, <2>2 DEF EarnedInv
    <3>4. Cardinality({}) = 0
      BY FS_EmptySet
    <3>5. ASSUME NEW u \in Strategies PROVE Agrees(u)'
      <4>1. CASE u = s
        BY <2>0, <3>2, <3>3, <3>4, <4>1 DEF Agrees
      <4>2. CASE u # s
        BY <2>0, <3>2, <4>2 DEF Agrees, EarnedInv
      <4> QED
        BY <4>1, <4>2
    <3>6. \A u \in Strategies : risk'.day = 0 => risk'.losses[u] = 0
      BY <2>2, <3>2 DEF EarnedInv
    <3> QED
      BY <1>a, <2>0, <3>2, <3>5, <3>6 DEF EarnedInv
  <2> QED
    BY <2>1, <2>2
<1>7. ASSUME NEW equity \in Equities, NEW hookFails \in BOOLEAN, SessionStarts(equity, hookFails)
      PROVE  EarnedInv'
  <2>1. /\ risk' = IF hookFails THEN risk ELSE StartDay(risk, equity)
        /\ UNCHANGED <<pieces, tally, cur, pc>> /\ (pc' # "ack" => cur' = {})
    BY <1>7 DEF SessionStarts, EarnedInv
  <2>2. /\ risk'.losses = risk.losses /\ risk'.lastExit = risk.lastExit
        /\ risk'.day = 0 => risk.day = 0
    BY <1>a, <1>e, <1>c, <2>1
  <2> QED
    BY <1>1, <2>1, <2>2
<1>8. CASE risk.day = 0 /\ (Reduce \/ \E s \in Strategies : Enter(s))
  <2>1. risk' = risk /\ UNCHANGED <<pieces, tally, cur, pc>> /\ (pc' # "ack" => cur' = {})
    BY <1>8 DEF Reduce, Enter, EarnedInv
  <2> QED
    BY <1>1, <2>1
<1>9. CASE \/ TickStarts \/ TickHalt \/ Vetoed \/ NextDay
           \/ UNCHANGED vars
           \/ \E b \in BreachType : TickApplies(b)
           \/ OperatorTrips("HALT_NEW", "API_HALT") \/ OperatorTrips("FLATTEN", "API_FLATTEN")
           \/ \E content \in {"absent"} \cup Kills : HaltFile(content)
  <2>1. risk' = risk /\ UNCHANGED <<pieces, tally, cur>>
    BY <1>9 DEF TickStarts, TickHalt, Vetoed, NextDay, vars, TickApplies, OperatorTrips, HaltFile
  <2>2. pc' # "ack" => cur = {}
    BY <1>9 DEF TickStarts, TickHalt, Vetoed, NextDay, vars, TickApplies, OperatorTrips, HaltFile,
                Running, EarnedInv
  <2> QED
    BY <1>1, <2>1, <2>2
<1>10. ASSUME NEW s \in Switches, Resume(s)
       PROVE  EarnedInv'
  <2>1. /\ risk' = risk /\ pieces' = pieces /\ cur' = {s} /\ pc' = "ack" /\ cur = {}
        /\ tally' = [u \in Strategies |-> IF u = s THEN [tally[u] EXCEPT !.lost = {}, !.odd = FALSE]
                                          ELSE tally[u]]
    BY <1>10 DEF Resume, Resumes, EarnedInv
  <2>2. ASSUME NEW u \in Strategies
        PROVE  /\ tally'[u] \in TallyType /\ tally'[u].latest = tally[u].latest
               /\ tally'[u].lost \subseteq tally[u].lost
               /\ u = s => tally'[u].lost = {}
               /\ u # s => tally'[u] = tally[u]
    <3>1. tally[u] \in TallyType
      BY DEF EarnedInv
    <3> QED
      BY <2>1, <3>1 DEF TallyType
  <2>3. tally' \in [Strategies -> TallyType]
    BY <2>1, <2>2
  <2>4. ASSUME NEW u \in Strategies PROVE Agrees(u)'
    BY <2>1, <2>2 DEF Agrees, EarnedInv
  <2> QED
    BY <1>a, <2>1, <2>2, <2>3, <2>4 DEF EarnedInv
<1>11. CASE Stop \/ Crash
  <2>1. /\ risk' = risk /\ pieces' = pieces /\ cur' = {} /\ pc' = "idle"
        /\ tally' = [s \in Strategies |-> IF s \in cur THEN [tally[s] EXCEPT !.odd = TRUE] ELSE tally[s]]
    BY <1>11 DEF Stop, Crash, Dies
  <2>2. ASSUME NEW u \in Strategies
        PROVE  /\ tally'[u] \in TallyType /\ tally'[u].latest = tally[u].latest
               /\ tally'[u].lost = tally[u].lost
               /\ u \in cur => tally'[u].odd
               /\ u \notin cur => tally'[u] = tally[u]
    <3>1. tally[u] \in TallyType
      BY DEF EarnedInv
    <3> QED
      BY <2>1, <3>1 DEF TallyType
  <2>3. tally' \in [Strategies -> TallyType]
    BY <2>1, <2>2
  <2>4. ASSUME NEW u \in Strategies PROVE Agrees(u)'
    BY <2>1, <2>2 DEF Agrees, EarnedInv
  <2> QED
    BY <1>a, <2>1, <2>2, <2>3, <2>4 DEF EarnedInv
<1> QED
  BY <1>2, <1>3, <1>4, <1>5, <1>6, <1>7, <1>8, <1>9, <1>10, <1>11 DEF Next, Tick

(* A losing streak is earned, and none is forgotten (record_trade,         *)
(* acknowledge_streak, start_day): whatever stops, crashes, days and       *)
(* resumes come and in however many pieces exits close, a streak is the    *)
(* number of exits that lost since the last win or since the strategy was  *)
(* re-armed; outside are the alternating pieces of two exits and a crash   *)
(* inside the re-arming.                                                   *)
THEOREM StreaksAreEarned ==
    Spec => []StreakIsEarned
<1>1. EarnedInv => StreakIsEarned
  BY DEF EarnedInv, StreakIsEarned, Agrees
<1> QED
  BY <1>1, EarnedInit, EarnedStep, PTL DEF Spec
=============================================================================
