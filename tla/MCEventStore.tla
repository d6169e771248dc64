---------------------------- MODULE MCEventStore ----------------------------
(* The engine and an older tool on one database, with the events of one    *)
(* order, of a position and of a model call.                               *)
EXTENDS EventStore

MCConns == {"engine", "tool"}
MCLatest == [c \in MCConns |-> IF c = "engine" THEN 2 ELSE 1]
MCKinds == [c \in MCConns |-> IF c = "engine" THEN EventTypes ELSE EventTypes \ {"ControlCommand"}]

Ev(kind, key, val) == [kind |-> kind, key |-> key, val |-> val, fill |-> "none", filled |-> 0]
Got(val, f, n) == [Ev("FillReceived", "o1", val) EXCEPT !.fill = f, !.filled = n]

Submitted1 == Ev("OrderSubmitted", "o1", "-")

(* A fill that is delivered again is stored again: the log keeps both.  Of *)
(* an operator's halt the tool cannot read the command.                    *)
MCInputs == {<<Submitted1>>, <<Got("FILLED", "f2", 2)>>,
             <<Got("PARTIALLY_FILLED", "f1", 1), Ev("PositionChanged", "p", "1")>>,
             <<Ev("ControlCommand", "halt", "-"), Ev("KillSwitchChanged", "global", "HALT"),
               Ev("LLMCall", "c", "-")>>}
=============================================================================
