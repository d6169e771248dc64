---------------------------- MODULE MCEvaluation ----------------------------
(* A signal on the first day, in a baseline and an advised book; the books *)
(* may fall on that day, or never do.                                      *)
EXTENDS Evaluation

MCDayOf == [s \in Signals |-> 1]
MCFalls == [d \in 1..MaxDay |-> IF d = 1 THEN 1 ELSE 0]
MCBooks == <<"A", "B">>
MCAnswers == [b \in {"A", "B"} |-> {"submitted", IF b = "A" THEN "risk_rejected" ELSE "vetoed"}]
=============================================================================
