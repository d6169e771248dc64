CHECK_DEADLOCK FALSE
SPECIFICATION EvaluationSpec
CONSTANTS
    Signals = {"s1"}
    DayOf <- MCDayOf
    Books <- MCBooks
    Answers <- MCAnswers
    Falls <- MCFalls
    MaxHold = 1
    MaxDay = 2
    MaxCrashes = 1
INVARIANTS
    EachFollowedOnce
    Regenerates
