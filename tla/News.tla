-------------------------------- MODULE News --------------------------------
(***************************************************************************)
(* Announcements: the exchange's feed (a window on the last few items),    *)
(* the ingestor that polls it (src/marketdata/announcements.py), and the   *)
(* pipeline that classifies what is new (src/decision_models/tasks).       *)
(* Items are numbered in the order they are published.  The ingestor keeps *)
(* nothing: a restart rebuilds its dedupe set, its watermark and the       *)
(* backlog from the log.                                                   *)
(***************************************************************************)
EXTENDS Cascade, FiniteSetsExt, SequencesExt

CONSTANTS
    Items,          \* 1..n, in the order of publication
    Ours,           \* those of companies in the universe
    Results,        \* those the exchange's own subject says are results
    Window          \* how many items the feed shows

ASSUME NewsAssumption ==
    /\ Ours \subseteq Items /\ Results \subseteq Items
    /\ Items \subseteq Nat \ {0} /\ IsFiniteSet(Items)
    /\ Window \in Nat \ {0}

VARIABLES
    published,  \* how many items the feed has had
    ing,        \* the ingestor: up, seen, newest, and the feed state its validators name
    task,       \* the announcements task: polling, the items left, the conversation
    backlog,    \* stored and not classified when the process started
    received,   \* AnnouncementReceived events per item
    gaps,       \* AnnouncementCoverageGap events
    typed,      \* TypedEvent events per item
    lapses      \* history: items lost to a failed append, items left for the next start,
                \* and the first item of the first page ever read

newsVars == <<published, ing, task, backlog, received, gaps, typed, lapses, answers>>

Resting == [polling |-> FALSE, todo |-> <<>>, conv |-> Quiet]
NoLapses == [lost |-> {}, left |-> {}, first |-> 0]

(* The feed is not part of the program: it shows the newest items.         *)
Page == {i \in Items : i <= published /\ i > published - Window}

Publish ==
    /\ published + 1 \in Items
    /\ published' = published + 1
    /\ UNCHANGED <<ing, task, backlog, received, gaps, typed, lapses, answers>>

-----------------------------------------------------------------------------
(* Classification, one announcement after the other.                       *)
Onto(todo) ==
    [polling |-> FALSE, todo |-> todo, conv |-> IF todo = <<>> THEN Quiet ELSE BeginWith(Head(todo))]

(* Results always matter, and so does what nobody could judge.             *)
Relevant(i, said) == i \in Results \/ said # "no"

(* classify: the models' replies, then the event; appending it may fail,   *)
(* which is logged, and the item waits for the next start.                 *)
Classify(reply, stored) ==
    /\ ing.up /\ MayReply(task.conv, reply)
    /\ answers' = Keeps(task.conv, reply)
    /\ LET conv == Heard(task.conv, reply)  i == task.conv.on
       IN  IF conv.at # "said"
           THEN task' = [task EXCEPT !.conv = conv] /\ UNCHANGED <<typed, lapses>>
           ELSE /\ task' = Onto(Tail(task.todo))
                /\ typed' = IF stored THEN [typed EXCEPT ![i] = Append(@,
                                [relevant |-> Relevant(i, conv.said), said |-> conv.said])] ELSE typed
                /\ lapses' = IF stored THEN lapses ELSE [lapses EXCEPT !.left = @ \cup {i}]
    /\ UNCHANGED <<published, ing, backlog, received, gaps>>

-----------------------------------------------------------------------------
(* The ingestor.                                                           *)
Polls ==
    /\ ing.up /\ task = Resting
    /\ task' = [task EXCEPT !.polling = TRUE]
    /\ UNCHANGED <<published, ing, backlog, received, gaps, typed, lapses, answers>>

(* Too soon, a failed fetch, or a feed that has not changed: only what is  *)
(* in the backlog is classified.                                           *)
NothingNew ==
    /\ ing.up /\ task.polling
    /\ task' = Onto(backlog) /\ backlog' = <<>>
    /\ UNCHANGED <<published, ing, received, gaps, typed, lapses, answers>>

(* The items of a set, the oldest first.                                   *)
OldestFirst(S) == CHOOSE s \in [1 .. Cardinality(S) -> S] : \A j, k \in DOMAIN s : j < k => s[j] < s[k]

(* Mutation: the items of the page are taken the newest first.             *)
AcceptedNewest(page) == Reverse(OldestFirst((page \cap Ours) \ ing.seen))
(* _accept: the items of our companies not seen before, the oldest first.  *)
Accepted(page) == OldestFirst((page \cap Ours) \ ing.seen)

(* _check_coverage: the window moved past what was seen last.              *)
Coverage(page) ==
    IF ing.newest = 0 \/ page = {} \/ Min(page) <= ing.newest THEN <<>>
    ELSE <<[from |-> ing.newest, to |-> Min(page)]>>

(* A page: the gap and the new items are appended one by one.  The process *)
(* may die between two, or an append fail; then the poll is given up.      *)
Fetched(n, how) ==
    /\ ing.up /\ task.polling /\ ing.tag # published
    /\ LET gap    == Coverage(Page)
           new    == Accepted(Page)
           events == Len(gap) + Len(new)
           got    == SubSeq(new, 1, Max({0, n - Len(gap)}))
           failed == IF how = "fails" /\ n >= Len(gap) THEN {new[n - Len(gap) + 1]} ELSE {}
           first  == IF ing.newest = 0 /\ Page # {} THEN Min(Page) ELSE lapses.first
       IN  /\ IF how = "done" THEN n = events ELSE n < events
           /\ received' = [i \in Items |-> received[i] + IF i \in Range(got) THEN 1 ELSE 0]
           /\ gaps' = gaps \cup (IF n = 0 THEN {} ELSE Range(gap))
           /\ CASE how = "done" ->
                    /\ ing' = [ing EXCEPT !.tag = published, !.seen = @ \cup Range(new),
                                          !.newest = Max(Page \cup {@})]
                    /\ task' = Onto(backlog \o new) /\ backlog' = <<>>
                    /\ lapses' = [lapses EXCEPT !.first = first]
                [] how = "fails" ->
                    /\ ing' = [ing EXCEPT !.tag = published, !.seen = @ \cup Range(got) \cup failed]
                    /\ task' = Resting /\ UNCHANGED backlog
                    /\ lapses' = [first |-> first, lost |-> lapses.lost \cup failed,
                                  left |-> lapses.left \cup Range(got)]
                [] how = "dies" ->
                    /\ ing' = [ing EXCEPT !.up = FALSE] /\ task' = Resting /\ backlog' = <<>>
                    /\ lapses' = [lapses EXCEPT !.first = first]
    /\ UNCHANGED <<published, typed, answers>>

-----------------------------------------------------------------------------
(* A new process.                                                          *)
OnRecord(i) == received[i] > 0

Watermark ==
    [seen |-> {i \in Items : OnRecord(i)}, newest |-> Max({i \in Items : OnRecord(i)} \cup {0})]

Unclassified == {i \in Items : OnRecord(i) /\ typed[i] = <<>>}

NewsEnds ==
    /\ ing' = [ing EXCEPT !.up = FALSE] /\ task' = Resting /\ backlog' = <<>>
    /\ UNCHANGED <<published, received, gaps, typed, lapses, answers>>

NewsStarts ==
    /\ ing' = [up |-> TRUE, tag |-> -1, seen |-> Watermark.seen, newest |-> Watermark.newest]
    /\ backlog' = OldestFirst(Unclassified)
    /\ lapses' = [lapses EXCEPT !.left = {}]
    /\ UNCHANGED <<published, task, received, gaps, typed, answers>>

NewsInit ==
    /\ published = 0 /\ task = Resting /\ backlog = <<>>
    /\ ing = [up |-> TRUE, tag |-> -1, seen |-> {}, newest |-> 0]
    /\ received = [i \in Items |-> 0] /\ gaps = {} /\ typed = [i \in Items |-> <<>>]
    /\ lapses = NoLapses /\ CascadeInit
=============================================================================
