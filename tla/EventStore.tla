----------------------------- MODULE EventStore -----------------------------
(***************************************************************************)
(* The event store (src/store/event_store.py, sqlite.py, kv.py, sink.py):  *)
(* one SQLite database in WAL mode, the connections of several processes   *)
(* to it, the migrations each applies when it opens, and the transactions  *)
(* in which events are appended and projected, the projections rebuilt and *)
(* the key/value state of the components stored.                           *)
(*                                                                         *)
(* A connection is shared by the threads of its process under an RLock: a  *)
(* job holds it from its BEGIN to its COMMIT or ROLLBACK.  A connection    *)
(* that is not in a transaction sees what is committed.                    *)
(***************************************************************************)
EXTENDS Projections, SequencesExt

CONSTANTS
    Conns,          \* the connections
    Latest,         \* per connection: the newest migration its code knows
    Kinds,          \* per connection: the event types its code knows
    Readers,        \* the connections that views are read on
    BookCount,      \* how many books the experiment has
    Inputs,         \* the batches of events that are appended
    KvKeys,         \* keys of kv_state
    KvVals,         \* their values
    MaxLog,         \* bound: events in the log
    MaxOpens,       \* bound: times a connection is opened
    MaxViews,       \* bound: views asked for
    MaxSaves        \* bound: jobs that store key/value state

ASSUME EventStoreAssumption ==
    /\ Latest \in [Conns -> Nat \ {0}]
    /\ Readers \subseteq Conns
    /\ BookCount \in Nat \ {0}
    /\ Kinds \in [Conns -> SUBSET EventTypes]
    /\ \A batch \in Inputs : batch \in Seq(Range(batch))
    /\ MaxLog \in Nat /\ MaxOpens \in Nat /\ MaxViews \in Nat /\ MaxSaves \in Nat

VARIABLES
    db,         \* what is committed: user_version, events, projections, kv_state
    applied,    \* the migrations that were applied, in order
    conn,       \* per connection: its state, the schema version it is at, its job
    saw,        \* per connection: the view it reads, the statements it has
                \* still to run, and what those it ran have shown
    count       \* what the bounds count

vars == <<db, applied, conn, saw, count>>

NoJob == [op |-> "none", batch |-> <<>>, done |-> 0, began |-> FALSE, work |-> <<>>]
Nothing == [view |-> <<>>, todo |-> <<>>, got |-> <<>>]
NoKv == [k \in KvKeys |-> "none"]
KvVersion == 2      \* 0002_kv_state

Job(op, batch) == [NoJob EXCEPT !.op = op, !.batch = batch]
Writing == {c \in Conns : conn[c].job.began}
InJob(c) == conn[c].job.op # "none"

(* SQLite's write lock.                                                    *)
LockFree == Writing = {}

-----------------------------------------------------------------------------
(* Opening: the version is read before the write lock is taken, and each   *)
(* migration is a transaction of its own.                                  *)
Open(c) ==
    /\ conn[c].state = "closed" /\ count.opens < MaxOpens
    /\ conn' = [conn EXCEPT ![c].at = db.version,
                            ![c].state = IF db.version > Latest[c] THEN "closed" ELSE "opening"]
    /\ count' = [count EXCEPT !.opens = @ + 1]
    /\ UNCHANGED <<db, applied, saw>>

(* CREATE TABLE fails when another process has applied the migration.      *)
Applies(c) == db.version = conn[c].at

Migrate(c) ==
    /\ conn[c].state = "opening" /\ conn[c].at < Latest[c] /\ LockFree
    /\ IF Applies(c)
       THEN /\ db' = [db EXCEPT !.version = conn[c].at + 1]
            /\ applied' = Append(applied, conn[c].at + 1)
            /\ conn' = [conn EXCEPT ![c].at = @ + 1]
       ELSE /\ conn' = [conn EXCEPT ![c].state = "closed"]
            /\ UNCHANGED <<db, applied>>
    /\ UNCHANGED <<saw, count>>

(* register_projector for each, and the store is in use.                   *)
Opened(c) ==
    /\ conn[c].state = "opening" /\ conn[c].at >= Latest[c]
    /\ conn' = [conn EXCEPT ![c].state = "open"]
    /\ UNCHANGED <<db, applied, saw, count>>

-----------------------------------------------------------------------------
(* Jobs: append_many, rebuild_projections, kv_put and kv_put_many.         *)
Starts(c, job) ==
    /\ conn[c].state = "open" /\ ~InJob(c)
    /\ conn' = [conn EXCEPT ![c].job = job]
    /\ UNCHANGED <<db, applied, saw>>

(* An order's events come after its OrderSubmitted.                        *)
Follows(log, batch) ==
    \A i \in DOMAIN batch :
        batch[i].kind \in OrderEvents \ {"OrderSubmitted"} =>
            batch[i].key \in Submitted(log \o SubSeq(batch, 1, i - 1))

(* The events of the appends under way, which the bound counts too.        *)
Coming == UNION {{c} \X DOMAIN conn[c].job.batch : c \in {d \in Conns : conn[d].job.op = "append"}}

AppendMany(c, batch) ==
    /\ Len(db.log) + Cardinality(Coming) + Len(batch) <= MaxLog /\ Follows(db.log, batch)
    /\ \A i \in DOMAIN batch : batch[i].kind \in Kinds[c]
    /\ Starts(c, Job("append", batch)) /\ UNCHANGED count

RebuildProjections(c) == db.log # <<>> /\ Starts(c, Job("rebuild", <<>>)) /\ UNCHANGED count

KvPut(c, k, v) ==
    /\ conn[c].at >= KvVersion /\ count.saves < MaxSaves
    /\ Starts(c, Job("kv", <<[key |-> k, val |-> v]>>))
    /\ count' = [count EXCEPT !.saves = @ + 1]

KvPutMany(c, v) ==
    /\ conn[c].at >= KvVersion /\ count.saves < MaxSaves
    /\ Starts(c, Job("kv", SetToSeq({[key |-> k, val |-> v] : k \in KvKeys})))
    /\ count' = [count EXCEPT !.saves = @ + 1]

(* BEGIN IMMEDIATE, once no other connection is in a transaction.          *)
Begin(c) ==
    /\ InJob(c) /\ ~conn[c].job.began /\ LockFree
    /\ conn' = [conn EXCEPT ![c].job.began = TRUE,
                            ![c].job.work = IF conn[c].job.op = "rebuild"
                                            THEN [db EXCEPT !.tables = Empty] ELSE db]
    /\ UNCHANGED <<db, applied, saw, count>>

(* The busy timeout ends the wait with an error.                           *)
Busy(c) ==
    /\ InJob(c) /\ ~conn[c].job.began /\ ~LockFree
    /\ conn' = [conn EXCEPT ![c].job = NoJob]
    /\ UNCHANGED <<db, applied, saw, count>>

(* How many rows a job writes.                                             *)
Size(job) == IF job.op = "rebuild" THEN Len(job.work.log) ELSE Len(job.batch)

(* _insert and _project, in the transaction's own view of the database.    *)
Insert(work, e) ==
    LET seq == Len(work.log) + 1
    IN  [work EXCEPT !.log = Append(@, e), !.tables = Project(@, e, seq)]

Written(job) ==
    LET i == job.done + 1
        w == job.work
    IN  CASE job.op = "append"  -> Insert(w, job.batch[i])
          [] job.op = "rebuild" -> [w EXCEPT !.tables = Project(@, w.log[i], i)]
          [] job.op = "kv"      -> [w EXCEPT !.kv[job.batch[i].key] = job.batch[i].val]

(* An event of a type or a version the code does not know cannot be read.  *)
Readable(c, log) == \A i \in DOMAIN log : log[i].kind \in Kinds[c]

Write(c) ==
    LET job == conn[c].job
    IN  /\ job.began /\ job.done < Size(job)
        /\ job.op = "rebuild" => job.work.log[job.done + 1].kind \in Kinds[c]
        /\ conn' = [conn EXCEPT ![c].job.work = Written(job), ![c].job.done = @ + 1]
        /\ UNCHANGED <<db, applied, saw, count>>

Commit(c) ==
    /\ conn[c].job.began /\ conn[c].job.done = Size(conn[c].job)
    /\ db' = conn[c].job.work
    /\ conn' = [conn EXCEPT ![c].job = NoJob]
    /\ UNCHANGED <<applied, saw, count>>

(* Mutation: an exception that commits what was written so far.            *)
RolledBackNot(c) == conn[c].job.work

(* What an exception in a transaction leaves.                              *)
RolledBack(c) == db

(* Any statement of a transaction may raise; so may an event that cannot   *)
(* be read.                                                                *)
Rollback(c) ==
    /\ conn[c].job.began
    /\ db' = RolledBack(c)
    /\ conn' = [conn EXCEPT ![c].job = NoJob]
    /\ UNCHANGED <<applied, saw, count>>

-----------------------------------------------------------------------------
(* The read side (src/web/queries.py): a view of the console or of the CLI *)
(* runs its statements one after the other in a worker thread, on a        *)
(* connection of its own or on the engine's.  A statement reads the        *)
(* events, last_seq, one table (a keyed one by the kind of its rows) or    *)
(* kv_state.  What a view does for each book it does again for the next;   *)
(* statements that it skips when there is nothing to look up, or when the  *)
(* engine is live, are read here for nothing.                              *)
ForBooks(block) ==
    [i \in 1 .. BookCount * Len(block) |-> block[1 + ((i - 1) % Len(block))]]

Newest == <<"log", "log">>         \* _latest: MAX(seq), and the event

(* Mutation: last_seq is taken before the rest of the view.                *)
SummaryViewSeqFirst ==
    <<"seq">> \o Newest
    \o ForBooks(<<"log", "log", "TradeClosed", "PositionChanged", "orders", "KillSwitchChanged">>)
SummaryView ==
    Newest
    \o ForBooks(<<"log", "log", "TradeClosed", "PositionChanged", "orders", "KillSwitchChanged">>)
    \o <<"seq">>
PositionsView == <<"PositionChanged">> \o ForBooks(<<"kv">>)
LineageView == <<"log", "TradeClosed", "log", "log", "orders">>     \* with one exit
RiskView ==
    ForBooks(<<"KillSwitchChanged", "DailyRiskStateRolled", "log", "log", "log",
               "PositionChanged", "TypedEvent">>)
BooksView == ForBooks(<<"log", "log", "TradeClosed", "calls">>) \o ForBooks(<<"log">>)
ModelsView == <<"calls", "calls">>                                  \* of two models
SystemView == Newest \o Newest \o Newest \o <<"log", "log", "seq">>
EquityView == ForBooks(<<"log">>)
MarkersView == <<"fills", "TypedEvent">>
WatchlistView == <<"log", "TypedEvent", "PositionChanged">>

(* The views of one statement: orders, fills, trades, llm_calls, spend,    *)
(* decision_models, typed_events; decisions and alerts.                    *)
OneStatement == {<<what>> : what \in {"orders", "fills", "TradeClosed", "calls", "TypedEvent", "log"}}

Views == {SummaryView, PositionsView, LineageView, RiskView, BooksView, ModelsView, SystemView,
          EquityView, MarkersView, WatchlistView} \cup OneStatement

(* read, query, last_seq, kv_get: under the RLock, in another thread.      *)
Unlocked(c) == ~InJob(c)

(* What a statement sees: the transaction under way on its own connection, *)
(* if it were not locked out, else what is committed.                      *)
Visible(c) == IF conn[c].job.began THEN conn[c].job.work ELSE db

Ask(c, v) ==
    /\ c \in Readers /\ conn[c].state = "open" /\ saw[c].todo = <<>> /\ count.views < MaxViews
    /\ saw' = [saw EXCEPT ![c] = [Nothing EXCEPT !.view = v, !.todo = v]]
    /\ count' = [count EXCEPT !.views = @ + 1]
    /\ UNCHANGED <<db, applied, conn>>

Statement(c) == Head(saw[c].todo)

(* What a statement shows of a database.                                   *)
RowsOf(rows, kind) == [k \in {r \in DOMAIN rows : r[1] = kind} |-> rows[k]]

Shown(what, d) ==
    CASE what = "log" -> d.log
      [] what = "seq" -> Len(d.log)
      [] what = "kv" -> d.kv
      [] what = "orders" -> d.tables.orders
      [] what = "fills" -> d.tables.fills
      [] what = "calls" -> d.tables.calls
      [] OTHER -> RowsOf(d.tables.rows, what)

Read(c) ==
    LET what == Statement(c)
        shown == [what |-> what, val |-> Shown(what, Visible(c))]
    IN  /\ conn[c].state = "open" /\ saw[c].todo # <<>> /\ Unlocked(c)
        /\ saw' = [saw EXCEPT ![c].todo = Tail(@), ![c].got = Append(@, shown)]
        /\ UNCHANGED <<db, applied, conn, count>>

(* The request ends with an error when a statement on the events selects   *)
(* one that the reader's code does not know; most select by type.          *)
ReadFails(c) ==
    /\ conn[c].state = "open" /\ saw[c].todo # <<>> /\ Unlocked(c) /\ Statement(c) = "log"
    /\ ~Readable(c, Visible(c).log)
    /\ saw' = [saw EXCEPT ![c] = Nothing]
    /\ UNCHANGED <<db, applied, conn, count>>

(* The process is killed, or closes the store when no job is under way.    *)
Dies(c) ==
    /\ conn[c].state # "closed"
    /\ conn' = [conn EXCEPT ![c] = [state |-> "closed", at |-> 0, job |-> NoJob]]
    /\ saw' = [saw EXCEPT ![c] = Nothing]
    /\ UNCHANGED <<db, applied, count>>

Init ==
    /\ db = [version |-> 0, log |-> <<>>, tables |-> Empty, kv |-> NoKv]
    /\ applied = <<>>
    /\ conn = [c \in Conns |-> [state |-> "closed", at |-> 0, job |-> NoJob]]
    /\ saw = [c \in Conns |-> Nothing]
    /\ count = [opens |-> 0, views |-> 0, saves |-> 0]

Next ==
    \E c \in Conns :
        \/ Open(c) \/ Migrate(c) \/ Opened(c)
        \/ \E b \in Inputs : AppendMany(c, b)
        \/ RebuildProjections(c)
        \/ \E v \in KvVals : KvPutMany(c, v) \/ \E k \in KvKeys : KvPut(c, k, v)
        \/ Begin(c) \/ Busy(c) \/ Write(c) \/ Commit(c) \/ Rollback(c)
        \/ \E v \in Views : Ask(c, v)
        \/ Read(c) \/ ReadFails(c) \/ Dies(c)

Spec == Init /\ [][Next]_vars

-----------------------------------------------------------------------------
(* Properties.                                                             *)

(* Type: states of the database, of the connections and of their jobs.     *)
TypeOK ==
    /\ db.version \in 0..Max({Latest[c] : c \in Conns})
    /\ \A i \in DOMAIN db.log : db.log[i].kind \in EventTypes
    /\ db.kv \in [KvKeys -> KvVals \cup {"none"}]
    /\ \A c \in Conns :
        /\ conn[c].state \in {"closed", "opening", "open"}
        /\ conn[c].job.op \in {"none", "append", "rebuild", "kv"}
        /\ conn[c].job.done \in 0..MaxLog
    /\ Cardinality(Writing) <= 1

(* The projections are in step with the log in every state anyone can see, *)
(* however appends, rebuilds, failures and crashes of the processes are    *)
(* interleaved: an order's row is that of its last event since it was last *)
(* submitted, a fill counts once, a keyed row is its key's newest event.   *)
(* And however openers of a fresh or an old database race, each migration  *)
(* is applied once and in order, and user_version tells which were.        *)
TablesFollowLog ==
    /\ db.tables = TablesOf(db.log)
    /\ applied = [i \in 1..db.version |-> i]

(* A statement shows what the first n events of the log made committed.    *)
After(n) == LET log == SubSeq(db.log, 1, n) IN [log |-> log, tables |-> TablesOf(log)]
ShowsFirst(shown, n) == shown.what = "kv" \/ shown.val = Shown(shown.what, After(n))

(* A view is read statement by statement while others append, rebuild and  *)
(* die, and mixes moments of the log, but only in one way: every statement *)
(* shows a committed state, and no statement one that is older than what   *)
(* the view has read before.  So the status a lineage shows for an order   *)
(* is not older than the events it shows of it; and the last_seq of a      *)
(* summary or of the system's page, from which the console goes on with    *)
(* the stream, covers everything on it, of every book.                     *)
ViewsReadForward ==
    \A c \in {d \in Conns : saw[d].todo = <<>>} :
        LET got == saw[c].got
        IN  /\ \A i \in DOMAIN got : \E n \in 0..Len(db.log) : ShowsFirst(got[i], n)
            /\ \A i, j \in DOMAIN got : i < j /\ got[i].what = "log" /\ got[j].what = "orders" =>
                  \A o \in Submitted(got[i].val) :
                      /\ o \in DOMAIN got[j].val
                      /\ got[j].val[o].updated >= OrderOf(got[i].val, o).updated
            /\ saw[c].view \in {SummaryView, SystemView} =>
                  \A i, j \in DOMAIN got : got[j].what = "seq" =>
                      \E n \in 0..got[j].val : ShowsFirst(got[i], n)

(* The log only grows, and by all the events of a batch: an exception, a   *)
(* crash or a rebuild never leaves a part of one.                          *)
BatchesWhole ==
    [][\/ db'.log = db.log
       \/ \E c \in Conns : conn[c].job.op = "append" /\ db'.log = db.log \o conn[c].job.batch]_vars

=============================================================================
