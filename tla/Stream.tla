------------------------------- MODULE Stream -------------------------------
(***************************************************************************)
(* The event stream of the web console (src/web/stream.py) between the     *)
(* event store and one browser: the hub's tailer, a subscription with its  *)
(* replay and its live queue, the sender loop, and the client that resumes *)
(* after a drop or a resync (modelled from frontend/src/lib/stream.ts).    *)
(*                                                                         *)
(* The event loop switches between them at every await: the threaded read  *)
(* of the tailer, each read and each send of the sender.  The store's      *)
(* connection is swapped when a run starts or ends, and a demo restart     *)
(* replaces the database.                                                  *)
(***************************************************************************)
EXTENDS Integers, Sequences, SequencesExt, FiniteSetsExt

CONSTANTS
    QueueMax,       \* queue_max
    Batch,          \* batch
    WireMax,        \* bound: messages under way before a send blocks
    MaxSeq,         \* bound: events appended, to all the databases
    MaxConnects,    \* bound: connections
    MaxSwaps,       \* bound: swaps of the connection
    MaxResubs       \* bound: subscriptions that replace one on a connection

ASSUME StreamAssumption ==
    QueueMax \in Nat \ {0} /\ Batch \in Nat \ {0} /\ WireMax \in Nat \ {0} /\ MaxSeq \in Nat

VARIABLES
    db,         \* the database: its generation, what its first event looks like (print),
                \* and, per event, whether its topic is subscribed
    conn,       \* the manager's current read connection
    hub,        \* tail_seq, fingerprint and connection; gen: the database it is in
    tailer,     \* the read of _tail_once that is under way
    sub,        \* the subscriber of the connection
    snd,        \* send_loop
    wire,       \* messages on their way to the client
    client,     \* the client's state
    count       \* what the bounds count

streamVars == <<db, conn, hub, tailer, sub, snd, wire, client, count>>

None == -1
NoSub == [on |-> FALSE, queue |-> <<>>, paused |-> TRUE, replay |-> <<>>, ack |-> <<>>,
          last |-> 0]
NoSend == [pc |-> "loop", cursor |-> 0, until |-> 0, batch |-> <<>>]
Resting == [pc |-> "idle", from |-> 0, read |-> <<>>, conn |-> 0]

LastSeq == Len(db.log)
Event(e) == [kind |-> "event", seq |-> e.seq, to |-> 0, gen |-> e.gen]
Resync(s, why) == [kind |-> why, seq |-> s, to |-> 0, gen |-> db.gen]
MinOf(a, b) == IF a <= b THEN a ELSE b
MaxOf(a, b) == IF a >= b THEN a ELSE b

(* EventStore.read: the events after "from", oldest first.                 *)
Read(from, upto) ==
    [i \in 1..(upto - from) |-> [seq |-> from + i, wanted |-> db.log[from + i], gen |-> db.gen]]

(* _fingerprint: the time and type of a database's first event.            *)
Fingerprint == IF LastSeq = 0 THEN 0 ELSE db.print

-----------------------------------------------------------------------------
(* The store: the engine appends; a run swaps the connection, a demo       *)
(* restart the database too.                                               *)
Append1(wanted) ==
    /\ count.events < MaxSeq
    /\ count' = [count EXCEPT !.events = @ + 1]
    /\ db' = [db EXCEPT !.log = Append(@, wanted)]
    /\ UNCHANGED <<conn, hub, tailer, sub, snd, wire, client>>

(* A client that is away does not learn that the database is another one.  *)
Resumes(c) == c.last > 0 \/ c.resume > 0
Blinds == client.status # "open" /\ Resumes(client)

(* The first event of a new database may look like that of an earlier one: *)
(* every demo of the console begins at the same instant of its tape.       *)
Swap(new) ==
    /\ count.swaps < MaxSwaps
    /\ count' = [count EXCEPT !.swaps = @ + 1, !.blind = @ \/ (new /\ Blinds)]
    /\ conn' = conn + 1
    /\ IF new THEN \E print \in 1 .. db.gen + 1 :
                      db' = [gen |-> db.gen + 1, print |-> print, log |-> <<>>]
       ELSE UNCHANGED db
    /\ UNCHANGED <<hub, tailer, sub, snd, wire, client>>

-----------------------------------------------------------------------------
(* Subscriber and Hub.                                                     *)

(* Mutant: an overflow drops the message and nothing else.                 *)
PushDrops(s, m) ==
    IF s.paused \/ Len(s.queue) >= QueueMax THEN s ELSE [s EXCEPT !.queue = Append(@, m)]

(* Subscriber.push: an overflow drops the backlog and the replay.          *)
Push(s, m) ==
    IF s.paused THEN s
    ELSE IF Len(s.queue) >= QueueMax
         THEN [s EXCEPT !.queue = <<Resync(s.last, "resync")>>, !.paused = TRUE, !.replay = <<>>]
         ELSE [s EXCEPT !.queue = Append(@, m)]

(* Hub._head: the first use starts tailing from the store's end.           *)
Head1 == IF hub.tail = None THEN LastSeq ELSE hub.tail
HubNow ==
    IF hub.tail = None THEN [tail |-> LastSeq, fp |-> Fingerprint, conn |-> conn, gen |-> db.gen]
    ELSE hub

(* Mutant: the replay ends at the end of the store.                        *)
ReplayToEnd(since) ==
    IF since < LastSeq THEN <<MinOf(since, Head1), LastSeq>> ELSE <<>>

(* The replay window ends where the live queue begins.                     *)
Replay(since) == IF since < Head1 THEN <<MinOf(since, Head1), Head1>> ELSE <<>>

Subscribed(s, head) == [kind |-> "subscribed", seq |-> s, to |-> head, gen |-> HubNow.gen]

(* Hub.subscribe *)
Subscription(since) ==
    [on |-> TRUE, queue |-> <<>>, paused |-> FALSE, last |-> MinOf(since, Head1),
     replay |-> Replay(since), ack |-> <<Subscribed(MinOf(since, Head1), Head1)>>]

(* _tail_once, before its read: a new connection may be a new database,    *)
(* and then everyone starts over.  It is taken for the old one if the hub  *)
(* first saw an empty database, or if both begin with the same event.      *)
TailBegins ==
    /\ tailer.pc = "idle" /\ hub.tail # None
    /\ IF hub.conn # conn /\ hub.fp # 0 /\ Fingerprint # hub.fp
       THEN /\ hub' = [tail |-> LastSeq, fp |-> Fingerprint, conn |-> conn, gen |-> db.gen]
            /\ sub' = IF sub.on THEN [sub EXCEPT !.queue = <<Resync(0, "new_store")>>,
                                                 !.paused = TRUE, !.replay = <<>>]
                      ELSE sub
            /\ UNCHANGED tailer
       ELSE /\ hub' = [hub EXCEPT !.conn = conn, !.fp = IF hub.conn = conn THEN @ ELSE Fingerprint]
            /\ tailer' = [Resting EXCEPT !.pc = "reading", !.from = hub.tail, !.conn = conn]
            /\ UNCHANGED sub
    /\ UNCHANGED <<db, conn, snd, wire, client, count>>

(* The threaded read: on a connection that was swapped it fails.           *)
TailReads ==
    /\ tailer.pc = "reading"
    /\ LET upto == MinOf(tailer.from + Batch, LastSeq)
       IN  tailer' = IF tailer.conn # conn \/ upto <= tailer.from THEN Resting
                     ELSE [tailer EXCEPT !.pc = "read", !.read = Read(tailer.from, upto)]
    /\ UNCHANGED <<db, conn, hub, sub, snd, wire, client, count>>

(* The fan-out, in one piece, event by event.                              *)
Tell(s, e) == IF s.on /\ e.wanted THEN Push(s, Event(e)) ELSE s
TailFansOut ==
    /\ tailer.pc = "read"
    /\ hub' = [hub EXCEPT !.tail = Last(tailer.read).seq]
    /\ LET told[n \in 0..Len(tailer.read)] ==
               IF n = 0 THEN sub ELSE Tell(told[n - 1], tailer.read[n])
       IN  sub' = told[Len(tailer.read)]
    /\ tailer' = Resting
    /\ UNCHANGED <<db, conn, snd, wire, client, count>>

-----------------------------------------------------------------------------
(* Hub.send_loop.  A message is on the wire when its send is awaited; what *)
(* follows the await is a step of its own.                                 *)

Room == sub.on /\ Len(wire) < WireMax
storeVars == <<db, conn, hub, tailer, client, count>>

SendsAck ==
    /\ snd.pc = "loop" /\ sub.ack # <<>> /\ Room
    /\ wire' = Append(wire, sub.ack[1])
    /\ sub' = [sub EXCEPT !.ack = <<>>]
    /\ snd' = [snd EXCEPT !.pc = "acked"]
    /\ UNCHANGED storeVars

(* _send_replay begins, or the queue is next.                              *)
Proceeds ==
    /\ sub.on
    /\ \/ snd.pc = "acked"
       \/ snd.pc = "loop" /\ sub.ack = <<>> /\ (sub.replay # <<>> \/ sub.queue # <<>>)
    /\ snd' = IF sub.replay = <<>> THEN [NoSend EXCEPT !.pc = "queue"]
              ELSE [NoSend EXCEPT !.pc = "reading", !.cursor = sub.replay[1],
                                  !.until = sub.replay[2]]
    /\ UNCHANGED <<storeVars, sub, wire>>

(* The end of the replay.                                                  *)
Replayed ==
    /\ sub' = [sub EXCEPT !.replay = <<>>, !.last = MaxOf(@, snd.until)]
    /\ snd' = [NoSend EXCEPT !.pc = "queue"]

(* The next batch, on the connection of the moment.                        *)
ReadsBatch ==
    /\ snd.pc = "reading"
    /\ LET upto == MinOf(MinOf(snd.cursor + Batch, snd.until), LastSeq)
       IN  IF upto <= snd.cursor THEN Replayed
           ELSE snd' = [snd EXCEPT !.pc = "batch", !.batch = Read(snd.cursor, upto)] /\ UNCHANGED sub
    /\ UNCHANGED <<storeVars, wire>>

SentOne == [snd EXCEPT !.cursor = Head(snd.batch).seq, !.batch = Tail(@), !.pc = "batch"]

(* One event of the batch: sent if its topic is subscribed.                *)
SendsReplay ==
    /\ snd.pc = "batch" /\ snd.batch # <<>>
    /\ IF Head(snd.batch).wanted
       THEN /\ Room
            /\ wire' = Append(wire, Event(Head(snd.batch)))
            /\ snd' = [snd EXCEPT !.pc = "sent"]
            /\ UNCHANGED sub
       ELSE /\ snd' = SentOne
            /\ sub' = [sub EXCEPT !.last = Head(snd.batch).seq]
            /\ UNCHANGED wire
    /\ UNCHANGED storeVars

ReplaySent ==
    /\ snd.pc = "sent"
    /\ snd' = SentOne
    /\ sub' = [sub EXCEPT !.last = Head(snd.batch).seq]
    /\ UNCHANGED <<storeVars, wire>>

(* After a batch: an overflow meanwhile ends the replay.                   *)
BatchDone ==
    /\ snd.pc = "batch" /\ snd.batch = <<>>
    /\ IF sub.replay = <<>> THEN snd' = [NoSend EXCEPT !.pc = "queue"] /\ UNCHANGED sub
       ELSE IF snd.cursor < snd.until
            THEN /\ sub' = [sub EXCEPT !.replay = <<snd.cursor, snd.until>>]
                 /\ snd' = [snd EXCEPT !.pc = "reading"]
            ELSE Replayed
    /\ UNCHANGED <<storeVars, wire>>

SendsQueued ==
    /\ snd.pc = "queue" /\ sub.queue # <<>> /\ Room
    /\ wire' = Append(wire, Head(sub.queue))
    /\ snd' = [snd EXCEPT !.pc = "queued", !.batch = <<Head(sub.queue)>>]
    /\ sub' = [sub EXCEPT !.queue = Tail(@)]
    /\ UNCHANGED storeVars

QueuedSent ==
    /\ snd.pc = "queued"
    /\ sub' = [sub EXCEPT !.last = IF snd.batch[1].kind = "event" THEN snd.batch[1].seq ELSE @]
    /\ snd' = [NoSend EXCEPT !.pc = "queue"]
    /\ UNCHANGED <<storeVars, wire>>

QueueEmpty ==
    /\ snd.pc = "queue" /\ sub.queue = <<>>
    /\ snd' = NoSend
    /\ UNCHANGED <<storeVars, sub, wire>>

-----------------------------------------------------------------------------
(* The client.  It closes on a resync and connects again, from the last    *)
(* event it applied, from where the resync says, or without a replay.      *)

Since == IF client.resume # None THEN client.resume
         ELSE IF client.last > 0 THEN client.last ELSE LastSeq + MaxSeq

(* websocket, Hub.connect and the first subscribe message.                 *)
Connects ==
    /\ client.status = "off" /\ count.connects < MaxConnects
    /\ count' = [count EXCEPT !.connects = @ + 1]
    /\ hub' = HubNow
    /\ sub' = Subscription(Since) /\ snd' = NoSend /\ wire' = <<>>
    /\ client' = [client EXCEPT !.status = "open", !.resume = None]
    /\ UNCHANGED <<db, conn, tailer>>

(* Hub.disconnect: the subscriber and what is on the wire are gone.  A     *)
(* client that has not been told of a new database resumes in the old one. *)
Disconnects(c) ==
    /\ client' = [c EXCEPT !.status = "off"]
    /\ sub' = NoSub /\ snd' = NoSend /\ wire' = <<>>
    /\ count' = [count EXCEPT !.blind = @ \/ (Resumes(c) /\ c.gen # db.gen)]

Drops ==
    /\ client.status = "open" /\ count.connects < MaxConnects
    /\ Disconnects(client)
    /\ UNCHANGED <<db, conn, hub, tailer>>

(* A client may subscribe again on its connection (serve).  A sender that  *)
(* is in a replay goes on with the old one, a sender that is in the queue  *)
(* sends what comes into it before the new replay, and the notice of a new *)
(* database that waits in the queue is lost.                               *)
Resubscribes ==
    /\ client.status = "open" /\ client.last > 0 /\ count.resubs < MaxResubs
    /\ count' = [count EXCEPT !.resubs = @ + 1,
                              !.blind = @ \/ snd.pc # "loop" \/ client.gen # db.gen]
    /\ hub' = HubNow
    /\ sub' = Subscription(client.last)
    /\ UNCHANGED <<db, conn, tailer, snd, wire, client>>

(* reduce: stored events at or below lastSeq are dropped.                  *)
Applied(m) ==
    CASE m.kind = "event" ->
           IF m.seq <= client.last THEN client
           ELSE [client EXCEPT !.last = m.seq, !.got = @ \cup {m.seq}]
      [] m.kind = "subscribed" ->
           [client EXCEPT !.last = IF m.seq >= m.to THEN MaxOf(@, m.to) ELSE @,
                          !.floor = IF client.last = 0 /\ m.seq >= m.to THEN m.to ELSE @,
                          !.gen = IF client.last = 0 THEN m.gen ELSE @]
      [] m.kind = "new_store" ->
           [client EXCEPT !.last = 0, !.resume = 0, !.floor = 0, !.got = {}, !.gen = m.gen]
      [] m.kind = "resync" -> [client EXCEPT !.resume = m.seq]
      [] OTHER -> client

Receives ==
    /\ client.status = "open" /\ wire # <<>>
    /\ LET m == Head(wire)
       IN  IF m.kind \in {"resync", "new_store"} THEN Disconnects(Applied(m))
           ELSE client' = Applied(m) /\ wire' = Tail(wire) /\ UNCHANGED <<sub, snd, count>>
    /\ UNCHANGED <<db, conn, hub, tailer>>

StreamInit ==
    /\ \E log \in {<<>>, <<TRUE>>} : db = [gen |-> 1, print |-> 1, log |-> log]
    /\ conn = 1
    /\ hub = [tail |-> None, fp |-> 0, conn |-> 0, gen |-> 0] /\ tailer = Resting
    /\ sub = NoSub /\ snd = NoSend /\ wire = <<>>
    /\ client = [status |-> "off", last |-> 0, resume |-> None, floor |-> 0, got |-> {}, gen |-> 0]
    /\ count = [events |-> LastSeq, connects |-> 0, swaps |-> 0, resubs |-> 0, blind |-> FALSE]

Tailing == TailBegins \/ TailReads \/ TailFansOut
Sending ==
    \/ SendsAck \/ Proceeds \/ ReadsBatch \/ SendsReplay \/ ReplaySent \/ BatchDone
    \/ SendsQueued \/ QueuedSent \/ QueueEmpty

StreamNext ==
    \/ \E wanted \in BOOLEAN : Append1(wanted)
    \/ \E new \in BOOLEAN : Swap(new)
    \/ Tailing \/ Sending
    \/ Connects \/ Drops \/ Resubscribes \/ Receives

(* The tailer polls and the sender loops for as long as the server runs;   *)
(* the client reads what arrives and connects again after a close.         *)
StreamFairness == WF_streamVars(Tailing) /\ WF_streamVars(Sending) /\ WF_streamVars(Receives) /\ WF_streamVars(Connects)

StreamSpec == StreamInit /\ [][StreamNext]_streamVars /\ StreamFairness

-----------------------------------------------------------------------------
(* Properties.                                                             *)

StreamTypeOK ==
    /\ hub.tail \in None..MaxSeq /\ Len(sub.queue) <= QueueMax /\ Len(wire) <= WireMax
    /\ sub.on <=> client.status = "open"
    /\ sub.replay # <<>> => sub.replay[1] < sub.replay[2]
    /\ client.got \subseteq 1..MaxSeq /\ client.last \in 0..(2 * MaxSeq)

(* The client has every event of its topics from where it first subscribed *)
(* to the last one it applied, of a database it knows to be in use: the    *)
(* replay ends exactly where the live queue begins, and an overflow, a     *)
(* drop or a swapped connection is made up for by the next replay          *)
(* (stream.py, "nothing lost").  Two cases are outside: a database that is *)
(* replaced while the client is away, and a second subscribe while the     *)
(* sender is at work.                                                      *)
NothingLost ==
    client.gen = db.gen /\ ~count.blind =>
        \A s \in client.floor + 1 .. MinOf(client.last, LastSeq) : db.log[s] => s \in client.got

(* On one connection the events of a database are sent in order and none   *)
(* twice (stream.py, "or repeated in between").                            *)
InOrder ==
    count.resubs = 0 =>
        \A i, j \in DOMAIN wire :
            (i < j /\ wire[i].kind = "event" /\ wire[j].kind = "event" /\ wire[i].gen = wire[j].gen)
            => wire[i].seq < wire[j].seq

(* When the store grows no more, a client that is connected ends up with   *)
(* every event of its topics, of the database that is in use: no overflow, *)
(* resync, drop or swap leaves it waiting (Hub._tail, Hub.send_loop),      *)
(* unless the hub takes that database for an earlier one.                  *)
CaughtUp ==
    client.gen = db.gen
    /\ \A s \in client.floor + 1 .. LastSeq : db.log[s] => s \in client.got
Mistaken == hub.conn = conn /\ hub.gen # db.gen
CatchesUp == <>[](client.status = "off" \/ count.blind \/ Mistaken \/ CaughtUp)

(* A hub that knows a database by its first event sees, on another         *)
(* connection, whether it is another database ("Identifies a database by   *)
(* its first event", _fingerprint).                                        *)
RestartsSeen ==
    [][hub.fp # 0 /\ hub.conn # hub'.conn => hub'.gen = db.gen]_streamVars
=============================================================================
