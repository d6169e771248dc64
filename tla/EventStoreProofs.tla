-------------------------- MODULE EventStoreProofs --------------------------
(***************************************************************************)
(* Proofs about the event store and about the experiment's bookkeeping,    *)
(* which is read from its log.  The store: the projections follow the log, *)
(* a batch is appended whole or not at all, and a view never reads         *)
(* backwards, for any number of connections, code versions, batches,       *)
(* crashes and readers.  The bookkeeping: a signal's counterfactual is     *)
(* followed once and to its end, and a day's report can be generated       *)
(* again at any later time, for any signals, books and crashes.            *)
(***************************************************************************)
EXTENDS EventStore, Evaluation, SequenceTheorems, FiniteSetTheorems, TLAPS

-----------------------------------------------------------------------------
(* Greatest and least positions.                                           *)

(* A set of numbers has a least one: an initial segment of the numbers     *)
(* that none of the others is a part of.                                   *)
LEMMA LeastExists ==
    ASSUME NEW S \in SUBSET Nat, S # {}
    PROVE  \E x \in S : \A y \in S : x <= y
<1> DEFINE T == {0 .. x : x \in S}
<1>1. T \subseteq FiniteSubsetsOf(Nat)
  <2> SUFFICES ASSUME NEW x \in S PROVE 0 .. x \in FiniteSubsetsOf(Nat)
    OBVIOUS
  <2>1. IsFiniteSet(0 .. x)
    BY FS_Interval
  <2> QED
    BY <2>1 DEF FiniteSubsetsOf
<1>2. T # {}
  OBVIOUS
<1>3. \E t \in T : \A u \in T : ~(<<u, t>> \in StrictSubsetOrdering(Nat))
  <2> HIDE DEF T
  <2> QED
    BY <1>1, <1>2, FS_StrictSubsetOrderingWellFounded, WFMin
<1>4. PICK x \in S : \A u \in T : ~(<<u, 0 .. x>> \in StrictSubsetOrdering(Nat))
  BY <1>3
<1>5. ASSUME NEW y \in S PROVE x <= y
  <2> SUFFICES ASSUME y < x PROVE FALSE
    OBVIOUS
  <2>1. 0 .. y \subseteq 0 .. x /\ x \in 0 .. x /\ x \notin 0 .. y
    OBVIOUS
  <2>2. <<0 .. y, 0 .. x>> \in StrictSubsetOrdering(Nat)
    BY <2>1 DEF StrictSubsetOrdering
  <2> QED
    BY <1>4, <2>2
<1> QED
  BY <1>5

LEMMA MinProp ==
    ASSUME NEW S \in SUBSET Nat, S # {}
    PROVE  Min(S) \in S /\ \A y \in S : Min(S) <= y
BY LeastExists DEF Min

LEMMA MinIs ==
    ASSUME NEW S \in SUBSET Nat, NEW x \in S, \A y \in S : x <= y
    PROVE  Min(S) = x
<1>1. Min(S) \in Nat /\ x \in Nat /\ Min(S) <= x /\ x <= Min(S)
  BY MinProp
<1> QED
  BY <1>1

LEMMA MaxProp ==
    ASSUME NEW n \in Nat, NEW S \in SUBSET (1 .. n), S # {}
    PROVE  Max(S) \in S /\ \A y \in S : Max(S) >= y
<1> DEFINE B == {b \in Nat : \A y \in S : y <= b}
<1>1. n \in B
  OBVIOUS
<1>2. PICK b \in B : \A c \in B : b <= c
  BY <1>1, LeastExists
<1>3. b \in S
  <2> SUFFICES ASSUME b \notin S PROVE FALSE
    OBVIOUS
  <2>1. \A y \in S : y \in Nat /\ y >= 1 /\ y < b
    BY <1>2
  <2>2. b \in Nat /\ b > 0
    <3>1. PICK y \in S : y >= 1 /\ y < b /\ y \in Nat
      BY <2>1
    <3> QED
      BY <1>2, <3>1
  <2>3. b - 1 \in B
    BY <2>1, <2>2
  <2>4. ~(b <= b - 1)
    BY <2>2
  <2> QED
    BY <1>2, <2>3, <2>4
<1> QED
  BY <1>2, <1>3 DEF Max

LEMMA MaxIs ==
    ASSUME NEW S \in SUBSET Nat, NEW x \in S, \A y \in S : x >= y
    PROVE  Max(S) = x
<1>1. \E m \in S : \A y \in S : m >= y
  OBVIOUS
<1>2. Max(S) \in Nat /\ x \in Nat /\ Max(S) >= x /\ x >= Max(S)
  BY <1>1 DEF Max
<1> QED
  BY <1>2

-----------------------------------------------------------------------------
(* The tables of a log, as it grows.                                       *)

(* The positions an order's row is told from.                              *)
SubmittedAt(log, o) == {i \in DOMAIN log : log[i].kind = "OrderSubmitted" /\ log[i].key = o}
SinceAt(log, o) ==
    {i \in DOMAIN log : i >= Max(SubmittedAt(log, o)) /\ log[i].kind \in OrderEvents /\ log[i].key = o}
ToldAt(log, o) == {i \in SinceAt(log, o) : log[i].kind \in TellsFilled}

RowOf(log, o) ==
    [status  |-> StatusOf(log[Max(SinceAt(log, o))]),
     filled  |-> IF ToldAt(log, o) = {} THEN 0 ELSE log[Max(ToldAt(log, o))].filled,
     created |-> Max(SubmittedAt(log, o)),
     updated |-> Max(SinceAt(log, o))]

LEMMA OrderIsRow ==
    ASSUME NEW log, NEW o \in Submitted(log)
    PROVE  OrderOf(log, o) = RowOf(log, o) /\ SubmittedAt(log, o) # {}
BY DEF OrderOf, RowOf, SubmittedAt, SinceAt, ToldAt, Submitted

LEMMA Grown ==
    ASSUME NEW E, NEW log \in Seq(E), NEW e \in E
    PROVE  LET n == Len(log) + 1
               new == Append(log, e)
           IN  /\ n \in Nat /\ n \notin DOMAIN log /\ DOMAIN log = 1 .. Len(log) /\ Len(log) \in Nat
               /\ DOMAIN new = DOMAIN log \cup {n} /\ DOMAIN new = 1 .. n
               /\ new[n] = e
               /\ \A i \in DOMAIN log : new[i] = log[i] /\ i \in Nat /\ i < n
<1>1. Len(log) \in Nat /\ DOMAIN log = 1 .. Len(log)
  BY LenProperties
<1>2. /\ Append(log, e) \in Seq(E) /\ Len(Append(log, e)) = Len(log) + 1
      /\ \A i \in 1 .. Len(log) : Append(log, e)[i] = log[i]
      /\ Append(log, e)[Len(log) + 1] = e
  BY AppendProperties
<1>3. DOMAIN Append(log, e) = 1 .. Len(log) + 1
  BY <1>2, LenProperties
<1> QED
  BY <1>1, <1>2, <1>3

(* The positions of an order's row are in the log, and there is a last one.*)
LEMMA Positions ==
    ASSUME NEW E, NEW log \in Seq(E), NEW o, SubmittedAt(log, o) # {}
    PROVE  /\ Max(SubmittedAt(log, o)) \in SubmittedAt(log, o)
           /\ \A i \in SubmittedAt(log, o) : Max(SubmittedAt(log, o)) >= i
           /\ Max(SubmittedAt(log, o)) \in SinceAt(log, o)
           /\ Max(SinceAt(log, o)) \in SinceAt(log, o)
           /\ \A i \in SinceAt(log, o) : Max(SinceAt(log, o)) >= i
           /\ ToldAt(log, o) # {} => Max(ToldAt(log, o)) \in ToldAt(log, o)
<1>1. Len(log) \in Nat /\ DOMAIN log = 1 .. Len(log)
  BY LenProperties
<1>2. /\ Max(SubmittedAt(log, o)) \in SubmittedAt(log, o)
      /\ \A i \in SubmittedAt(log, o) : Max(SubmittedAt(log, o)) >= i
  BY <1>1, MaxProp DEF SubmittedAt
<1>3. Max(SubmittedAt(log, o)) \in SinceAt(log, o)
  BY <1>1, <1>2 DEF SinceAt, SubmittedAt, OrderEvents
<1>4. SinceAt(log, o) \in SUBSET (1 .. Len(log)) /\ ToldAt(log, o) \in SUBSET (1 .. Len(log))
  BY <1>1 DEF SinceAt, ToldAt
<1> QED
  BY <1>1, <1>2, <1>3, <1>4, MaxProp

(* An event of another order, or of none, leaves the row.                  *)
LEMMA RowKept ==
    ASSUME NEW E, NEW log \in Seq(E), NEW e \in E, NEW o,
           ~(e.kind \in OrderEvents /\ e.key = o), SubmittedAt(log, o) # {}
    PROVE  RowOf(Append(log, e), o) = RowOf(log, o)
<1> DEFINE n == Len(log) + 1
           new == Append(log, e)
<1>1. /\ DOMAIN new = DOMAIN log \cup {n} /\ n \notin DOMAIN log /\ new[n] = e
      /\ \A i \in DOMAIN log : new[i] = log[i]
  BY Grown
<1> HIDE DEF n, new
<1>2. SubmittedAt(new, o) = SubmittedAt(log, o)
  BY <1>1 DEF SubmittedAt, OrderEvents
<1>3. SinceAt(new, o) = SinceAt(log, o)
  BY <1>1, <1>2 DEF SinceAt
<1>4. ToldAt(new, o) = ToldAt(log, o)
  BY <1>1, <1>3 DEF ToldAt, SinceAt
<1>5. new[Max(SinceAt(log, o))] = log[Max(SinceAt(log, o))]
  BY <1>1, Positions DEF SinceAt
<1>6. ToldAt(log, o) # {} => new[Max(ToldAt(log, o))] = log[Max(ToldAt(log, o))]
  BY <1>1, Positions DEF ToldAt, SinceAt
<1> QED
  BY <1>2, <1>3, <1>4, <1>5, <1>6 DEF RowOf, new

(* Its submission starts it afresh.                                        *)
LEMMA RowSubmitted ==
    ASSUME NEW E, NEW log \in Seq(E), NEW e \in E, e.kind = "OrderSubmitted"
    PROVE  RowOf(Append(log, e), e.key) =
             [status |-> StatusOf(e), filled |-> 0, created |-> Len(log) + 1, updated |-> Len(log) + 1]
<1> DEFINE n == Len(log) + 1
           new == Append(log, e)
           o == e.key
<1>1. /\ DOMAIN new = DOMAIN log \cup {n} /\ n \notin DOMAIN log /\ new[n] = e /\ n \in Nat
      /\ \A i \in DOMAIN log : new[i] = log[i] /\ i \in Nat /\ i < n
  BY Grown
<1> HIDE DEF n, new
<1>2. Max(SubmittedAt(new, o)) = n
  <2>1. n \in SubmittedAt(new, o) /\ SubmittedAt(new, o) \in SUBSET Nat
        /\ \A i \in SubmittedAt(new, o) : n >= i
    BY <1>1 DEF SubmittedAt
  <2> QED
    BY <2>1, MaxIs
<1>3. SinceAt(new, o) = {n}
  BY <1>1, <1>2 DEF SinceAt, OrderEvents
<1>4. Max({n}) = n
  BY <1>1, MaxIs
<1>5. ToldAt(new, o) = {}
  BY <1>1, <1>3 DEF ToldAt, TellsFilled
<1> QED
  BY <1>1, <1>2, <1>3, <1>4, <1>5 DEF RowOf, new, n

(* A later event of the order moves it.                                    *)
LEMMA RowMoved ==
    ASSUME NEW E, NEW log \in Seq(E), NEW e \in E, e.kind \in OrderEvents, e.kind # "OrderSubmitted",
           SubmittedAt(log, e.key) # {}
    PROVE  RowOf(Append(log, e), e.key) =
             [status  |-> StatusOf(e),
              filled  |-> IF e.kind \in TellsFilled THEN e.filled ELSE RowOf(log, e.key).filled,
              created |-> RowOf(log, e.key).created,
              updated |-> Len(log) + 1]
<1> DEFINE n == Len(log) + 1
           new == Append(log, e)
           o == e.key
<1>1. /\ DOMAIN new = DOMAIN log \cup {n} /\ n \notin DOMAIN log /\ new[n] = e /\ n \in Nat
      /\ \A i \in DOMAIN log : new[i] = log[i] /\ i \in Nat /\ i < n
  BY Grown
<1> HIDE DEF n, new
<1>2. SubmittedAt(new, o) = SubmittedAt(log, o)
  BY <1>1 DEF SubmittedAt
<1>3. Max(SubmittedAt(log, o)) \in DOMAIN log
  BY Positions DEF SubmittedAt
<1>4. SinceAt(new, o) = SinceAt(log, o) \cup {n}
  BY <1>1, <1>2, <1>3 DEF SinceAt
<1>5. SinceAt(log, o) \subseteq DOMAIN log
  BY DEF SinceAt
<1>6. Max(SinceAt(new, o)) = n
  <2>1. n \in SinceAt(new, o) /\ SinceAt(new, o) \in SUBSET Nat /\ \A i \in SinceAt(new, o) : n >= i
    BY <1>1, <1>4, <1>5
  <2> QED
    BY <2>1, MaxIs
<1>7. ToldAt(log, o) \subseteq DOMAIN log
      /\ ToldAt(new, o) = IF e.kind \in TellsFilled THEN ToldAt(log, o) \cup {n} ELSE ToldAt(log, o)
  BY <1>1, <1>4, <1>5 DEF ToldAt
<1>8. CASE e.kind \in TellsFilled
  <2>1. Max(ToldAt(new, o)) = n
    <3>1. n \in ToldAt(new, o) /\ ToldAt(new, o) \in SUBSET Nat /\ \A i \in ToldAt(new, o) : n >= i
      BY <1>1, <1>7, <1>8
    <3> QED
      BY <3>1, MaxIs
  <2>2. ToldAt(new, o) # {}
    BY <1>7, <1>8
  <2> QED
    BY <1>1, <1>2, <1>6, <1>8, <2>1, <2>2 DEF RowOf, new, n
<1>9. CASE e.kind \notin TellsFilled
  <2>1. ToldAt(new, o) = ToldAt(log, o)
    BY <1>7, <1>9
  <2>2. ToldAt(log, o) # {} => new[Max(ToldAt(log, o))] = log[Max(ToldAt(log, o))]
    <3>1. ToldAt(log, o) # {} => Max(ToldAt(log, o)) \in ToldAt(log, o)
      BY Positions
    <3> QED
      BY <1>1, <1>7, <3>1
  <2> QED
    BY <1>1, <1>2, <1>6, <1>9, <2>1, <2>2 DEF RowOf, new, n
<1> QED
  BY <1>8, <1>9

(* Appending an event to the log is projecting it: table by table.         *)
LEMMA OrdersGrow ==
    ASSUME NEW E, NEW log \in Seq(E), NEW e \in E
    PROVE  TablesOf(Append(log, e)).orders = Orders(TablesOf(log).orders, e, Len(log) + 1)
<1> DEFINE n == Len(log) + 1
           new == Append(log, e)
           t == [o \in Submitted(log) |-> OrderOf(log, o)]
<1>1. /\ DOMAIN new = DOMAIN log \cup {n} /\ n \notin DOMAIN log /\ new[n] = e
      /\ \A i \in DOMAIN log : new[i] = log[i]
  BY Grown
<1>2. TablesOf(new).orders = [o \in Submitted(new) |-> OrderOf(new, o)] /\ TablesOf(log).orders = t
  BY DEF TablesOf
<1>3. Submitted(new) = IF e.kind = "OrderSubmitted" THEN Submitted(log) \cup {e.key} ELSE Submitted(log)
  <2> HIDE DEF n, new
  <2>1. Submitted(log) \subseteq Submitted(new)
    BY <1>1 DEF Submitted
  <2>2. Submitted(new) \subseteq Submitted(log) \cup {e.key}
    BY <1>1 DEF Submitted
  <2>3. CASE e.kind = "OrderSubmitted"
    <3>1. e.key \in Submitted(new)
      BY <1>1, <2>3 DEF Submitted
    <3> QED
      BY <2>1, <2>2, <2>3, <3>1
  <2>4. CASE e.kind # "OrderSubmitted"
    <3>1. Submitted(new) \subseteq Submitted(log)
      BY <1>1, <2>4 DEF Submitted
    <3> QED
      BY <2>1, <2>4, <3>1
  <2> QED
    BY <2>3, <2>4
<1>4. ASSUME NEW o \in Submitted(log), ~(e.kind \in OrderEvents /\ e.key = o)
      PROVE  OrderOf(new, o) = OrderOf(log, o)
  <2>1. OrderOf(log, o) = RowOf(log, o) /\ SubmittedAt(log, o) # {}
    BY OrderIsRow
  <2>2. OrderOf(new, o) = RowOf(new, o)
    BY <1>3, OrderIsRow
  <2> QED
    BY <1>4, <2>1, <2>2, RowKept
<1>5. CASE e.kind = "OrderSubmitted"
  <2>1. OrderOf(new, e.key) = [status |-> StatusOf(e), filled |-> 0, created |-> n, updated |-> n]
    BY <1>3, <1>5, OrderIsRow, RowSubmitted
  <2>2. Orders(t, e, n) = Put(t, e.key, [status |-> StatusOf(e), filled |-> 0, created |-> n, updated |-> n])
    BY <1>5 DEF Orders
  <2> HIDE DEF n, new
  <2>3. [o \in Submitted(new) |-> OrderOf(new, o)] =
            Put(t, e.key, [status |-> StatusOf(e), filled |-> 0, created |-> n, updated |-> n])
    BY <1>3, <1>4, <1>5, <2>1 DEF Put
  <2> QED
    BY <1>2, <2>2, <2>3 DEF n, new
<1>6. CASE e.kind # "OrderSubmitted" /\ e.kind \in OrderEvents /\ e.key \in Submitted(log)
  <2> DEFINE row == OrderOf(log, e.key)
  <2>1. /\ row = RowOf(log, e.key) /\ SubmittedAt(log, e.key) # {}
        /\ OrderOf(new, e.key) = RowOf(new, e.key)
    BY <1>3, <1>6, OrderIsRow
  <2>2. OrderOf(new, e.key) =
             [status  |-> StatusOf(e), filled  |-> IF e.kind \in TellsFilled THEN e.filled ELSE row.filled,
              created |-> row.created, updated |-> n]
    BY <1>6, <2>1, RowMoved
  <2>3. Orders(t, e, n) = [t EXCEPT ![e.key].status = StatusOf(e), ![e.key].updated = n,
                   ![e.key].filled = IF e.kind \in TellsFilled THEN e.filled ELSE @]
    BY <1>6 DEF Orders
  <2>4. row = [status |-> row.status, filled |-> row.filled, created |-> row.created, updated |-> row.updated]
    BY <2>1 DEF RowOf
  <2>5. Orders(t, e, n) = [t EXCEPT ![e.key] =
             [status  |-> StatusOf(e), filled  |-> IF e.kind \in TellsFilled THEN e.filled ELSE row.filled,
              created |-> row.created, updated |-> n]]
    <3>1. t[e.key] = row
      BY <1>6
    <3> HIDE DEF row, t, n
    <3> QED
      BY <2>3, <2>4, <3>1
  <2> HIDE DEF n, new, row
  <2>6. [o \in Submitted(new) |-> OrderOf(new, o)] = Orders(t, e, n)
    BY <1>3, <1>4, <1>6, <2>2, <2>5
  <2> QED
    BY <1>2, <2>6 DEF n, new
<1>7. CASE e.kind # "OrderSubmitted" /\ ~(e.kind \in OrderEvents /\ e.key \in Submitted(log))
  <2>1. Orders(t, e, n) = t
    BY <1>7 DEF Orders
  <2> HIDE DEF n, new
  <2>2. [o \in Submitted(new) |-> OrderOf(new, o)] = t
    BY <1>3, <1>4, <1>7
  <2> QED
    BY <1>2, <2>1, <2>2 DEF n, new
<1> QED
  BY <1>5, <1>6, <1>7

LEMMA FillsGrow ==
    ASSUME NEW E, NEW log \in Seq(E), NEW e \in E
    PROVE  TablesOf(Append(log, e)).fills = Fills(TablesOf(log).fills, e, Len(log) + 1)
<1> DEFINE n == Len(log) + 1
           new == Append(log, e)
           At(l, f) == {i \in Filled(l) : l[i].fill = f}
           F(l) == {l[i].fill : i \in Filled(l)}
           t == [f \in F(log) |-> Min(At(log, f))]
<1>1. /\ DOMAIN new = DOMAIN log \cup {n} /\ n \notin DOMAIN log /\ new[n] = e /\ n \in Nat
      /\ \A i \in DOMAIN log : new[i] = log[i] /\ i \in Nat /\ i < n
  BY Grown
<1>2. TablesOf(new).fills = [f \in F(new) |-> Min(At(new, f))] /\ TablesOf(log).fills = t
  BY DEF TablesOf
<1> HIDE DEF n, new
<1>3. CASE e.kind # "FillReceived"
  <2>1. Filled(new) = Filled(log)
    BY <1>1, <1>3 DEF Filled
  <2>2. \A i \in Filled(log) : new[i] = log[i]
    BY <1>1 DEF Filled
  <2>3. F(new) = F(log) /\ \A f : At(new, f) = At(log, f)
    BY <2>1, <2>2
  <2>4. Fills(t, e, n) = t
    BY <1>3 DEF Fills
  <2>5. [f \in F(new) |-> Min(At(new, f))] = t
    BY <2>3
  <2> QED
    BY <1>2, <2>4, <2>5 DEF n, new
<1>4. CASE e.kind = "FillReceived"
  <2>1. Filled(new) = Filled(log) \cup {n} /\ n \notin Filled(log)
    BY <1>1, <1>4 DEF Filled
  <2>2. \A i \in Filled(log) : new[i] = log[i] /\ i \in Nat /\ i < n
    BY <1>1 DEF Filled
  <2>3. F(new) = F(log) \cup {e.fill}
    BY <1>1, <2>1, <2>2
  <2>4. \A f : At(new, f) = IF f = e.fill THEN At(log, f) \cup {n} ELSE At(log, f)
    BY <1>1, <2>1, <2>2
  <2>5. \A f \in F(log) : At(log, f) # {} /\ At(log, f) \in SUBSET Nat /\ \A i \in At(log, f) : i < n
    BY <2>2
  <2>6. ASSUME NEW f \in F(log) PROVE Min(At(new, f)) = Min(At(log, f))
    <3>1. CASE f # e.fill
      BY <2>4, <3>1
    <3>2. CASE f = e.fill
      <4>1. Min(At(log, f)) \in At(log, f) /\ \A i \in At(log, f) : Min(At(log, f)) <= i
        BY <2>5, MinProp
      <4>2. At(new, f) = At(log, f) \cup {n} /\ At(new, f) \in SUBSET Nat
        BY <1>1, <2>4, <2>5, <3>2
      <4>3. Min(At(log, f)) < n /\ Min(At(log, f)) \in Nat
        BY <2>5, <4>1
      <4>4. \A i \in At(new, f) : Min(At(log, f)) <= i
        BY <1>1, <4>1, <4>2, <4>3
      <4> HIDE DEF At
      <4> QED
        BY <4>1, <4>2, <4>4, MinIs
    <3> QED
      BY <3>1, <3>2
  <2>7. CASE e.fill \in F(log)
    <3>1. Fills(t, e, n) = t
      BY <2>7 DEF Fills
    <3>2. F(new) = F(log)
      BY <2>3, <2>7
    <3> HIDE DEF F, At
    <3>3. [f \in F(new) |-> Min(At(new, f))] = t
      BY <2>6, <3>2
    <3> QED
      BY <1>2, <3>1, <3>3 DEF n, new
  <2>8. CASE e.fill \notin F(log)
    <3>1. Fills(t, e, n) = Put(t, e.fill, n)
      BY <1>4, <2>8 DEF Fills
    <3>2. At(log, e.fill) = {}
      BY <2>8
    <3>3. At(new, e.fill) = {n}
      BY <2>4, <3>2
    <3>4. Min(At(new, e.fill)) = n
      BY <1>1, <3>3, MinIs
    <3> HIDE DEF F, At
    <3>5. [f \in F(new) |-> Min(At(new, f))] = Put(t, e.fill, n)
      BY <2>3, <2>6, <2>8, <3>4 DEF Put
    <3> QED
      BY <1>2, <3>1, <3>5 DEF n, new
  <2> QED
    BY <2>7, <2>8
<1> QED
  BY <1>3, <1>4

LEMMA RowsGrow ==
    ASSUME NEW E, NEW log \in Seq(E), NEW e \in E
    PROVE  TablesOf(Append(log, e)).rows = Rows(TablesOf(log).rows, e, Len(log) + 1)
<1> DEFINE n == Len(log) + 1
           new == Append(log, e)
           name == <<e.kind, e.key>>
           At(l, k) == {i \in DOMAIN l : <<l[i].kind, l[i].key>> = k}
           K(l) == {<<l[i].kind, l[i].key>> : i \in {j \in DOMAIN l : l[j].kind \in Keyed}}
           R(l, k) == [val |-> l[NewestOf(l, k)].val, seq |-> NewestOf(l, k)]
           t == [k \in K(log) |-> R(log, k)]
<1>1. /\ DOMAIN new = DOMAIN log \cup {n} /\ n \notin DOMAIN log /\ new[n] = e /\ n \in Nat
      /\ Len(log) \in Nat /\ DOMAIN log = 1 .. Len(log)
      /\ \A i \in DOMAIN log : new[i] = log[i] /\ i \in Nat /\ i < n
  BY Grown
<1>2. TablesOf(new).rows = [k \in K(new) |-> R(new, k)] /\ TablesOf(log).rows = t
  BY DEF TablesOf
<1>3. \A l, k : NewestOf(l, k) = Max(At(l, k))
  BY DEF NewestOf
<1> HIDE DEF n, new
<1>4. \A k : At(new, k) = IF k = name THEN At(log, k) \cup {n} ELSE At(log, k)
  BY <1>1
<1>5. K(new) = IF e.kind \in Keyed THEN K(log) \cup {name} ELSE K(log)
  <2>1. K(log) \subseteq K(new) /\ K(new) \subseteq K(log) \cup {name}
    BY <1>1
  <2>2. e.kind \in Keyed => name \in K(new)
    BY <1>1
  <2>3. e.kind \notin Keyed => K(new) \subseteq K(log)
    BY <1>1
  <2> QED
    BY <2>1, <2>2, <2>3
<1>6. ASSUME NEW k \in K(log), e.kind \in Keyed => k # name PROVE R(new, k) = R(log, k)
  <2>1. k # name
    <3>1. PICK i \in DOMAIN log : k = <<log[i].kind, log[i].key>> /\ log[i].kind \in Keyed
      OBVIOUS
    <3> QED
      BY <1>6, <3>1
  <2>2. At(log, k) # {} /\ At(log, k) \in SUBSET (1 .. Len(log)) /\ At(new, k) = At(log, k)
    BY <1>1, <1>4, <2>1
  <2>3. Max(At(log, k)) \in At(log, k)
    BY <1>1, <2>2, MaxProp
  <2>4. Max(At(log, k)) \in DOMAIN log
    BY <2>3
  <2> HIDE DEF At
  <2> QED
    BY <1>1, <1>3, <2>2, <2>4
<1>7. NewestOf(new, name) = n
  <2>1. n \in At(new, name) /\ At(new, name) \in SUBSET Nat /\ \A i \in At(new, name) : n >= i
    BY <1>1, <1>4
  <2> HIDE DEF At
  <2> QED
    BY <1>3, <2>1, MaxIs
<1>8. CASE e.kind \in Keyed
  <2>1. Rows(t, e, n) = Put(t, name, [val |-> e.val, seq |-> n])
    BY <1>8 DEF Rows
  <2>2. R(new, name) = [val |-> e.val, seq |-> n]
    BY <1>1, <1>7
  <2> HIDE DEF K, R, name
  <2>3. [k \in K(new) |-> R(new, k)] = Put(t, name, [val |-> e.val, seq |-> n])
    BY <1>5, <1>6, <1>8, <2>2 DEF Put
  <2> QED
    BY <1>2, <2>1, <2>3 DEF n, new
<1>9. CASE e.kind \notin Keyed
  <2>1. Rows(t, e, n) = t
    BY <1>9 DEF Rows
  <2> HIDE DEF K, R, name
  <2>3. [k \in K(new) |-> R(new, k)] = t
    BY <1>5, <1>6, <1>9
  <2> QED
    BY <1>2, <2>1, <2>3 DEF n, new
<1> QED
  BY <1>8, <1>9

LEMMA CallsGrow ==
    ASSUME NEW E, NEW log \in Seq(E), NEW e \in E
    PROVE  TablesOf(Append(log, e)).calls = Calls(TablesOf(log).calls, e, Len(log) + 1)
<1> DEFINE n == Len(log) + 1
           new == Append(log, e)
<1>1. /\ DOMAIN new = DOMAIN log \cup {n} /\ n \notin DOMAIN log /\ new[n] = e
      /\ \A i \in DOMAIN log : new[i] = log[i]
  BY Grown
<1>2. /\ TablesOf(new).calls = {i \in DOMAIN new : new[i].kind \in Called}
      /\ TablesOf(log).calls = {i \in DOMAIN log : log[i].kind \in Called}
  BY DEF TablesOf
<1> HIDE DEF n, new
<1> QED
  BY <1>1, <1>2 DEF Calls, n, new

(* The event projected last leaves the tables of the longer log.           *)
LEMMA TablesGrow ==
    ASSUME NEW E, NEW log \in Seq(E), NEW e \in E
    PROVE  TablesOf(Append(log, e)) = Project(TablesOf(log), e, Len(log) + 1)
<1>1. \A l : TablesOf(l) = [orders |-> TablesOf(l).orders, fills |-> TablesOf(l).fills,
                            rows |-> TablesOf(l).rows, calls |-> TablesOf(l).calls]
  BY DEF TablesOf
<1> QED
  BY <1>1, OrdersGrow, FillsGrow, RowsGrow, CallsGrow DEF Project

LEMMA NoTables ==
    TablesOf(<<>>) = Empty
<1>1. DOMAIN <<>> = {}
  OBVIOUS
<1>2. Submitted(<<>>) = {} /\ Filled(<<>>) = {}
  BY <1>1 DEF Submitted, Filled
<1>3. [o \in Submitted(<<>>) |-> OrderOf(<<>>, o)] = <<>>
  BY <1>2
<1>4. [f \in {<<>>[i].fill : i \in Filled(<<>>)} |-> Min({i \in Filled(<<>>) : <<>>[i].fill = f})] = <<>>
  BY <1>2
<1>5. [k \in {<<<<>>[i].kind, <<>>[i].key>> : i \in {j \in DOMAIN <<>> : <<>>[j].kind \in Keyed}} |->
         [val |-> <<>>[NewestOf(<<>>, k)].val, seq |-> NewestOf(<<>>, k)]] = <<>>
  BY <1>1
<1>6. {i \in DOMAIN <<>> : <<>>[i].kind \in Called} = {}
  BY <1>1
<1> QED
  BY <1>3, <1>4, <1>5, <1>6 DEF TablesOf, Empty

-----------------------------------------------------------------------------
(* The store.                                                              *)

Events == UNION {Range(batch) : batch \in Inputs}

(* What the jobs write, in whatever order the keys of a kv_put_many come.  *)
AllKeys(v) == SetToSeq({[key |-> k, val |-> v] : k \in KvKeys})
Batches ==
    UNION {Inputs, {<<>>}, {<<[key |-> k, val |-> v]>> : k \in KvKeys, v \in KvVals},
           {AllKeys(v) : v \in KvVals}}
Stored == {"none"} \cup {batch[i].val : batch \in Batches, i \in Nat}

Db == [version : Nat, log : Seq(Events), tables : {TablesOf(log) : log \in Seq(Events)},
       kv : [KvKeys -> Stored]]
JobType == [op : {"none", "append", "rebuild", "kv"}, batch : Batches, done : Nat,
            began : BOOLEAN, work : Db \cup {<<>>}]
ConnType == [state : {"closed", "opening", "open"}, at : Nat, job : JobType]

(* How far a transaction has come: its view of the database is what is     *)
(* committed and the events written so far, with their tables.             *)
JobOk(job, d) ==
    /\ job.op = "append" => job.batch \in Inputs
    /\ job.began = FALSE => job.done = 0
    /\ job.began = TRUE =>
        /\ job.op # "none" /\ job.work \in Db /\ job.work.version = d.version
        /\ job.op = "append" =>
            /\ job.done <= Len(job.batch)
            /\ job.work.log = d.log \o SubSeq(job.batch, 1, job.done)
            /\ job.work.tables = TablesOf(job.work.log)
        /\ job.op = "rebuild" =>
            /\ job.done <= Len(d.log)
            /\ job.work.log = d.log
            /\ job.work.tables = TablesOf(SubSeq(d.log, 1, job.done))
        /\ job.op = "kv" => job.work.log = d.log /\ job.work.tables = d.tables

DbOk == db \in Db /\ db.tables = TablesOf(db.log) /\ applied = [i \in 1 .. db.version |-> i]

StoreInv ==
    /\ DbOk
    /\ conn \in [Conns -> ConnType]
    /\ \A c, d \in Conns : conn[c].job.began = TRUE /\ conn[d].job.began = TRUE => c = d
    /\ \A c \in Conns : JobOk(conn[c].job, db)

LEMMA InputSeqs ==
    ASSUME NEW batch \in Inputs
    PROVE  batch \in Seq(Events) /\ Len(batch) \in Nat /\ DOMAIN batch = 1 .. Len(batch)
<1>1. batch \in Seq(Range(batch)) /\ Range(batch) \subseteq Events
  BY EventStoreAssumption DEF Events
<1>2. batch \in Seq(Events)
  BY <1>1, SeqMonotonic
<1> QED
  BY <1>2, LenProperties

LEMMA NothingHeld ==
    /\ NoJob \in JobType
    /\ \A d : JobOk(NoJob, d)
    /\ Empty \in {TablesOf(log) : log \in Seq(Events)}
<1>1. <<>> \in Seq(Events) /\ <<>> \in Batches
  BY EmptySeq DEF Batches
<1> QED
  BY <1>1, NoTables DEF NoJob, JobType, JobOk

(* A prefix of a sequence, one element longer.                             *)
LEMMA PrefixGrows ==
    ASSUME NEW E, NEW s \in Seq(E), NEW n \in Nat, n < Len(s)
    PROVE  /\ SubSeq(s, 1, n) \in Seq(E) /\ Len(SubSeq(s, 1, n)) = n /\ s[n + 1] \in E
           /\ SubSeq(s, 1, n + 1) = Append(SubSeq(s, 1, n), s[n + 1])
<1>1. Len(s) \in Nat
  BY LenProperties
<1>2. \A i \in 1 .. Len(s) : s[i] \in E
  BY ElementOfSeq
<1>3. SubSeq(s, 1, n) \in Seq(E) /\ Len(SubSeq(s, 1, n)) = IF 1 <= n THEN n - 1 + 1 ELSE 0
  <2>1. \A i \in 1 .. n : s[i] \in E
    BY <1>1, <1>2
  <2> QED
    BY <2>1, SubSeqProperties
<1>4. 1 \in 1 .. Len(s) /\ n + 1 \in 1 .. Len(s)
  BY <1>1
<1>5. SubSeq(s, 1, n + 1) = SubSeq(s, 1, (n + 1) - 1) \o <<s[n + 1]>>
  BY <1>4, SubSeqRecursiveSecond
<1>6. (n + 1) - 1 = n
  OBVIOUS
<1> QED
  BY <1>2, <1>3, <1>4, <1>5, <1>6, AppendIsConcat

LEMMA PrefixEmpty ==
    ASSUME NEW s
    PROVE  SubSeq(s, 1, 0) = <<>>
BY SubSeqEmpty

(* A batch being appended, and a log being projected again.                *)
LEMMA AppendGrows ==
    ASSUME NEW E, NEW log \in Seq(E), NEW b \in Seq(E), NEW n \in Nat, n < Len(b)
    PROVE  /\ Append(log \o SubSeq(b, 1, n), b[n + 1]) = log \o SubSeq(b, 1, n + 1)
           /\ log \o SubSeq(b, 1, n + 1) \in Seq(E)
           /\ TablesOf(log \o SubSeq(b, 1, n + 1)) =
                Project(TablesOf(log \o SubSeq(b, 1, n)), b[n + 1], Len(log \o SubSeq(b, 1, n)) + 1)
<1> DEFINE pre == SubSeq(b, 1, n)
           e == b[n + 1]
           old == log \o pre
<1>1. pre \in Seq(E) /\ e \in E /\ SubSeq(b, 1, n + 1) = Append(pre, e)
  BY PrefixGrows
<1> HIDE DEF pre, e
<1>2. old \in Seq(E) /\ <<e>> \in Seq(E)
  BY <1>1, ConcatProperties
<1>3. Append(old, e) = old \o <<e>> /\ Append(pre, e) = pre \o <<e>>
  BY <1>1, <1>2, AppendIsConcat
<1>4. old \o <<e>> = log \o (pre \o <<e>>)
  BY <1>1, <1>2, ConcatAssociative
<1>5. Append(old, e) \in Seq(E) /\ TablesOf(Append(old, e)) = Project(TablesOf(old), e, Len(old) + 1)
  BY <1>1, <1>2, AppendProperties, TablesGrow
<1> QED
  BY <1>1, <1>3, <1>4, <1>5 DEF pre, e

LEMMA RebuildGrows ==
    ASSUME NEW E, NEW log \in Seq(E), NEW n \in Nat, n < Len(log)
    PROVE  /\ SubSeq(log, 1, n + 1) \in Seq(E)
           /\ TablesOf(SubSeq(log, 1, n + 1)) = Project(TablesOf(SubSeq(log, 1, n)), log[n + 1], n + 1)
<1> DEFINE pre == SubSeq(log, 1, n)
           e == log[n + 1]
<1>1. pre \in Seq(E) /\ Len(pre) = n /\ e \in E /\ SubSeq(log, 1, n + 1) = Append(pre, e)
  BY PrefixGrows
<1> HIDE DEF pre, e
<1>2. Append(pre, e) \in Seq(E) /\ TablesOf(Append(pre, e)) = Project(TablesOf(pre), e, Len(pre) + 1)
  BY <1>1, AppendProperties, TablesGrow
<1> QED
  BY <1>1, <1>2 DEF pre, e

(* One row written.                                                        *)
LEMMA WrittenOk ==
    ASSUME NEW d \in Db, d.tables = TablesOf(d.log), NEW job \in JobType, JobOk(job, d),
           job.began = TRUE, job.done < Size(job)
    PROVE  LET next == [job EXCEPT !.work = Written(job), !.done = @ + 1]
           IN  next \in JobType /\ JobOk(next, d) /\ next.began = TRUE /\ next.op = job.op
<1> DEFINE next == [job EXCEPT !.work = Written(job), !.done = @ + 1]
           w == job.work
           n == job.done
           i == n + 1
<1>1. /\ next.op = job.op /\ next.batch = job.batch /\ next.done = i /\ next.began = job.began
      /\ next.work = Written(job) /\ i \in Nat /\ n \in Nat
  BY DEF JobType
<1>2. w \in Db /\ w.version = d.version /\ job.op \in {"append", "rebuild", "kv"}
  BY DEF JobOk, JobType
<1>3. SUFFICES Written(job) \in Db /\ JobOk(next, d)
  BY <1>1 DEF JobType
<1>4. CASE job.op = "append"
  <2> DEFINE b == job.batch
             e == b[i]
  <2>1. b \in Inputs /\ b \in Seq(Events) /\ n < Len(b) /\ Len(b) \in Nat
    BY <1>4, InputSeqs DEF JobOk, Size
  <2>2. w.log = d.log \o SubSeq(b, 1, n) /\ w.tables = TablesOf(w.log) /\ d.log \in Seq(Events)
    BY <1>2, <1>4 DEF JobOk, Db
  <2>4. Append(w.log, e) = d.log \o SubSeq(b, 1, i) /\ Append(w.log, e) \in Seq(Events)
        /\ TablesOf(Append(w.log, e)) = Project(w.tables, e, Len(w.log) + 1)
    <3> DEFINE log == d.log
    <3>1. log \in Seq(Events) /\ w.log = log \o SubSeq(b, 1, n)
      BY <2>2
    <3>0. b \in Seq(Events) /\ n \in Nat /\ n < Len(b)
      BY <1>1, <2>1
    <3> HIDE DEF n, b, w, log
    <3>2. /\ Append(log \o SubSeq(b, 1, n), b[n + 1]) = log \o SubSeq(b, 1, n + 1)
          /\ log \o SubSeq(b, 1, n + 1) \in Seq(Events)
          /\ TablesOf(log \o SubSeq(b, 1, n + 1)) =
                Project(TablesOf(log \o SubSeq(b, 1, n)), b[n + 1], Len(log \o SubSeq(b, 1, n)) + 1)
      BY <3>0, <3>1, AppendGrows
    <3> QED
      BY <2>2, <3>1, <3>2 DEF log
  <2>6. Written(job) = [w EXCEPT !.log = Append(w.log, e), !.tables = TablesOf(Append(w.log, e))]
    BY <1>4, <2>4 DEF Written, Insert
  <2> HIDE DEF w, b, e, i
  <2>7. /\ Written(job) \in Db /\ Written(job).log = Append(w.log, e) /\ Written(job).version = w.version
        /\ Written(job).tables = TablesOf(Append(w.log, e))
    <3> DEFINE log == Append(w.log, e)
    <3>1. log \in Seq(Events) /\ Written(job) = [w EXCEPT !.log = log, !.tables = TablesOf(log)]
      BY <2>4, <2>6
    <3> HIDE DEF log
    <3>2. TablesOf(log) \in {TablesOf(l) : l \in Seq(Events)}
      BY <3>1
    <3>3. /\ Written(job) \in Db /\ Written(job).log = log /\ Written(job).version = w.version
          /\ Written(job).tables = TablesOf(log)
      BY <1>2, <3>1, <3>2 DEF Db
    <3> QED
      BY <3>3 DEF log
  <2>8. next.done <= Len(next.batch)
    BY <1>1, <2>1 DEF i, b
  <2> QED
    BY <1>1, <1>2, <1>4, <2>1, <2>4, <2>7, <2>8 DEF JobOk, b
<1>5. CASE job.op = "rebuild"
  <2>1. /\ w.log = d.log /\ w.tables = TablesOf(SubSeq(d.log, 1, n))
        /\ n < Len(d.log) /\ d.log \in Seq(Events) /\ Len(d.log) \in Nat
    BY <1>5, LenProperties DEF JobOk, Size, Db
  <2>3. /\ SubSeq(d.log, 1, i) \in Seq(Events)
        /\ Project(w.tables, d.log[i], i) = TablesOf(SubSeq(d.log, 1, i))
    <3> HIDE DEF n, w
    <3> QED
      BY <1>1, <2>1, RebuildGrows
  <2>4. Written(job) = [w EXCEPT !.tables = TablesOf(SubSeq(d.log, 1, i))]
    BY <1>5, <2>1, <2>3 DEF Written
  <2> HIDE DEF w
  <2>6. /\ Written(job) \in Db /\ Written(job).log = w.log /\ Written(job).version = w.version
        /\ Written(job).tables = TablesOf(SubSeq(d.log, 1, i))
    <3> DEFINE t == TablesOf(SubSeq(d.log, 1, i))
    <3>1. t \in {TablesOf(l) : l \in Seq(Events)} /\ Written(job) = [w EXCEPT !.tables = t]
      BY <2>3, <2>4
    <3> HIDE DEF t
    <3>2. /\ Written(job) \in Db /\ Written(job).log = w.log /\ Written(job).version = w.version
          /\ Written(job).tables = t
      BY <1>2, <3>1 DEF Db
    <3> QED
      BY <3>2 DEF t
  <2>7. next.done <= Len(d.log)
    BY <1>1, <2>1
  <2> QED
    BY <1>1, <1>2, <1>5, <2>1, <2>6, <2>7 DEF JobOk
<1>6. CASE job.op = "kv"
  <2> DEFINE k == job.batch[i].key
             v == job.batch[i].val
  <2>1. Written(job) = [w EXCEPT !.kv[k] = v]
    BY <1>6 DEF Written
  <2>2. v \in Stored
    BY <1>1 DEF JobType, Stored
  <2>3. w.log = d.log /\ w.tables = d.tables
    BY <1>6 DEF JobOk
  <2> HIDE DEF w, k, v
  <2>4. [w.kv EXCEPT ![k] = v] \in [KvKeys -> Stored]
    BY <1>2, <2>2 DEF Db
  <2>5. Written(job) = [w EXCEPT !.kv = [w.kv EXCEPT ![k] = v]]
    BY <2>1
  <2>6. /\ Written(job) \in Db /\ Written(job).log = w.log /\ Written(job).version = w.version
        /\ Written(job).tables = w.tables
    BY <1>2, <2>4, <2>5 DEF Db
  <2> QED
    BY <1>1, <1>2, <1>6, <2>3, <2>6 DEF JobOk
<1> QED
  BY <1>2, <1>4, <1>5, <1>6

LEMMA CountedUp ==
    ASSUME NEW n \in Nat
    PROVE  Append([i \in 1 .. n |-> i], n + 1) = [i \in 1 .. n + 1 |-> i]
<1> DEFINE s == [i \in 1 .. n |-> i]
           t == Append(s, n + 1)
<1>1. s \in Seq(Nat)
  <2>1. s \in [1 .. n -> Nat]
    OBVIOUS
  <2> QED
    BY <2>1, SeqDef
<1>2. Len(s) = n
  BY <1>1, LenProperties
<1>3. \A i \in 1 .. n : s[i] = i
  OBVIOUS
<1> HIDE DEF s
<1>4. t \in Seq(Nat) /\ Len(t) = n + 1 /\ t[n + 1] = n + 1 /\ \A i \in 1 .. n : t[i] = i
  BY <1>1, <1>2, <1>3, AppendProperties
<1> HIDE DEF t
<1>5. t \in [1 .. n + 1 -> Nat]
  BY <1>4, LenProperties
<1>6. \A i \in 1 .. n + 1 : t[i] = i
  BY <1>4
<1>7. t = [i \in 1 .. n + 1 |-> i]
  BY <1>5, <1>6
<1> QED
  BY <1>7 DEF t, s

LEMMA StoreInit ==
    Init => StoreInv
<1> SUFFICES ASSUME Init PROVE StoreInv
  OBVIOUS
<1>1. <<>> \in Seq(Events) /\ NoKv \in [KvKeys -> Stored]
  BY EmptySeq DEF NoKv, Stored
<1>2. db \in Db /\ db.tables = TablesOf(db.log) /\ db.version = 0
  BY <1>1, NoTables, NothingHeld DEF Init, Db
<1>3. applied = [i \in 1 .. 0 |-> i]
  <2>1. 1 .. 0 = {}
    OBVIOUS
  <2> QED
    BY <2>1 DEF Init
<1>4. \A c \in Conns : conn[c] = [state |-> "closed", at |-> 0, job |-> NoJob]
  BY DEF Init
<1>5. conn \in [Conns -> ConnType]
  BY NothingHeld DEF Init, ConnType
<1>6. NoJob.began = FALSE
  BY DEF NoJob
<1> QED
  BY <1>2, <1>3, <1>4, <1>5, <1>6, NothingHeld DEF StoreInv, DbOk

(* A step that changes no job and not the database.                        *)
LEMMA JobsKept ==
    ASSUME StoreInv, UNCHANGED <<db, applied>>, conn' \in [Conns -> ConnType],
           \A c \in Conns : conn'[c].job = conn[c].job
    PROVE  StoreInv'
BY DEF StoreInv, DbOk

(* A step that changes one job only.                                       *)
LEMMA JobChanged ==
    ASSUME StoreInv, UNCHANGED <<db, applied>>, NEW c \in Conns, NEW job \in JobType,
           conn' = [conn EXCEPT ![c].job = job], JobOk(job, db),
           job.began = TRUE => \A d \in Conns \ {c} : conn[d].job.began # TRUE
    PROVE  StoreInv'
<1>1. conn \in [Conns -> ConnType] /\ conn[c] \in ConnType
  BY DEF StoreInv
<1>2. [conn[c] EXCEPT !.job = job] \in ConnType /\ [conn[c] EXCEPT !.job = job].job = job
  BY <1>1 DEF ConnType
<1>3. conn' = [conn EXCEPT ![c] = [conn[c] EXCEPT !.job = job]]
  OBVIOUS
<1>4. conn' \in [Conns -> ConnType] /\ conn'[c].job = job /\ \A d \in Conns \ {c} : conn'[d] = conn[d]
  BY <1>1, <1>2, <1>3
<1>5. \A d \in Conns : JobOk(conn'[d].job, db)
  BY <1>4 DEF StoreInv
<1>6. \A d, f \in Conns : conn'[d].job.began = TRUE /\ conn'[f].job.began = TRUE => d = f
  BY <1>4 DEF StoreInv
<1> QED
  BY <1>4, <1>5, <1>6 DEF StoreInv, DbOk

(* A transaction that ends with the database in order.                     *)
LEMMA JobEnds ==
    ASSUME StoreInv, NEW c \in Conns, conn[c].job.began = TRUE, UNCHANGED applied,
           conn' = [conn EXCEPT ![c].job = NoJob],
           db' \in Db, db'.tables = TablesOf(db'.log), db'.version = db.version
    PROVE  StoreInv'
<1>1. conn \in [Conns -> ConnType] /\ conn[c] \in ConnType
  BY DEF StoreInv
<1>2. [conn[c] EXCEPT !.job = NoJob] \in ConnType /\ [conn[c] EXCEPT !.job = NoJob].job = NoJob
  BY <1>1, NothingHeld DEF ConnType
<1>3. conn' = [conn EXCEPT ![c] = [conn[c] EXCEPT !.job = NoJob]]
  OBVIOUS
<1>4. conn' \in [Conns -> ConnType] /\ conn'[c].job = NoJob /\ \A d \in Conns \ {c} : conn'[d] = conn[d]
  BY <1>1, <1>2, <1>3
<1>5. \A d \in Conns \ {c} : conn[d].job.began # TRUE
  BY DEF StoreInv
<1>6. NoJob.began # TRUE
  BY DEF NoJob
<1>7. ASSUME NEW d \in Conns PROVE JobOk(conn'[d].job, db')
  <2>1. CASE d = c
    BY <1>4, <2>1, NothingHeld
  <2>2. CASE d # c
    BY <1>4, <1>5, <2>2 DEF StoreInv, JobOk
  <2> QED
    BY <2>1, <2>2
<1>8. \A d, f \in Conns : conn'[d].job.began = TRUE /\ conn'[f].job.began = TRUE => d = f
  BY <1>4, <1>5, <1>6
<1> QED
  BY <1>4, <1>7, <1>8 DEF StoreInv, DbOk

(* What a job starts with.                                                 *)
LEMMA JobStarts ==
    ASSUME StoreInv, NEW c \in Conns, NEW op \in {"append", "rebuild", "kv"}, NEW batch \in Batches,
           op = "append" => batch \in Inputs, Starts(c, Job(op, batch))
    PROVE  StoreInv'
<1>1. NoJob \in JobType /\ NoJob.done = 0 /\ NoJob.began = FALSE
  BY NothingHeld DEF NoJob
<1>2. /\ Job(op, batch) \in JobType /\ Job(op, batch).op = op /\ Job(op, batch).batch = batch
      /\ Job(op, batch).done = 0 /\ Job(op, batch).began = FALSE
  BY <1>1 DEF Job, JobType
<1>3. JobOk(Job(op, batch), db)
  BY <1>2 DEF JobOk
<1> QED
  BY <1>2, <1>3, JobChanged DEF Starts

LEMMA LockIs ==
    ASSUME StoreInv
    PROVE  LockFree <=> \A c \in Conns : conn[c].job.began = FALSE
<1>1. \A c \in Conns : conn[c].job.began \in BOOLEAN
  BY DEF StoreInv, ConnType, JobType
<1> QED
  BY <1>1 DEF LockFree, Writing

LEMMA StoreStep ==
    ASSUME StoreInv, [Next]_vars
    PROVE  StoreInv'
<1>a. /\ conn \in [Conns -> ConnType]
      /\ \A c \in Conns : conn[c] \in ConnType /\ conn[c].job \in JobType /\ JobOk(conn[c].job, db)
      /\ db \in Db /\ db.tables = TablesOf(db.log)
  BY DEF StoreInv, DbOk, ConnType
<1>b. \A c \in Conns : conn[c].job.began \in BOOLEAN
  BY <1>a DEF JobType
<1>1. ASSUME NEW c \in Conns, Open(c) PROVE StoreInv'
  <2> DEFINE state == IF db.version > Latest[c] THEN "closed" ELSE "opening"
  <2>1. conn' = [conn EXCEPT ![c] = [conn[c] EXCEPT !.at = db.version, !.state = state]]
    BY <1>1 DEF Open
  <2>2. state \in {"closed", "opening", "open"} /\ db.version \in Nat
    BY <1>a DEF Db
  <2> HIDE DEF state
  <2>3. /\ [conn[c] EXCEPT !.at = db.version, !.state = state] \in ConnType
        /\ [conn[c] EXCEPT !.at = db.version, !.state = state].job = conn[c].job
    BY <1>a, <2>2 DEF ConnType
  <2> QED
    BY <1>1, <1>a, <2>1, <2>3, JobsKept DEF Open
<1>2. ASSUME NEW c \in Conns, Migrate(c) PROVE StoreInv'
  <2>1. CASE ~Applies(c)
    <3>1. conn' = [conn EXCEPT ![c] = [conn[c] EXCEPT !.state = "closed"]] /\ UNCHANGED <<db, applied>>
      BY <1>2, <2>1 DEF Migrate
    <3>2. /\ [conn[c] EXCEPT !.state = "closed"] \in ConnType
          /\ [conn[c] EXCEPT !.state = "closed"].job = conn[c].job
      BY <1>a DEF ConnType
    <3> QED
      BY <1>a, <3>1, <3>2, JobsKept
  <2>2. CASE Applies(c)
    <3> DEFINE n == db.version
    <3>1. /\ n \in Nat /\ conn[c].at = n /\ db' = [db EXCEPT !.version = n + 1]
          /\ applied' = Append(applied, n + 1)
          /\ conn' = [conn EXCEPT ![c] = [conn[c] EXCEPT !.at = conn[c].at + 1]]
      BY <1>2, <1>a, <2>2 DEF Migrate, Applies, Db
    <3> HIDE DEF n
    <3>2. /\ db' \in Db /\ db'.version = n + 1 /\ db'.log = db.log /\ db'.tables = db.tables
      <4>1. db \in Db /\ n + 1 \in Nat /\ db' = [db EXCEPT !.version = n + 1]
        BY <1>a, <3>1
      <4> HIDE DEF n
      <4> QED
        BY <4>1 DEF Db
    <3>3. applied = [i \in 1 .. n |-> i]
      BY DEF StoreInv, DbOk, n
    <3>4. applied' = [i \in 1 .. n + 1 |-> i]
      BY <3>1, <3>3, CountedUp
    <3>5. /\ [conn[c] EXCEPT !.at = conn[c].at + 1] \in ConnType
          /\ [conn[c] EXCEPT !.at = conn[c].at + 1].job = conn[c].job
      BY <1>a DEF ConnType
    <3>6. conn' \in [Conns -> ConnType] /\ \A d \in Conns : conn'[d].job = conn[d].job
      BY <1>a, <3>1, <3>5
    <3>7. \A d \in Conns : conn[d].job.began = FALSE
      BY <1>2, LockIs DEF Migrate
    <3>8. \A d \in Conns : JobOk(conn'[d].job, db')
      BY <1>a, <3>6, <3>7 DEF JobOk
    <3>9. DbOk'
      BY <1>a, <3>2, <3>4 DEF DbOk
    <3> QED
      BY <3>6, <3>7, <3>8, <3>9 DEF StoreInv
  <2> QED
    BY <2>1, <2>2
<1>3. ASSUME NEW c \in Conns, Opened(c) PROVE StoreInv'
  <2>1. conn' = [conn EXCEPT ![c] = [conn[c] EXCEPT !.state = "open"]]
    BY <1>3 DEF Opened
  <2>2. /\ [conn[c] EXCEPT !.state = "open"] \in ConnType
        /\ [conn[c] EXCEPT !.state = "open"].job = conn[c].job
    BY <1>a DEF ConnType
  <2> QED
    BY <1>3, <1>a, <2>1, <2>2, JobsKept DEF Opened
<1>4. ASSUME NEW c \in Conns, NEW b \in Inputs, AppendMany(c, b) PROVE StoreInv'
  BY <1>4, JobStarts DEF AppendMany, Batches
<1>5. ASSUME NEW c \in Conns, RebuildProjections(c) PROVE StoreInv'
  BY <1>5, JobStarts DEF RebuildProjections, Batches
<1>6. ASSUME NEW c \in Conns, NEW v \in KvVals, KvPutMany(c, v) PROVE StoreInv'
  <2>1. AllKeys(v) \in Batches
    BY DEF Batches
  <2> QED
    BY <1>6, <2>1, JobStarts DEF KvPutMany, AllKeys
<1>7. ASSUME NEW c \in Conns, NEW v \in KvVals, NEW k \in KvKeys, KvPut(c, k, v) PROVE StoreInv'
  <2>1. <<[key |-> k, val |-> v]>> \in Batches
    BY DEF Batches
  <2> QED
    BY <1>7, <2>1, JobStarts DEF KvPut
<1>8. ASSUME NEW c \in Conns, Begin(c) PROVE StoreInv'
  <2> DEFINE work == IF conn[c].job.op = "rebuild" THEN [db EXCEPT !.tables = Empty] ELSE db
             job == [conn[c].job EXCEPT !.began = TRUE, !.work = work]
  <2>1. \A d \in Conns : conn[d].job.began = FALSE
    BY <1>8, LockIs DEF Begin
  <2>2. /\ conn' = [conn EXCEPT ![c].job = job] /\ UNCHANGED <<db, applied>> /\ conn[c].job.op # "none"
    BY <1>8 DEF Begin, InJob
  <2>3. /\ work \in Db /\ work.log = db.log /\ work.version = db.version
        /\ work.tables = IF conn[c].job.op = "rebuild" THEN Empty ELSE db.tables
    BY <1>a, NothingHeld DEF Db
  <2> HIDE DEF work
  <2>4. /\ job \in JobType /\ job.op = conn[c].job.op /\ job.batch = conn[c].job.batch
        /\ job.done = 0 /\ job.began = TRUE /\ job.work = work
    BY <1>a, <2>1, <2>3 DEF JobType, JobOk
  <2> HIDE DEF job
  <2>5. SubSeq(job.batch, 1, 0) = <<>> /\ SubSeq(db.log, 1, 0) = <<>> /\ db.log \o <<>> = db.log
    BY <1>a, PrefixEmpty, ConcatEmptySeq DEF Db
  <2>6. job.op = "append" => job.batch \in Inputs /\ Len(job.batch) \in Nat
    BY <1>a, <2>4, InputSeqs DEF JobOk
  <2>7. Len(db.log) \in Nat
    BY <1>a, LenProperties DEF Db
  <2>8. JobOk(job, db)
    <3>1. job.work \in Db /\ job.work.version = db.version /\ job.op # "none" /\ job.work.log = db.log
      BY <2>2, <2>3, <2>4
    <3>2. CASE job.op = "append"
      <4>1. job.work.tables = TablesOf(job.work.log)
        BY <1>a, <2>3, <2>4, <3>1, <3>2
      <4>2. job.work.log = db.log \o SubSeq(job.batch, 1, job.done)
        BY <2>4, <2>5, <3>1, Zenon
      <4>3. job.done <= Len(job.batch)
        BY <2>4, <2>6, <3>2
      <4> QED
        BY <2>4, <2>6, <3>1, <3>2, <4>1, <4>2, <4>3 DEF JobOk
    <3>3. CASE job.op = "rebuild"
      <4>1. job.work.tables = TablesOf(SubSeq(db.log, 1, 0))
        BY <2>3, <2>4, <2>5, <3>3, NoTables
      <4> QED
        BY <2>4, <2>7, <3>1, <3>3, <4>1 DEF JobOk
    <3>4. CASE job.op = "kv"
      BY <2>3, <2>4, <3>1, <3>4 DEF JobOk
    <3> QED
      BY <2>2, <2>4, <3>2, <3>3, <3>4 DEF JobType
  <2> QED
    BY <2>1, <2>2, <2>4, <2>8, JobChanged
<1>9. ASSUME NEW c \in Conns, Busy(c) PROVE StoreInv'
  <2>1. NoJob.began = FALSE
    BY DEF NoJob
  <2> QED
    BY <1>9, <2>1, NothingHeld, JobChanged DEF Busy
<1>10. ASSUME NEW c \in Conns, Write(c) PROVE StoreInv'
  <2> DEFINE job == conn[c].job
             next == [job EXCEPT !.work = Written(job), !.done = @ + 1]
  <2>1. job.began = TRUE /\ job.done < Size(job) /\ UNCHANGED <<db, applied>>
    BY <1>10, <1>b DEF Write
  <2>2. conn' = [conn EXCEPT ![c].job = next]
    BY <1>10 DEF Write
  <2>3. job \in JobType /\ JobOk(job, db)
    BY <1>a
  <2>4. next \in JobType /\ JobOk(next, db)
    <3> HIDE DEF job
    <3> QED
      BY <1>a, <2>1, <2>3, WrittenOk
  <2>5. \A d \in Conns \ {c} : conn[d].job.began # TRUE
    BY <2>1 DEF StoreInv
  <2> HIDE DEF next
  <2> QED
    BY <2>1, <2>2, <2>4, <2>5, JobChanged
<1>11. ASSUME NEW c \in Conns, Commit(c) PROVE StoreInv'
  <2> DEFINE job == conn[c].job
  <2>1. job.began = TRUE /\ job.done = Size(job) /\ db' = job.work /\ UNCHANGED applied
        /\ conn' = [conn EXCEPT ![c].job = NoJob]
    BY <1>11, <1>b DEF Commit
  <2>2. job \in JobType /\ JobOk(job, db) /\ job.op # "none"
    BY <1>a, <2>1 DEF JobOk
  <2>3. job.work \in Db /\ job.work.version = db.version
    BY <2>1, <2>2 DEF JobOk
  <2>4. job.work.tables = TablesOf(job.work.log)
    <3>1. CASE job.op = "append"
      BY <2>1, <2>2, <3>1 DEF JobOk
    <3>2. CASE job.op = "rebuild"
      <4>1. job.done = Len(db.log) /\ job.work.log = db.log
        BY <2>1, <2>2, <3>2 DEF JobOk, Size
      <4>2. SubSeq(db.log, 1, Len(db.log)) = db.log
        BY <1>a, SubSeqFull DEF Db
      <4> QED
        BY <2>1, <2>2, <3>2, <4>1, <4>2 DEF JobOk
    <3>3. CASE job.op = "kv"
      BY <1>a, <2>1, <2>2, <3>3 DEF JobOk
    <3> QED
      BY <2>2, <3>1, <3>2, <3>3 DEF JobType
  <2> QED
    BY <2>1, <2>3, <2>4, JobEnds
<1>12. ASSUME NEW c \in Conns, Rollback(c) PROVE StoreInv'
  <2>1. conn[c].job.began = TRUE
    BY <1>12, <1>b DEF Rollback
  <2> QED
    BY <1>12, <1>a, <2>1, JobEnds DEF Rollback, RolledBack
<1>13. ASSUME NEW c \in Conns, Dies(c) PROVE StoreInv'
  <2> DEFINE r == [state |-> "closed", at |-> 0, job |-> NoJob]
  <2>1. conn' = [conn EXCEPT ![c] = r] /\ UNCHANGED <<db, applied>>
    BY <1>13 DEF Dies
  <2>2. r \in ConnType /\ r.job = NoJob /\ r.job.began = FALSE
    BY NothingHeld DEF ConnType, NoJob
  <2> HIDE DEF r
  <2>3. conn' \in [Conns -> ConnType] /\ conn'[c] = r /\ \A d \in Conns \ {c} : conn'[d] = conn[d]
    BY <1>a, <2>1, <2>2
  <2>4. \A d \in Conns : JobOk(conn'[d].job, db)
    BY <1>a, <2>2, <2>3, NothingHeld
  <2>5. \A d, f \in Conns : conn'[d].job.began = TRUE /\ conn'[f].job.began = TRUE => d = f
    BY <2>2, <2>3 DEF StoreInv
  <2> QED
    BY <2>1, <2>3, <2>4, <2>5 DEF StoreInv, DbOk
<1>14. CASE UNCHANGED <<db, applied, conn>>
  BY <1>14 DEF StoreInv, DbOk
<1>15. CASE UNCHANGED vars \/ \E c \in Conns : Read(c) \/ ReadFails(c) \/ \E v \in Views : Ask(c, v)
  BY <1>14, <1>15 DEF vars, Read, ReadFails, Ask
<1> QED
  BY <1>1, <1>2, <1>3, <1>4, <1>5, <1>6, <1>7, <1>8, <1>9, <1>10, <1>11, <1>12, <1>13, <1>15 DEF Next

(* The projections follow the log (append_many, _project,                  *)
(* rebuild_projections, migrate): whatever jobs of whatever connections    *)
(* commit, fail, wait or die, and whatever they write, the committed       *)
(* tables are those of the committed log; and each migration is applied    *)
(* once and in order, however openers race.                                *)
THEOREM ProjectionsFollowLog ==
    Spec => []TablesFollowLog
<1>1. StoreInv => TablesFollowLog
  BY DEF StoreInv, DbOk, TablesFollowLog
<1> QED
  BY <1>1, StoreInit, StoreStep, PTL DEF Spec

(* What a step does to the committed log.                                  *)
Whole ==
    \/ db'.log = db.log
    \/ \E c \in Conns : conn[c].job.op = "append" /\ db'.log = db.log \o conn[c].job.batch

LEMMA LogStep ==
    ASSUME StoreInv, [Next]_vars
    PROVE  Whole
<1>a. /\ \A c \in Conns : conn[c].job \in JobType /\ JobOk(conn[c].job, db)
      /\ db \in Db
  BY DEF StoreInv, DbOk, ConnType
<1>b. \A c \in Conns : conn[c].job.began \in BOOLEAN
  BY <1>a DEF JobType
<1>1. CASE db' = db
  BY <1>1 DEF Whole
<1>2. ASSUME NEW c \in Conns, Migrate(c) PROVE Whole
  <2>1. CASE Applies(c)
    BY <1>2, <1>a, <2>1 DEF Migrate, Whole, Db
  <2>2. CASE ~Applies(c)
    BY <1>1, <1>2, <2>2 DEF Migrate
  <2> QED
    BY <2>1, <2>2
<1>3. ASSUME NEW c \in Conns, Commit(c) PROVE Whole
  <2> DEFINE job == conn[c].job
  <2>1. job.began = TRUE /\ job.done = Size(job) /\ db' = job.work
    BY <1>3, <1>b DEF Commit
  <2>2. job \in JobType /\ JobOk(job, db) /\ job.op # "none"
    BY <1>a, <2>1 DEF JobOk
  <2>3. CASE job.op = "append"
    <3>1. job.batch \in Inputs /\ job.done = Len(job.batch)
      BY <2>1, <2>2, <2>3 DEF JobOk, Size
    <3>2. SubSeq(job.batch, 1, job.done) = job.batch
      BY <3>1, InputSeqs, SubSeqFull
    <3>3. db'.log = db.log \o job.batch
      BY <2>1, <2>2, <2>3, <3>2 DEF JobOk
    <3> QED
      BY <2>3, <3>3 DEF Whole
  <2>4. CASE job.op # "append"
    BY <2>1, <2>2, <2>4 DEF JobOk, JobType, Whole
  <2> QED
    BY <2>3, <2>4
<1>4. CASE \/ UNCHANGED vars
           \/ \E c \in Conns :
                \/ Open(c) \/ Opened(c) \/ RebuildProjections(c)
                \/ \E b \in Inputs : AppendMany(c, b)
                \/ \E v \in KvVals : KvPutMany(c, v) \/ \E k \in KvKeys : KvPut(c, k, v)
                \/ Begin(c) \/ Busy(c) \/ Write(c) \/ Rollback(c)
                \/ \E v \in Views : Ask(c, v)
                \/ Read(c) \/ ReadFails(c) \/ Dies(c)
  BY <1>1, <1>4 DEF vars, Open, Opened, RebuildProjections, AppendMany, KvPutMany, KvPut, Starts,
                    Begin, Busy, Write, Rollback, RolledBack, Ask, Read, ReadFails, Dies
<1> QED
  BY <1>2, <1>3, <1>4 DEF Next

(* Batches are whole (append_many): the log only grows, by all the events  *)
(* of one batch at once; no exception, crash, rebuild or waiting writer    *)
(* leaves a part of one.                                                   *)
THEOREM BatchesStayWhole ==
    Spec => BatchesWhole
<1>1. StoreInv /\ [Next]_vars => [Whole]_vars
  BY LogStep
<1>2. Spec => [][Whole]_vars
  BY <1>1, StoreInit, StoreStep, PTL DEF Spec
<1> QED
  BY <1>2 DEF Whole, BatchesWhole

-----------------------------------------------------------------------------
(* The views.                                                              *)

(* What is left of a view to read: its last statements.                    *)
Rest(todo, view) ==
    /\ Len(todo) <= Len(view)
    /\ \A i \in 1 .. Len(todo) : todo[i] = view[Len(view) - Len(todo) + i]

Tags == {"log", "seq", "kv", "orders", "fills", "calls"} \cup Keyed
ShownRows == [what : Tags, val : {Shown(w, d) : w \in Tags, d \in Db}]
SawType == [view : Seq(Tags), todo : Seq(Tags), got : Seq(ShownRows)]

(* The statement that got an answer saw the first n events of a log.       *)
ShowsFrom(answer, log, n) ==
    \/ answer.what = "kv"
    \/ answer.val = Shown(answer.what, [log |-> SubSeq(log, 1, n), tables |-> TablesOf(SubSeq(log, 1, n))])

(* The first of two statements saw no more of the log than the second.     *)
InOrder(first, second, log) ==
    \E m, n \in 0 .. Len(log) : m <= n /\ ShowsFrom(first, log, m) /\ ShowsFrom(second, log, n)

(* A reader ran its view's statements one after the other.                 *)
SawOk(s, log) ==
    /\ s \in SawType
    /\ Len(s.view) = Len(s.got) + Len(s.todo)
    /\ Rest(s.todo, s.view)
    /\ \A i \in 1 .. Len(s.got) : s.got[i].what = s.view[i]
    /\ \A i, j \in 1 .. Len(s.got) : i <= j => InOrder(s.got[i], s.got[j], log)
    /\ s.view \in Views \cup {<<>>}

ViewInv == saw \in [Conns -> SawType] /\ \A c \in Conns : SawOk(saw[c], db.log)

(* The first events of a log stay the first events.                        *)
LEMMA PrefixKept ==
    ASSUME NEW E, NEW log \in Seq(E), NEW b \in Seq(E), NEW n \in 0 .. Len(log)
    PROVE  SubSeq(log \o b, 1, n) = SubSeq(log, 1, n)
<1>1. Len(log) \in Nat
  BY LenProperties
<1>2. CASE n = 0
  BY <1>2, PrefixEmpty
<1>3. CASE n # 0
  <2>1. 1 \in 1 .. Len(log) /\ n \in 1 .. Len(log)
    BY <1>1, <1>3
  <2> QED
    BY <2>1, SubSeqOfConcat1
<1> QED
  BY <1>2, <1>3

LEMMA OrderKept ==
    ASSUME NEW log \in Seq(Events), NEW b \in Seq(Events), NEW x, NEW y, InOrder(x, y, log)
    PROVE  InOrder(x, y, log \o b)
<1>1. Len(log) \in Nat /\ Len(b) \in Nat /\ Len(log \o b) = Len(log) + Len(b)
  BY LenProperties, ConcatProperties
<1>2. PICK m, n \in 0 .. Len(log) : m <= n /\ ShowsFrom(x, log, m) /\ ShowsFrom(y, log, n)
  BY DEF InOrder
<1> DEFINE new == log \o b
<1>3. SubSeq(new, 1, m) = SubSeq(log, 1, m) /\ SubSeq(new, 1, n) = SubSeq(log, 1, n)
  BY PrefixKept
<1>4. m \in 0 .. Len(new) /\ n \in 0 .. Len(new)
  BY <1>1
<1> HIDE DEF new
<1>5. ShowsFrom(x, new, m) /\ ShowsFrom(y, new, n)
  BY <1>2, <1>3 DEF ShowsFrom
<1>6. InOrder(x, y, new)
  BY <1>2, <1>4, <1>5 DEF InOrder
<1> QED
  BY <1>6 DEF new

LEMMA SawKept ==
    ASSUME NEW log \in Seq(Events), NEW b \in Seq(Events), NEW s, SawOk(s, log)
    PROVE  SawOk(s, log \o b)
BY OrderKept DEF SawOk

LEMMA SawNothing ==
    ASSUME NEW log \in Seq(Events)
    PROVE  Nothing \in SawType /\ SawOk(Nothing, log)
<1>1. <<>> \in Seq(ShownRows) /\ <<>> \in Seq(Tags) /\ Len(<<>>) = 0
  BY EmptySeq
<1>2. Nothing \in SawType /\ Nothing.view = <<>> /\ Nothing.todo = <<>> /\ Nothing.got = <<>>
  BY <1>1 DEF Nothing, SawType
<1>3. Rest(<<>>, <<>>)
  BY <1>1 DEF Rest
<1> QED
  BY <1>1, <1>2, <1>3 DEF SawOk

(* What is done for each book is a sequence of the same statements.        *)
LEMMA ForBooksSeq ==
    ASSUME NEW T, NEW block \in Seq(T), block # <<>>
    PROVE  ForBooks(block) \in Seq(T) /\ ForBooks(block) # <<>>
<1> DEFINE len == Len(block)
           all == BookCount * len
<1>1. len \in Nat /\ len > 0
  BY LenProperties, EmptySeq
<1>2. BookCount \in Nat /\ BookCount > 0
  BY EventStoreAssumption
<1>3. \A i \in 1 .. len : block[i] \in T
  BY ElementOfSeq
<1> HIDE DEF len
<1>4. all \in Nat /\ all > 0
  BY <1>1, <1>2
<1> HIDE DEF all
<1>5. \A i \in 1 .. all : 1 + ((i - 1) % len) \in 1 .. len
  BY <1>1, <1>4
<1>6. ForBooks(block) = [i \in 1 .. all |-> block[1 + ((i - 1) % len)]]
  BY DEF ForBooks, all, len
<1>7. ForBooks(block) \in [1 .. all -> T]
  BY <1>3, <1>5, <1>6
<1>8. ForBooks(block) \in Seq(T)
  BY <1>4, <1>7, SeqDef
<1>9. 1 \in DOMAIN ForBooks(block)
  BY <1>4, <1>6
<1> QED
  BY <1>8, <1>9

LEMMA Joins ==
    ASSUME NEW T, NEW s \in Seq(T), NEW t \in Seq(T), t # <<>>
    PROVE  s \o t \in Seq(T) /\ s \o t # <<>>
<1>1. s \o t \in Seq(T) /\ Len(s \o t) = Len(s) + Len(t) /\ Len(s) \in Nat /\ Len(t) \in Nat \ {0}
  BY ConcatProperties, LenProperties, EmptySeq
<1> QED
  BY <1>1, EmptySeq

(* A view whose last statement, and only that, reads last_seq.             *)
LEMMA SeqLast ==
    ASSUME NEW s \in Seq(Tags \ {"seq"}), NEW i \in 1 .. Len(s \o <<"seq">>), (s \o <<"seq">>)[i] = "seq"
    PROVE  i = Len(s \o <<"seq">>)
<1> DEFINE last == <<"seq">>
           v == s \o last
<1>1. s \in Seq(Tags) /\ last \in Seq(Tags) /\ Len(last) = 1 /\ Len(s) \in Nat
  BY LenProperties, SeqMonotonic DEF Tags
<1>2. Len(v) = Len(s) + 1
  BY <1>1, ConcatProperties
<1>3. \A k \in 1 .. Len(s) : v[k] = s[k] /\ s[k] # "seq"
  <2>1. \A k \in 1 .. Len(s) + Len(last) : v[k] = IF k <= Len(s) THEN s[k] ELSE last[k - Len(s)]
    BY <1>1, ConcatProperties
  <2>2. \A k \in 1 .. Len(s) : s[k] \in Tags \ {"seq"}
    BY ElementOfSeq
  <2> HIDE DEF v, last
  <2> QED
    BY <1>1, <2>1, <2>2
<1>4. i \in 1 .. Len(v) /\ v[i] = "seq"
  OBVIOUS
<1> HIDE DEF v
<1>5. i \notin 1 .. Len(s)
  BY <1>3, <1>4
<1>6. i = Len(v)
  BY <1>1, <1>2, <1>4, <1>5
<1> QED
  BY <1>6 DEF v

(* The two views that end with last_seq, up to it.                         *)
SummaryBooks ==
    ForBooks(<<"log", "log", "TradeClosed", "PositionChanged", "orders", "KillSwitchChanged">>)
SummaryRest == Newest \o SummaryBooks
SystemRest == Newest \o Newest \o Newest \o <<"log", "log">>

LEMMA BeforeSeq ==
    /\ SummaryRest \in Seq(Tags \ {"seq"}) /\ SummaryView = SummaryRest \o <<"seq">>
    /\ SystemRest \in Seq(Tags \ {"seq"}) /\ SystemView = SystemRest \o <<"seq">>
<1>1. Newest \in Seq(Tags \ {"seq"})
  BY DEF Newest, Tags
<1>2. SummaryBooks \in Seq(Tags \ {"seq"}) /\ SummaryBooks # <<>>
  <2> DEFINE block == <<"log", "log", "TradeClosed", "PositionChanged", "orders", "KillSwitchChanged">>
  <2>1. block \in Seq(Tags \ {"seq"}) /\ block # <<>>
    BY DEF Tags, Keyed
  <2> HIDE DEF block
  <2>2. ForBooks(block) \in Seq(Tags \ {"seq"}) /\ ForBooks(block) # <<>>
    BY <2>1, ForBooksSeq
  <2> QED
    BY <2>2 DEF SummaryBooks, block
<1>3. SummaryRest \in Seq(Tags \ {"seq"})
  BY <1>1, <1>2, Joins DEF SummaryRest
<1>4. SummaryView = SummaryRest \o <<"seq">>
  BY DEF SummaryView, SummaryRest, SummaryBooks
<1>5. SystemRest \in Seq(Tags \ {"seq"})
  BY DEF SystemRest, Newest, Tags
<1>6. SystemView = SystemRest \o <<"seq">>
  BY DEF SystemView, SystemRest, Newest
<1> QED
  BY <1>3, <1>4, <1>5, <1>6

LEMMA ViewSeqs ==
    ASSUME NEW v \in Views
    PROVE  v \in Seq(Tags) /\ v # <<>> /\ Len(v) \in Nat /\ Rest(v, v)
<1>1. v \in Seq(Tags) /\ v # <<>>
  <2>1. SummaryView \in Seq(Tags) /\ SummaryView # <<>> /\ SystemView \in Seq(Tags) /\ SystemView # <<>>
    <3>1. SummaryRest \in Seq(Tags) /\ SystemRest \in Seq(Tags)
      BY BeforeSeq, SeqMonotonic
    <3>2. <<"seq">> \in Seq(Tags) /\ <<"seq">> # <<>>
      BY DEF Tags
    <3> QED
      BY <3>1, <3>2, BeforeSeq, Joins
  <2>2. PositionsView \in Seq(Tags) /\ PositionsView # <<>>
    <3>1. <<"PositionChanged">> \in Seq(Tags) /\ <<"kv">> \in Seq(Tags) /\ <<"kv">> # <<>>
      BY DEF Tags, Keyed
    <3>2. ForBooks(<<"kv">>) \in Seq(Tags) /\ ForBooks(<<"kv">>) # <<>>
      BY <3>1, ForBooksSeq
    <3> QED
      BY <3>1, <3>2, Joins DEF PositionsView
  <2>3. LineageView \in Seq(Tags) /\ LineageView # <<>>
    BY DEF LineageView, Tags, Keyed
  <2>4. RiskView \in Seq(Tags) /\ RiskView # <<>>
    <3> DEFINE block == <<"KillSwitchChanged", "DailyRiskStateRolled", "log", "log", "log",
                          "PositionChanged", "TypedEvent">>
    <3>1. block \in Seq(Tags) /\ block # <<>>
      BY DEF Tags, Keyed
    <3> HIDE DEF block
    <3>2. ForBooks(block) \in Seq(Tags) /\ ForBooks(block) # <<>>
      BY <3>1, ForBooksSeq
    <3> QED
      BY <3>2 DEF RiskView, block
  <2>5. BooksView \in Seq(Tags) /\ BooksView # <<>> /\ EquityView \in Seq(Tags) /\ EquityView # <<>>
    <3> DEFINE block == <<"log", "log", "TradeClosed", "calls">>
    <3>1. block \in Seq(Tags) /\ block # <<>> /\ <<"log">> \in Seq(Tags) /\ <<"log">> # <<>>
      BY DEF Tags, Keyed
    <3> HIDE DEF block
    <3>2. /\ ForBooks(block) \in Seq(Tags) /\ ForBooks(<<"log">>) \in Seq(Tags)
          /\ ForBooks(<<"log">>) # <<>>
      BY <3>1, ForBooksSeq
    <3>3. ForBooks(block) \o ForBooks(<<"log">>) \in Seq(Tags) /\ ForBooks(block) \o ForBooks(<<"log">>) # <<>>
      BY <3>2, Joins
    <3> QED
      BY <3>2, <3>3 DEF BooksView, EquityView, block
  <2>6. ModelsView \in Seq(Tags) /\ ModelsView # <<>> /\ MarkersView \in Seq(Tags) /\ MarkersView # <<>>
    BY DEF ModelsView, MarkersView, Tags, Keyed
  <2>7. WatchlistView \in Seq(Tags) /\ WatchlistView # <<>>
    BY DEF WatchlistView, Tags, Keyed
  <2>8. ASSUME v \in OneStatement PROVE v \in Seq(Tags) /\ v # <<>>
    <3>1. PICK what \in Tags : v = <<what>>
      BY <2>8 DEF OneStatement, Tags, Keyed
    <3> QED
      BY <3>1
  <2> HIDE DEF Views
  <2> QED
    BY <2>1, <2>2, <2>3, <2>4, <2>5, <2>6, <2>7, <2>8 DEF Views
<1>2. Len(v) \in Nat
  BY <1>1, LenProperties
<1> QED
  BY <1>1, <1>2 DEF Rest

LEMMA SawAsked ==
    ASSUME NEW log \in Seq(Events), NEW v \in Views
    PROVE  LET s == [Nothing EXCEPT !.view = v, !.todo = v] IN s \in SawType /\ SawOk(s, log)
<1> DEFINE s == [Nothing EXCEPT !.view = v, !.todo = v]
<1>1. Nothing \in SawType /\ v \in Seq(Tags) /\ Rest(v, v) /\ Len(v) \in Nat
  BY SawNothing, ViewSeqs
<1>2. s \in SawType /\ s.view = v /\ s.todo = v /\ s.got = <<>>
  BY <1>1 DEF SawType, Nothing
<1>3. Len(s.got) = 0
  BY <1>2, EmptySeq
<1> HIDE DEF s
<1>4. SawOk(s, log)
  BY <1>1, <1>2, <1>3 DEF SawOk
<1> QED
  BY <1>2, <1>4 DEF s

(* One statement read.                                                     *)
SawNext(s, d) ==
    LET what == Head(s.todo)
        shown == [what |-> what, val |-> Shown(what, d)]
    IN  [s EXCEPT !.todo = Tail(@), !.got = Append(@, shown)]

(* A statement shows what is committed.                                    *)
LEMMA ShownNow ==
    ASSUME NEW d \in Db, d.tables = TablesOf(d.log), NEW what \in Tags
    PROVE  ShowsFrom([what |-> what, val |-> Shown(what, d)], d.log, Len(d.log))
<1> DEFINE all == [log |-> d.log, tables |-> TablesOf(d.log)]
<1>1. SubSeq(d.log, 1, Len(d.log)) = d.log
  BY SubSeqFull DEF Db
<1>2. what # "kv" => Shown(what, d) = Shown(what, all)
  <2>1. all.log = d.log /\ all.tables = d.tables
    OBVIOUS
  <2> HIDE DEF all
  <2> QED
    BY <2>1, Zenon DEF Shown
<1> QED
  BY <1>1, <1>2 DEF ShowsFrom

LEMMA SawRead ==
    ASSUME NEW d \in Db, d.tables = TablesOf(d.log), NEW s, SawOk(s, d.log), s.todo # <<>>
    PROVE  SawNext(s, d) \in SawType /\ SawOk(SawNext(s, d), d.log)
<1> DEFINE what == Head(s.todo)
           shown == [what |-> what, val |-> Shown(what, d)]
           t == SawNext(s, d)
           log == d.log
           rest == Tail(s.todo)
           got == Append(s.got, shown)
<1>1. /\ s \in SawType /\ s.todo \in Seq(Tags) /\ s.view \in Seq(Tags) /\ log \in Seq(Events)
      /\ s.got \in Seq(ShownRows) /\ Len(log) \in Nat /\ Len(s.got) \in Nat
      /\ Len(s.todo) \in Nat /\ Len(s.view) \in Nat
  BY LenProperties DEF SawOk, SawType, Db
<1>2. /\ rest \in Seq(Tags) /\ Len(rest) = Len(s.todo) - 1 /\ Len(rest) \in Nat
      /\ \A i \in 1 .. Len(rest) : rest[i] = s.todo[i + 1]
      /\ what = s.todo[1] /\ what \in Tags
  <2> DEFINE todo == s.todo
  <2>1. todo \in Seq(Tags) /\ todo # <<>>
    BY <1>1
  <2> HIDE DEF todo
  <2>2. /\ Tail(todo) \in Seq(Tags) /\ Len(Tail(todo)) = Len(todo) - 1 /\ Head(todo) \in Tags
        /\ \A i \in 1 .. Len(Tail(todo)) : Tail(todo)[i] = todo[i + 1]
    BY <2>1, HeadTailProperties
  <2>3. Len(Tail(todo)) \in Nat
    BY <2>2, LenProperties
  <2>4. Head(todo) = todo[1]
    BY <2>1
  <2> QED
    BY <2>2, <2>3, <2>4 DEF todo
<1>3. shown \in ShownRows /\ shown.what = what
  BY <1>2 DEF ShownRows
<1>4. ShowsFrom(shown, log, Len(log))
  BY <1>2, ShownNow
<1> HIDE DEF what, shown, rest
<1>5. /\ got \in Seq(ShownRows) /\ Len(got) = Len(s.got) + 1
      /\ \A i \in 1 .. Len(s.got) : got[i] = s.got[i]
      /\ got[Len(s.got) + 1] = shown
  <2> DEFINE old == s.got
  <2>1. old \in Seq(ShownRows)
    BY <1>1
  <2> HIDE DEF old
  <2>2. /\ Append(old, shown) \in Seq(ShownRows) /\ Len(Append(old, shown)) = Len(old) + 1
        /\ \A i \in 1 .. Len(old) : Append(old, shown)[i] = old[i]
        /\ Append(old, shown)[Len(old) + 1] = shown
    BY <1>3, <2>1, AppendProperties
  <2> QED
    BY <2>2 DEF old
<1>6. t = [s EXCEPT !.todo = rest, !.got = got]
  BY DEF SawNext, what, shown, rest
<1> HIDE DEF t, got, log
<1>7. t \in SawType /\ t.todo = rest /\ t.view = s.view /\ t.got = got
  BY <1>1, <1>2, <1>5, <1>6 DEF SawType
<1>8. Len(t.view) = Len(t.got) + Len(t.todo)
  <2>1. Len(s.view) = Len(s.got) + Len(s.todo)
    BY DEF SawOk
  <2>2. Len(t.view) = Len(s.view) /\ Len(t.got) = Len(s.got) + 1 /\ Len(t.todo) = Len(s.todo) - 1
    BY <1>2, <1>5, <1>7
  <2> DEFINE a == Len(s.got)
             b == Len(s.todo)
  <2>3. a \in Nat /\ b \in Nat
    BY <1>1
  <2>4. Len(t.view) = a + b /\ Len(t.got) = a + 1 /\ Len(t.todo) = b - 1
    BY <2>1, <2>2
  <2> HIDE DEF a, b
  <2> QED
    BY <2>3, <2>4
<1>9. Rest(rest, s.view) /\ what = s.view[Len(s.got) + 1]
  <2> DEFINE k == Len(s.view)
             j == Len(s.todo)
             todo == s.todo
             view == s.view
  <2>1. j <= k /\ \A i \in 1 .. j : todo[i] = view[k - j + i]
    BY DEF SawOk, Rest
  <2>2. ASSUME NEW i \in 1 .. Len(rest) PROVE rest[i] = view[k - Len(rest) + i]
    <3>1. Len(rest) = j - 1 /\ j \in Nat /\ k \in Nat /\ rest[i] = todo[i + 1]
      BY <1>1, <1>2
    <3> HIDE DEF k, j, todo, view
    <3>2. i + 1 \in 1 .. j /\ k - Len(rest) + i = k - j + (i + 1)
      BY <3>1
    <3> QED
      BY <2>1, <3>1, <3>2
  <2>3. Len(rest) <= k
    BY <1>1, <1>2, <2>1
  <2>4. k - j + 1 = Len(s.got) + 1 /\ 1 \in 1 .. j
    BY <1>1, <1>2 DEF SawOk
  <2> QED
    BY <1>2, <2>1, <2>2, <2>3, <2>4 DEF Rest
<1>10. \A i \in 1 .. Len(got) : got[i].what = s.view[i]
  <2>1. \A i \in 1 .. Len(s.got) : s.got[i].what = s.view[i]
    BY DEF SawOk
  <2> QED
    BY <1>1, <1>3, <1>5, <1>9, <2>1
<1>11. ASSUME NEW i \in 1 .. Len(got), NEW j \in 1 .. Len(got), i <= j
       PROVE  InOrder(got[i], got[j], log)
  <2>1. SawOk(s, log)
    BY DEF log
  <2>2. \A k, l \in 1 .. Len(s.got) : k <= l => InOrder(s.got[k], s.got[l], log)
    BY <2>1 DEF SawOk
  <2>3. CASE j \in 1 .. Len(s.got)
    <3>1. i \in 1 .. Len(s.got)
      BY <1>1, <1>11, <2>3
    <3> QED
      BY <1>5, <1>11, <2>2, <2>3, <3>1
  <2>4. CASE j = Len(s.got) + 1 /\ i \in 1 .. Len(s.got)
    <3>1. InOrder(s.got[i], s.got[i], log)
      BY <1>1, <2>2, <2>4
    <3>2. PICK m, n \in 0 .. Len(log) : m <= n /\ ShowsFrom(s.got[i], log, m) /\ ShowsFrom(s.got[i], log, n)
      BY <3>1 DEF InOrder
    <3>3. m <= Len(log) /\ Len(log) \in 0 .. Len(log)
      BY <1>1 DEF log
    <3>4. InOrder(s.got[i], shown, log)
      BY <1>4, <3>2, <3>3 DEF InOrder, log
    <3> QED
      BY <1>5, <2>4, <3>4
  <2>5. CASE j = Len(s.got) + 1 /\ i = Len(s.got) + 1
    <3>1. Len(log) \in 0 .. Len(log) /\ Len(log) <= Len(log)
      BY <1>1 DEF log
    <3>2. InOrder(shown, shown, log)
      BY <1>4, <3>1 DEF InOrder, log
    <3> QED
      BY <1>5, <2>5, <3>2
  <2> QED
    BY <1>1, <1>5, <1>11, <2>3, <2>4, <2>5
<1>12. SawOk(t, log)
  <2>1. t.view \in Views \cup {<<>>}
    BY <1>7 DEF SawOk
  <2> QED
    BY <1>7, <1>8, <1>9, <1>10, <1>11, <2>1 DEF SawOk
<1> QED
  BY <1>7, <1>12 DEF t, log

LEMMA ViewInit ==
    Init => ViewInv
<1> SUFFICES ASSUME Init PROVE ViewInv
  OBVIOUS
<1>1. db.log = <<>> /\ <<>> \in Seq(Events)
  BY EmptySeq DEF Init
<1> QED
  BY <1>1, SawNothing DEF Init, ViewInv

(* A step that changes one reader, or the log only, or neither.            *)
LEMMA ViewChanged ==
    ASSUME ViewInv, NEW c \in Conns, NEW s \in SawType, SawOk(s, db.log),
           saw' = [saw EXCEPT ![c] = s], db' = db
    PROVE  ViewInv'
BY DEF ViewInv

LEMMA ViewStep ==
    ASSUME StoreInv, ViewInv, [Next]_vars
    PROVE  ViewInv'
<1>a. db \in Db /\ db.tables = TablesOf(db.log) /\ db.log \in Seq(Events)
  BY DEF StoreInv, DbOk, Db
<1>1. ASSUME NEW c \in Conns, NEW v \in Views, Ask(c, v) PROVE ViewInv'
  BY <1>1, <1>a, SawAsked, ViewChanged DEF Ask
<1>2. ASSUME NEW c \in Conns, Read(c) PROVE ViewInv'
  <2> DEFINE s == saw[c]
  <2>1. conn[c].job.began = FALSE
    <3>1. conn[c].job \in JobType /\ JobOk(conn[c].job, db) /\ conn[c].job.op = "none"
      BY <1>2 DEF StoreInv, ConnType, Read, Unlocked, InJob
    <3> QED
      BY <3>1 DEF JobOk, JobType
  <2>2. Visible(c) = db
    BY <2>1 DEF Visible
  <2>3. saw' = [saw EXCEPT ![c] = SawNext(s, db)] /\ s.todo # <<>> /\ db' = db
    BY <1>2, <2>2 DEF Read, Statement, SawNext
  <2>4. SawOk(s, db.log)
    BY DEF ViewInv
  <2>5. SawNext(s, db) \in SawType /\ SawOk(SawNext(s, db), db.log)
    BY <1>a, <2>3, <2>4, SawRead
  <2> QED
    BY <2>3, <2>5, ViewChanged
<1>3. ASSUME NEW c \in Conns, ReadFails(c) PROVE ViewInv'
  BY <1>3, <1>a, SawNothing, ViewChanged DEF ReadFails
<1>4. ASSUME NEW c \in Conns, Dies(c) PROVE ViewInv'
  BY <1>4, <1>a, SawNothing, ViewChanged DEF Dies
<1>5. CASE saw' = saw
  <2>1. CASE db'.log = db.log
    BY <1>5, <2>1 DEF ViewInv
  <2>2. ASSUME NEW c \in Conns, conn[c].job.op = "append", db'.log = db.log \o conn[c].job.batch
        PROVE  ViewInv'
    <3>1. conn[c].job.batch \in Seq(Events)
      BY <2>2, InputSeqs DEF StoreInv, JobOk
    <3> QED
      BY <1>5, <1>a, <2>2, <3>1, SawKept DEF ViewInv
  <2> QED
    BY <2>1, <2>2, LogStep DEF Whole
<1>6. CASE \/ UNCHANGED vars
           \/ \E c \in Conns :
                \/ Open(c) \/ Migrate(c) \/ Opened(c) \/ RebuildProjections(c)
                \/ \E b \in Inputs : AppendMany(c, b)
                \/ \E v \in KvVals : KvPutMany(c, v) \/ \E k \in KvKeys : KvPut(c, k, v)
                \/ Begin(c) \/ Busy(c) \/ Write(c) \/ Commit(c) \/ Rollback(c)
  BY <1>5, <1>6 DEF vars, Open, Migrate, Opened, RebuildProjections, AppendMany, KvPutMany, KvPut, Starts,
                    Begin, Busy, Write, Commit, Rollback
<1> QED
  BY <1>1, <1>2, <1>3, <1>4, <1>6 DEF Next

(* An order's row in the tables of a longer log is not older.              *)
LEMMA RowsMoveOn ==
    ASSUME NEW E, NEW log \in Seq(E), NEW m \in Nat, NEW n \in Nat, m <= n, n <= Len(log),
           NEW o \in Submitted(SubSeq(log, 1, m))
    PROVE  /\ o \in Submitted(SubSeq(log, 1, n))
           /\ OrderOf(SubSeq(log, 1, n), o).updated >= OrderOf(SubSeq(log, 1, m), o).updated
<1> DEFINE old == SubSeq(log, 1, m)
           new == SubSeq(log, 1, n)
<1>1. Len(log) \in Nat /\ \A i \in 1 .. Len(log) : log[i] \in E
  BY LenProperties, ElementOfSeq
<1>2. old \in Seq(E) /\ DOMAIN old = 1 .. m /\ \A i \in 1 .. m : old[i] = log[i]
  <2>1. \A i \in 1 .. m : log[i] \in E
    BY <1>1
  <2>2. old \in Seq(E) /\ Len(old) = (IF 1 <= m THEN m - 1 + 1 ELSE 0) /\ \A i \in 1 .. m - 1 + 1 : old[i] = log[1 + i - 1]
    BY <2>1, SubSeqProperties
  <2>3. Len(old) = m
    BY <2>2
  <2> QED
    BY <2>2, <2>3, LenProperties
<1>3. new \in Seq(E) /\ DOMAIN new = 1 .. n /\ \A i \in 1 .. n : new[i] = log[i]
  <2>1. \A i \in 1 .. n : log[i] \in E
    BY <1>1
  <2>2. new \in Seq(E) /\ Len(new) = (IF 1 <= n THEN n - 1 + 1 ELSE 0) /\ \A i \in 1 .. n - 1 + 1 : new[i] = log[1 + i - 1]
    BY <2>1, SubSeqProperties
  <2>3. Len(new) = n
    BY <2>2
  <2> QED
    BY <2>2, <2>3, LenProperties
<1>4. o \in Submitted(old)
  OBVIOUS
<1> HIDE DEF old, new
<1>5. \A i \in DOMAIN old : i \in DOMAIN new /\ old[i] = new[i]
  BY <1>2, <1>3
<1>6. o \in Submitted(new)
  BY <1>4, <1>5 DEF Submitted
<1>7. /\ OrderOf(old, o) = RowOf(old, o) /\ OrderOf(new, o) = RowOf(new, o)
      /\ SubmittedAt(old, o) # {} /\ SubmittedAt(new, o) # {}
  BY <1>4, <1>6, OrderIsRow
<1> DEFINE last == Max(SinceAt(old, o))
           first == Max(SubmittedAt(new, o))
           latest == Max(SinceAt(new, o))
<1>8. last \in SinceAt(old, o) /\ first \in SinceAt(new, o) /\ latest \in SinceAt(new, o)
      /\ \A i \in SinceAt(new, o) : latest >= i
  BY <1>2, <1>3, <1>7, Positions
<1>9. last \in DOMAIN new /\ last \in Nat /\ first \in Nat /\ latest \in Nat
      /\ new[last].kind \in OrderEvents /\ new[last].key = o
  BY <1>2, <1>3, <1>5, <1>8 DEF SinceAt
<1>10. latest >= last
  <2>1. CASE last >= first
    <3>1. last \in SinceAt(new, o)
      BY <1>9, <2>1 DEF SinceAt
    <3> QED
      BY <1>8, <3>1
  <2>2. CASE last < first
    <3>1. latest >= first
      BY <1>8
    <3> HIDE DEF last, first, latest
    <3> QED
      BY <1>9, <2>2, <3>1
  <2> QED
    BY <1>9, <2>1, <2>2
<1>11. OrderOf(old, o).updated = last /\ OrderOf(new, o).updated = latest
  BY <1>7 DEF RowOf
<1> QED
  BY <1>6, <1>10, <1>11 DEF old, new

(* The orders of the first n events.                                       *)
OrdersAt(log, n) == [o \in Submitted(SubSeq(log, 1, n)) |-> OrderOf(SubSeq(log, 1, n), o)]

(* What a statement on the events, on last_seq or on the orders has shown. *)
LEMMA ShowsWhat ==
    ASSUME NEW log \in Seq(Events), NEW n \in 0 .. Len(log), NEW x, ShowsFrom(x, log, n)
    PROVE  /\ x.what = "log" => x.val = SubSeq(log, 1, n)
           /\ x.what = "seq" => x.val = n
           /\ x.what = "orders" => x.val = OrdersAt(log, n)
<1> DEFINE pre == SubSeq(log, 1, n)
           d == [log |-> pre, tables |-> TablesOf(pre)]
<1>1. Len(pre) = n
  <2>1. Len(log) \in Nat /\ n \in Nat /\ \A i \in 1 .. n : log[i] \in Events
    BY LenProperties, ElementOfSeq
  <2>2. Len(pre) = IF 1 <= n THEN n - 1 + 1 ELSE 0
    BY <2>1, SubSeqProperties
  <2> QED
    BY <2>1, <2>2
<1>2. x.what = "kv" \/ x.val = Shown(x.what, d)
  BY DEF ShowsFrom
<1>3. d.log = pre /\ d.tables = TablesOf(pre)
  OBVIOUS
<1>4. TablesOf(pre).orders = OrdersAt(log, n)
  BY DEF TablesOf, OrdersAt
<1> HIDE DEF d, pre
<1>5. Shown("log", d) = d.log /\ Shown("seq", d) = Len(d.log) /\ Shown("orders", d) = d.tables.orders
  BY DEF Shown
<1>6. /\ x.what = "log" => x.val = pre
      /\ x.what = "seq" => x.val = n
      /\ x.what = "orders" => x.val = OrdersAt(log, n)
  BY <1>1, <1>2, <1>3, <1>4, <1>5
<1> QED
  BY <1>6 DEF pre

LEMMA ViewsAreForward ==
    ASSUME StoreInv, ViewInv
    PROVE  ViewsReadForward
<1>a. db.log \in Seq(Events) /\ Len(db.log) \in Nat
  BY LenProperties DEF StoreInv, DbOk, Db
<1>b. \A x, n : ShowsFrom(x, db.log, n) => ShowsFirst(x, n)
  BY DEF ShowsFrom, ShowsFirst, After
<1>1. ASSUME NEW c \in Conns
      PROVE  LET got == saw[c].got
             IN  /\ \A i \in DOMAIN got : \E n \in 0 .. Len(db.log) : ShowsFirst(got[i], n)
                 /\ \A i, j \in DOMAIN got : i < j /\ got[i].what = "log" /\ got[j].what = "orders" =>
                      \A o \in Submitted(got[i].val) :
                         /\ o \in DOMAIN got[j].val
                         /\ got[j].val[o].updated >= OrderOf(got[i].val, o).updated
                 /\ saw[c].view \in {SummaryView, SystemView} =>
                      \A i, j \in DOMAIN got : got[j].what = "seq" =>
                         \E n \in 0 .. got[j].val : ShowsFirst(got[i], n)
  <2> DEFINE s == saw[c]
             got == s.got
             log == db.log
  <2>1. SawOk(s, log)
    BY DEF ViewInv
  <2>2. got \in Seq(ShownRows) /\ Len(got) \in Nat /\ DOMAIN got = 1 .. Len(got) /\ s.todo \in Seq(Tags) /\ Len(s.todo) \in Nat
    BY <2>1, LenProperties DEF SawOk, SawType
  <2>3. \A i, j \in 1 .. Len(got) : i <= j => InOrder(got[i], got[j], log)
    BY <2>1 DEF SawOk
  <2>4. \A i \in 1 .. Len(got) : got[i].what = s.view[i]
    BY <2>1 DEF SawOk
  <2>5. Len(s.view) = Len(got) + Len(s.todo)
    BY <2>1 DEF SawOk
  <2> HIDE DEF got, s, log
  <2>6. ASSUME NEW i \in DOMAIN got PROVE \E n \in 0 .. Len(log) : ShowsFirst(got[i], n)
    <3>1. InOrder(got[i], got[i], log)
      BY <2>2, <2>3
    <3> QED
      BY <1>b, <3>1 DEF InOrder, log
  <2>7. ASSUME NEW i \in DOMAIN got, NEW j \in DOMAIN got, i < j, got[i].what = "log", got[j].what = "orders",
               NEW o \in Submitted(got[i].val)
        PROVE  /\ o \in DOMAIN got[j].val
               /\ got[j].val[o].updated >= OrderOf(got[i].val, o).updated
    <3>1. InOrder(got[i], got[j], log)
      BY <2>2, <2>3, <2>7
    <3>2. PICK m, n \in 0 .. Len(log) : m <= n /\ ShowsFrom(got[i], log, m) /\ ShowsFrom(got[j], log, n)
      BY <3>1 DEF InOrder
    <3>3. log \in Seq(Events) /\ m \in Nat /\ n \in Nat /\ m <= n /\ n <= Len(log)
      BY <1>a, <3>2 DEF log
    <3> DEFINE old == SubSeq(log, 1, m)
               new == SubSeq(log, 1, n)
    <3>4. got[i].val = old /\ got[j].val = [p \in Submitted(new) |-> OrderOf(new, p)]
      <4> DEFINE x == got[i]
                 y == got[j]
      <4>1. x.what = "log" /\ y.what = "orders" /\ ShowsFrom(x, log, m) /\ ShowsFrom(y, log, n)
        BY <2>7, <3>2
      <4> HIDE DEF x, y
      <4>2. x.val = SubSeq(log, 1, m)
        BY <3>2, <3>3, <4>1, ShowsWhat
      <4>3. y.val = OrdersAt(log, n)
        BY <3>2, <3>3, <4>1, ShowsWhat
      <4> QED
        BY <4>2, <4>3 DEF x, y, OrdersAt
    <3>5. o \in Submitted(new) /\ OrderOf(new, o).updated >= OrderOf(old, o).updated
      BY <2>7, <3>3, <3>4, RowsMoveOn
    <3> QED
      BY <3>4, <3>5
  <2>8. ASSUME s.view \in {SummaryView, SystemView}, NEW i \in DOMAIN got, NEW j \in DOMAIN got, got[j].what = "seq"
        PROVE  \E n \in 0 .. got[j].val : ShowsFirst(got[i], n)
    <3>1. j \in 1 .. Len(s.view) /\ s.view[j] = "seq"
      BY <2>2, <2>4, <2>5, <2>8
    <3>2. j = Len(s.view)
      BY <2>8, <3>1, BeforeSeq, SeqLast
    <3>3. i <= j /\ InOrder(got[i], got[j], log)
      BY <2>2, <2>3, <2>5, <3>2
    <3>4. PICK m, n \in 0 .. Len(log) : m <= n /\ ShowsFrom(got[i], log, m) /\ ShowsFrom(got[j], log, n)
      BY <3>3 DEF InOrder
    <3>5. got[j].val = n
      BY <1>a, <2>8, <3>4, ShowsWhat DEF log
    <3>6. m \in 0 .. n
      BY <1>a, <3>4 DEF log
    <3> QED
      BY <1>b, <3>4, <3>5, <3>6 DEF log
  <2> QED
    BY <2>6, <2>7, <2>8 DEF got, s, log
<1> QED
  BY <1>1 DEF ViewsReadForward

(* A view never reads backwards (src/web/queries.py, every view): its      *)
(* statements are read one by one while any writers commit, and each shows *)
(* a committed state that is not older than what those before it showed.   *)
(* So an order's status in a lineage is not older than the events it       *)
(* shows, and a summary's last_seq covers all it shows of every book.      *)
THEOREM ViewsGoForward ==
    Spec => []ViewsReadForward
<1>1. StoreInv /\ ViewInv => ViewsReadForward
  BY ViewsAreForward
<1>2. StoreInv /\ ViewInv /\ [Next]_vars => StoreInv' /\ ViewInv'
  BY StoreStep, ViewStep
<1> QED
  BY <1>1, <1>2, StoreInit, ViewInit, PTL DEF Spec

-----------------------------------------------------------------------------
(* Finite sets as sequences.                                               *)

(* A set listed as a sequence: each element of it, once.                   *)
LEMMA Listed ==
    ASSUME NEW S, IsFiniteSet(S)
    PROVE  /\ SetToSeq(S) \in Seq(S) /\ Len(SetToSeq(S)) = Cardinality(S)
           /\ Range(SetToSeq(S)) = S
           /\ \A i, j \in 1 .. Cardinality(S) : SetToSeq(S)[i] = SetToSeq(S)[j] => i = j
<1> DEFINE n == Cardinality(S)
           g == SetToSeq(S)
<1>1. n \in Nat /\ ExistsBijection(1 .. n, S)
  BY FS_CardinalityType
<1>2. \E f \in [1 .. n -> S] : IsInjective(f)
  BY <1>1 DEF ExistsBijection, Bijection, Injection, IsInjective
<1>3. g \in [1 .. n -> S] /\ IsInjective(g)
  BY <1>2 DEF SetToSeq
<1>4. g \in Injection(1 .. n, S)
  BY <1>3 DEF Injection
<1>5. Cardinality(1 .. n) = n /\ IsFiniteSet(1 .. n)
  BY <1>1, FS_Interval
<1> HIDE DEF g, n
<1>6. g \in Surjection(1 .. n, S)
  BY <1>4, <1>5, FS_Injection DEF n
<1>7. \A x \in S : \E i \in 1 .. n : g[i] = x
  BY <1>6 DEF Surjection
<1>8. Range(g) = S
  BY <1>3, <1>7 DEF Range
<1>9. g \in Seq(S) /\ Len(g) = n
  BY <1>1, <1>3
<1>10. \A i, j \in 1 .. n : g[i] = g[j] => i = j
  BY <1>3 DEF IsInjective
<1> QED
  BY <1>8, <1>9, <1>10 DEF g, n

(* A sequence, of whatever it holds.                                       *)
Sequence(s) == s \in Seq(Range(s))

LEMMA SequenceIs ==
    ASSUME NEW S, NEW s \in Seq(S)
    PROVE  Sequence(s) /\ Range(s) \subseteq S /\ Range(s) = {s[i] : i \in 1 .. Len(s)}
<1>1. Len(s) \in Nat /\ s \in [1 .. Len(s) -> S] /\ DOMAIN s = 1 .. Len(s)
  BY LenProperties
<1>2. Range(s) \subseteq S /\ Range(s) = {s[i] : i \in 1 .. Len(s)}
  BY <1>1 DEF Range
<1>3. s \in [1 .. Len(s) -> Range(s)]
  BY <1>1, <1>2
<1>4. s \in Seq(Range(s))
  BY <1>1, <1>3
<1> QED
  BY <1>2, <1>4 DEF Sequence

LEMMA Joined ==
    ASSUME NEW s, NEW t, Sequence(s), Sequence(t)
    PROVE  /\ Sequence(s \o t) /\ Range(s \o t) = Range(s) \cup Range(t)
           /\ Len(s) \in Nat /\ DOMAIN s = 1 .. Len(s)
           /\ Len(t) \in Nat /\ Len(s \o t) = Len(s) + Len(t)
           /\ DOMAIN (s \o t) = 1 .. (Len(s) + Len(t))
           /\ \A i \in 1 .. Len(s) : (s \o t)[i] = s[i]
           /\ \A i \in 1 .. Len(t) : (s \o t)[Len(s) + i] = t[i]
<1> DEFINE S == Range(s) \cup Range(t)
           u == s \o t
<1>1. s \in Seq(S) /\ t \in Seq(S)
  BY SeqMonotonic DEF Sequence
<1>2. /\ Len(s) \in Nat /\ DOMAIN s = 1 .. Len(s)
      /\ Len(t) \in Nat /\ DOMAIN t = 1 .. Len(t)
  BY <1>1, LenProperties
<1>3. /\ u \in Seq(S) /\ Len(u) = Len(s) + Len(t)
      /\ \A i \in 1 .. Len(s) + Len(t) : u[i] = IF i <= Len(s) THEN s[i] ELSE t[i - Len(s)]
  BY <1>1, ConcatProperties
<1> HIDE DEF u, S
<1>4. Sequence(u) /\ Range(u) = {u[i] : i \in 1 .. Len(u)} /\ DOMAIN u = 1 .. Len(u)
  BY <1>3, SequenceIs, LenProperties
<1>5. \A i \in 1 .. Len(s) : u[i] = s[i]
  BY <1>2, <1>3
<1>6. \A i \in 1 .. Len(t) : u[Len(s) + i] = t[i]
  BY <1>2, <1>3
<1>7. Range(s) \cup Range(t) \subseteq Range(u)
  <2>1. ASSUME NEW i \in 1 .. Len(s) PROVE s[i] \in Range(u)
    <3>1. i \in 1 .. Len(u)
      BY <1>2, <1>3
    <3> QED
      BY <1>4, <1>5, <3>1
  <2>2. ASSUME NEW i \in 1 .. Len(t) PROVE t[i] \in Range(u)
    <3>1. Len(s) + i \in 1 .. Len(u)
      BY <1>2, <1>3
    <3> QED
      BY <1>4, <1>6, <3>1
  <2> QED
    BY <1>2, <2>1, <2>2 DEF Range
<1>8. Range(u) \subseteq Range(s) \cup Range(t)
  <2> SUFFICES ASSUME NEW i \in 1 .. Len(u) PROVE u[i] \in Range(s) \cup Range(t)
    BY <1>4
  <2>1. CASE i <= Len(s)
    <3>1. i \in 1 .. Len(s) /\ u[i] = s[i]
      BY <1>2, <1>3, <2>1
    <3> QED
      BY <1>2, <3>1 DEF Range
  <2>2. CASE ~(i <= Len(s))
    <3>1. i - Len(s) \in 1 .. Len(t) /\ u[i] = t[i - Len(s)]
      BY <1>2, <1>3, <2>2
    <3> QED
      BY <1>2, <3>1 DEF Range
  <2> QED
    BY <2>1, <2>2
<1> QED
  BY <1>2, <1>3, <1>4, <1>5, <1>6, <1>7, <1>8 DEF u

-----------------------------------------------------------------------------
(* The log.                                                                *)
OfKind(es, kind) == {e \in es : e.kind = kind}
LogOk(lg) == lg = [k \in EventKinds |-> lg[k]] /\ \A k \in EventKinds : Sequence(lg[k])

(* Events of today.                                                        *)
TodaysEvents(es) == IsFiniteSet(es) /\ \A e \in es : e.kind \in EventKinds /\ e.day = day

(* What a step may do to the log.                                          *)
Logs == journal' = journal \/ \E es : TodaysEvents(es) /\ journal' = Emit(journal, es)

LEMMA Emitted ==
    ASSUME NEW lg, LogOk(lg), NEW es, IsFiniteSet(es)
    PROVE  /\ LogOk(Emit(lg, es))
           /\ \A k \in EventKinds : Range(Emit(lg, es)[k]) = Range(lg[k]) \cup OfKind(es, k)
           /\ \A k \in EventKinds : \A i \in DOMAIN lg[k] :
                 i \in DOMAIN Emit(lg, es)[k] /\ Emit(lg, es)[k][i] = lg[k][i]
           /\ \A k \in EventKinds : \A i \in DOMAIN Emit(lg, es)[k] :
                 i \in DOMAIN lg[k] \/ Emit(lg, es)[k][i] \in OfKind(es, k)
<1> DEFINE new == Emit(lg, es)
           added(k) == SetToSeq(OfKind(es, k))
<1>1. \A k \in EventKinds : new[k] = lg[k] \o added(k)
  BY DEF Emit, OfKind
<1>2. new = [k \in EventKinds |-> new[k]]
  BY DEF Emit
<1>3. ASSUME NEW k \in EventKinds
      PROVE  /\ Sequence(new[k]) /\ Range(new[k]) = Range(lg[k]) \cup OfKind(es, k)
             /\ \A i \in DOMAIN lg[k] : i \in DOMAIN new[k] /\ new[k][i] = lg[k][i]
             /\ \A i \in DOMAIN new[k] : i \in DOMAIN lg[k] \/ new[k][i] \in OfKind(es, k)
  <2> DEFINE t == added(k)
             s == lg[k]
  <2>1. IsFiniteSet(OfKind(es, k))
    BY FS_Subset DEF OfKind
  <2>2. t \in Seq(OfKind(es, k)) /\ Range(t) = OfKind(es, k)
    BY <2>1, Listed
  <2>3. Sequence(t) /\ Sequence(s)
    BY <2>2, SequenceIs DEF LogOk
  <2>4. new[k] = s \o t
    BY <1>1
  <2> HIDE DEF s, t, new
  <2>5. /\ Sequence(new[k]) /\ Range(new[k]) = Range(s) \cup Range(t)
        /\ Len(s) \in Nat /\ DOMAIN s = 1 .. Len(s)
        /\ Len(t) \in Nat /\ DOMAIN new[k] = 1 .. (Len(s) + Len(t))
        /\ \A i \in 1 .. Len(s) : new[k][i] = s[i]
        /\ \A i \in 1 .. Len(t) : new[k][Len(s) + i] = t[i]
    BY <2>3, <2>4, Joined
  <2>6. \A i \in DOMAIN s : i \in DOMAIN new[k] /\ new[k][i] = s[i]
    BY <2>5
  <2>7. ASSUME NEW i \in DOMAIN new[k], i \notin DOMAIN s PROVE new[k][i] \in OfKind(es, k)
    <3>1. i - Len(s) \in 1 .. Len(t) /\ Len(s) + (i - Len(s)) = i
      BY <2>5, <2>7
    <3>2. new[k][i] = t[i - Len(s)]
      BY <2>5, <3>1
    <3> QED
      BY <2>2, <3>1, <3>2, ElementOfSeq
  <2> QED
    BY <2>2, <2>5, <2>6, <2>7 DEF s
<1>4. LogOk(new)
  BY <1>2, <1>3 DEF LogOk
<1> HIDE DEF new
<1>5. QED
  BY <1>3, <1>4 DEF new

LEMMA LogGrows ==
    ASSUME LogOk(journal), Logs
    PROVE  LogOk(journal') /\ \A k \in EventKinds : Range(journal[k]) \subseteq Range(journal'[k])
<1>1. CASE journal' = journal
  BY <1>1 DEF LogOk
<1>2. ASSUME NEW es, TodaysEvents(es), journal' = Emit(journal, es)
      PROVE  LogOk(journal') /\ \A k \in EventKinds : Range(journal[k]) \subseteq Range(journal'[k])
  BY <1>2, Emitted DEF TodaysEvents
<1> QED
  BY <1>1, <1>2 DEF Logs

-----------------------------------------------------------------------------
(* The ledger.                                                             *)
OpenType == [sig : Signals, on : Nat, time : BOOLEAN]
SettlingType == [sig : Signals, exit : Nat]
LedgerType == [seen : SUBSET Signals, pending : SUBSET Signals, open : SUBSET OpenType,
               settling : SUBSET SettlingType, dropped : SUBSET Signals]
EngineType == [up : BOOLEAN, pre : BOOLEAN, started : BOOLEAN, cycled : BOOLEAN,
               marked : BOOLEAN, written : BOOLEAN, reported : BOOLEAN]

(* One item for a signal.                                                  *)
Lone(items) == IsFiniteSet(items) /\ \A x, y \in items : x.sig = y.sig => x = y
Apart(A, B) == A \cap B = {}

LedgerOk(l) ==
    /\ l \in LedgerType
    /\ Lone(l.open) /\ Lone(l.settling)
    /\ Apart(l.pending, SigsOf(l.open)) /\ Apart(l.pending, SigsOf(l.settling))
    /\ Apart(SigsOf(l.open), SigsOf(l.settling))
    /\ l.pending \cup SigsOf(l.open) \cup SigsOf(l.settling) \subseteq l.seen

(* A signal that the ledger follows, or whose alpha is on record.          *)
Kept(s, l, lg) ==
    \/ s \in l.pending \cup SigsOf(l.open) \cup SigsOf(l.settling)
    \/ \E e \in Range(lg["ShadowAlphaSettled"]) : e.sig = s
AllKept(l, lg) == \A s \in l.seen \ l.dropped : Kept(s, l, lg)

FollowInv ==
    /\ day \in Nat /\ eng \in EngineType /\ LogOk(journal)
    /\ LedgerOk(ledger) /\ LedgerOk(saved)
    /\ eng.up => ledger = saved
    /\ AllKept(saved, journal)

LEMMA EmptyOk == LedgerOk(EmptyLedger)
<1>1. IsFiniteSet({})
  BY FS_EmptySet
<1>2. EmptyLedger \in LedgerType /\ Lone(EmptyLedger.open) /\ Lone(EmptyLedger.settling)
  BY <1>1 DEF EmptyLedger, LedgerType, Lone
<1> QED
  BY <1>2 DEF LedgerOk, EmptyLedger, Apart, SigsOf

LEMMA KeptLonger ==
    ASSUME LogOk(journal), Logs, NEW l, AllKept(l, journal)
    PROVE  AllKept(l, journal')
<1>1. Range(journal["ShadowAlphaSettled"]) \subseteq Range(journal'["ShadowAlphaSettled"])
  BY LogGrows DEF EventKinds
<1> QED
  BY <1>1 DEF AllKept, Kept

(* A step that leaves the ledger alone.                                    *)
LEMMA LedgerStays ==
    ASSUME FollowInv, Logs, day' \in Nat, eng' \in EngineType, eng'.up => eng.up,
           UNCHANGED <<ledger, saved>>
    PROVE  FollowInv'
BY LogGrows, KeptLonger DEF FollowInv

(* A handler of the ledger that leaves it in order.                        *)
LEMMA HandlerFollows ==
    ASSUME FollowInv, eng.up, NEW es, NEW state, NEW engine, TodaysEvents(es),
           Handler(es, state, engine), day' = day,
           LedgerOk(state), engine \in EngineType, AllKept(state, Emit(journal, es))
    PROVE  FollowInv' /\ Logs
<1>1. CASE journal' = Emit(journal, es) /\ ledger' = state /\ saved' = state /\ eng' = engine
  <2>1. Logs
    BY <1>1 DEF Logs
  <2> QED
    BY <1>1, <2>1, LogGrows DEF FollowInv
<1>2. ASSUME NEW emitted \in SUBSET es, journal' = Emit(journal, emitted), saved' = saved,
             eng' = [Starting EXCEPT !.up = FALSE], ledger' = EmptyLedger
      PROVE  FollowInv' /\ Logs
  <2>1. TodaysEvents(emitted)
    BY FS_Subset DEF TodaysEvents
  <2>2. Logs
    BY <1>2, <2>1 DEF Logs
  <2>3. eng' \in EngineType /\ eng'.up = FALSE
    BY <1>2 DEF Starting, EngineType
  <2> QED
    BY <1>2, <2>2, <2>3, LogGrows, KeptLonger, EmptyOk DEF FollowInv
<1> QED
  BY <1>1, <1>2 DEF Handler

(* The image of a finite set.                                              *)
LEMMA Mapped ==
    ASSUME NEW S, IsFiniteSet(S), NEW f
    PROVE  IsFiniteSet({f[x] : x \in S})
<1> DEFINE T == {f[x] : x \in S}
           g == [x \in S |-> f[x]]
<1>1. g \in Surjection(S, T)
  BY DEF Surjection
<1> QED
  BY <1>1, FS_Surjection

(* on_pre_open: what is settled has its event.                             *)
LEMMA PreOpenFollows ==
    ASSUME FollowInv, NEW known \in BOOLEAN, PreOpen(known)
    PROVE  FollowInv' /\ Logs
<1> DEFINE l == ledger
           settled == {x \in l.settling : known /\ x.exit < day}
           f == [x \in settled |-> Ev("ShadowAlphaSettled", x.sig, Nobody, "-")]
           es == {Ev("ShadowAlphaSettled", x.sig, Nobody, "-") : x \in settled}
           state == [l EXCEPT !.settling = Remains(@, known)]
           engine == [eng EXCEPT !.pre = TRUE]
<1>1. eng.up /\ Handler(es, state, engine) /\ day' = day
  BY DEF PreOpen
<1>2. LedgerOk(l) /\ l = saved /\ eng \in EngineType /\ LogOk(journal) /\ l \in LedgerType
  BY <1>1 DEF FollowInv, LedgerOk
<1>3. TodaysEvents(es)
  <2>1. IsFiniteSet(settled)
    BY <1>2, FS_Subset DEF LedgerOk, Lone
  <2>2. IsFiniteSet({f[x] : x \in settled})
    BY <2>1, Mapped
  <2>3. es = {f[x] : x \in settled}
    OBVIOUS
  <2>4. \A e \in es : e.kind = "ShadowAlphaSettled" /\ e.day = day
    BY DEF Ev
  <2> QED
    BY <2>2, <2>3, <2>4 DEF TodaysEvents, EventKinds
<1>4. /\ state.seen = l.seen /\ state.pending = l.pending /\ state.open = l.open
      /\ state.dropped = l.dropped /\ state.settling = l.settling \ settled
      /\ state \in LedgerType
  BY <1>2 DEF LedgerType, Remains
<1> HIDE DEF state
<1>5. LedgerOk(state)
  <2>1. Lone(state.settling) /\ SigsOf(state.settling) \subseteq SigsOf(l.settling)
    BY <1>2, <1>4, FS_Subset DEF LedgerOk, Lone, SigsOf
  <2> QED
    BY <1>2, <1>4, <2>1 DEF LedgerOk, Apart
<1>6. engine \in EngineType
  BY <1>2 DEF EngineType
<1>7. AllKept(state, Emit(journal, es))
  <2> SUFFICES ASSUME NEW s \in l.seen \ l.dropped PROVE Kept(s, state, Emit(journal, es))
    BY <1>4 DEF AllKept
  <2>1. Kept(s, l, journal)
    BY <1>2 DEF FollowInv, AllKept
  <2>2. Range(Emit(journal, es)["ShadowAlphaSettled"])
          = Range(journal["ShadowAlphaSettled"]) \cup OfKind(es, "ShadowAlphaSettled")
    <3>1. "ShadowAlphaSettled" \in EventKinds /\ IsFiniteSet(es) /\ LogOk(journal)
      BY <1>2, <1>3 DEF EventKinds, TodaysEvents
    <3> HIDE DEF es
    <3> QED
      BY <3>1, Emitted
  <2>3. CASE s \in l.pending \cup SigsOf(l.open)
    BY <1>4, <2>3 DEF Kept
  <2>4. CASE \E e \in Range(journal["ShadowAlphaSettled"]) : e.sig = s
    BY <2>2, <2>4 DEF Kept
  <2>5. ASSUME NEW x \in l.settling, s = x.sig PROVE Kept(s, state, Emit(journal, es))
    <3>1. CASE x \in settled
      <4>1. f[x] \in OfKind(es, "ShadowAlphaSettled") /\ f[x].sig = s
        BY <2>5, <3>1 DEF OfKind, Ev
      <4> QED
        BY <2>2, <4>1 DEF Kept
    <3>2. CASE x \notin settled
      BY <1>4, <2>5, <3>2 DEF Kept, SigsOf
    <3> QED
      BY <3>1, <3>2
  <2> QED
    BY <2>1, <2>3, <2>4, <2>5 DEF Kept, SigsOf
<1> HIDE DEF es, engine
<1> QED
  BY <1>1, <1>3, <1>5, <1>6, <1>7, HandlerFollows

(* on_session_start: the open items are those that were.                   *)
LEMMA SessionStartFollows ==
    ASSUME FollowInv, SessionStart
    PROVE  FollowInv' /\ Logs
<1> DEFINE l == ledger
           f == [t \in l.open |-> [t EXCEPT !.time = @ \/ day - t.on >= MaxHold]]
           state == [l EXCEPT !.open = {[t EXCEPT !.time = @ \/ day - t.on >= MaxHold] : t \in @}]
<1>1. /\ eng.up /\ ledger' = state /\ saved' = state /\ eng' = [eng EXCEPT !.started = TRUE]
      /\ day' = day /\ journal' = journal
  BY DEF SessionStart
<1>2. LedgerOk(l) /\ l = saved /\ eng \in EngineType /\ LogOk(journal) /\ l \in LedgerType
  BY <1>1 DEF FollowInv, LedgerOk
<1>3. \A t \in l.open : f[t] \in OpenType /\ f[t].sig = t.sig
  <2> SUFFICES ASSUME NEW t \in l.open PROVE f[t] \in OpenType /\ f[t].sig = t.sig
    OBVIOUS
  <2>1. t \in OpenType /\ (t.time \/ day - t.on >= MaxHold) \in BOOLEAN
    BY <1>2 DEF LedgerType, OpenType
  <2> DEFINE b == t.time \/ day - t.on >= MaxHold
  <2>2. f[t] = [t EXCEPT !.time = b]
    OBVIOUS
  <2> HIDE DEF b, f
  <2> QED
    BY <2>1, <2>2 DEF OpenType, b
<1>4. state.open = {f[t] : t \in l.open}
  BY <1>2 DEF LedgerType
<1>5. /\ state.seen = l.seen /\ state.pending = l.pending /\ state.settling = l.settling
      /\ state.dropped = l.dropped
  BY <1>2 DEF LedgerType
<1>6. state \in LedgerType
  <2>1. state = [l EXCEPT !.open = {f[t] : t \in l.open}]
    BY <1>2 DEF LedgerType
  <2>2. {f[t] : t \in l.open} \subseteq OpenType
    BY <1>3
  <2> HIDE DEF state, f
  <2> QED
    BY <1>2, <2>1, <2>2 DEF LedgerType
<1> HIDE DEF state, f
<1>7. SigsOf(state.open) = SigsOf(l.open)
  BY <1>3, <1>4 DEF SigsOf
<1>8. Lone(state.open)
  <2>1. IsFiniteSet(state.open)
    BY <1>2, <1>4, Mapped DEF LedgerOk, Lone
  <2> QED
    BY <1>2, <1>3, <1>4, <2>1 DEF LedgerOk, Lone
<1>9. LedgerOk(state)
  BY <1>2, <1>5, <1>6, <1>7, <1>8 DEF LedgerOk
<1>10. AllKept(state, journal)
  BY <1>2, <1>5, <1>7 DEF FollowInv, AllKept, Kept
<1>11. eng' \in EngineType
  BY <1>1, <1>2 DEF EngineType
<1> QED
  BY <1>1, <1>2, <1>9, <1>10, <1>11 DEF FollowInv, Logs

(* on_quote: the signal's item waits, is open or has just closed.          *)
LEMMA OnQuoteFollows ==
    ASSUME FollowInv, NEW s \in Signals, NEW price, OnQuote(s, price)
    PROVE  FollowInv' /\ Logs
<1> DEFINE l == ledger
           waiting == {s} \cap l.pending
           entering == IF price = "dear" THEN {} ELSE waiting
           closing == {t \in l.open : t.sig = s /\ ClosesAt(t, price)}
           opened == {Ev("ShadowTradeOpened", x, Nobody, "-") : x \in entering}
           closed == {Ev("ShadowTradeClosed", t.sig, Nobody, Outcome(price)) : t \in closing}
           es == opened \cup closed
           state == [l EXCEPT !.pending = @ \ waiting,
                              !.dropped = @ \cup (waiting \ entering),
                              !.open = (@ \ closing) \cup {Entered(x) : x \in entering},
                              !.settling = @ \cup {[sig |-> t.sig, exit |-> day] : t \in closing}]
<1>1. eng.up /\ Handler(es, state, eng) /\ day' = day
  BY DEF OnQuote
<1>2. /\ LedgerOk(l) /\ l = saved /\ eng \in EngineType /\ LogOk(journal) /\ l \in LedgerType
      /\ day \in Nat
  BY <1>1 DEF FollowInv, LedgerOk
<1>3. entering \subseteq {s} /\ entering \subseteq waiting /\ closing \subseteq l.open
  OBVIOUS
<1>4. \A t, u \in closing : t = u
  BY <1>2 DEF LedgerOk, Lone
<1>5. TodaysEvents(es)
  <2>1. IsFiniteSet(closing) /\ IsFiniteSet({s})
    BY <1>2, FS_Subset, FS_Singleton DEF LedgerOk, Lone
  <2>2. IsFiniteSet(entering)
    BY <1>3, <2>1, FS_Subset
  <2> DEFINE f == [x \in entering |-> Ev("ShadowTradeOpened", x, Nobody, "-")]
             g == [t \in closing |-> Ev("ShadowTradeClosed", t.sig, Nobody, Outcome(price))]
  <2>3. IsFiniteSet({f[x] : x \in entering}) /\ IsFiniteSet({g[t] : t \in closing})
    <3> HIDE DEF f, g, entering, closing
    <3> QED
      BY <2>1, <2>2, Mapped
  <2>4. opened = {f[x] : x \in entering} /\ closed = {g[t] : t \in closing}
    OBVIOUS
  <2>5. IsFiniteSet(es)
    BY <2>3, <2>4, FS_Union
  <2>6. \A e \in es : e.kind \in {"ShadowTradeOpened", "ShadowTradeClosed"} /\ e.day = day
    BY DEF Ev
  <2> QED
    BY <2>5, <2>6 DEF TodaysEvents, EventKinds
<1> DEFINE in == {Entered(x) : x \in entering}
           out == {[sig |-> t.sig, exit |-> day] : t \in closing}
<1>6. /\ state.seen = l.seen /\ state.pending = l.pending \ waiting
      /\ state.open = (l.open \ closing) \cup in /\ state.dropped = l.dropped \cup (waiting \ entering)
      /\ state.settling = l.settling \cup out
  BY <1>2 DEF LedgerType
<1>7. in \subseteq OpenType /\ out \subseteq SettlingType
  <2>1. \A x \in entering : Entered(x) \in OpenType
    BY <1>2, <1>3 DEF Entered, OpenType
  <2>2. \A t \in closing : [sig |-> t.sig, exit |-> day] \in SettlingType
    <3> SUFFICES ASSUME NEW t \in closing PROVE [sig |-> t.sig, exit |-> day] \in SettlingType
      OBVIOUS
    <3>1. t.sig = s
      OBVIOUS
    <3> QED
      BY <1>2, <3>1 DEF SettlingType
  <2> HIDE DEF entering, closing
  <2> QED
    BY <2>1, <2>2
<1>8. state \in LedgerType
  <2> DEFINE p == l.pending \ waiting
             d == l.dropped \cup (waiting \ entering)
             o == (l.open \ closing) \cup in
             x == l.settling \cup out
  <2>1. state = [l EXCEPT !.pending = p, !.dropped = d, !.open = o, !.settling = x]
    BY <1>2 DEF LedgerType
  <2>2. p \subseteq Signals /\ d \subseteq Signals /\ o \subseteq OpenType /\ x \subseteq SettlingType
    BY <1>2, <1>7 DEF LedgerType
  <2> HIDE DEF state, p, d, o, x
  <2> QED
    BY <1>2, <2>1, <2>2 DEF LedgerType
<1>9. /\ \A x \in in : x.sig = s /\ s \in waiting
      /\ \A x, y \in in : x = y
      /\ \A x \in out : x.sig = s /\ \E t \in l.open : t.sig = s
      /\ \A x, y \in out : x = y
  <2>1. \A x \in entering : Entered(x).sig = s /\ s \in waiting /\ x = s
    BY <1>3 DEF Entered
  <2>2. \A t \in closing : t.sig = s /\ t \in l.open
    OBVIOUS
  <2> HIDE DEF entering, closing, waiting
  <2>3. \A x \in in : x = Entered(s) /\ x.sig = s /\ s \in waiting
    BY <2>1
  <2>4. \A x \in out : \E t \in closing : x = [sig |-> t.sig, exit |-> day]
    OBVIOUS
  <2>5. \A x \in out : x = [sig |-> s, exit |-> day] /\ \E t \in l.open : t.sig = s
    BY <2>2, <2>4
  <2> HIDE DEF in, out
  <2>6. \A x \in out : x.sig = s /\ \E t \in l.open : t.sig = s
    BY <2>5
  <2>7. (\A x, y \in in : x = y) /\ (\A x, y \in out : x = y)
    BY <2>3, <2>5
  <2> QED
    BY <2>3, <2>6, <2>7
<1> HIDE DEF state, in, out, entering, closing
<1>10. Lone(state.open) /\ Lone(state.settling)
  <2>1. IsFiniteSet(l.open \ closing) /\ IsFiniteSet(l.settling)
    BY <1>2, FS_Subset DEF LedgerOk, Lone
  <2>2. \A x \in in : in = {x}
    BY <1>9
  <2>3. \A x \in out : out = {x}
    BY <1>9
  <2>4. IsFiniteSet(in) /\ IsFiniteSet(out)
    <3>1. in = {} \/ \E x : in = {x}
      BY <2>2
    <3>2. out = {} \/ \E x : out = {x}
      BY <2>3
    <3>3. IsFiniteSet({}) /\ \A x : IsFiniteSet({x})
      BY FS_EmptySet, FS_Singleton
    <3> QED
      BY <3>1, <3>2, <3>3
  <2>5. IsFiniteSet(state.open) /\ IsFiniteSet(state.settling)
    <3>1. IsFiniteSet((l.open \ closing) \cup in) /\ IsFiniteSet(l.settling \cup out)
      <4> DEFINE A == l.open \ closing
                 B == l.settling
      <4>1. IsFiniteSet(A) /\ IsFiniteSet(B)
        BY <2>1
      <4> HIDE DEF A, B
      <4>2. IsFiniteSet(A \cup in) /\ IsFiniteSet(B \cup out)
        BY <2>4, <4>1, FS_Union
      <4> QED
        BY <4>2 DEF A, B
    <3> QED
      BY <1>6, <3>1
  <2>6. \A x \in in : \A t \in l.open : t.sig # x.sig
    BY <1>2, <1>9 DEF LedgerOk, Apart, SigsOf
  <2>7. \A x \in out : \A t \in l.settling : t.sig # x.sig
    BY <1>2, <1>9 DEF LedgerOk, Apart, SigsOf
  <2>8. \A x, y \in state.open : x.sig = y.sig => x = y
    BY <1>2, <1>6, <1>9, <2>6 DEF LedgerOk, Lone
  <2>9. \A x, y \in state.settling : x.sig = y.sig => x = y
    BY <1>2, <1>6, <1>9, <2>7 DEF LedgerOk, Lone
  <2> QED
    BY <2>5, <2>8, <2>9 DEF Lone
<1>11. /\ closing # {} => \A t \in l.open \ closing : t.sig # s
       /\ closing = {} \/ \E t \in l.open : t.sig = s
  BY <1>2 DEF closing, LedgerOk, Lone
<1>12. LedgerOk(state)
  <2>1. SigsOf(state.settling) = SigsOf(l.settling) \cup SigsOf(out)
    BY <1>6 DEF SigsOf
  <2>2. SigsOf(state.open) = SigsOf(l.open \ closing) \cup SigsOf(in)
    BY <1>6 DEF SigsOf
  <2>3. SigsOf(out) \subseteq {s} /\ SigsOf(in) \subseteq {s} \cap waiting
    BY <1>9 DEF SigsOf
  <2>4. out # {} => s \in SigsOf(l.open) /\ s \notin SigsOf(l.open \ closing) /\ closing # {}
    BY <1>11 DEF SigsOf, out
  <2>5. SigsOf(l.open \ closing) \subseteq SigsOf(l.open) /\ (SigsOf(out) # {} => out # {})
    BY DEF SigsOf
  <2>6. state.pending \cup SigsOf(state.open) \cup SigsOf(state.settling) \subseteq state.seen
    BY <1>2, <1>6, <2>1, <2>2, <2>3, <2>4, <2>5 DEF LedgerOk
  <2>7. Apart(state.pending, SigsOf(state.open))
    BY <1>2, <1>6, <2>2, <2>3, <2>5 DEF LedgerOk, Apart
  <2>8. Apart(state.pending, SigsOf(state.settling))
    BY <1>2, <1>6, <2>1, <2>3, <2>4, <2>5 DEF LedgerOk, Apart
  <2>9. Apart(SigsOf(state.open), SigsOf(state.settling))
    <3>1. SigsOf(out) \cap SigsOf(l.open \ closing) = {}
      BY <2>3, <2>4, <2>5
    <3>2. SigsOf(in) \subseteq l.pending
      BY <2>3
    <3>3. s \in SigsOf(in) => s \in l.pending
      BY <3>2
    <3>4. SigsOf(out) \cap SigsOf(in) = {}
      BY <1>2, <2>3, <2>4, <2>5, <3>3 DEF LedgerOk, Apart
    <3>5. SigsOf(l.settling) \cap SigsOf(in) = {} /\ SigsOf(l.settling) \cap SigsOf(l.open) = {}
      BY <1>2, <3>2 DEF LedgerOk, Apart
    <3> QED
      BY <2>1, <2>2, <2>5, <3>1, <3>4, <3>5 DEF Apart
  <2> QED
    BY <1>8, <1>10, <2>6, <2>7, <2>8, <2>9 DEF LedgerOk
<1>13. AllKept(state, Emit(journal, es))
  <2> SUFFICES ASSUME NEW r \in state.seen \ state.dropped PROVE Kept(r, state, Emit(journal, es))
    BY DEF AllKept
  <2>1. Kept(r, l, journal)
    BY <1>2, <1>6 DEF FollowInv, AllKept
  <2>2. Range(journal["ShadowAlphaSettled"]) \subseteq Range(Emit(journal, es)["ShadowAlphaSettled"])
    <3>1. "ShadowAlphaSettled" \in EventKinds /\ IsFiniteSet(es) /\ LogOk(journal)
      BY <1>2, <1>5 DEF EventKinds, TodaysEvents
    <3> HIDE DEF es
    <3> QED
      BY <3>1, Emitted
  <2>3. CASE r \in l.pending
    <3>1. CASE r \in waiting
      <4>1. r \in entering
        BY <1>6, <3>1
      <4>2. Entered(r) \in in /\ Entered(r).sig = r
        BY <4>1 DEF in, Entered
      <4> QED
        BY <1>6, <4>2 DEF Kept, SigsOf
    <3>2. CASE r \notin waiting
      BY <1>6, <2>3, <3>2 DEF Kept
    <3> QED
      BY <3>1, <3>2
  <2>4. ASSUME NEW t \in l.open, r = t.sig PROVE Kept(r, state, Emit(journal, es))
    <3>1. CASE t \in closing
      <4>1. [sig |-> t.sig, exit |-> day] \in out
        BY <3>1 DEF out
      <4> QED
        BY <1>6, <2>4, <4>1 DEF Kept, SigsOf
    <3>2. CASE t \notin closing
      BY <1>6, <2>4, <3>2 DEF Kept, SigsOf
    <3> QED
      BY <3>1, <3>2
  <2>5. CASE r \in SigsOf(l.settling)
    BY <1>6, <2>5 DEF Kept, SigsOf
  <2>6. CASE \E e \in Range(journal["ShadowAlphaSettled"]) : e.sig = r
    BY <2>2, <2>6 DEF Kept
  <2> QED
    BY <2>1, <2>3, <2>4, <2>5, <2>6 DEF Kept, SigsOf
<1> HIDE DEF es
<1> QED
  BY <1>1, <1>2, <1>5, <1>12, <1>13, HandlerFollows

(* track: new signals wait for their quote.                                *)
LEMMA TrackFollows ==
    ASSUME FollowInv, Track
    PROVE  FollowInv' /\ Logs
<1> DEFINE l == ledger
           new == NewSignals(l.seen)
           state == [l EXCEPT !.seen = @ \cup new, !.pending = @ \cup new]
<1>1. eng.up /\ Handler({}, state, eng) /\ day' = day
  BY DEF Track
<1>2. LedgerOk(l) /\ l = saved /\ eng \in EngineType /\ LogOk(journal) /\ l \in LedgerType
  BY <1>1 DEF FollowInv, LedgerOk
<1>3. new \subseteq Signals /\ new \cap l.seen = {}
  BY DEF NewSignals, Fires
<1> HIDE DEF new
<1>4. /\ state.seen = l.seen \cup new /\ state.pending = l.pending \cup new
      /\ state.open = l.open /\ state.settling = l.settling /\ state.dropped = l.dropped
      /\ state \in LedgerType
  BY <1>2, <1>3 DEF LedgerType
<1> HIDE DEF state
<1>5. LedgerOk(state)
  BY <1>2, <1>3, <1>4 DEF LedgerOk, Apart
<1>6. TodaysEvents({})
  BY FS_EmptySet DEF TodaysEvents
<1>7. AllKept(state, Emit(journal, {}))
  <2>1. Range(journal["ShadowAlphaSettled"]) \subseteq Range(Emit(journal, {})["ShadowAlphaSettled"])
    <3>1. "ShadowAlphaSettled" \in EventKinds
      BY DEF EventKinds
    <3> QED
      BY <1>2, <1>6, <3>1, Emitted DEF TodaysEvents
  <2> QED
    BY <1>2, <1>4, <2>1 DEF FollowInv, AllKept, Kept
<1> QED
  BY <1>1, <1>2, <1>5, <1>6, <1>7, HandlerFollows

(* start_day: at most one event, the day that is over.                     *)
RollKind == "DailyRiskStateRolled"
RollEvents(b) ==
    {Ev("DailyRiskStateRolled", Nobody, b, old) :
        old \in {RolledState(b)} \cap [date : 1 .. MaxDay, low : Nat]}

LEMMA RollEventsIs ==
    ASSUME NEW b
    PROVE  /\ TodaysEvents(RollEvents(b))
           /\ \A e \in RollEvents(b) : e.kind = RollKind /\ e.book = b /\ e.val = risk[b]
<1> DEFINE one == Ev("DailyRiskStateRolled", Nobody, b, risk[b])
<1>1. one.kind = RollKind /\ one.day = day /\ one.book = b /\ one.val = risk[b]
  BY DEF Ev, RollKind
<1>2. RollEvents(b) \subseteq {one}
  BY DEF RollEvents, RolledState
<1> HIDE DEF one
<1>3. IsFiniteSet(RollEvents(b))
  BY <1>2, FS_Singleton, FS_Subset
<1>4. \A e \in RollEvents(b) : e = one
  BY <1>2
<1>5. \A e \in RollEvents(b) : e.kind \in EventKinds /\ e.day = day
  BY <1>1, <1>4 DEF EventKinds, RollKind
<1> QED
  BY <1>1, <1>3, <1>4, <1>5 DEF TodaysEvents

LEMMA StartDayFollows ==
    ASSUME FollowInv, NEW n, StartDay(n)
    PROVE  FollowInv' /\ Logs
<1> DEFINE b == Books[n]
           es == RollEvents(b)
<1>1. eng.up /\ Handler(es, ledger, eng) /\ day' = day
  BY DEF StartDay, RollEvents
<1>2. LedgerOk(ledger) /\ ledger = saved /\ eng \in EngineType /\ LogOk(journal)
  BY <1>1 DEF FollowInv
<1>3. TodaysEvents(es)
  BY RollEventsIs
<1> HIDE DEF es
<1>4. AllKept(ledger, Emit(journal, es))
  <2>1. "ShadowAlphaSettled" \in EventKinds
    BY DEF EventKinds
  <2>2. Range(journal["ShadowAlphaSettled"]) \subseteq Range(Emit(journal, es)["ShadowAlphaSettled"])
    BY <1>2, <1>3, <2>1, Emitted DEF TodaysEvents
  <2> QED
    BY <1>2, <2>2 DEF FollowInv, AllKept, Kept
<1> QED
  BY <1>1, <1>2, <1>3, <1>4, HandlerFollows

(* One event of today.                                                     *)
LEMMA LogsOne ==
    ASSUME NEW k \in EventKinds, NEW s, NEW b, NEW v, journal' = Emit(journal, {Ev(k, s, b, v)})
    PROVE  Logs
<1>1. TodaysEvents({Ev(k, s, b, v)})
  <2>1. Ev(k, s, b, v).kind = k /\ Ev(k, s, b, v).day = day
    BY DEF Ev
  <2> DEFINE e == Ev(k, s, b, v)
  <2>2. IsFiniteSet({e})
    BY FS_Singleton
  <2> HIDE DEF e
  <2>3. e.kind = k /\ e.day = day
    BY <2>1 DEF e
  <2>4. TodaysEvents({e})
    BY <2>2, <2>3 DEF TodaysEvents
  <2> QED
    BY <2>4 DEF e
<1> QED
  BY <1>1 DEF Logs

(* A review's call, and the review if the call was answered.               *)
ReviewEvents(r, ok) ==
    LET about(kind) == Ev(kind, r.sig, r.book, "-")
    IN  {about("LLMCall")} \cup IF ok THEN {about("TradeReview")} ELSE {}

LEMMA ReviewEventsAre ==
    ASSUME NEW r, NEW ok \in BOOLEAN
    PROVE  /\ TodaysEvents(ReviewEvents(r, ok))
           /\ \A e \in ReviewEvents(r, ok) : e.kind \in {"LLMCall", "TradeReview"}
           /\ OfKind(ReviewEvents(r, ok), "TradeReview") =
                 IF ok THEN {Ev("TradeReview", r.sig, r.book, "-")} ELSE {}
<1> DEFINE c == Ev("LLMCall", r.sig, r.book, "-")
           v == Ev("TradeReview", r.sig, r.book, "-")
<1>1. c.kind = "LLMCall" /\ v.kind = "TradeReview" /\ c.day = day /\ v.day = day
  BY DEF Ev
<1>2. ReviewEvents(r, ok) = {c} \cup IF ok THEN {v} ELSE {}
  BY DEF ReviewEvents
<1> HIDE DEF c, v
<1>3. IsFiniteSet({c}) /\ IsFiniteSet({v}) /\ IsFiniteSet({})
  BY FS_Singleton, FS_EmptySet
<1>4. IsFiniteSet({c} \cup {v}) /\ IsFiniteSet({c} \cup {})
  BY <1>3, FS_Union
<1>5. CASE ok
  <2>1. ReviewEvents(r, ok) = {c} \cup {v}
    BY <1>2, <1>5
  <2>2. OfKind({c} \cup {v}, "TradeReview") = {v}
    BY <1>1 DEF OfKind
  <2>3. TodaysEvents({c} \cup {v})
    BY <1>1, <1>4 DEF TodaysEvents, EventKinds
  <2> QED
    BY <1>1, <1>5, <2>1, <2>2, <2>3 DEF v
<1>6. CASE ~ok
  <2>1. ReviewEvents(r, ok) = {c} \cup {}
    BY <1>2, <1>6
  <2>2. OfKind({c} \cup {}, "TradeReview") = {}
    BY <1>1 DEF OfKind
  <2>3. TodaysEvents({c} \cup {})
    BY <1>1, <1>4 DEF TodaysEvents, EventKinds
  <2> QED
    BY <1>1, <1>6, <2>1, <2>2, <2>3
<1> QED
  BY <1>5, <1>6

(* The steps of the cycle, the report and the process.                     *)
LEMMA RunCycleLogs ==
    ASSUME RunCycle
    PROVE  Logs
<1> DEFINE f == [s \in Fires |-> Ev("SignalGenerated", s, Nobody, "-")]
           es == {Ev("SignalGenerated", s, Nobody, "-") : s \in Fires}
<1>1. IsFiniteSet(Fires)
  BY EvaluationAssumption, FS_Subset DEF Fires
<1>2. IsFiniteSet({f[s] : s \in Fires})
  <2> HIDE DEF f
  <2> QED
    BY <1>1, Mapped
<1>3. es = {f[s] : s \in Fires}
  OBVIOUS
<1>4. \A e \in es : e.kind = "SignalGenerated" /\ e.day = day
  BY DEF Ev
<1>5. TodaysEvents(es)
  BY <1>2, <1>3, <1>4 DEF TodaysEvents, EventKinds
<1> QED
  BY <1>5 DEF RunCycle, Logs

LEMMA BooksFinite == IsFiniteSet(BookIds) /\ BookIds = {Books[n] : n \in 1 .. Len(Books)}
<1>1. Books \in Seq(Range(Books))
  BY EvaluationAssumption
<1>2. Len(Books) \in Nat /\ DOMAIN Books = 1 .. Len(Books)
  BY <1>1, LenProperties
<1>3. IsFiniteSet(1 .. Len(Books))
  BY <1>2, FS_Interval
<1>4. IsFiniteSet({Books[n] : n \in 1 .. Len(Books)})
  BY <1>3, Mapped
<1> QED
  BY <1>2, <1>4 DEF BookIds, Range

LEMMA MarkBooksLogs ==
    ASSUME MarkBooks
    PROVE  Logs
<1> DEFINE f == [b \in BookIds |-> Ev("MarkToMarket", Nobody, b, Equity(b))]
           es == {Ev("MarkToMarket", Nobody, b, Equity(b)) : b \in BookIds}
<1>1. IsFiniteSet({f[b] : b \in BookIds})
  <2> HIDE DEF f
  <2> QED
    BY BooksFinite, Mapped
<1>2. es = {f[b] : b \in BookIds}
  OBVIOUS
<1>3. \A e \in es : e.kind = "MarkToMarket" /\ e.day = day
  BY DEF Ev
<1>4. TodaysEvents(es)
  BY <1>1, <1>2, <1>3 DEF TodaysEvents, EventKinds
<1> QED
  BY <1>4 DEF MarkBooks, Logs

LEMMA FollowInit ==
    EvaluationInit => FollowInv
<1> SUFFICES ASSUME EvaluationInit PROVE FollowInv
  OBVIOUS
<1> DEFINE none == [k \in EventKinds |-> <<>>]
           es == {Ev("ProcessStarted", Nobody, Nobody, "-")}
<1>1. LogOk(none)
  <2>1. Sequence(<<>>)
    BY EmptySeq DEF Sequence
  <2> QED
    BY <2>1 DEF LogOk
<1>2. IsFiniteSet(es)
  BY FS_Singleton
<1>3. journal = Emit(none, es)
  BY DEF EvaluationInit
<1> HIDE DEF none, es
<1>4. LogOk(journal)
  BY <1>1, <1>2, <1>3, Emitted
<1>5. AllKept(EmptyLedger, journal)
  BY DEF AllKept, EmptyLedger
<1> QED
  BY <1>4, <1>5, EmptyOk DEF EvaluationInit, FollowInv, Starting, EngineType

LEMMA FollowNext ==
    ASSUME FollowInv, [EvaluationNext]_evaluationVars
    PROVE  FollowInv' /\ Logs
<1>0. day \in Nat /\ eng \in EngineType
  BY DEF FollowInv
<1>1. ASSUME NEW known \in BOOLEAN, PreOpen(known) PROVE FollowInv' /\ Logs
  BY <1>1, PreOpenFollows
<1>2. CASE SessionStart
  BY <1>2, SessionStartFollows
<1>3. ASSUME NEW s \in Signals, NEW p, OnQuote(s, p) PROVE FollowInv' /\ Logs
  BY <1>3, OnQuoteFollows
<1>4. CASE Track
  BY <1>4, TrackFollows
<1>5. CASE RunCycle
  <2>1. Logs
    BY <1>5, RunCycleLogs
  <2> QED
    BY <1>0, <1>5, <2>1, LedgerStays DEF RunCycle
<1>6. ASSUME NEW how, Dispose(how) PROVE FollowInv' /\ Logs
  <2> DEFINE next == Head(Head(cycle))
  <2>1. journal' = Emit(journal, {Ev("SignalDisposition", next[1], next[2], how)})
    BY <1>6 DEF Dispose
  <2>2. "SignalDisposition" \in EventKinds
    BY DEF EventKinds
  <2> HIDE DEF next
  <2>3. Logs
    BY <2>1, <2>2, LogsOne
  <2>4. /\ day' = day /\ UNCHANGED <<ledger, saved>>
        /\ eng' = [eng EXCEPT !.cycled = (cycle' = <<>>)]
    BY <1>6 DEF Dispose
  <2>5. eng' \in EngineType /\ eng'.up = eng.up
    <3> DEFINE c == (cycle' = <<>>)
    <3>1. c \in BOOLEAN /\ eng' = [eng EXCEPT !.cycled = c]
      BY <2>4
    <3> HIDE DEF c
    <3> QED
      BY <1>0, <3>1 DEF EngineType
  <2> QED
    BY <1>0, <2>3, <2>4, <2>5, LedgerStays
<1>7. ASSUME NEW s, NEW b, CloseTrade(s, b) PROVE FollowInv' /\ Logs
  <2>1. "TradeClosed" \in EventKinds
    BY DEF EventKinds
  <2>2. Logs
    BY <1>7, <2>1, LogsOne DEF CloseTrade
  <2> QED
    BY <1>0, <1>7, <2>2, LedgerStays DEF CloseTrade
<1>8. CASE MarkBooks
  <2>1. Logs
    BY <1>8, MarkBooksLogs
  <2>2. eng' \in EngineType /\ eng'.up = eng.up
    BY <1>0, <1>8 DEF MarkBooks, EngineType
  <2> QED
    BY <1>0, <1>8, <2>1, <2>2, LedgerStays DEF MarkBooks
<1>9. CASE WriteJson
  <2>1. eng' \in EngineType /\ eng'.up = eng.up
    BY <1>0, <1>9 DEF WriteJson, EngineType
  <2> QED
    BY <1>0, <1>9, <2>1, LedgerStays DEF WriteJson, Logs
<1>10. CASE WriteMarkdown
  <2>1. eng' \in EngineType /\ eng'.up = eng.up
    BY <1>0, <1>10 DEF WriteMarkdown, EngineType
  <2>2. "Alert" \in EventKinds
    BY DEF EventKinds
  <2>3. Logs
    BY <1>10, <2>2, LogsOne DEF WriteMarkdown
  <2> QED
    BY <1>0, <1>10, <2>1, <2>3, LedgerStays DEF WriteMarkdown
<1>11. ASSUME NEW ok \in BOOLEAN, ReviewTrade(ok) PROVE FollowInv' /\ Logs
  <2>1. Logs
    BY <1>11, ReviewEventsAre DEF ReviewTrade, ReviewEvents, Logs
  <2> QED
    BY <1>0, <1>11, <2>1, LedgerStays DEF ReviewTrade
<1>12. CASE Tick
  <2>1. Logs /\ UNCHANGED <<ledger, saved>> /\ day' \in Nat
    BY <1>0, <1>12 DEF Tick, Logs
  <2>2. eng' \in EngineType /\ eng'.up = eng.up
    BY <1>0, <1>12 DEF Tick, Starting, EngineType
  <2> QED
    BY <2>1, <2>2, LedgerStays
<1>13. CASE Crash
  <2>1. /\ day' = day /\ journal' = journal /\ saved' = saved /\ ledger' = EmptyLedger
        /\ eng' = [Starting EXCEPT !.up = FALSE]
    BY <1>13 DEF Crash
  <2>2. eng' \in EngineType /\ eng'.up = FALSE
    BY <2>1 DEF Starting, EngineType
  <2> QED
    BY <2>1, <2>2, EmptyOk DEF FollowInv, Logs
<1>14. CASE Restart
  <2>1. "ProcessStarted" \in EventKinds
    BY DEF EventKinds
  <2>2. Logs
    BY <1>14, <2>1, LogsOne DEF Restart
  <2>3. eng' \in EngineType /\ eng'.up = TRUE
    BY <1>14 DEF Restart, Starting, EngineType
  <2>4. AllKept(saved, journal') /\ LogOk(journal')
    BY <2>2, KeptLonger, LogGrows DEF FollowInv
  <2> QED
    BY <1>14, <2>2, <2>3, <2>4 DEF Restart, FollowInv
<1>15. CASE UNCHANGED evaluationVars
  BY <1>0, <1>15, LedgerStays DEF evaluationVars, Logs
<1>16. ASSUME NEW n, StartDay(n) PROVE FollowInv' /\ Logs
  BY <1>16, StartDayFollows
<1>17. ASSUME NEW b, RiskTick(b) PROVE FollowInv' /\ Logs
  BY <1>0, <1>17, LedgerStays DEF RiskTick, Logs
<1> QED
  BY <1>1, <1>2, <1>3, <1>4, <1>5, <1>6, <1>7, <1>8, <1>9, <1>10, <1>11, <1>12, <1>13, <1>14,
     <1>15, <1>16, <1>17 DEF EvaluationNext

(* Each signal has one item, so there are as many items as signals.        *)
LEMMA LoneCount ==
    ASSUME NEW items, Lone(items)
    PROVE  Cardinality(SigsOf(items)) = Cardinality(items)
<1> DEFINE f == [x \in items |-> x.sig]
<1>1. f \in Surjection(items, SigsOf(items))
  BY DEF Surjection, SigsOf
<1>2. f \in Injection(items, SigsOf(items))
  BY DEF Injection, IsInjective, SigsOf, Lone
<1> QED
  BY <1>1, <1>2, FS_Surjection DEF Lone

(* Whatever restarts repeat, and wherever a crash falls between the        *)
(* ledger's events and its save, a signal has one counterfactual, and one  *)
(* that was tracked is followed until its alpha is on record               *)
(* (src/evaluation/shadow_ledger.py, every handler and _save).             *)
THEOREM SignalsAreFollowed ==
    EvaluationSpec => []EachFollowedOnce
<1>1. FollowInv => EachFollowedOnce
  <2> SUFFICES ASSUME FollowInv PROVE EachFollowedOnce
    OBVIOUS
  <2>1. LedgerOk(ledger) /\ LedgerOk(saved) /\ AllKept(saved, journal)
    BY DEF FollowInv
  <2>2. \A l : /\ DOMAIN Followed(l) = 1 .. 3
               /\ Followed(l)[1] = l.pending /\ Followed(l)[2] = SigsOf(l.open)
               /\ Followed(l)[3] = SigsOf(l.settling)
    BY DEF Followed
  <2>3. \A l : UNION Range(Followed(l)) = l.pending \cup SigsOf(l.open) \cup SigsOf(l.settling)
    <3> SUFFICES ASSUME NEW l
                 PROVE  UNION Range(Followed(l)) = l.pending \cup SigsOf(l.open) \cup SigsOf(l.settling)
      OBVIOUS
    <3>1. Range(Followed(l)) = {l.pending, SigsOf(l.open), SigsOf(l.settling)}
      <4>1. 1 .. 3 = {1, 2, 3}
        OBVIOUS
      <4> QED
        BY <2>2, <4>1 DEF Range
    <3> QED
      BY <3>1
  <2>4. ASSUME NEW l \in {ledger, saved}
        PROVE  /\ \A i, j \in 1 .. 3 : i # j => Followed(l)[i] \cap Followed(l)[j] = {}
               /\ Cardinality(SigsOf(l.open)) = Cardinality(l.open)
               /\ Cardinality(SigsOf(l.settling)) = Cardinality(l.settling)
               /\ UNION Range(Followed(l)) \subseteq l.seen
    <3>1. LedgerOk(l)
      BY <2>1
    <3>2. Lone(l.open) /\ Lone(l.settling)
      BY <3>1 DEF LedgerOk
    <3>3. \A i, j \in {1, 2, 3} : i # j => Followed(l)[i] \cap Followed(l)[j] = {}
      BY <2>2, <3>1 DEF LedgerOk, Apart
    <3>4. 1 .. 3 = {1, 2, 3}
      OBVIOUS
    <3> QED
      BY <2>3, <3>1, <3>2, <3>3, <3>4, LoneCount DEF LedgerOk
  <2>5. \A s \in saved.seen \ saved.dropped :
          \/ s \in UNION Range(Followed(saved))
          \/ \E e \in Range(journal["ShadowAlphaSettled"]) : e.sig = s
    BY <2>1, <2>3 DEF AllKept, Kept
  <2> QED
    BY <2>4, <2>5 DEF EachFollowedOnce
<1> QED
  BY <1>1, FollowInit, FollowNext, PTL DEF EvaluationSpec

-----------------------------------------------------------------------------
(* What a report reads of the log.                                         *)

(* The events of a kind, when today's are added.                           *)
LEMMA OfGrows ==
    ASSUME NEW lg, LogOk(lg), NEW es, TodaysEvents(es), NEW k \in EventKinds, NEW books, NEW days
    PROVE  /\ Of(lg, k, books, days) \subseteq Of(Emit(lg, es), k, books, days)
           /\ \A i \in Of(lg, k, books, days) : Emit(lg, es)[k][i] = lg[k][i]
           /\ \A i \in Of(Emit(lg, es), k, books, days) :
                 i \in Of(lg, k, books, days) \/ (i \notin DOMAIN lg[k] /\ day \in days)
<1> DEFINE new == Emit(lg, es)
<1>1. /\ \A i \in DOMAIN lg[k] : i \in DOMAIN new[k] /\ new[k][i] = lg[k][i]
      /\ \A i \in DOMAIN new[k] : i \in DOMAIN lg[k] \/ new[k][i] \in OfKind(es, k)
  BY Emitted DEF TodaysEvents
<1> HIDE DEF new
<1>2. \A e \in OfKind(es, k) : e.day = day
  BY DEF OfKind, TodaysEvents
<1> QED
  BY <1>1, <1>2 DEF Of, new

LEMMA OnDayFinite ==
    ASSUME NEW lg, LogOk(lg), NEW d
    PROVE  IsFiniteSet(OnDay(lg, d)) /\ CountOn(lg, d) \in Nat
<1> DEFINE part == [k \in DayKinds |-> {k} \X Of(lg, k, AnyBook, {d})]
<1>1. ASSUME NEW k \in DayKinds PROVE IsFiniteSet(part[k])
  <2>0. k \in EventKinds
    BY DEF DayKinds
  <2>1. Len(lg[k]) \in Nat /\ DOMAIN lg[k] = 1 .. Len(lg[k])
    BY <2>0, LenProperties DEF LogOk, Sequence
  <2>2. IsFiniteSet(DOMAIN lg[k])
    BY <2>1, FS_Interval
  <2>3. IsFiniteSet(Of(lg, k, AnyBook, {d}))
    BY <2>2, FS_Subset DEF Of
  <2>4. IsFiniteSet({k})
    BY FS_Singleton
  <2> QED
    BY <2>3, <2>4, FS_Product
<1>2. IsFiniteSet(DayKinds)
  <2> DEFINE A == {"ProcessStarted", "SignalGenerated", "SignalDisposition"}
             B == {"TradeClosed", "MarkToMarket", "ShadowTradeOpened"}
             C == {"ShadowTradeClosed", "ShadowAlphaSettled", "TradeReview"}
  <2>1. \A x, y, z : IsFiniteSet({x, y, z})
    <3> SUFFICES ASSUME NEW x, NEW y, NEW z PROVE IsFiniteSet({x, y, z})
      OBVIOUS
    <3>1. IsFiniteSet({x} \cup {y}) /\ IsFiniteSet({z})
      BY FS_Singleton, FS_Union
    <3>2. IsFiniteSet(({x} \cup {y}) \cup {z})
      BY <3>1, FS_Union
    <3>3. {x, y, z} = ({x} \cup {y}) \cup {z}
      OBVIOUS
    <3> QED
      BY <3>2, <3>3
  <2>2. IsFiniteSet(A) /\ IsFiniteSet(B) /\ IsFiniteSet(C)
    BY <2>1
  <2>3. DayKinds \subseteq (A \cup B) \cup C
    BY DEF DayKinds, EventKinds
  <2> HIDE DEF A, B, C
  <2>4. IsFiniteSet(A \cup B)
    BY <2>2, FS_Union
  <2>5. IsFiniteSet((A \cup B) \cup C)
    BY <2>2, <2>4, FS_Union
  <2> QED
    BY <2>3, <2>5, FS_Subset
<1>3. OnDay(lg, d) = UNION {part[k] : k \in DayKinds}
  BY DEF OnDay
<1> HIDE DEF part
<1>4. IsFiniteSet({part[k] : k \in DayKinds})
  BY <1>2, Mapped
<1>5. IsFiniteSet(OnDay(lg, d))
  BY <1>1, <1>3, <1>4, FS_UNION
<1> QED
  BY <1>5, FS_CardinalityType DEF CountOn

(* Two logs with the same events up to a day, of those kinds.              *)
Alike(lg, lg2, d) ==
    \A k \in DayKinds : \A books \in SUBSET AnyBook, days \in SUBSET (1 .. d) :
        /\ Of(lg, k, books, days) = Of(lg2, k, books, days)
        /\ \A i \in Of(lg, k, books, days) : lg[k][i] = lg2[k][i]

(* A day of which the log has as many events as it had has no new one.     *)
LEMMA SameCount ==
    ASSUME NEW lg, LogOk(lg), NEW es, TodaysEvents(es), day \in Nat, NEW d \in Nat, d <= day
    PROVE  /\ CountOn(lg, d) <= CountOn(Emit(lg, es), d)
           /\ CountOn(Emit(lg, es), d) = CountOn(lg, d) => Alike(lg, Emit(lg, es), d)
<1> DEFINE new == Emit(lg, es)
<1>1. LogOk(new)
  BY Emitted DEF TodaysEvents
<1>2. \A k \in DayKinds : \A books, days :
        /\ Of(lg, k, books, days) \subseteq Of(new, k, books, days)
        /\ \A i \in Of(lg, k, books, days) : new[k][i] = lg[k][i]
        /\ \A i \in Of(new, k, books, days) :
              i \in Of(lg, k, books, days) \/ (i \notin DOMAIN lg[k] /\ day \in days)
  BY OfGrows DEF DayKinds
<1> HIDE DEF new
<1>3. IsFiniteSet(OnDay(new, d)) /\ OnDay(lg, d) \subseteq OnDay(new, d)
  <2>1. IsFiniteSet(OnDay(new, d))
    BY <1>1, OnDayFinite
  <2>2. \A k \in DayKinds : Of(lg, k, AnyBook, {d}) \subseteq Of(new, k, AnyBook, {d})
    BY <1>2
  <2> SUFFICES ASSUME NEW x \in OnDay(lg, d) PROVE x \in OnDay(new, d)
    BY <2>1
  <2>3. PICK k \in DayKinds : x \in {k} \X Of(lg, k, AnyBook, {d})
    BY DEF OnDay
  <2>4. x \in {k} \X Of(new, k, AnyBook, {d})
    BY <2>2, <2>3
  <2> QED
    BY <2>4 DEF OnDay
<1>4. CountOn(lg, d) <= CountOn(new, d)
  BY <1>3, FS_Subset DEF CountOn
<1>5. ASSUME CountOn(new, d) = CountOn(lg, d) PROVE Alike(lg, new, d)
  <2>1. OnDay(new, d) = OnDay(lg, d)
    BY <1>3, <1>5, FS_Subset DEF CountOn
  <2>2. ASSUME NEW k \in DayKinds PROVE Of(new, k, AnyBook, {d}) \subseteq Of(lg, k, AnyBook, {d})
    <3> SUFFICES ASSUME NEW i \in Of(new, k, AnyBook, {d}) PROVE i \in Of(lg, k, AnyBook, {d})
      OBVIOUS
    <3>1. <<k, i>> \in OnDay(lg, d)
      BY <2>1 DEF OnDay
    <3>2. PICK k2 \in DayKinds : <<k, i>> \in {k2} \X Of(lg, k2, AnyBook, {d})
      BY <3>1 DEF OnDay
    <3> QED
      BY <3>2
  <2> SUFFICES ASSUME NEW k \in DayKinds, NEW books \in SUBSET AnyBook, NEW days \in SUBSET (1 .. d),
                      NEW i \in Of(new, k, books, days), i \notin DOMAIN lg[k], day \in days
               PROVE  FALSE
    BY <1>2 DEF Alike
  <2>3. day = d
    OBVIOUS
  <2>4. i \in Of(new, k, AnyBook, {d})
    <3>1. i \in DOMAIN new[k] /\ new[k][i].book \in AnyBook /\ i \notin Of(lg, k, books, days)
      BY DEF Of
    <3>2. i \notin Of(lg, k, AnyBook, {d})
      BY DEF Of
    <3>3. i \in Of(new, k, books, days \ {d}) => i \in Of(lg, k, books, days \ {d})
      BY <1>2, <2>3
    <3>4. new[k][i].day = d
      BY <3>1, <3>3 DEF Of
    <3> QED
      BY <3>1, <3>4 DEF Of
  <2> QED
    BY <2>2, <2>4 DEF Of
<1> QED
  BY <1>4, <1>5 DEF new

(* The signals the log has, and the trades it explains.                    *)
Fired(lg) ==
    {e.sig : e \in {f \in Range(lg["SignalGenerated"]) : f.book \in AnyBook /\ f.day \in 1 .. MaxDay}}
Explained(lg) == \A e \in Range(lg["TradeClosed"]) : e.sig \in Fired(lg)

LEMMA ExplainedAll ==
    ASSUME NEW lg, LogOk(lg), Explained(lg), NEW b, NEW d
    PROVE  LET closed == Of(lg, "TradeClosed", {b}, {d})
           IN  Integrity(lg, b, d) = [closed |-> Cardinality(closed), explained |-> Cardinality(closed)]
<1> DEFINE closed == Of(lg, "TradeClosed", {b}, {d})
           fired == Of(lg, "SignalGenerated", AnyBook, 1 .. MaxDay)
           named == {i \in closed : Signalled(lg, "SignalGenerated", fired, lg["TradeClosed"][i].sig) # {}}
<1>1. ASSUME NEW i \in closed PROVE i \in named
  <2>1. lg["TradeClosed"][i].sig \in Fired(lg)
    BY DEF Explained, Of, Range
  <2>2. PICK j \in DOMAIN lg["SignalGenerated"] :
          /\ lg["SignalGenerated"][j].book \in AnyBook /\ lg["SignalGenerated"][j].day \in 1 .. MaxDay
          /\ lg["SignalGenerated"][j].sig = lg["TradeClosed"][i].sig
    BY <2>1 DEF Fired, Range
  <2>3. j \in Signalled(lg, "SignalGenerated", fired, lg["TradeClosed"][i].sig)
    BY <2>2 DEF Signalled, Of
  <2> QED
    BY <2>3
<1>2. named = closed
  BY <1>1
<1>3. Integrity(lg, b, d) = [closed |-> Cardinality(closed), explained |-> Cardinality(named)]
  BY DEF Integrity
<1> HIDE DEF closed, named
<1>4. Integrity(lg, b, d) = [closed |-> Cardinality(closed), explained |-> Cardinality(closed)]
  BY <1>2, <1>3
<1> QED
  BY <1>4 DEF closed

LEMMA MarkIsSame ==
    ASSUME NEW lg, LogOk(lg), NEW lg2, NEW d \in Nat, Alike(lg, lg2, d),
           NEW b \in BookIds, NEW days \in SUBSET (1 .. d)
    PROVE  LastMark(lg, b, days) = LastMark(lg2, b, days)
<1> DEFINE marks == Of(lg, "MarkToMarket", {b}, days)
<1>1. "MarkToMarket" \in DayKinds /\ "MarkToMarket" \in EventKinds /\ {b} \in SUBSET AnyBook
  BY DEF DayKinds, EventKinds, AnyBook
<1>2. marks = Of(lg2, "MarkToMarket", {b}, days)
      /\ \A i \in marks : lg["MarkToMarket"][i] = lg2["MarkToMarket"][i]
  BY <1>1 DEF Alike
<1>3. ASSUME marks # {} PROVE Max(marks) \in marks
  <2>1. Len(lg["MarkToMarket"]) \in Nat /\ DOMAIN lg["MarkToMarket"] = 1 .. Len(lg["MarkToMarket"])
    BY <1>1, LenProperties DEF LogOk, Sequence
  <2>2. marks \in SUBSET (1 .. Len(lg["MarkToMarket"]))
    BY <2>1 DEF Of
  <2> HIDE DEF marks
  <2> QED
    BY <1>3, <2>1, <2>2, MaxProp
<1>4. LastMark(lg, b, days) = IF marks = {} THEN -1 ELSE lg["MarkToMarket"][Max(marks)].val
  BY DEF LastMark
<1>5. LastMark(lg2, b, days) = IF marks = {} THEN -1 ELSE lg2["MarkToMarket"][Max(marks)].val
  BY <1>2 DEF LastMark
<1> HIDE DEF marks
<1> QED
  BY <1>2, <1>3, <1>4, <1>5

LEMMA PrecisionIsSame ==
    ASSUME NEW lg, LogOk(lg), NEW lg2, NEW d \in Nat, Alike(lg, lg2, d), NEW b \in BookIds
    PROVE  VetoPrecision(lg, b, d) = VetoPrecision(lg2, b, d)
<1> DEFINE D == "SignalDisposition"
           C == "ShadowTradeClosed"
<1>1. D \in DayKinds /\ C \in DayKinds /\ {b} \in SUBSET AnyBook /\ 1 .. d \in SUBSET (1 .. d)
      /\ AnyBook \in SUBSET AnyBook /\ D \in EventKinds /\ C \in EventKinds
  BY DEF DayKinds, EventKinds, AnyBook
<1>2. /\ Of(lg, D, {b}, 1 .. d) = Of(lg2, D, {b}, 1 .. d)
      /\ \A i \in Of(lg, D, {b}, 1 .. d) : lg[D][i] = lg2[D][i]
  BY <1>1 DEF Alike
<1>3. /\ Of(lg, C, AnyBook, 1 .. d) = Of(lg2, C, AnyBook, 1 .. d)
      /\ \A i \in Of(lg, C, AnyBook, 1 .. d) : lg[C][i] = lg2[C][i]
  BY <1>1 DEF Alike
<1>4. VetoedBy(lg, b, d) = VetoedBy(lg2, b, d)
  BY <1>2 DEF VetoedBy
<1> DEFINE O == Outcomes(lg, d)
           settled == VetoedBy(lg, b, d) \cap {lg[C][i].sig : i \in O}
           last(l, s) == l[C][Max(Signalled(l, C, O, s))]
<1>5. O = Outcomes(lg2, d) /\ \A i \in O : lg[C][i] = lg2[C][i]
  BY <1>3 DEF Outcomes
<1>6. settled = VetoedBy(lg2, b, d) \cap {lg2[C][i].sig : i \in O}
  BY <1>4, <1>5
<1>7. ASSUME NEW s \in settled PROVE last(lg, s) = last(lg2, s)
  <2> DEFINE is == Signalled(lg, C, O, s)
  <2>1. is = Signalled(lg2, C, O, s)
    BY <1>5 DEF Signalled
  <2>2. Len(lg[C]) \in Nat /\ DOMAIN lg[C] = 1 .. Len(lg[C])
    BY <1>1, LenProperties DEF LogOk, Sequence
  <2>3. is \in SUBSET (1 .. Len(lg[C])) /\ is \subseteq O
    BY <2>2 DEF Signalled, Outcomes, Of
  <2>4. is # {}
    BY DEF Signalled
  <2>5. Max(is) \in is
    <3> HIDE DEF is, C
    <3> QED
      BY <2>2, <2>3, <2>4, MaxProp
  <2> HIDE DEF is, O
  <2> QED
    BY <1>5, <2>1, <2>3, <2>5 DEF is
<1>8. VetoPrecision(lg, b, d) =
        [vetoes |-> Cardinality(VetoedBy(lg, b, d)), settled |-> Cardinality(settled),
         correct |-> Cardinality({s \in settled : last(lg, s).val = "loss"})]
  BY DEF VetoPrecision
<1>9. VetoPrecision(lg2, b, d) =
        [vetoes |-> Cardinality(VetoedBy(lg, b, d)), settled |-> Cardinality(settled),
         correct |-> Cardinality({s \in settled : last(lg2, s).val = "loss"})]
  BY <1>4, <1>5, <1>6 DEF VetoPrecision
<1> HIDE DEF settled, last
<1>10. {s \in settled : last(lg, s).val = "loss"} = {s \in settled : last(lg2, s).val = "loss"}
  BY <1>7
<1> QED
  BY <1>8, <1>9, <1>10

(* Logs that are alike up to a day say the same of it.                     *)
LEMMA ReportIsSame ==
    ASSUME NEW lg, LogOk(lg), Explained(lg), NEW lg2, LogOk(lg2), Explained(lg2),
           NEW d \in Nat \ {0}, Alike(lg, lg2, d)
    PROVE  DayPart(lg, d) = DayPart(lg2, d)
<1>1. /\ {d} \in SUBSET (1 .. d) /\ 1 .. (d - 1) \in SUBSET (1 .. d)
      /\ AnyBook \in SUBSET AnyBook /\ \A b \in BookIds : {b} \in SUBSET AnyBook
      /\ {"ProcessStarted", "TradeClosed", "SignalDisposition"} \subseteq DayKinds
  BY DEF AnyBook, DayKinds, EventKinds
<1>2. Restarts(lg, d) = Restarts(lg2, d)
  BY <1>1 DEF Restarts, Alike
<1>3. \A b \in BookIds : Capital(lg, b, d) = Capital(lg2, b, d)
  BY <1>1, MarkIsSame DEF Capital
<1>4. ASSUME NEW b \in BookIds PROVE Integrity(lg, b, d) = Integrity(lg2, b, d)
  <2>1. Of(lg, "TradeClosed", {b}, {d}) = Of(lg2, "TradeClosed", {b}, {d})
    BY <1>1 DEF Alike
  <2> QED
    BY <2>1, ExplainedAll
<1>5. ASSUME NEW b \in BookIds PROVE Rejections(lg, b, d) = Rejections(lg2, b, d)
  <2> DEFINE is == Of(lg, "SignalDisposition", {b}, {d})
  <2>1. is = Of(lg2, "SignalDisposition", {b}, {d})
        /\ \A i \in is : lg["SignalDisposition"][i] = lg2["SignalDisposition"][i]
    BY <1>1 DEF Alike
  <2>2. {i \in is : lg["SignalDisposition"][i].val # "submitted"}
          = {i \in is : lg2["SignalDisposition"][i].val # "submitted"}
    BY <2>1
  <2> QED
    BY <2>1, <2>2 DEF Rejections
<1>6. \A b \in BookIds : VetoPrecision(lg, b, d) = VetoPrecision(lg2, b, d)
  BY PrecisionIsSame
<1>7. Books[1] \in BookIds
  <2>1. Books \in Seq(Range(Books)) /\ Books # <<>>
    BY EvaluationAssumption
  <2>2. 1 \in 1 .. Len(Books)
    BY <2>1, EmptySeq
  <2> QED
    BY <2>1, <2>2, ElementOfSeq DEF BookIds
<1>8. \A b \in BookIds : Comparison(lg, b, d) = Comparison(lg2, b, d)
  BY <1>3, <1>7 DEF Comparison
<1> DEFINE part(l) == [b \in BookIds |->
             [capital |-> Capital(l, b, d), integrity |-> Integrity(l, b, d),
              missed |-> Rejections(l, b, d), veto |-> VetoPrecision(l, b, d),
              versus |-> Comparison(l, b, d)]]
<1>9. part(lg) = part(lg2)
  BY <1>3, <1>4, <1>5, <1>6, <1>8
<1>10. \A l : DayPart(l, d) = [restarts |-> Restarts(l, d), books |-> part(l)]
  BY DEF DayPart
<1> HIDE DEF part
<1> QED
  BY <1>2, <1>9, <1>10

-----------------------------------------------------------------------------
(* The reports on disk.                                                    *)

(* A day's report was built from a part of the day's events, and its part  *)
(* by them is what the log still says when it was built from them all.     *)
ReportOk(d) ==
    LET r == files[d].json
    IN  /\ r.of \in Nat /\ (d > day => r.of = 0) /\ r.of <= CountOn(journal, d)
        /\ d <= day /\ r.of = CountOn(journal, d) /\ r.of # 0 => r.body.own = DayPart(journal, d)

FilesInv ==
    /\ day \in 1 .. MaxDay
    /\ files = [d \in 1 .. MaxDay |-> [json |-> files[d].json, md |-> files[d].md]]
    /\ \A d \in 1 .. MaxDay : ReportOk(d)
    /\ eng.reported => eng.written /\ files[day].md = files[day].json

LEMMA ReportStays ==
    ASSUME LogOk(journal), FilesInv, Logs, Explained(journal), Explained(journal'), day' = day,
           NEW d \in 1 .. MaxDay, files'[d].json = files[d].json
    PROVE  ReportOk(d)'
<1>1. LogOk(journal')
  BY LogGrows
<1>2. ReportOk(d)'
  <2>1. ReportOk(d) /\ d \in Nat /\ d \in Nat \ {0} /\ day \in Nat
    BY EvaluationAssumption DEF FilesInv
  <2>2. CASE journal' = journal
    BY <2>1, <2>2 DEF ReportOk
  <2>3. ASSUME NEW es, TodaysEvents(es), journal' = Emit(journal, es) PROVE ReportOk(d)'
    <3> DEFINE r == files[d].json
    <3>1. r.of \in Nat /\ (d > day => r.of = 0) /\ r.of <= CountOn(journal, d)
      BY <2>1 DEF ReportOk
    <3>2. CountOn(journal, d) \in Nat /\ CountOn(journal', d) \in Nat
      BY <1>1, OnDayFinite
    <3>3. d <= day => /\ CountOn(journal, d) <= CountOn(journal', d)
                      /\ CountOn(journal', d) = CountOn(journal, d) => Alike(journal, journal', d)
      BY <2>1, <2>3, SameCount
    <3>4. r.of <= CountOn(journal', d)
      <4> HIDE DEF r
      <4> QED
        BY <2>1, <3>1, <3>2, <3>3
    <3>5. ASSUME d <= day, r.of = CountOn(journal', d), r.of # 0
          PROVE  r.body.own = DayPart(journal', d)
      <4>1. CountOn(journal', d) = CountOn(journal, d)
        <5> HIDE DEF r
        <5> QED
          BY <3>1, <3>2, <3>3, <3>5
      <4>2. r.body.own = DayPart(journal, d)
        BY <2>1, <3>5, <4>1 DEF ReportOk
      <4>3. DayPart(journal, d) = DayPart(journal', d)
        BY <1>1, <2>1, <3>3, <3>5, <4>1, ReportIsSame
      <4> QED
        BY <4>2, <4>3
    <3> QED
      BY <3>1, <3>4, <3>5 DEF ReportOk
  <2> QED
    BY <2>2, <2>3 DEF Logs
<1> QED
  BY <1>2

(* A hook that is through stays so, or ends with the process.              *)
NoFurther(e) == e.reported => eng.reported /\ e.written

LEMMA ReportsStay ==
    ASSUME LogOk(journal), FilesInv, Logs, Explained(journal), Explained(journal'),
           files' = files, day' = day, NoFurther(eng')
    PROVE  FilesInv'
<1>1. \A d \in 1 .. MaxDay : ReportOk(d)'
  BY ReportStays
<1> QED
  BY <1>1 DEF FilesInv, NoFurther

(* write_report: the json is what the log says of the day.                 *)
LEMMA WriteJsonReports ==
    ASSUME LogOk(journal), FilesInv, eng \in EngineType, WriteJson
    PROVE  FilesInv'
<1>0. PICK index \in {0, day - 1} :
         files' = [files EXCEPT ![day].json = [of |-> CountOn(journal, day),
                                               body |-> BuildReport(journal, day, Live(index))]]
  BY DEF WriteJson
<1> DEFINE n == CountOn(journal, day)
           body == BuildReport(journal, day, Live(index))
           file == [json |-> [of |-> n, body |-> body], md |-> files[day].md]
<1>1. /\ files' = [files EXCEPT ![day].json = [of |-> n, body |-> body]]
      /\ day' = day /\ journal' = journal /\ ~eng.reported /\ eng'.reported = eng.reported
  BY <1>0 DEF WriteJson, FilesInv, EngineType
<1>2. n \in Nat /\ body.own = DayPart(journal, day)
  BY OnDayFinite DEF BuildReport
<1>3. /\ day \in 1 .. MaxDay /\ day \in Nat
      /\ files = [d \in 1 .. MaxDay |-> [json |-> files[d].json, md |-> files[d].md]]
  BY EvaluationAssumption DEF FilesInv
<1> HIDE DEF n, body
<1>4. files' = [d \in 1 .. MaxDay |-> IF d = day THEN file ELSE files[d]]
  <2>1. files[day] = [json |-> files[day].json, md |-> files[day].md]
    BY <1>3
  <2>2. [files[day] EXCEPT !.json = [of |-> n, body |-> body]] = file
    BY <2>1
  <2> QED
    BY <1>1, <1>3, <2>2
<1>5. files'[day] = file /\ \A d \in 1 .. MaxDay \ {day} : files'[d] = files[d]
  BY <1>3, <1>4
<1>6. files' = [d \in 1 .. MaxDay |-> [json |-> files'[d].json, md |-> files'[d].md]]
  <2>1. ASSUME NEW d \in 1 .. MaxDay PROVE files'[d] = [json |-> files'[d].json, md |-> files'[d].md]
    <3>1. CASE d = day
      BY <1>5, <3>1
    <3>2. CASE d # day
      <4>1. files[d] = [json |-> files[d].json, md |-> files[d].md]
        BY <1>3
      <4> QED
        BY <1>5, <3>2, <4>1
    <3> QED
      BY <3>1, <3>2
  <2> QED
    BY <1>4, <2>1
<1>7. ASSUME NEW d \in 1 .. MaxDay PROVE ReportOk(d)'
  <2>1. CASE d = day
    <3>1. files'[d].json.of = n /\ files'[d].json.body = body
      BY <1>5, <2>1
    <3> QED
      BY <1>1, <1>2, <1>3, <2>1, <3>1 DEF ReportOk, n
  <2>2. CASE d # day
    <3>1. ReportOk(d) /\ files'[d] = files[d]
      BY <1>5, <2>2 DEF FilesInv
    <3> QED
      BY <1>1, <3>1 DEF ReportOk
  <2> QED
    BY <2>1, <2>2
<1> QED
  BY <1>1, <1>3, <1>6, <1>7 DEF FilesInv

LEMMA WriteMarkdownReports ==
    ASSUME LogOk(journal), FilesInv, Logs, Explained(journal), Explained(journal'),
           eng \in EngineType, WriteMarkdown
    PROVE  FilesInv'
<1> DEFINE file == [json |-> files[day].json, md |-> files[day].json]
<1>1. /\ files' = [files EXCEPT ![day].md = files[day].json]
      /\ day' = day /\ eng'.written
  BY DEF WriteMarkdown, EngineType
<1>2. /\ day \in 1 .. MaxDay
      /\ files = [d \in 1 .. MaxDay |-> [json |-> files[d].json, md |-> files[d].md]]
  BY DEF FilesInv
<1>3. files' = [d \in 1 .. MaxDay |-> IF d = day THEN file ELSE files[d]]
  <2>1. files[day] = [json |-> files[day].json, md |-> files[day].md]
    BY <1>2
  <2>2. [files[day] EXCEPT !.md = files[day].json] = file
    BY <2>1
  <2> QED
    BY <1>1, <1>2, <2>2
<1>4. /\ files'[day].md = files'[day].json
      /\ \A d \in 1 .. MaxDay : files'[d].json = files[d].json
  BY <1>2, <1>3
<1>5. files' = [d \in 1 .. MaxDay |-> [json |-> files'[d].json, md |-> files'[d].md]]
  <2>1. ASSUME NEW d \in 1 .. MaxDay PROVE files'[d] = [json |-> files'[d].json, md |-> files'[d].md]
    <3>1. CASE d = day
      BY <1>3, <3>1
    <3>2. CASE d # day
      <4>1. files[d] = [json |-> files[d].json, md |-> files[d].md] /\ files'[d] = files[d]
        BY <1>2, <1>3, <3>2
      <4> QED
        BY <4>1
    <3> QED
      BY <3>1, <3>2
  <2> QED
    BY <1>3, <2>1
<1>6. \A d \in 1 .. MaxDay : ReportOk(d)'
  BY <1>1, <1>4, ReportStays
<1> QED
  BY <1>1, <1>2, <1>4, <1>5, <1>6 DEF FilesInv

(* A new day has no report yet.                                            *)
LEMMA TickReports ==
    ASSUME eng \in EngineType, FilesInv, Tick
    PROVE  FilesInv'
<1>1. journal' = journal /\ files' = files /\ day \in 1 .. MaxDay /\ MaxDay \in Nat
  BY EvaluationAssumption DEF Tick, FilesInv
<1>2. CASE day' = day /\ eng' = eng
  BY <1>1, <1>2 DEF FilesInv, ReportOk
<1>3. CASE day < MaxDay /\ day' = day + 1 /\ eng' = [Starting EXCEPT !.up = eng.up]
  <2>1. day' \in 1 .. MaxDay /\ ~eng'.reported
    BY <1>1, <1>3 DEF Starting
  <2>2. ASSUME NEW d \in 1 .. MaxDay PROVE ReportOk(d)'
    <3>1. ReportOk(d) /\ (d > day' => d > day) /\ (d <= day' => d <= day \/ d > day)
      BY <1>1, <1>3 DEF FilesInv
    <3> QED
      BY <1>1, <1>3, <3>1 DEF ReportOk
  <2> QED
    BY <1>1, <2>1, <2>2 DEF FilesInv
<1> QED
  BY <1>2, <1>3 DEF Tick

-----------------------------------------------------------------------------
(* What is disposed of, traded and reviewed.                               *)
Same(e, f) == e.sig = f.sig /\ e.book = f.book

TradesInv ==
    /\ cycle \in Seq(Seq(Fired(journal) \X BookIds) \ {<<>>})
    /\ \A e \in Range(journal["SignalDisposition"]) : e.sig \in Fired(journal)
    /\ Explained(journal)
    /\ \A e, f \in Range(journal["TradeClosed"]) : Same(e, f) => e = f
    /\ \A i, j \in DOMAIN journal["TradeReview"] :
          Same(journal["TradeReview"][i], journal["TradeReview"][j]) => i = j

(* The trades a review has left have none, and each is there once.         *)
ReviewInv ==
    /\ Sequence(review)
    /\ \A i \in DOMAIN review : <<review[i].sig, review[i].book>> \notin Reviewed
    /\ \A i, j \in DOMAIN review : Same(review[i], review[j]) => i = j

TradeKinds == {"SignalDisposition", "TradeClosed", "TradeReview"}
Quiet(kinds) == \A k \in kinds : journal'[k] = journal[k]

(* Events of other kinds do not touch a kind.                              *)
LEMMA EmitQuiet ==
    ASSUME NEW lg, LogOk(lg), NEW es, NEW k \in EventKinds, \A e \in es : e.kind # k
    PROVE  Emit(lg, es)[k] = lg[k]
<1>1. OfKind(es, k) = {}
  BY DEF OfKind
<1>2. Emit(lg, es)[k] = lg[k] \o SetToSeq({})
  BY <1>1 DEF Emit, OfKind
<1>3. SetToSeq({}) \in Seq({}) /\ Len(SetToSeq({})) = 0
  BY FS_EmptySet, Listed
<1>4. SetToSeq({}) = <<>>
  BY <1>3, EmptySeq
<1> QED
  BY <1>2, <1>4, ConcatEmptySeq DEF LogOk, Sequence

(* A handler of the ledger touches the kinds of its events.                *)
LEMMA HandlerQuiet ==
    ASSUME LogOk(journal), FilesInv, NEW es, \A e \in es : e.kind \notin TradeKinds,
           NEW state, NEW engine, Handler(es, state, engine)
    PROVE  /\ Quiet(TradeKinds)
           /\ <<cycle', review'>> = <<cycle, review>> \/ <<cycle', review'>> = <<(<<>>), (<<>>)>>
           /\ eng' = engine \/ ~eng'.reported
           /\ NoFurther(engine) => NoFurther(eng')
<1>1. TradeKinds \subseteq EventKinds
  BY DEF TradeKinds, EventKinds
<1>2. PICK emitted \in SUBSET es : journal' = Emit(journal, emitted)
  BY DEF Handler
<1>3. \A e \in emitted : e.kind \notin TradeKinds
  OBVIOUS
<1>4. Quiet(TradeKinds)
  BY <1>1, <1>2, <1>3, EmitQuiet DEF Quiet
<1>5. ~[Starting EXCEPT !.up = FALSE].reported
  BY DEF Starting
<1>6. eng' = engine \/ ~eng'.reported
  BY <1>5 DEF Handler
<1> QED
  BY <1>4, <1>6 DEF Handler, NoFurther

LEMMA FiredStays ==
    ASSUME LogOk(journal), Logs
    PROVE  Fired(journal) \subseteq Fired(journal')
<1>1. Range(journal["SignalGenerated"]) \subseteq Range(journal'["SignalGenerated"])
  BY LogGrows DEF EventKinds
<1> QED
  BY <1>1 DEF Fired

LEMMA CycleStays ==
    ASSUME LogOk(journal), Logs, cycle \in Seq(Seq(Fired(journal) \X BookIds) \ {<<>>})
    PROVE  cycle \in Seq(Seq(Fired(journal') \X BookIds) \ {<<>>})
<1> DEFINE A == Fired(journal) \X BookIds
           B == Fired(journal') \X BookIds
<1>1. A \subseteq B
  BY FiredStays
<1> HIDE DEF A, B
<1>2. Seq(A) \ {<<>>} \subseteq Seq(B) \ {<<>>}
  BY <1>1, SeqMonotonic
<1>3. cycle \in Seq(Seq(A) \ {<<>>})
  BY DEF A
<1>4. cycle \in Seq(Seq(B) \ {<<>>})
  BY <1>2, <1>3, SeqMonotonic
<1> QED
  BY <1>4 DEF B

(* A step that neither disposes, nor closes, nor reviews.                  *)
LEMMA TradesQuiet ==
    ASSUME LogOk(journal), TradesInv, Logs, Quiet(TradeKinds), cycle' = cycle \/ cycle' = <<>>
    PROVE  TradesInv' /\ Reviewed' = Reviewed
<1>1. /\ journal'["SignalDisposition"] = journal["SignalDisposition"]
      /\ journal'["TradeClosed"] = journal["TradeClosed"]
      /\ journal'["TradeReview"] = journal["TradeReview"]
  BY DEF Quiet, TradeKinds
<1>3. cycle' \in Seq(Seq(Fired(journal') \X BookIds) \ {<<>>})
  BY CycleStays, EmptySeq DEF TradesInv
<1>4. Explained(journal')
  BY <1>1, FiredStays DEF TradesInv, Explained
<1>5. \A e \in Range(journal'["SignalDisposition"]) : e.sig \in Fired(journal')
  BY <1>1, FiredStays DEF TradesInv
<1>6. TradesInv'
  BY <1>1, <1>3, <1>4, <1>5 DEF TradesInv
<1>7. Reviewed' = Reviewed
  BY <1>1 DEF Reviewed
<1> QED
  BY <1>6, <1>7

LEMMA TradesStay ==
    ASSUME LogOk(journal), TradesInv, ReviewInv, Logs, Quiet(TradeKinds),
           <<cycle', review'>> = <<cycle, review>> \/ <<cycle', review'>> = <<(<<>>), (<<>>)>>
    PROVE  TradesInv' /\ ReviewInv'
<1>6. TradesInv' /\ Reviewed' = Reviewed
  <2>1. cycle' = cycle \/ cycle' = <<>>
    OBVIOUS
  <2> QED
    BY <2>1, TradesQuiet
<1>8. CASE review' = review
  BY <1>6, <1>8 DEF ReviewInv, Sequence, Range
<1>9. CASE review' = <<>>
  <2>1. Sequence(review') /\ DOMAIN review' = {}
    BY <1>9, EmptySeq DEF Sequence
  <2> QED
    BY <1>6, <2>1 DEF ReviewInv
<1> QED
  BY <1>8, <1>9

(* run_cycle: what a book disposes of has fired.                           *)
LEMMA RunCycleTrades ==
    ASSUME LogOk(journal), day \in 1 .. MaxDay, TradesInv, ReviewInv, RunCycle
    PROVE  TradesInv' /\ ReviewInv'
<1> DEFINE f == [s \in Fires |-> Ev("SignalGenerated", s, Nobody, "-")]
           es == {f[s] : s \in Fires}
           pairs(n) == {<<s, Books[n]>> : s \in Fires}
<1>0. /\ journal' = Emit(journal, es) /\ Fires # {} /\ review' = review
      /\ cycle' = [n \in DOMAIN Books |-> SetToSeq(pairs(n))]
  BY DEF RunCycle
<1>1. IsFiniteSet(Fires) /\ IsFiniteSet(es)
  <2>1. IsFiniteSet(Fires)
    BY EvaluationAssumption, FS_Subset DEF Fires
  <2> HIDE DEF f
  <2> QED
    BY <2>1, Mapped
<1>2. \A e \in es : e.kind = "SignalGenerated"
  BY DEF Ev
<1>3. TradeKinds \subseteq EventKinds /\ "SignalGenerated" \notin TradeKinds
      /\ "SignalGenerated" \in EventKinds
  BY DEF TradeKinds, EventKinds
<1>4. Fires \subseteq Fired(journal')
  <2> SUFFICES ASSUME NEW s \in Fires PROVE s \in Fired(journal')
    OBVIOUS
  <2>1. f[s] \in es /\ f[s].kind = "SignalGenerated" /\ f[s].sig = s /\ f[s].book = Nobody /\ f[s].day = day
    BY DEF Ev
  <2> HIDE DEF es, f
  <2>2. Range(journal'["SignalGenerated"]) = Range(journal["SignalGenerated"]) \cup OfKind(es, "SignalGenerated")
    <3>1. \A k \in EventKinds : Range(Emit(journal, es)[k]) = Range(journal[k]) \cup OfKind(es, k)
      BY <1>1, Emitted
    <3> QED
      BY <1>0, <1>3, <3>1
  <2>3. f[s] \in Range(journal'["SignalGenerated"])
    BY <2>1, <2>2 DEF OfKind
  <2> QED
    BY <2>1, <2>3 DEF Fired, AnyBook
<1> HIDE DEF es
<1>5. Logs
  BY RunCycleLogs
<1>6. Quiet(TradeKinds)
  BY <1>0, <1>2, <1>3, EmitQuiet DEF Quiet
<1> DEFINE C == Fired(journal') \X BookIds
<1>7. Len(Books) \in Nat /\ DOMAIN Books = 1 .. Len(Books)
  BY EvaluationAssumption, LenProperties
<1>8. ASSUME NEW n \in DOMAIN Books PROVE SetToSeq(pairs(n)) \in Seq(C) \ {<<>>}
  <2> DEFINE g == [s \in Fires |-> <<s, Books[n]>>]
  <2>1. pairs(n) = {g[s] : s \in Fires} /\ Books[n] \in BookIds
    BY DEF BookIds, Range
  <2>2. pairs(n) \subseteq C /\ pairs(n) # {}
    <3>1. \A s \in Fires : s \in Fired(journal')
      BY <1>4
    <3>2. \A s \in Fires : <<s, Books[n]>> \in C
      BY <2>1, <3>1
    <3>3. PICK s \in Fires : TRUE
      BY <1>0
    <3> QED
      BY <3>2, <3>3
  <2> HIDE DEF g
  <2>3. IsFiniteSet(pairs(n))
    BY <1>1, <2>1, Mapped
  <2> HIDE DEF pairs, C
  <2>4. SetToSeq(pairs(n)) \in Seq(pairs(n)) /\ Range(SetToSeq(pairs(n))) = pairs(n)
    BY <2>3, Listed
  <2>5. SetToSeq(pairs(n)) # <<>>
    BY <2>2, <2>4 DEF Range
  <2> QED
    BY <2>2, <2>4, <2>5, SeqMonotonic
<1> HIDE DEF C, pairs
<1>9. cycle' \in Seq(Seq(C) \ {<<>>})
  BY <1>0, <1>7, <1>8
<1>10. TradesInv' /\ ReviewInv'
  <2>1. /\ journal'["SignalDisposition"] = journal["SignalDisposition"]
        /\ journal'["TradeClosed"] = journal["TradeClosed"]
        /\ journal'["TradeReview"] = journal["TradeReview"]
    BY <1>6 DEF Quiet, TradeKinds
  <2>2. Explained(journal') /\ \A e \in Range(journal'["SignalDisposition"]) : e.sig \in Fired(journal')
    BY <1>5, <2>1, FiredStays DEF TradesInv, Explained
  <2>3. Reviewed' = Reviewed
    BY <2>1 DEF Reviewed
  <2>4. TradesInv'
    BY <1>9, <2>1, <2>2 DEF TradesInv, C
  <2> QED
    BY <1>0, <2>3, <2>4 DEF ReviewInv, Sequence, Range
<1> QED
  BY <1>10

(* Events of which one is of a kind.                                       *)
LEMMA EmitKind ==
    ASSUME LogOk(journal), NEW k \in EventKinds, NEW all, NEW e, OfKind(all, k) = {e},
           journal' = Emit(journal, all)
    PROVE  /\ Range(journal'[k]) = Range(journal[k]) \cup {e}
           /\ \A i \in DOMAIN journal[k] : i \in DOMAIN journal'[k] /\ journal'[k][i] = journal[k][i]
           /\ \A i \in DOMAIN journal'[k] \ DOMAIN journal[k] :
                 i = Len(journal[k]) + 1 /\ journal'[k][i] = e
<1> DEFINE es == {e}
<1>2. IsFiniteSet(es) /\ Cardinality(es) = 1 /\ OfKind(all, k) = es
  BY FS_Singleton
<1>4. journal'[k] = journal[k] \o SetToSeq(es)
  BY <1>2 DEF Emit, OfKind
<1> HIDE DEF es
<1>5. SetToSeq(es) \in Seq(es) /\ Len(SetToSeq(es)) = 1 /\ Range(SetToSeq(es)) = es
  BY <1>2, Listed
<1> DEFINE t == SetToSeq(es)
           q == journal[k]
<1>6. Sequence(t) /\ Sequence(q) /\ DOMAIN t = 1 .. 1
  BY <1>5, SequenceIs, LenProperties DEF LogOk
<1> HIDE DEF t, q
<1>7. /\ Range(q \o t) = Range(q) \cup Range(t)
      /\ Len(q) \in Nat /\ DOMAIN q = 1 .. Len(q)
      /\ Len(t) \in Nat /\ DOMAIN (q \o t) = 1 .. (Len(q) + Len(t))
      /\ \A i \in 1 .. Len(q) : (q \o t)[i] = q[i]
      /\ \A i \in 1 .. Len(t) : (q \o t)[Len(q) + i] = t[i]
  BY <1>6, Joined
<1>8. Len(t) = 1 /\ t[1] = e
  <2>1. t[1] \in Range(t)
    BY <1>6 DEF Range
  <2> QED
    BY <1>5, <2>1 DEF t, es
<1>9. journal'[k] = q \o t /\ Range(t) = es
  BY <1>4, <1>5 DEF t, q
<1>10. \A i \in DOMAIN (q \o t) \ DOMAIN q : i = Len(q) + 1 /\ (q \o t)[i] = e
  BY <1>7, <1>8
<1>11. \A i \in DOMAIN q : i \in DOMAIN (q \o t) /\ (q \o t)[i] = q[i]
  BY <1>7
<1> QED
  BY <1>7, <1>9, <1>10, <1>11 DEF q, es

(* One event of a kind.                                                    *)
LEMMA EmitOne ==
    ASSUME LogOk(journal), NEW k \in EventKinds, NEW s, NEW b, NEW v,
           journal' = Emit(journal, {Ev(k, s, b, v)})
    PROVE  /\ Range(journal'[k]) = Range(journal[k]) \cup {Ev(k, s, b, v)}
           /\ \A o \in EventKinds \ {k} : journal'[o] = journal[o]
<1> DEFINE e == Ev(k, s, b, v)
           es == {e}
<1>1. e.kind = k
  BY DEF Ev
<1> HIDE DEF e
<1>2. OfKind(es, k) = {e} /\ journal' = Emit(journal, es)
  BY <1>1 DEF OfKind, e
<1>3. \A o \in EventKinds \ {k} : journal'[o] = journal[o]
  BY <1>1, <1>2, EmitQuiet
<1>4. Range(journal'[k]) = Range(journal[k]) \cup {e}
  BY <1>2, EmitKind
<1> QED
  BY <1>3, <1>4 DEF e

LEMMA DisposeTrades ==
    ASSUME LogOk(journal), TradesInv, ReviewInv, NEW how, Dispose(how)
    PROVE  TradesInv' /\ ReviewInv'
<1> DEFINE D == "SignalDisposition"
           first == Head(cycle)
           next == Head(first)
           rest == Tail(first)
           A == Fired(journal) \X BookIds
           B == Fired(journal') \X BookIds
<1>0. /\ cycle # <<>> /\ journal' = Emit(journal, {Ev(D, next[1], next[2], how)})
      /\ cycle' = IF rest = <<>> THEN Tail(cycle) ELSE <<rest>> \o Tail(cycle)
      /\ review' = review
  BY DEF Dispose
<1>1. D \in EventKinds /\ {"SignalGenerated", "TradeClosed", "TradeReview"} \subseteq EventKinds \ {D}
  BY DEF EventKinds
<1>2. cycle \in Seq(Seq(A) \ {<<>>})
  BY DEF TradesInv
<1> HIDE DEF next, rest, first, A, B
<1>3. first \in Seq(A) \ {<<>>} /\ Tail(cycle) \in Seq(Seq(A) \ {<<>>})
  <2> DEFINE C == Seq(A) \ {<<>>}
  <2>1. cycle \in Seq(C) /\ cycle # <<>>
    BY <1>0, <1>2
  <2> HIDE DEF C
  <2>2. Head(cycle) \in C /\ Tail(cycle) \in Seq(C)
    BY <2>1, HeadTailProperties
  <2> QED
    BY <2>2 DEF C, first
<1>4. next \in A /\ rest \in Seq(A)
  BY <1>3, HeadTailProperties DEF next, rest
<1>5. /\ Range(journal'[D]) = Range(journal[D]) \cup {Ev(D, next[1], next[2], how)}
      /\ \A o \in EventKinds \ {D} : journal'[o] = journal[o]
  BY <1>0, <1>1, EmitOne
<1>6. /\ journal'["SignalGenerated"] = journal["SignalGenerated"]
      /\ journal'["TradeClosed"] = journal["TradeClosed"]
      /\ journal'["TradeReview"] = journal["TradeReview"]
  BY <1>1, <1>5
<1>7. Fired(journal') = Fired(journal) /\ A = B
  BY <1>6 DEF Fired, A, B
<1>8. cycle' \in Seq(Seq(B) \ {<<>>})
  <2>1. CASE rest = <<>>
    BY <1>0, <1>3, <1>7, <2>1
  <2>2. CASE rest # <<>>
    <3>1. <<rest>> \in Seq(Seq(A) \ {<<>>})
      BY <1>4, <2>2
    <3>2. <<rest>> \o Tail(cycle) \in Seq(Seq(A) \ {<<>>})
      BY <1>3, <3>1, ConcatProperties
    <3> QED
      BY <1>0, <1>7, <2>2, <3>2
  <2> QED
    BY <2>1, <2>2
<1>9. \A e \in Range(journal'[D]) : e.sig \in Fired(journal')
  <2>1. Ev(D, next[1], next[2], how).sig \in Fired(journal)
    BY <1>4 DEF A, Ev
  <2> QED
    BY <1>5, <1>7, <2>1 DEF TradesInv
<1>10. TradesInv'
  BY <1>6, <1>7, <1>8, <1>9 DEF TradesInv, Explained, B
<1>11. Reviewed' = Reviewed
  BY <1>6 DEF Reviewed
<1> QED
  BY <1>0, <1>10, <1>11 DEF ReviewInv, Sequence, Range

(* A trade is closed once, and on a signal that fired.                     *)
LEMMA CloseTrades ==
    ASSUME LogOk(journal), TradesInv, ReviewInv, NEW s, NEW b, CloseTrade(s, b)
    PROVE  TradesInv' /\ ReviewInv'
<1> DEFINE T == "TradeClosed"
           e == Ev(T, s, b, "-")
<1>0. /\ journal' = Emit(journal, {Ev(T, s, b, "-")}) /\ cycle' = cycle /\ review' = review
      /\ ~\E c \in Range(journal[T]) : c.sig = s /\ c.book = b
  BY DEF CloseTrade
<1>1. s \in Fired(journal)
  BY DEF CloseTrade, TradesInv
<1>2. T \in EventKinds /\ {"SignalGenerated", "SignalDisposition", "TradeReview"} \subseteq EventKinds \ {T}
  BY DEF EventKinds
<1>3. /\ Range(journal'[T]) = Range(journal[T]) \cup {Ev(T, s, b, "-")}
      /\ \A o \in EventKinds \ {T} : journal'[o] = journal[o]
  BY <1>0, <1>2, EmitOne
<1>4. /\ journal'["SignalGenerated"] = journal["SignalGenerated"]
      /\ journal'["SignalDisposition"] = journal["SignalDisposition"]
      /\ journal'["TradeReview"] = journal["TradeReview"]
  BY <1>2, <1>3
<1>5. Fired(journal') = Fired(journal)
  BY <1>4 DEF Fired
<1>6. e.sig = s /\ e.book = b
  BY DEF Ev
<1> HIDE DEF e
<1>7. Range(journal'[T]) = Range(journal[T]) \cup {e}
  BY <1>3 DEF e
<1>8. Explained(journal')
  BY <1>1, <1>5, <1>6, <1>7 DEF TradesInv, Explained
<1>9. ASSUME NEW c \in Range(journal'[T]), NEW f \in Range(journal'[T]), Same(c, f) PROVE c = f
  <2>1. /\ c \in Range(journal[T]) \/ c = e
        /\ f \in Range(journal[T]) \/ f = e
        /\ c.sig = f.sig /\ c.book = f.book
    BY <1>7, <1>9 DEF Same
  <2>2. CASE c \in Range(journal[T]) /\ f \in Range(journal[T])
    BY <1>9, <2>2 DEF TradesInv
  <2> QED
    BY <1>0, <1>6, <2>1, <2>2
<1>10. TradesInv'
  BY <1>0, <1>4, <1>5, <1>8, <1>9 DEF TradesInv
<1>11. Reviewed' = Reviewed
  BY <1>4 DEF Reviewed
<1> QED
  BY <1>0, <1>10, <1>11 DEF ReviewInv, Sequence, Range

(* review_day: the day's closed trades that have no review.                *)
LEMMA ToReviewLists ==
    ASSUME LogOk(journal), TradesInv, ReviewInv, Logs, WriteMarkdown
    PROVE  TradesInv' /\ ReviewInv'
<1> DEFINE S == {e \in Range(journal["TradeClosed"]) : e.day = day /\ <<e.sig, e.book>> \notin Reviewed}
           q == SetToSeq(S)
<1>0. /\ journal' = Emit(journal, {Ev("Alert", Nobody, Nobody, "daily_report")})
      /\ cycle' = cycle /\ review' = q
  BY DEF WriteMarkdown, ToReview
<1>1. IsFiniteSet(S)
  <2> DEFINE t == journal["TradeClosed"]
  <2>0. "TradeClosed" \in EventKinds /\ \A k \in EventKinds : Sequence(journal[k])
    BY DEF EventKinds, LogOk
  <2>1. Len(t) \in Nat /\ DOMAIN t = 1 .. Len(t)
    BY <2>0, LenProperties DEF Sequence
  <2> HIDE DEF t
  <2>2. IsFiniteSet(1 .. Len(t))
    BY <2>1, FS_Interval
  <2>3. IsFiniteSet({t[i] : i \in 1 .. Len(t)})
    BY <2>2, Mapped
  <2>4. S \subseteq {t[i] : i \in 1 .. Len(t)}
    BY <2>1 DEF Range, t
  <2> QED
    BY <2>3, <2>4, FS_Subset
<1>2. \A e \in S : e \in Range(journal["TradeClosed"]) /\ <<e.sig, e.book>> \notin Reviewed
  OBVIOUS
<1> HIDE DEF S
<1>3. /\ q \in Seq(S) /\ Len(q) = Cardinality(S)
      /\ \A i, j \in 1 .. Cardinality(S) : q[i] = q[j] => i = j
  BY <1>1, Listed
<1> HIDE DEF q
<1>4. DOMAIN q = 1 .. Cardinality(S) /\ \A i \in DOMAIN q : q[i] \in S
  BY <1>3, LenProperties, ElementOfSeq
<1>5. \A i, j \in DOMAIN q : Same(q[i], q[j]) => i = j
  BY <1>2, <1>3, <1>4 DEF TradesInv
<1>6. Sequence(q)
  BY <1>3, SequenceIs
<1>7. TradesInv' /\ Reviewed' = Reviewed
  <2>1. "Alert" \in EventKinds /\ TradeKinds \subseteq EventKinds \ {"Alert"}
    BY DEF EventKinds, TradeKinds
  <2>2. \A o \in EventKinds \ {"Alert"} : journal'[o] = journal[o]
    BY <1>0, <2>1, EmitOne
  <2>3. Quiet(TradeKinds)
    BY <2>1, <2>2 DEF Quiet
  <2> QED
    BY <1>0, <2>3, TradesQuiet
<1>8. ReviewInv'
  BY <1>0, <1>2, <1>4, <1>5, <1>6, <1>7 DEF ReviewInv, Sequence, Range
<1> QED
  BY <1>7, <1>8

(* What a review has left, after its first trade.                          *)
LEMMA ReviewLeft ==
    ASSUME ReviewInv, review # <<>>
    PROVE  /\ 1 \in DOMAIN review /\ Sequence(Tail(review))
           /\ \A i \in DOMAIN Tail(review) :
                 i \in Nat /\ i + 1 \in DOMAIN review \ {1} /\ Tail(review)[i] = review[i + 1]
<1>1. review \in Seq(Range(review))
  BY DEF ReviewInv, Sequence
<1>2. Len(review) \in Nat \ {0} /\ DOMAIN review = 1 .. Len(review)
  BY <1>1, EmptySeq, LenProperties
<1>3. /\ Tail(review) \in Seq(Range(review)) /\ Len(Tail(review)) = Len(review) - 1
      /\ \A i \in 1 .. Len(Tail(review)) : Tail(review)[i] = review[i + 1]
  BY <1>1, HeadTailProperties
<1>4. DOMAIN Tail(review) = 1 .. (Len(review) - 1) /\ Sequence(Tail(review))
  BY <1>3, LenProperties, SequenceIs
<1>5. \A i \in DOMAIN Tail(review) : i \in Nat /\ i + 1 \in DOMAIN review \ {1}
  BY <1>2, <1>4
<1> QED
  BY <1>2, <1>3, <1>4, <1>5

LEMMA ReviewTrades ==
    ASSUME LogOk(journal), TradesInv, ReviewInv, NEW ok \in BOOLEAN, ReviewTrade(ok)
    PROVE  TradesInv' /\ ReviewInv'
<1> DEFINE V == "TradeReview"
           r == review[1]
           e == Ev(V, r.sig, r.book, "-")
<1>0. review # <<>> /\ review' = Tail(review) /\ cycle' = cycle
  BY DEF ReviewTrade
<1>1. /\ 1 \in DOMAIN review /\ Sequence(review')
      /\ \A i \in DOMAIN review' :
            i \in Nat /\ i + 1 \in DOMAIN review \ {1} /\ review'[i] = review[i + 1]
  BY <1>0, ReviewLeft
<1>2. \A i, j \in DOMAIN review' : Same(review'[i], review'[j]) => i = j
  <2> SUFFICES ASSUME NEW i \in DOMAIN review', NEW j \in DOMAIN review', Same(review'[i], review'[j])
               PROVE  i = j
    OBVIOUS
  <2>1. i + 1 = j + 1
    BY <1>1 DEF ReviewInv
  <2> QED
    BY <1>1, <2>1
<1>3. \A i \in DOMAIN review' : <<review'[i].sig, review'[i].book>> \notin Reviewed
  BY <1>1 DEF ReviewInv
<1>4. \A i \in DOMAIN review' : <<review'[i].sig, review'[i].book>> # <<r.sig, r.book>>
  <2> SUFFICES ASSUME NEW i \in DOMAIN review', <<review'[i].sig, review'[i].book>> = <<r.sig, r.book>>
               PROVE  FALSE
    OBVIOUS
  <2>1. Same(review[i + 1], review[1])
    BY <1>1 DEF Same
  <2> QED
    BY <1>1, <2>1 DEF ReviewInv
<1> DEFINE es == ReviewEvents(review[1], ok)
<1>a. journal' = Emit(journal, es) /\ Logs
  BY ReviewEventsAre DEF ReviewTrade, ReviewEvents, Logs
<1>b. /\ \A x \in es : x.kind \in {"LLMCall", V}
      /\ OfKind(es, V) = IF ok THEN {Ev(V, r.sig, r.book, "-")} ELSE {}
  BY ReviewEventsAre
<1>c. /\ V \in EventKinds
      /\ {"SignalGenerated", "SignalDisposition", "TradeClosed"} \subseteq EventKinds \ {V, "LLMCall"}
  BY DEF EventKinds
<1> HIDE DEF es
<1>d. \A o \in EventKinds \ {V, "LLMCall"} : journal'[o] = journal[o]
  BY <1>a, <1>b, EmitQuiet
<1>5. CASE ~ok
  <2>1. \A x \in es : x.kind # V
    BY <1>b, <1>5 DEF OfKind
  <2>2. journal'[V] = journal[V]
    BY <1>a, <1>c, <2>1, EmitQuiet
  <2>3. Quiet(TradeKinds)
    BY <1>c, <1>d, <2>2 DEF Quiet, TradeKinds
  <2>4. TradesInv' /\ Reviewed' = Reviewed
    BY <1>0, <1>a, <2>3, TradesQuiet
  <2> QED
    BY <1>1, <1>2, <1>3, <2>4 DEF ReviewInv, Sequence, Range
<1>6. CASE ok
  <2>1. OfKind(es, V) = {Ev(V, r.sig, r.book, "-")}
    BY <1>b, <1>6
  <2> HIDE DEF r
  <2>3. /\ Range(journal'[V]) = Range(journal[V]) \cup {Ev(V, r.sig, r.book, "-")}
        /\ \A i \in DOMAIN journal[V] : i \in DOMAIN journal'[V] /\ journal'[V][i] = journal[V][i]
        /\ \A i \in DOMAIN journal'[V] \ DOMAIN journal[V] :
              i = Len(journal[V]) + 1 /\ journal'[V][i] = Ev(V, r.sig, r.book, "-")
    BY <1>a, <1>c, <2>1, EmitKind
  <2>4. /\ journal'["SignalGenerated"] = journal["SignalGenerated"]
        /\ journal'["SignalDisposition"] = journal["SignalDisposition"]
        /\ journal'["TradeClosed"] = journal["TradeClosed"]
    BY <1>c, <1>d
  <2>5. e.sig = r.sig /\ e.book = r.book
    BY DEF Ev
  <2>6. /\ Range(journal'[V]) = Range(journal[V]) \cup {e}
        /\ \A i \in DOMAIN journal'[V] \ DOMAIN journal[V] : i = Len(journal[V]) + 1 /\ journal'[V][i] = e
    BY <2>3
  <2> HIDE DEF e
  <2>7. <<r.sig, r.book>> \notin Reviewed
    BY <1>1 DEF ReviewInv, r
  <2>8. \A i \in DOMAIN journal[V] : ~Same(journal[V][i], e)
    <3> SUFFICES ASSUME NEW i \in DOMAIN journal[V], Same(journal[V][i], e) PROVE FALSE
      OBVIOUS
    <3>1. journal[V][i] \in Range(journal[V])
      BY DEF Range
    <3>2. <<journal[V][i].sig, journal[V][i].book>> \in Reviewed
      BY <3>1 DEF Reviewed
    <3> QED
      BY <2>5, <2>7, <3>2 DEF Same
  <2>9. ASSUME NEW i \in DOMAIN journal'[V], NEW j \in DOMAIN journal'[V],
               Same(journal'[V][i], journal'[V][j])
        PROVE  i = j
    <3>1. CASE i \in DOMAIN journal[V] /\ j \in DOMAIN journal[V]
      BY <2>3, <2>9, <3>1 DEF TradesInv
    <3>2. CASE i \in DOMAIN journal[V] /\ j \notin DOMAIN journal[V]
      BY <2>3, <2>6, <2>8, <2>9, <3>2
    <3>3. CASE i \notin DOMAIN journal[V] /\ j \in DOMAIN journal[V]
      <4>1. Same(journal[V][j], e)
        BY <2>3, <2>6, <2>9, <3>3 DEF Same
      <4> QED
        BY <2>8, <3>3, <4>1
    <3>4. CASE i \notin DOMAIN journal[V] /\ j \notin DOMAIN journal[V]
      BY <2>6, <3>4
    <3> QED
      BY <3>1, <3>2, <3>3, <3>4
  <2>10. Fired(journal') = Fired(journal)
    BY <2>4 DEF Fired
  <2>11. TradesInv'
    BY <1>0, <2>4, <2>9, <2>10 DEF TradesInv, Explained
  <2>12. Reviewed' = Reviewed \cup {<<r.sig, r.book>>}
    BY <2>5, <2>6 DEF Reviewed
  <2>13. \A i \in DOMAIN review' : <<review'[i].sig, review'[i].book>> \notin Reviewed'
    BY <1>3, <1>4, <2>12 DEF r
  <2> QED
    BY <1>1, <1>2, <2>11, <2>13 DEF ReviewInv, Sequence, Range
<1> QED
  BY <1>5, <1>6

-----------------------------------------------------------------------------
(* A day's report can be generated again.                                  *)
RegenInv == FollowInv /\ FilesInv /\ TradesInv /\ ReviewInv

LEMMA RegenInit ==
    EvaluationInit => RegenInv
<1> SUFFICES ASSUME EvaluationInit PROVE RegenInv
  OBVIOUS
<1> DEFINE none == [k \in EventKinds |-> <<>>]
           es == {Ev("ProcessStarted", Nobody, Nobody, "-")}
<1>1. FollowInv /\ LogOk(journal)
  BY FollowInit DEF FollowInv
<1>2. /\ day = 1 /\ cycle = <<>> /\ review = <<>> /\ journal = Emit(none, es) /\ ~eng.reported
      /\ files = [d \in 1 .. MaxDay |-> [json |-> NoReport, md |-> NoReport]]
  BY DEF EvaluationInit, Starting
<1>3. LogOk(none) /\ \A e \in es : e.kind = "ProcessStarted"
  <2>1. Sequence(<<>>)
    BY EmptySeq DEF Sequence
  <2> QED
    BY <2>1 DEF LogOk, Ev
<1> HIDE DEF es
<1>4. /\ journal["SignalDisposition"] = <<>> /\ journal["TradeClosed"] = <<>>
      /\ journal["TradeReview"] = <<>>
  <2>1. \A k \in TradeKinds : k \in EventKinds /\ k # "ProcessStarted" /\ none[k] = <<>>
    BY DEF TradeKinds, EventKinds
  <2> HIDE DEF none
  <2>2. \A k \in TradeKinds : journal[k] = none[k]
    BY <1>2, <1>3, <2>1, EmitQuiet
  <2> QED
    BY <2>1, <2>2 DEF TradeKinds
<1>5. DOMAIN <<>> = {} /\ Range(<<>>) = {} /\ Sequence(<<>>)
  BY EmptySeq DEF Range, Sequence
<1>6. cycle \in Seq(Seq(Fired(journal) \X BookIds) \ {<<>>})
  BY <1>2, EmptySeq
<1>7. TradesInv /\ ReviewInv
  BY <1>2, <1>4, <1>5, <1>6 DEF TradesInv, ReviewInv, Explained
<1>8. FilesInv
  <2>1. day \in 1 .. MaxDay
    BY <1>2, EvaluationAssumption
  <2>2. \A d \in 1 .. MaxDay : files[d] = [json |-> NoReport, md |-> NoReport]
    BY <1>2
  <2>3. ASSUME NEW d \in 1 .. MaxDay PROVE ReportOk(d)
    <3>1. files[d].json.of = 0 /\ CountOn(journal, d) \in Nat
      BY <1>1, <2>2, OnDayFinite DEF NoReport
    <3> QED
      BY <3>1 DEF ReportOk
  <2>4. files = [d \in 1 .. MaxDay |-> [json |-> files[d].json, md |-> files[d].md]]
    BY <1>2
  <2> QED
    BY <1>2, <2>1, <2>3, <2>4 DEF FilesInv
<1> QED
  BY <1>1, <1>7, <1>8 DEF RegenInv

(* A handler of the ledger.                                                *)
LEMMA HandlerRegens ==
    ASSUME RegenInv, FollowInv', Logs, NEW es, \A e \in es : e.kind \notin TradeKinds,
           NEW state, NEW engine, Handler(es, state, engine), NoFurther(engine),
           UNCHANGED <<day, files>>
    PROVE  RegenInv'
<1>1. LogOk(journal) /\ TradesInv /\ ReviewInv /\ FilesInv
  BY DEF RegenInv, FollowInv
<1>2. /\ Quiet(TradeKinds)
      /\ <<cycle', review'>> = <<cycle, review>> \/ <<cycle', review'>> = <<(<<>>), (<<>>)>>
      /\ NoFurther(eng')
  BY <1>1, HandlerQuiet
<1>3. TradesInv' /\ ReviewInv'
  BY <1>1, <1>2, TradesStay
<1>4. FilesInv'
  BY <1>1, <1>2, <1>3, ReportsStay DEF TradesInv
<1> QED
  BY <1>3, <1>4 DEF RegenInv

(* A step that leaves the trades and the reports alone.                    *)
LEMMA RegenStays ==
    ASSUME RegenInv, FollowInv', Logs, Quiet(TradeKinds), NoFurther(eng'),
           <<cycle', review'>> = <<cycle, review>> \/ <<cycle', review'>> = <<(<<>>), (<<>>)>>,
           UNCHANGED <<day, files>>
    PROVE  RegenInv'
<1>1. LogOk(journal) /\ TradesInv /\ ReviewInv /\ FilesInv
  BY DEF RegenInv, FollowInv
<1>2. TradesInv' /\ ReviewInv'
  BY <1>1, TradesStay
<1>3. FilesInv'
  BY <1>1, <1>2, ReportsStay DEF TradesInv
<1> QED
  BY <1>2, <1>3 DEF RegenInv

LEMMA RegenNext ==
    ASSUME RegenInv, [EvaluationNext]_evaluationVars
    PROVE  RegenInv'
<1>0. /\ FollowInv' /\ Logs /\ LogOk(journal) /\ eng \in EngineType /\ day \in 1 .. MaxDay
      /\ FollowInv /\ TradesInv /\ ReviewInv /\ FilesInv
  BY FollowNext DEF RegenInv, FollowInv, FilesInv
<1>b. NoFurther(eng)
  BY <1>0 DEF NoFurther, FilesInv
<1>a. ASSUME TradesInv', ReviewInv', UNCHANGED <<day, files>>, NoFurther(eng')
      PROVE  RegenInv'
  BY <1>0, <1>a, ReportsStay DEF RegenInv, TradesInv
<1>1. ASSUME NEW known \in BOOLEAN, PreOpen(known) PROVE RegenInv'
  <2> DEFINE settled == {x \in ledger.settling : known /\ x.exit < day}
             es == {Ev("ShadowAlphaSettled", x.sig, Nobody, "-") : x \in settled}
             state == [ledger EXCEPT !.settling = Remains(@, known)]
             engine == [eng EXCEPT !.pre = TRUE]
  <2>1. Handler(es, state, engine) /\ UNCHANGED <<day, files>>
    BY <1>1 DEF PreOpen
  <2>2. \A e \in es : e.kind = "ShadowAlphaSettled"
    BY DEF Ev
  <2>3. NoFurther(engine)
    BY <1>0, <1>b DEF EngineType, NoFurther
  <2> HIDE DEF es, state, engine
  <2>4. \A e \in es : e.kind \notin TradeKinds
    BY <2>2 DEF TradeKinds
  <2> QED
    BY <1>0, <2>1, <2>3, <2>4, HandlerRegens
<1>2. CASE SessionStart
  <2>1. NoFurther(eng')
    BY <1>0, <1>b, <1>2 DEF SessionStart, EngineType, NoFurther
  <2> QED
    BY <1>0, <1>2, <2>1, RegenStays DEF SessionStart, Quiet
<1>3. ASSUME NEW s \in Signals, NEW p, OnQuote(s, p) PROVE RegenInv'
  <2> DEFINE waiting == {s} \cap ledger.pending
             entering == IF p = "dear" THEN {} ELSE waiting
             closing == {t \in ledger.open : t.sig = s /\ ClosesAt(t, p)}
             es == {Ev("ShadowTradeOpened", x, Nobody, "-") : x \in entering}
                     \cup {Ev("ShadowTradeClosed", t.sig, Nobody, Outcome(p)) : t \in closing}
  <2>1. \E state : Handler(es, state, eng) /\ UNCHANGED <<day, files>>
    BY <1>3 DEF OnQuote
  <2>2. \A e \in es : e.kind = "ShadowTradeOpened" \/ e.kind = "ShadowTradeClosed"
    BY DEF Ev
  <2> HIDE DEF es
  <2>3. \A e \in es : e.kind \notin TradeKinds
    BY <2>2 DEF TradeKinds
  <2> QED
    BY <1>b, <1>0, <2>1, <2>3, HandlerRegens
<1>4. CASE Track
  <2>1. \E state : Handler({}, state, eng) /\ UNCHANGED <<day, files>>
    BY <1>4 DEF Track
  <2> QED
    BY <1>b, <1>0, <2>1, HandlerRegens
<1>5. CASE RunCycle
  BY <1>0, <1>b, <1>5, <1>a, RunCycleTrades DEF RunCycle
<1>6. ASSUME NEW how, Dispose(how) PROVE RegenInv'
  <2>1. TradesInv' /\ ReviewInv'
    BY <1>0, <1>6, DisposeTrades
  <2> DEFINE c == (cycle' = <<>>)
  <2>2. c \in BOOLEAN /\ eng' = [eng EXCEPT !.cycled = c] /\ UNCHANGED <<day, files>>
    BY <1>6 DEF Dispose
  <2> HIDE DEF c
  <2>3. NoFurther(eng')
    BY <1>0, <1>b, <2>2 DEF EngineType, NoFurther
  <2> QED
    BY <2>1, <2>2, <2>3, <1>a
<1>7. ASSUME NEW s, NEW b, CloseTrade(s, b) PROVE RegenInv'
  <2>1. TradesInv' /\ ReviewInv'
    BY <1>0, <1>7, CloseTrades
  <2> QED
    BY <1>7, <1>b, <2>1, <1>a DEF CloseTrade
<1>8. CASE MarkBooks
  <2> DEFINE es == {Ev("MarkToMarket", Nobody, b, Equity(b)) : b \in BookIds}
  <2>1. journal' = Emit(journal, es) /\ \A e \in es : e.kind = "MarkToMarket"
    BY <1>8 DEF MarkBooks, Ev
  <2> HIDE DEF es
  <2>2. \A k \in TradeKinds : k \in EventKinds /\ k # "MarkToMarket"
    BY DEF TradeKinds, EventKinds
  <2>3. Quiet(TradeKinds)
    BY <1>0, <2>1, <2>2, EmitQuiet DEF Quiet
  <2>4. NoFurther(eng')
    BY <1>0, <1>b, <1>8 DEF MarkBooks, EngineType, NoFurther
  <2> QED
    BY <1>0, <1>8, <2>3, <2>4, RegenStays DEF MarkBooks
<1>9. CASE WriteJson
  <2>1. FilesInv'
    BY <1>0, <1>9, WriteJsonReports
  <2>2. TradesInv' /\ ReviewInv'
    BY <1>0, <1>9, TradesStay DEF WriteJson, Quiet
  <2> QED
    BY <1>0, <2>1, <2>2 DEF RegenInv
<1>10. CASE WriteMarkdown
  <2>2. TradesInv' /\ ReviewInv'
    BY <1>0, <1>10, ToReviewLists
  <2>1. FilesInv'
    BY <1>0, <1>10, <2>2, WriteMarkdownReports DEF TradesInv
  <2> QED
    BY <1>0, <2>1, <2>2 DEF RegenInv
<1>11. ASSUME NEW ok \in BOOLEAN, ReviewTrade(ok) PROVE RegenInv'
  <2>1. TradesInv' /\ ReviewInv'
    BY <1>0, <1>11, ReviewTrades
  <2> QED
    BY <1>11, <1>b, <2>1, <1>a DEF ReviewTrade
<1>12. CASE Tick
  <2>1. FilesInv'
    BY <1>0, <1>12, TickReports
  <2>2. TradesInv' /\ ReviewInv'
    BY <1>0, <1>12, TradesStay DEF Tick, Quiet
  <2> QED
    BY <1>0, <2>1, <2>2 DEF RegenInv
<1>13. CASE Crash
  <2>1. NoFurther(eng')
    BY <1>13 DEF Crash, Starting, NoFurther
  <2> QED
    BY <1>0, <1>13, <2>1, RegenStays DEF Crash, Quiet
<1>14. CASE Restart
  <2>1. NoFurther(eng')
    BY <1>14 DEF Restart, Starting, NoFurther
  <2> DEFINE es == {Ev("ProcessStarted", Nobody, Nobody, "-")}
  <2>2. journal' = Emit(journal, es) /\ \A e \in es : e.kind = "ProcessStarted"
    BY <1>14 DEF Restart, Ev
  <2> HIDE DEF es
  <2>3. \A k \in TradeKinds : k \in EventKinds /\ k # "ProcessStarted"
    BY DEF TradeKinds, EventKinds
  <2>4. Quiet(TradeKinds)
    BY <1>0, <2>2, <2>3, EmitQuiet DEF Quiet
  <2> QED
    BY <1>0, <1>14, <2>1, <2>4, RegenStays DEF Restart
<1>15. CASE UNCHANGED evaluationVars
  BY <1>0, <1>b, <1>15, RegenStays DEF evaluationVars, Quiet
<1>16. ASSUME NEW n, StartDay(n) PROVE RegenInv'
  <2> DEFINE es == RollEvents(Books[n])
  <2>1. Handler(es, ledger, eng) /\ UNCHANGED <<day, files>>
    BY <1>16 DEF StartDay, RollEvents
  <2>2. \A e \in es : e.kind \notin TradeKinds
    BY RollEventsIs DEF TradeKinds, RollKind
  <2> HIDE DEF es
  <2> QED
    BY <1>0, <1>b, <2>1, <2>2, HandlerRegens
<1>17. ASSUME NEW b, RiskTick(b) PROVE RegenInv'
  BY <1>0, <1>b, <1>17, RegenStays DEF RiskTick, Quiet
<1> QED
  BY <1>1, <1>2, <1>3, <1>4, <1>5, <1>6, <1>7, <1>8, <1>9, <1>10, <1>11, <1>12, <1>13, <1>14,
     <1>15, <1>16, <1>17 DEF EvaluationNext

-----------------------------------------------------------------------------
(* The intraday low of a report is that of the state which the next        *)
(* session rolls.                                                          *)
RiskType == [BookIds -> [date : Nat, low : Nat]]
AllStarted == \A b \in BookIds : risk[b].date = day
LowsTold(json, d) ==
    json.of # 0 =>
        \A b \in BookIds :
            /\ risk[b].date = d => json.body.low[b] = risk[b].low
            /\ \A e \in Range(journal[RollKind]) :
                  e.book = b /\ e.val.date = d => json.body.low[b] = e.val.low

LowInv ==
    /\ risk \in RiskType
    /\ \A b \in BookIds : risk[b].date <= day
    /\ (eng.started \/ eng.marked) => AllStarted
    /\ eng.marked => clock = 3
    /\ files[day].json.of # 0 => clock = 3 /\ AllStarted
    /\ \A e \in Range(journal[RollKind]) : e.val.date \in Nat /\ e.val.date < day /\ e.val.low \in Nat
    /\ \A d \in 1 .. MaxDay : LowsTold(files[d].json, d)

(* A step that neither rolls a state nor writes a report.                  *)
LEMMA LowsStay ==
    ASSUME LowInv, FilesInv, UNCHANGED <<day, clock, risk>>,
           \A d \in 1 .. MaxDay : files'[d].json = files[d].json,
           journal'[RollKind] = journal[RollKind],
           eng'.started => eng.started \/ AllStarted,
           eng'.marked => eng.marked \/ (AllStarted /\ clock = 3)
    PROVE  LowInv'
<1>1. files'[day].json = files[day].json
  BY DEF FilesInv
<1>2. \A d \in 1 .. MaxDay : LowsTold(files[d].json, d)'
  BY DEF LowInv, LowsTold
<1>3. AllStarted' <=> AllStarted
  BY DEF AllStarted
<1> QED
  BY <1>1, <1>2, <1>3 DEF LowInv

LEMMA RollQuiet ==
    ASSUME LogOk(journal), NEW es, journal' = Emit(journal, es), \A e \in es : e.kind # RollKind
    PROVE  journal'[RollKind] = journal[RollKind]
<1>1. RollKind \in EventKinds
  BY DEF RollKind, EventKinds
<1> QED
  BY <1>1, EmitQuiet

LEMMA HandlerLows ==
    ASSUME LogOk(journal), LowInv, FilesInv, NEW es, \A e \in es : e.kind # RollKind,
           NEW state, NEW engine, Handler(es, state, engine),
           engine.started => eng.started, engine.marked => eng.marked,
           UNCHANGED <<day, clock, risk, files>>
    PROVE  LowInv'
<1>1. PICK emitted \in SUBSET es : journal' = Emit(journal, emitted)
  BY DEF Handler
<1>2. journal'[RollKind] = journal[RollKind]
  BY <1>1, RollQuiet
<1>3. eng' = engine \/ eng' = [Starting EXCEPT !.up = FALSE]
  BY DEF Handler
<1>4. (eng'.started => eng.started) /\ (eng'.marked => eng.marked)
  BY <1>3 DEF Starting
<1> QED
  BY <1>2, <1>4, LowsStay

(* start_day: the state rolled is that of a day that is over.              *)
LEMMA StartDayLows ==
    ASSUME LogOk(journal), LowInv, FilesInv, NEW n \in DOMAIN Books, StartDay(n)
    PROVE  LowInv'
<1> DEFINE b == Books[n]
           es == RollEvents(b)
           new == [date |-> day, low |-> 0]
<1>1. b \in BookIds
  BY DEF BookIds, Range
<1>2. /\ Handler(es, ledger, eng) /\ UNCHANGED <<day, clock, files>> /\ risk[b].date < day
      /\ risk' = risk \/ risk' = [risk EXCEPT ![b] = new]
  BY DEF StartDay, RollEvents
<1>3. /\ \A e \in es : e.kind = RollKind /\ e.book = b /\ e.val = risk[b]
      /\ IsFiniteSet(es)
  BY RollEventsIs DEF TodaysEvents
<1> HIDE DEF es, b
<1>4. PICK emitted \in SUBSET es : journal' = Emit(journal, emitted)
  BY <1>2 DEF Handler
<1>5. day \in Nat /\ day \in 1 .. MaxDay
  BY EvaluationAssumption DEF FilesInv
<1>6. risk[b] \in [date : Nat, low : Nat] /\ ~AllStarted
  BY <1>1, <1>2, <1>5 DEF LowInv, RiskType, AllStarted
<1>7. ~eng.started /\ ~eng.marked /\ files[day].json.of = 0
  BY <1>6 DEF LowInv
<1>8. ~eng'.started /\ ~eng'.marked
  <2>1. eng' = eng \/ eng' = [Starting EXCEPT !.up = FALSE]
    BY <1>2 DEF Handler
  <2> QED
    BY <1>7, <2>1 DEF Starting
<1>9. \A e \in Range(journal'[RollKind]) :
         e \in Range(journal[RollKind]) \/ (e.book = b /\ e.val = risk[b])
  <2>1. RollKind \in EventKinds /\ IsFiniteSet(emitted)
    BY <1>3, FS_Subset DEF RollKind, EventKinds
  <2>2. Range(journal'[RollKind]) = Range(journal[RollKind]) \cup OfKind(emitted, RollKind)
    BY <1>4, <2>1, Emitted
  <2> QED
    BY <1>3, <2>2 DEF OfKind
<1>10. /\ risk' \in RiskType
       /\ \A c \in BookIds : \/ risk'[c] = risk[c]
                             \/ c = b /\ risk'[c].date = day
  <2>1. new \in [date : Nat, low : Nat] /\ new.date = day
    BY <1>5
  <2> HIDE DEF new
  <2> QED
    BY <1>1, <1>2, <2>1 DEF LowInv, RiskType
<1>11. \A c \in BookIds : risk'[c].date <= day
  BY <1>5, <1>10 DEF LowInv
<1>12. \A e \in Range(journal'[RollKind]) : e.val.date \in Nat /\ e.val.date < day /\ e.val.low \in Nat
  BY <1>2, <1>6, <1>9 DEF LowInv
<1>13. ASSUME NEW d \in 1 .. MaxDay PROVE LowsTold(files[d].json, d)'
  <2> DEFINE json == files[d].json
  <2> SUFFICES ASSUME json.of # 0, NEW c \in BookIds
               PROVE  /\ risk'[c].date = d => json.body.low[c] = risk'[c].low
                      /\ \A e \in Range(journal'[RollKind]) :
                            e.book = c /\ e.val.date = d => json.body.low[c] = e.val.low
    BY <1>2 DEF LowsTold
  <2>1. /\ risk[c].date = d => json.body.low[c] = risk[c].low
        /\ \A e \in Range(journal[RollKind]) :
              e.book = c /\ e.val.date = d => json.body.low[c] = e.val.low
    BY DEF LowInv, LowsTold
  <2>2. d # day
    BY <1>7
  <2> HIDE DEF json
  <2>3. risk'[c].date = d => json.body.low[c] = risk'[c].low
    BY <1>10, <2>1, <2>2
  <2>4. ASSUME NEW e \in Range(journal'[RollKind]), e.book = c, e.val.date = d
        PROVE  json.body.low[c] = e.val.low
    BY <1>9, <2>1, <2>4
  <2> QED
    BY <2>3, <2>4
<1> QED
  BY <1>2, <1>7, <1>8, <1>10, <1>11, <1>12, <1>13 DEF LowInv

(* risk_tick: before the day's report is written.                          *)
LEMMA RiskTickLows ==
    ASSUME LowInv, FilesInv, NEW b \in BookIds, RiskTick(b)
    PROVE  LowInv'
<1>1. /\ UNCHANGED <<day, clock, eng, journal, files>> /\ eng.started /\ ~(clock = 3)
      /\ risk' = [risk EXCEPT ![b].low = @ + 1]
  BY DEF RiskTick
<1>2. AllStarted /\ files[day].json.of = 0 /\ risk \in RiskType
  BY <1>1 DEF LowInv
<1>3. risk' \in RiskType /\ \A c \in BookIds : risk'[c].date = risk[c].date
  BY <1>1, <1>2 DEF RiskType
<1>4. AllStarted'
  BY <1>1, <1>2, <1>3 DEF AllStarted
<1>5. ASSUME NEW d \in 1 .. MaxDay PROVE LowsTold(files[d].json, d)'
  <2>1. LowsTold(files[d].json, d) /\ (files[d].json.of # 0 => d # day)
    BY <1>2 DEF LowInv
  <2> QED
    BY <1>1, <1>2, <1>3, <2>1 DEF LowsTold, AllStarted
<1> QED
  BY <1>1, <1>2, <1>3, <1>4, <1>5 DEF LowInv

(* write_report: the lows are those of the live trackers.                  *)
LEMMA WriteJsonLows ==
    ASSUME LowInv, FilesInv, eng \in EngineType, WriteJson
    PROVE  LowInv'
<1>0. PICK index \in {0, day - 1} :
         files' = [files EXCEPT ![day].json = [of |-> CountOn(journal, day),
                                               body |-> BuildReport(journal, day, Live(index))]]
  BY DEF WriteJson
<1> DEFINE n == CountOn(journal, day)
           body == BuildReport(journal, day, Live(index))
           json == [of |-> n, body |-> body]
<1>1. UNCHANGED <<day, clock, risk, journal>> /\ eng.marked
  BY DEF WriteJson
<1>2. AllStarted /\ clock = 3 /\ risk \in RiskType
  BY <1>1 DEF LowInv
<1>3. \A b \in BookIds : body.low[b] = risk[b].low
  <2> SUFFICES ASSUME NEW b \in BookIds PROVE body.low[b] = risk[b].low
    OBVIOUS
  <2>1. Live(index).lows[b] = risk[b].low /\ risk[b].low # Unknown
    BY <1>2 DEF Live, RiskType, Unknown
  <2>2. Low(journal, b, day, Live(index)) = risk[b].low
    BY <2>1 DEF Low
  <2>3. body.low[b] = Low(journal, b, day, Live(index))
    BY DEF BuildReport
  <2> QED
    BY <2>2, <2>3
<1> HIDE DEF n, body
<1>4. /\ files'[day].json = json
      /\ \A d \in 1 .. MaxDay \ {day} : files'[d].json = files[d].json
  <2>1. day \in 1 .. MaxDay
        /\ files = [d \in 1 .. MaxDay |-> [json |-> files[d].json, md |-> files[d].md]]
    BY DEF FilesInv
  <2>2. files' = [files EXCEPT ![day].json = json]
    BY <1>0 DEF n, body
  <2> HIDE DEF json
  <2>3. files[day] = [json |-> files[day].json, md |-> files[day].md]
    BY <2>1
  <2>4. DOMAIN files = 1 .. MaxDay
    BY <2>1
  <2>5. files'[day] = [files[day] EXCEPT !.json = json]
    BY <2>1, <2>2, <2>4
  <2>6. \A d \in 1 .. MaxDay \ {day} : files'[d].json = files[d].json
    BY <2>2, <2>4
  <2>7. files'[day].json = json
    BY <2>3, <2>5
  <2> QED
    BY <2>6, <2>7
<1>5. ASSUME NEW d \in 1 .. MaxDay PROVE LowsTold(files[d].json, d)'
  <2>1. CASE d = day
    <3>1. \A e \in Range(journal[RollKind]) : e.val.date # day
      BY DEF LowInv
    <3> QED
      BY <1>1, <1>3, <1>4, <2>1, <3>1 DEF LowsTold
  <2>2. CASE d # day
    BY <1>1, <1>4, <2>2 DEF LowInv, LowsTold
  <2> QED
    BY <2>1, <2>2
<1>6. AllStarted'
  BY <1>1, <1>2 DEF AllStarted
<1> QED
  BY <1>1, <1>2, <1>5, <1>6 DEF LowInv

LEMMA TickLows ==
    ASSUME LowInv, FilesInv, Tick
    PROVE  LowInv'
<1>1. UNCHANGED <<journal, risk, files>> /\ day \in Nat /\ day \in 1 .. MaxDay
      /\ MaxDay \in Nat
  BY EvaluationAssumption DEF Tick, FilesInv
<1>2. CASE clock < 3 /\ clock' = clock + 1 /\ UNCHANGED <<day, eng>>
  <2>1. ~(clock = 3) /\ AllStarted' = AllStarted
    BY <1>1, <1>2 DEF AllStarted
  <2>2. \A d \in 1 .. MaxDay : LowsTold(files[d].json, d)'
    BY <1>1 DEF LowInv, LowsTold
  <2> QED
    BY <1>1, <1>2, <2>1, <2>2 DEF LowInv
<1>3. CASE day < MaxDay /\ day' = day + 1 /\ eng' = [Starting EXCEPT !.up = eng.up]
  <2>1. ~eng'.started /\ ~eng'.marked
    BY <1>3 DEF Starting
  <2>2. day' \in 1 .. MaxDay /\ day' > day
    BY <1>1, <1>3
  <2>3. files'[day'].json.of = 0
    BY <1>1, <2>2 DEF FilesInv, ReportOk
  <2>4. \A d \in 1 .. MaxDay : LowsTold(files[d].json, d)'
    BY <1>1 DEF LowInv, LowsTold
  <2>5. \A b \in BookIds : risk'[b].date <= day'
    BY <1>1, <1>3 DEF LowInv, RiskType
  <2>6. \A e \in Range(journal'[RollKind]) : e.val.date \in Nat /\ e.val.date < day' /\ e.val.low \in Nat
    <3> SUFFICES ASSUME NEW e \in Range(journal[RollKind]) PROVE e.val.date \in Nat /\ e.val.date < day' /\ e.val.low \in Nat
      BY <1>1
    <3>1. e.val.date \in Nat /\ e.val.date < day /\ e.val.low \in Nat
      BY DEF LowInv
    <3> QED
      BY <1>1, <1>3, <3>1
  <2> QED
    BY <1>1, <2>1, <2>3, <2>4, <2>5, <2>6 DEF LowInv
<1> QED
  BY <1>2, <1>3 DEF Tick

LEMMA LowInit ==
    EvaluationInit => LowInv
<1> SUFFICES ASSUME EvaluationInit PROVE LowInv
  OBVIOUS
<1> DEFINE none == [k \in EventKinds |-> <<>>]
           es == {Ev("ProcessStarted", Nobody, Nobody, "-")}
<1>1. /\ day = 1 /\ journal = Emit(none, es) /\ ~eng.started /\ ~eng.marked
      /\ risk = [b \in BookIds |-> [date |-> 0, low |-> 0]]
      /\ files = [d \in 1 .. MaxDay |-> [json |-> NoReport, md |-> NoReport]]
  BY DEF EvaluationInit, Starting
<1>2. LogOk(none) /\ \A e \in es : e.kind # RollKind
  <2>1. Sequence(<<>>)
    BY EmptySeq DEF Sequence
  <2> QED
    BY <2>1 DEF LogOk, Ev, RollKind
<1>3. RollKind \in EventKinds /\ none[RollKind] = <<>>
  BY DEF RollKind, EventKinds
<1> HIDE DEF es, none
<1>4. journal[RollKind] = <<>>
  BY <1>1, <1>2, <1>3, EmitQuiet
<1>5. Range(journal[RollKind]) = {}
  BY <1>4, EmptySeq DEF Range
<1>6. 1 \in 1 .. MaxDay
  BY EvaluationAssumption
<1>7. \A d \in 1 .. MaxDay : files[d].json.of = 0
  BY <1>1 DEF NoReport
<1> QED
  BY <1>1, <1>5, <1>6, <1>7 DEF LowInv, RiskType, LowsTold

LEMMA LowNext ==
    ASSUME RegenInv, LowInv, [EvaluationNext]_evaluationVars
    PROVE  LowInv'
<1>0. LogOk(journal) /\ eng \in EngineType /\ FilesInv
  BY DEF RegenInv, FollowInv
<1>a. ASSUME UNCHANGED <<day, clock, risk, files>>, journal'[RollKind] = journal[RollKind],
             eng'.started => eng.started \/ AllStarted,
             eng'.marked => eng.marked \/ (AllStarted /\ clock = 3)
      PROVE  LowInv'
  BY <1>0, <1>a, LowsStay
<1>b. ASSUME NEW k, k # RollKind, NEW s, NEW b, NEW v, journal' = Emit(journal, {Ev(k, s, b, v)})
      PROVE  journal'[RollKind] = journal[RollKind]
  <2>1. \A e \in {Ev(k, s, b, v)} : e.kind = k
    BY DEF Ev
  <2> QED
    BY <1>0, <1>b, <2>1, RollQuiet
<1>1. ASSUME NEW known \in BOOLEAN, PreOpen(known) PROVE LowInv'
  <2> DEFINE settled == {x \in ledger.settling : known /\ x.exit < day}
             es == {Ev("ShadowAlphaSettled", x.sig, Nobody, "-") : x \in settled}
             state == [ledger EXCEPT !.settling = Remains(@, known)]
             engine == [eng EXCEPT !.pre = TRUE]
  <2>1. Handler(es, state, engine) /\ UNCHANGED <<day, clock, risk, files>>
    BY <1>1 DEF PreOpen
  <2>2. \A e \in es : e.kind # RollKind
    BY DEF Ev, RollKind
  <2>3. engine.started = eng.started /\ engine.marked = eng.marked
    BY <1>0 DEF EngineType
  <2> HIDE DEF es, state, engine
  <2> QED
    BY <1>0, <2>1, <2>2, <2>3, HandlerLows
<1>2. CASE SessionStart
  <2>1. AllStarted /\ eng'.marked = eng.marked
    BY <1>0, <1>2 DEF SessionStart, DayStarted, AllStarted, EngineType
  <2> QED
    BY <1>2, <2>1, <1>a DEF SessionStart
<1>3. ASSUME NEW s \in Signals, NEW p, OnQuote(s, p) PROVE LowInv'
  <2> DEFINE waiting == {s} \cap ledger.pending
             entering == IF p = "dear" THEN {} ELSE waiting
             closing == {t \in ledger.open : t.sig = s /\ ClosesAt(t, p)}
             es == {Ev("ShadowTradeOpened", x, Nobody, "-") : x \in entering}
                     \cup {Ev("ShadowTradeClosed", t.sig, Nobody, Outcome(p)) : t \in closing}
  <2>1. \E state : Handler(es, state, eng) /\ UNCHANGED <<day, clock, risk, files>>
    BY <1>3 DEF OnQuote
  <2>2. \A e \in es : e.kind # RollKind
    BY DEF Ev, RollKind
  <2> HIDE DEF es
  <2> QED
    BY <1>0, <2>1, <2>2, HandlerLows
<1>4. CASE Track
  <2>1. \E state : Handler({}, state, eng) /\ UNCHANGED <<day, clock, risk, files>>
    BY <1>4 DEF Track
  <2> QED
    BY <1>0, <2>1, HandlerLows
<1>5. CASE RunCycle
  <2> DEFINE es == {Ev("SignalGenerated", s, Nobody, "-") : s \in Fires}
  <2>1. journal' = Emit(journal, es) /\ \A e \in es : e.kind # RollKind
    BY <1>5 DEF RunCycle, Ev, RollKind
  <2> HIDE DEF es
  <2>2. journal'[RollKind] = journal[RollKind]
    BY <1>0, <2>1, RollQuiet
  <2> QED
    BY <1>5, <2>2, <1>a DEF RunCycle
<1>6. ASSUME NEW how, Dispose(how) PROVE LowInv'
  <2> DEFINE next == Head(Head(cycle))
             c == (cycle' = <<>>)
  <2>1. /\ journal' = Emit(journal, {Ev("SignalDisposition", next[1], next[2], how)})
        /\ eng' = [eng EXCEPT !.cycled = c] /\ c \in BOOLEAN
        /\ UNCHANGED <<day, clock, risk, files>>
    BY <1>6 DEF Dispose
  <2> HIDE DEF next, c
  <2>2. journal'[RollKind] = journal[RollKind]
    BY <2>1, <1>b DEF RollKind
  <2>3. eng'.started = eng.started /\ eng'.marked = eng.marked
    BY <1>0, <2>1 DEF EngineType
  <2> QED
    BY <2>1, <2>2, <2>3, <1>a
<1>7. ASSUME NEW s, NEW b, CloseTrade(s, b) PROVE LowInv'
  <2>1. journal'[RollKind] = journal[RollKind]
    BY <1>7, <1>b DEF CloseTrade, RollKind
  <2> QED
    BY <1>7, <2>1, <1>a DEF CloseTrade
<1>8. CASE MarkBooks
  <2> DEFINE es == {Ev("MarkToMarket", Nobody, b, Equity(b)) : b \in BookIds}
  <2>1. journal' = Emit(journal, es) /\ \A e \in es : e.kind # RollKind
    BY <1>8 DEF MarkBooks, Ev, RollKind
  <2> HIDE DEF es
  <2>2. journal'[RollKind] = journal[RollKind]
    BY <1>0, <2>1, RollQuiet
  <2>3. AllStarted /\ clock = 3 /\ eng'.started = eng.started
    BY <1>0, <1>8 DEF MarkBooks, DayStarted, AllStarted, EngineType
  <2> QED
    BY <1>8, <2>2, <2>3, <1>a DEF MarkBooks
<1>9. CASE WriteJson
  BY <1>0, <1>9, WriteJsonLows
<1>10. CASE WriteMarkdown
  <2>1. journal'[RollKind] = journal[RollKind]
    BY <1>10, <1>b DEF WriteMarkdown, RollKind
  <2>2. eng'.started = eng.started /\ eng'.marked = eng.marked
    BY <1>0, <1>10 DEF WriteMarkdown, EngineType
  <2>3. \A d \in 1 .. MaxDay : files'[d].json = files[d].json
    <3>1. /\ files = [d \in 1 .. MaxDay |-> [json |-> files[d].json, md |-> files[d].md]]
          /\ files' = [files EXCEPT ![day].md = files[day].json] /\ day \in 1 .. MaxDay
      BY <1>0, <1>10 DEF WriteMarkdown, FilesInv
    <3> SUFFICES ASSUME NEW d \in 1 .. MaxDay PROVE files'[d].json = files[d].json
      OBVIOUS
    <3>2. files[d] = [json |-> files[d].json, md |-> files[d].md] /\ DOMAIN files = 1 .. MaxDay
      BY <3>1
    <3>3. files'[d] = files[d] \/ files'[d] = [files[d] EXCEPT !.md = files[day].json]
      BY <3>1, <3>2
    <3> QED
      BY <3>2, <3>3
  <2> QED
    BY <1>0, <1>10, <2>1, <2>2, <2>3, LowsStay DEF WriteMarkdown
<1>11. ASSUME NEW ok \in BOOLEAN, ReviewTrade(ok) PROVE LowInv'
  <2> DEFINE es == ReviewEvents(review[1], ok)
  <2>1. journal' = Emit(journal, es)
    BY <1>11 DEF ReviewTrade, ReviewEvents
  <2>2. \A e \in es : e.kind # RollKind
    BY ReviewEventsAre DEF RollKind
  <2> HIDE DEF es
  <2>3. journal'[RollKind] = journal[RollKind]
    BY <1>0, <2>1, <2>2, RollQuiet
  <2> QED
    BY <1>11, <2>3, <1>a DEF ReviewTrade
<1>12. CASE Tick
  BY <1>0, <1>12, TickLows
<1>13. CASE Crash
  BY <1>13, <1>a DEF Crash, Starting
<1>14. CASE Restart
  <2>1. journal'[RollKind] = journal[RollKind]
    BY <1>14, <1>b DEF Restart, RollKind
  <2> QED
    BY <1>14, <2>1, <1>a DEF Restart, Starting
<1>15. CASE UNCHANGED evaluationVars
  BY <1>15, <1>a DEF evaluationVars
<1>16. ASSUME NEW n \in DOMAIN Books, StartDay(n) PROVE LowInv'
  BY <1>0, <1>16, StartDayLows
<1>17. ASSUME NEW b \in BookIds, RiskTick(b) PROVE LowInv'
  BY <1>0, <1>17, RiskTickLows
<1> QED
  BY <1>1, <1>2, <1>3, <1>4, <1>5, <1>6, <1>7, <1>8, <1>9, <1>10, <1>11, <1>12, <1>13, <1>14,
     <1>15, <1>16, <1>17 DEF EvaluationNext

(* Whatever later days, restarts and events repeated after a crash add to  *)
(* the log, what a day's report says by the day's events is still what the *)
(* log says if the report was built from all of them, and so is the        *)
(* intraday low, once the next session has rolled it; when the hook is     *)
(* through both files hold the report; and a trade has at most one review, *)
(* however often the review is run (src/evaluation/daily_report.py,        *)
(* build_report, write_report; src/evaluation/review.py, review_day).      *)
THEOREM ReportsRegenerate ==
    EvaluationSpec => []Regenerates
<1>1. RegenInv /\ LowInv => Regenerates
  <2> SUFFICES ASSUME RegenInv, LowInv PROVE Regenerates
    OBVIOUS
  <2>1. FilesInv /\ TradesInv /\ day \in 1 .. MaxDay /\ MaxDay \in Nat
    BY EvaluationAssumption DEF RegenInv, FilesInv
  <2>2. ASSUME NEW d \in 1 .. day, files[d].json.of # 0
        PROVE  /\ files[d].json.of = CountOn(journal, d) => Again(d).own = files[d].json.body.own
               /\ \A b \in BookIds : Again(d).low[b] \in {Unknown, files[d].json.body.low[b]}
    <3>1. d \in 1 .. MaxDay /\ d <= day
      BY <2>1
    <3>2. ReportOk(d) /\ LowsTold(files[d].json, d)
      BY <2>1, <3>1 DEF FilesInv, LowInv
    <3>3. Again(d).own = DayPart(journal, d)
      BY DEF Again, BuildReport
    <3>4. ASSUME NEW b \in BookIds PROVE Again(d).low[b] \in {Unknown, files[d].json.body.low[b]}
      <4> DEFINE R == Rolled(journal, b, d)
                 x == files[d].json.body.low[b]
      <4>1. Again(d).low[b] = Max(R \cup {Unknown})
        <5>1. Again(d).low[b] = Low(journal, b, d, Offline) /\ Offline.lows[b] = Unknown
          BY DEF Again, BuildReport, Offline, NoLows
        <5> QED
          BY <5>1 DEF Low
      <4>2. \A y \in R : y = x /\ y \in Nat
        <5> SUFFICES ASSUME NEW y \in R PROVE y = x /\ y \in Nat
          OBVIOUS
        <5>1. PICK i \in Of(journal, RollKind, {b}, 1 .. MaxDay) :
                 journal[RollKind][i].val.date = d /\ y = journal[RollKind][i].val.low
          BY DEF Rolled, RollKind
        <5> DEFINE e == journal[RollKind][i]
        <5>2. e \in Range(journal[RollKind]) /\ e.book = b
          BY DEF Of, Range
        <5>3. e.val.low \in Nat
          BY <5>2 DEF LowInv
        <5> QED
          BY <2>2, <3>2, <5>1, <5>2, <5>3 DEF LowsTold
      <4> HIDE DEF R, x
      <4>3. R = {} \/ R = {x}
        BY <4>2
      <4>4. Max({} \cup {Unknown}) = Unknown
        BY DEF Max, Unknown
      <4>5. R = {x} => Max({x} \cup {Unknown}) = x
        <5> SUFFICES ASSUME x \in Nat PROVE Max({x} \cup {Unknown}) = x
          BY <4>2
        <5>1. Unknown \in Int /\ Unknown < 0
          BY DEF Unknown
        <5> QED
          BY <5>1 DEF Max
      <4> QED
        BY <4>1, <4>3, <4>4, <4>5 DEF x
    <3>5. files[d].json.of = CountOn(journal, d) => files[d].json.body.own = DayPart(journal, d)
      BY <2>2, <3>1, <3>2 DEF ReportOk
    <3> QED
      BY <3>3, <3>4, <3>5
  <2>3. ASSUME NEW s \in Signals, NEW b \in BookIds
        PROVE  Cardinality(Signalled(journal, "TradeReview", Of(journal, "TradeReview", {b}, 1 .. day), s)) <= 1
    <3> DEFINE is == Signalled(journal, "TradeReview", Of(journal, "TradeReview", {b}, 1 .. day), s)
    <3>1. \A i, j \in is : i = j
      BY <2>1 DEF Signalled, Of, TradesInv, Same
    <3> HIDE DEF is
    <3>2. is = {} \/ \E i : is = {i}
      <4>1. ASSUME NEW i \in is PROVE is = {i}
        BY <3>1
      <4> QED
        BY <4>1
    <3>3. Cardinality(is) = 0 \/ Cardinality(is) = 1
      BY <3>2, FS_EmptySet, FS_Singleton
    <3>4. Cardinality(is) <= 1
      BY <3>3
    <3> QED
      BY <3>4 DEF is
  <2> QED
    BY <2>1, <2>2, <2>3 DEF Regenerates, FilesInv
<1>2. EvaluationInit => RegenInv /\ LowInv
  BY RegenInit, LowInit
<1>3. RegenInv /\ LowInv /\ [EvaluationNext]_evaluationVars => (RegenInv /\ LowInv)'
  BY RegenNext, LowNext
<1> QED
  BY <1>1, <1>2, <1>3, PTL DEF EvaluationSpec
=============================================================================
