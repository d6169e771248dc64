----------------------------- MODULE ExitsProofs -----------------------------
(***************************************************************************)
(* Proofs about the exits of a position.  Working exits never add up to    *)
(* more than is held, so a fill never takes the position below zero, the   *)
(* exit manager and the book agree on what is held until a fill is torn,   *)
(* no flatten order is mistaken for an older one, and a position that is   *)
(* not being closed stays covered by working exits, or somebody is at work *)
(* to cover it (Tidy, below).                                              *)
(***************************************************************************)
EXTENDS Exits, FiniteSetTheorems, WellFoundedInduction, TLAPS

-----------------------------------------------------------------------------
(* Legs.                                                                   *)

(* Different legs are different orders.                                    *)
LEMMA LegsDiffer ==
    /\ \A d, n, e, m : Flatten(d, n) = Flatten(e, m) => d = e /\ n = m
    /\ \A d, n, e, m : Flatten(d, n) # Stop(e, m)
    /\ \A d, n, e : Flatten(d, n) # TimeExit(e)
    /\ \A d, n : Flatten(d, n) \notin {Entry, Target, Partial, NoLeg}
    /\ \A d, n : Stop(d, n) \notin {Entry, Target, Partial, NoLeg}
    /\ \A d : TimeExit(d) \notin {Entry, Target, Partial, NoLeg}
    /\ Entry \notin {Target, Partial, NoLeg}
    /\ NoLeg \notin {Target, Partial}
BY DEF Flatten, Stop, TimeExit, Entry, Target, Partial, NoLeg

(* There are finitely many legs.                                           *)
LEMMA LegsFinite == IsFiniteSet(Legs) /\ IsFiniteSet(Sells)
<1> DEFINE K == {"entry", "target", "partial", "stop", "flatten", "time"}
           D == 0 .. MaxDay
           V == 0 .. (MaxVersion + MaxAttempts)
           P == (K \X D) \X V
           f == [p \in P |-> <<p[1][1], p[1][2], p[2]>>]
           T == {f[p] : p \in P}
<1>1. IsFiniteSet(K)
  <2>1. IsFiniteSet({"entry"}) /\ IsFiniteSet({"target"}) /\ IsFiniteSet({"partial"})
        /\ IsFiniteSet({"stop"}) /\ IsFiniteSet({"flatten"}) /\ IsFiniteSet({"time"})
    BY FS_Singleton
  <2>2. IsFiniteSet({"entry"} \cup {"target"}) /\ IsFiniteSet({"partial"} \cup {"stop"})
        /\ IsFiniteSet({"flatten"} \cup {"time"})
    BY <2>1, FS_Union
  <2>3. IsFiniteSet(({"entry"} \cup {"target"}) \cup ({"partial"} \cup {"stop"}))
    BY <2>2, FS_Union
  <2>4. IsFiniteSet((({"entry"} \cup {"target"}) \cup ({"partial"} \cup {"stop"}))
                    \cup ({"flatten"} \cup {"time"}))
    BY <2>2, <2>3, FS_Union
  <2>5. K = (({"entry"} \cup {"target"}) \cup ({"partial"} \cup {"stop"}))
                    \cup ({"flatten"} \cup {"time"})
    OBVIOUS
  <2> QED
    BY <2>4, <2>5
<1>2. IsFiniteSet(D) /\ IsFiniteSet(V)
  BY FS_Interval, ExitsAssumption
<1> HIDE DEF K, D, V
<1>3. IsFiniteSet(K \X D)
  BY <1>1, <1>2, FS_Product
<1>4. IsFiniteSet(P)
  BY <1>2, <1>3, FS_Product
<1>5. f \in Surjection(P, T)
  BY DEF Surjection
<1>6. IsFiniteSet(T)
  <2> HIDE DEF P, f, T
  <2> QED
    BY <1>4, <1>5, FS_Surjection
<1>7. ASSUME NEW c \in Legs PROVE c \in T
  <2>1. \E k \in K, d \in D, v \in V : c = <<k, d, v>>
    BY ExitsAssumption DEF Legs, StopLegs, FlattenLegs, Entry, Target, Partial, Stop, Flatten, TimeExit, K, D, V
  <2>2. PICK k \in K, d \in D, v \in V : c = <<k, d, v>>
    BY <2>1
  <2>3. <<<<k, d>>, v>> \in P /\ f[<<<<k, d>>, v>>] = c
    BY <2>2
  <2> QED
    BY <2>3
<1>8. Legs \subseteq T /\ Sells \subseteq T
  BY <1>7 DEF Sells
<1> HIDE DEF T
<1> QED
  BY <1>6, <1>8, FS_Subset

-----------------------------------------------------------------------------
(* Sums of shares.                                                         *)

Counts == [Sells -> 0 .. MaxQty]
Counted(f) == {s \in Sells \X (1 .. MaxQty) : s[2] <= f[s[1]]}

LEMMA TotalIsCount ==
    ASSUME NEW f \in Counts
    PROVE  Total(f) = Cardinality(Counted(f))
<1>1. DOMAIN f = Sells
  BY DEF Counts
<1> QED
  BY <1>1 DEF Total, Counted

LEMMA CountedFinite ==
    ASSUME NEW f \in Counts
    PROVE  IsFiniteSet(Counted(f)) /\ Total(f) \in Nat
<1>1. IsFiniteSet(1 .. MaxQty)
  BY FS_Interval, ExitsAssumption
<1>2. IsFiniteSet(Sells \X (1 .. MaxQty))
  BY <1>1, LegsFinite, FS_Product
<1>3. Counted(f) \in SUBSET (Sells \X (1 .. MaxQty))
  BY DEF Counted
<1>4. IsFiniteSet(Counted(f))
  BY <1>2, <1>3, FS_Subset
<1> QED
  BY <1>4, TotalIsCount, FS_CardinalityType

(* A sum over part of the exits is the sum with zeros for the others.      *)
LEMMA TotalOfPart ==
    ASSUME NEW f \in Counts, NEW S \in SUBSET Sells, NEW g,
           g = [c \in S |-> f[c]], \A c \in Sells \ S : f[c] = 0
    PROVE  Total(g) = Total(f)
<1>1. DOMAIN g = S /\ DOMAIN f = Sells
  BY DEF Counts
<1>2. {s \in S \X (1 .. MaxQty) : s[2] <= g[s[1]]} = Counted(f)
  BY ExitsAssumption DEF Counted, Counts
<1> QED
  BY <1>1, <1>2, TotalIsCount DEF Total

(* If nothing is counted the sum is 0.                                     *)
LEMMA TotalZero ==
    ASSUME NEW f \in Counts, \A c \in Sells : f[c] = 0
    PROVE  Total(f) = 0
<1>1. Counted(f) = {}
  BY ExitsAssumption DEF Counted
<1> QED
  BY <1>1, TotalIsCount, FS_EmptySet

(* What is taken and what is left do not exceed what there was.            *)
LEMMA TotalPlus ==
    ASSUME NEW f \in Counts, NEW g \in Counts, NEW h \in Counts,
           \A c \in Sells : f[c] + g[c] <= h[c]
    PROVE  Total(f) + Total(g) <= Total(h)
<1> DEFINE m == [s \in Counted(g) |-> <<s[1], s[2] + f[s[1]]>>]
           T == {m[s] : s \in Counted(g)}
<1>1. /\ \A c \in Sells : f[c] \in 0 .. MaxQty /\ g[c] \in 0 .. MaxQty /\ h[c] \in 0 .. MaxQty
      /\ MaxQty \in Nat
  BY ExitsAssumption DEF Counts
<1>2. ASSUME NEW s \in Counted(g)
      PROVE  /\ s[1] \in Sells /\ s[2] \in 1 .. g[s[1]] /\ s = <<s[1], s[2]>>
             /\ m[s] = <<s[1], s[2] + f[s[1]]>>
             /\ m[s] \in Counted(h) /\ m[s] \notin Counted(f)
  <2>1. s[1] \in Sells /\ s[2] \in 1 .. MaxQty /\ s[2] <= g[s[1]] /\ s = <<s[1], s[2]>>
    BY DEF Counted
  <2>2. m[s] = <<s[1], s[2] + f[s[1]]>>
    OBVIOUS
  <2>3. s[2] + f[s[1]] \in 1 .. MaxQty /\ s[2] + f[s[1]] <= h[s[1]] /\ ~(s[2] + f[s[1]] <= f[s[1]])
    BY <1>1, <2>1
  <2> HIDE DEF m
  <2> QED
    BY <1>1, <2>1, <2>2, <2>3 DEF Counted
<1>3. ASSUME NEW s \in Counted(g), NEW u \in Counted(g), m[s] = m[u] PROVE s = u
  <2> HIDE DEF m
  <2>1. s[1] = u[1] /\ s[2] + f[s[1]] = u[2] + f[u[1]]
    BY <1>2, <1>3
  <2>2. s[2] \in Int /\ u[2] \in Int /\ f[s[1]] \in Int
    <3>1. s \in Sells \X (1 .. MaxQty) /\ u \in Sells \X (1 .. MaxQty)
      BY DEF Counted
    <3> QED
      BY <1>1, <3>1
  <2>3. s[2] = u[2]
    <3>1. s[2] + f[s[1]] = u[2] + f[s[1]]
      BY <2>1
    <3>2. \A a, b, k \in Int : a + k = b + k => a = b
      OBVIOUS
    <3> QED
      BY <2>2, <3>1, <3>2, Zenon
  <2> QED
    BY <1>2, <2>1, <2>3
<1>4. m \in Bijection(Counted(g), T)
  <2>1. m \in [Counted(g) -> T]
    OBVIOUS
  <2>2. \A y \in T : \E s \in Counted(g) : m[s] = y
    OBVIOUS
  <2>3. \A s, u \in Counted(g) : m[s] = m[u] => s = u
    BY <1>3
  <2> HIDE DEF m, T
  <2>4. m \in Injection(Counted(g), T)
    BY <2>1, <2>3 DEF Injection, IsInjective
  <2>5. m \in Surjection(Counted(g), T)
    BY <2>1, <2>2 DEF Surjection
  <2> QED
    BY <2>4, <2>5 DEF Bijection
<1>5. T \subseteq Counted(h) /\ T \cap Counted(f) = {}
  BY <1>2
<1>6. Counted(f) \subseteq Counted(h)
  BY <1>1 DEF Counted
<1> HIDE DEF m, T
<1>7. ExistsBijection(Counted(g), T)
  BY <1>4 DEF ExistsBijection
<1>8. IsFiniteSet(T) /\ Cardinality(T) = Cardinality(Counted(g))
  BY <1>7, CountedFinite, FS_Bijection
<1>9. Cardinality(T \cup Counted(f)) = Cardinality(T) + Cardinality(Counted(f)) - 0
  BY <1>5, <1>8, CountedFinite, FS_Union, FS_EmptySet
<1>10. Cardinality(T \cup Counted(f)) <= Cardinality(Counted(h))
  BY <1>5, <1>6, CountedFinite, FS_Subset
<1>11. /\ Cardinality(Counted(f)) = Total(f) /\ Cardinality(Counted(g)) = Total(g)
       /\ Cardinality(Counted(h)) = Total(h)
       /\ Total(f) \in Nat /\ Total(g) \in Nat /\ Total(h) \in Nat
  BY TotalIsCount, CountedFinite
<1> QED
  BY <1>8, <1>9, <1>10, <1>11

LEMMA TotalMonotone ==
    ASSUME NEW f \in Counts, NEW h \in Counts, \A c \in Sells : f[c] <= h[c]
    PROVE  Total(f) <= Total(h)
<1>1. Counted(f) \subseteq Counted(h)
  <2>1. \A c \in Sells : f[c] \in 0 .. MaxQty /\ h[c] \in 0 .. MaxQty
    BY DEF Counts
  <2> QED
    BY <2>1, ExitsAssumption DEF Counted
<1> QED
  BY <1>1, TotalIsCount, CountedFinite, FS_Subset

LEMMA UpToCount ==
    ASSUME NEW n \in Nat
    PROVE  IsFiniteSet(1 .. n) /\ Cardinality(1 .. n) = n
BY FS_Interval

(* A new order adds no more than its shares.                               *)
LEMMA TotalAdd ==
    ASSUME NEW f \in Counts, NEW g \in Counts, NEW c \in Sells,
           \A d \in Sells \ {c} : g[d] <= f[d]
    PROVE  Total(g) <= Total(f) + g[c]
<1> DEFINE One == {c} \X (1 .. g[c])
<1>1. \A d \in Sells : f[d] \in 0 .. MaxQty /\ g[d] \in 0 .. MaxQty
  BY DEF Counts
<1>2. Counted(g) \subseteq Counted(f) \cup One
  BY <1>1, ExitsAssumption DEF Counted
<1>3. IsFiniteSet(1 .. g[c]) /\ Cardinality(1 .. g[c]) = g[c]
  <2>1. g[c] \in Nat
    BY <1>1, ExitsAssumption
  <2> QED
    BY <2>1, UpToCount
<1>4. IsFiniteSet({c}) /\ Cardinality({c}) = 1
  BY FS_Singleton
<1>5. IsFiniteSet(One) /\ Cardinality(One) = g[c]
  <2>1. IsFiniteSet(One) /\ Cardinality(One) = 1 * g[c]
    <3> DEFINE S == 1 .. g[c]
               C == {c}
    <3>1. IsFiniteSet(S) /\ Cardinality(S) = g[c] /\ IsFiniteSet(C) /\ Cardinality(C) = 1
      BY <1>3, <1>4
    <3> HIDE DEF S, C
    <3>2. IsFiniteSet(C \X S) /\ Cardinality(C \X S) = 1 * g[c]
      BY <3>1, FS_Product
    <3> QED
      BY <3>2 DEF S, C
  <2>2. g[c] \in Int
    BY <1>1, ExitsAssumption
  <2> QED
    BY <2>1, <2>2
<1> HIDE DEF One
<1>6. /\ IsFiniteSet(Counted(f) \cup One)
      /\ Cardinality(Counted(f) \cup One) =
            Cardinality(Counted(f)) + g[c] - Cardinality(Counted(f) \cap One)
  BY <1>5, CountedFinite, FS_Union
<1>7. IsFiniteSet(Counted(f) \cap One) /\ Cardinality(Counted(f) \cap One) \in Nat
  BY CountedFinite, FS_Subset, FS_CardinalityType
<1>8. Cardinality(Counted(g)) <= Cardinality(Counted(f) \cup One)
  BY <1>2, <1>6, FS_Subset
<1>9. /\ Cardinality(Counted(f)) = Total(f) /\ Cardinality(Counted(g)) = Total(g)
      /\ Total(f) \in Nat /\ Total(g) \in Nat /\ g[c] \in Nat
  BY <1>1, ExitsAssumption, TotalIsCount, CountedFinite
<1> QED
  BY <1>6, <1>7, <1>8, <1>9

-----------------------------------------------------------------------------
(* The book: the exits that work never exceed what is held.                *)

Table == [Legs -> OrderType]
Unfilled(o, c) == IF o[c].status = "WORKING" THEN o[c].remaining ELSE 0
Selling(o) == [c \in Sells |-> Unfilled(o, c)]

Book(o, h) ==
    /\ o \in Table /\ h \in 0 .. MaxQty
    /\ \A c \in Legs : o[c].status = "WORKING" => o[c].remaining > 0
    /\ h + Unfilled(o, Entry) <= MaxQty
    /\ o[Entry] = NoOrder => h = 0
    /\ Total(Selling(o)) <= h

(* Orders were cancelled, and nothing else.                                *)
Calmer(o, n) ==
    \A c \in Legs : n[c] = o[c] \/ (o[c].status = "WORKING" /\ n[c] = Ended)

LEMMA SimpleOrders ==
    /\ NoOrder \in OrderType /\ Ended \in OrderType
    /\ NoOrder.status = "NONE" /\ NoOrder.remaining = 0
    /\ Ended.status = "ENDED" /\ Ended.remaining = 0
    /\ Ended # NoOrder
BY ExitsAssumption DEF NoOrder, Ended, OrderType

LEMMA EntryIsLeg == Entry \in Legs /\ Entry \notin Sells /\ Sells \subseteq Legs
BY DEF Legs, Sells

LEMMA UnfilledType ==
    ASSUME NEW o \in Table, NEW c \in Legs
    PROVE  /\ Unfilled(o, c) \in 0 .. MaxQty
           /\ o[c].remaining \in 0 .. MaxQty
           /\ o[c].status \in {"NONE", "WORKING", "ENDED"}
BY ExitsAssumption DEF Unfilled, Table, OrderType

LEMMA SellingType ==
    ASSUME NEW o \in Table
    PROVE  Selling(o) \in Counts /\ Total(Selling(o)) \in Nat
<1>1. Selling(o) \in Counts
  BY UnfilledType, EntryIsLeg DEF Selling, Counts
<1> QED
  BY <1>1, CountedFinite

LEMMA CalmerBook ==
    ASSUME NEW o, NEW n \in Table, NEW h, Book(o, h), Calmer(o, n)
    PROVE  Book(n, h)
<1>1. o \in Table /\ h \in 0 .. MaxQty
  BY DEF Book
<1>2. \A c \in Legs : Unfilled(n, c) <= Unfilled(o, c)
  <2> SUFFICES ASSUME NEW c \in Legs PROVE Unfilled(n, c) <= Unfilled(o, c)
    OBVIOUS
  <2>1. Unfilled(o, c) \in 0 .. MaxQty
    BY <1>1, UnfilledType
  <2>2. CASE n[c] = o[c]
    BY <2>1, <2>2, ExitsAssumption DEF Unfilled
  <2>3. CASE n[c] = Ended
    BY <2>1, <2>3, SimpleOrders, ExitsAssumption DEF Unfilled
  <2> QED
    BY <2>2, <2>3 DEF Calmer
<1>3. Total(Selling(n)) <= Total(Selling(o))
  <2>1. \A c \in Sells : Selling(n)[c] <= Selling(o)[c]
    BY <1>2, EntryIsLeg DEF Selling
  <2> QED
    BY <1>1, <2>1, SellingType, TotalMonotone
<1>4. \A c \in Legs : n[c].status = "WORKING" => n[c].remaining > 0
  BY SimpleOrders DEF Book, Calmer
<1>5. h + Unfilled(n, Entry) <= MaxQty
  <2>1. Unfilled(n, Entry) <= Unfilled(o, Entry) /\ h + Unfilled(o, Entry) <= MaxQty
    BY <1>2, EntryIsLeg DEF Book
  <2>2. Unfilled(n, Entry) \in Int /\ Unfilled(o, Entry) \in Int /\ h \in Int
    BY <1>1, UnfilledType, EntryIsLeg, ExitsAssumption
  <2> QED
    BY <2>1, <2>2, ExitsAssumption
<1>6. n[Entry] = NoOrder => h = 0
  BY SimpleOrders, EntryIsLeg DEF Book, Calmer
<1>7. Total(Selling(n)) <= h
  <2>1. Total(Selling(n)) \in Nat /\ Total(Selling(o)) \in Nat /\ Total(Selling(o)) <= h
    BY <1>1, SellingType DEF Book
  <2> QED
    BY <1>1, <1>3, <2>1, ExitsAssumption
<1> QED
  BY <1>1, <1>4, <1>5, <1>6, <1>7 DEF Book

LEMMA CalmerNoOrder ==
    ASSUME NEW o, NEW n, Calmer(o, n), NEW c \in Legs, o[c] = NoOrder
    PROVE  n[c] = NoOrder
BY SimpleOrders DEF Calmer

LEMMA CalmerTwice ==
    ASSUME NEW o, NEW n, NEW p, Calmer(o, n), Calmer(n, p)
    PROVE  Calmer(o, p)
BY SimpleOrders DEF Calmer

LEMMA CancelCalms ==
    ASSUME NEW o \in Table, NEW c
    PROVE  CancelIn(o, c) \in Table /\ Calmer(o, CancelIn(o, c))
<1>1. CASE c \in Working(o, Legs)
  <2>1. CancelIn(o, c) = [o EXCEPT ![c] = Ended] /\ c \in Legs /\ o[c].status = "WORKING"
    BY <1>1 DEF CancelIn, Working
  <2> QED
    BY <2>1, SimpleOrders DEF Table, Calmer
<1>2. CASE c \notin Working(o, Legs)
  BY <1>2 DEF CancelIn, Calmer
<1> QED
  BY <1>1, <1>2

(* Reducible() is what is held and not yet being sold.                     *)
LEMMA ReducibleIs ==
    ASSUME orders \in Table
    PROVE  Reducible = held - Total(Selling(orders))
<1> DEFINE g == [c \in Reduces |-> orders[c].remaining]
<1>1. Reduces \in SUBSET Sells
  BY DEF Reduces, Working
<1>2. \A c \in Sells \ Reduces : Selling(orders)[c] = 0
  BY EntryIsLeg DEF Reduces, Working, Selling, Unfilled
<1>3. g = [c \in Reduces |-> Selling(orders)[c]]
  BY <1>1 DEF Reduces, Working, Selling, Unfilled
<1>4. Total(g) = Total(Selling(orders))
  <2> HIDE DEF g
  <2> QED
    BY <1>1, <1>2, <1>3, SellingType, TotalOfPart
<1> QED
  BY <1>4 DEF Reducible

(* A reduce-only order of no more than what is reducible fits.             *)
LEMMA PlacingFits ==
    ASSUME Book(orders, held), NEW leg \in Sells, orders[leg] = NoOrder,
           NEW qty \in 0 .. MaxQty, qty > 0, qty <= Reducible, today \in 0 .. MaxDay
    PROVE  Book([orders EXCEPT ![leg] = Placed(leg, qty)], held)
<1> DEFINE n == [orders EXCEPT ![leg] = Placed(leg, qty)]
<1>1. orders \in Table /\ held \in 0 .. MaxQty
  BY DEF Book
<1>2. /\ Placed(leg, qty) \in OrderType
      /\ Placed(leg, qty).status = "WORKING" /\ Placed(leg, qty).remaining = qty
  BY DEF Placed, OrderType
<1>3. /\ n \in Table
      /\ n[leg] = Placed(leg, qty)
      /\ \A c \in Legs : c # leg => n[c] = orders[c]
  BY <1>1, <1>2, EntryIsLeg DEF Table
<1> HIDE DEF n
<1>4. Unfilled(n, leg) = qty /\ \A c \in Legs : c # leg => Unfilled(n, c) = Unfilled(orders, c)
  BY <1>2, <1>3 DEF Unfilled
<1>5. Total(Selling(n)) <= Total(Selling(orders)) + qty
  <2>1. \A d \in Sells \ {leg} : Selling(n)[d] <= Selling(orders)[d]
    <3> SUFFICES ASSUME NEW d \in Sells, d # leg PROVE Selling(n)[d] <= Selling(orders)[d]
      OBVIOUS
    <3>1. Selling(n)[d] = Unfilled(orders, d) /\ Selling(orders)[d] = Unfilled(orders, d)
      BY <1>4, EntryIsLeg DEF Selling
    <3>2. Unfilled(orders, d) \in 0 .. MaxQty
      BY <1>1, UnfilledType, EntryIsLeg
    <3> QED
      BY <3>1, <3>2, ExitsAssumption
  <2>2. Selling(n)[leg] = qty
    BY <1>4 DEF Selling
  <2> QED
    BY <1>1, <1>3, <2>1, <2>2, SellingType, TotalAdd
<1>6. Total(Selling(n)) <= held
  <2>1. Total(Selling(n)) \in Nat /\ Total(Selling(orders)) \in Nat
    BY <1>1, <1>3, SellingType
  <2>2. qty <= held - Total(Selling(orders))
    BY <1>1, ReducibleIs
  <2> QED
    BY <1>1, <1>5, <2>1, <2>2, ExitsAssumption
<1>7. leg # Entry
  BY EntryIsLeg
<1>8. n[Entry] = orders[Entry] /\ Unfilled(n, Entry) = Unfilled(orders, Entry)
  BY <1>3, <1>4, <1>7, EntryIsLeg
<1>9. \A c \in Legs : n[c].status = "WORKING" => n[c].remaining > 0
  BY <1>2, <1>3 DEF Book
<1> QED
  BY <1>1, <1>3, <1>6, <1>8, <1>9 DEF Book, n

LEMMA EndingFits ==
    ASSUME NEW o, NEW h, Book(o, h), NEW leg \in Sells, o[leg] = NoOrder
    PROVE  Book([o EXCEPT ![leg] = Ended], h)
<1> DEFINE n == [o EXCEPT ![leg] = Ended]
<1>1. o \in Table /\ leg # Entry
  BY EntryIsLeg DEF Book
<1>2. n \in Table /\ n[leg] = Ended /\ \A c \in Legs : c # leg => n[c] = o[c]
  BY <1>1, SimpleOrders, EntryIsLeg DEF Table
<1> HIDE DEF n
<1>3. \A c \in Legs : Unfilled(n, c) = Unfilled(o, c)
  BY <1>2, SimpleOrders DEF Unfilled
<1>4. Selling(n) = Selling(o)
  BY <1>3, EntryIsLeg DEF Selling
<1>5. \A c \in Legs : n[c].status = "WORKING" => n[c].remaining > 0
  BY <1>2, SimpleOrders DEF Book
<1> QED
  BY <1>1, <1>2, <1>3, <1>4, <1>5, EntryIsLeg DEF Book, n

-----------------------------------------------------------------------------
(* A quote's executions.                                                   *)

Takings(taken) ==
    /\ taken \in [Legs -> 0 .. MaxQty]
    /\ \A c \in Matchable : taken[c] <= orders[c].remaining
    /\ \A c \in Legs \ Matchable : taken[c] = 0

LEMMA ExecutionsTake ==
    ASSUME NEW taken \in Executions
    PROVE  Takings(taken)
<1>1. PICK f \in [Matchable -> 0 .. MaxQty] :
         /\ \A c \in Matchable : f[c] <= orders[c].remaining
         /\ taken = [c \in Legs |-> IF c \in Matchable THEN f[c] ELSE 0]
  BY DEF Executions
<1>2. Matchable \subseteq Legs
  BY DEF Matchable
<1> QED
  BY <1>1, <1>2, ExitsAssumption DEF Takings

LEMMA OneShareTaken ==
    ASSUME NEW c \in Matchable, NEW taken, Book(orders, held),
           taken = [d \in Legs |-> IF d = c THEN 1 ELSE 0]
    PROVE  Takings(taken)
<1>1. c \in Legs /\ orders[c].status = "WORKING" /\ orders[c].remaining > 0
  BY DEF Matchable, Book
<1>2. orders[c].remaining \in 0 .. MaxQty
  BY <1>1, UnfilledType DEF Book
<1>3. \A d \in Matchable : d \in Legs /\ orders[d].remaining \in 0 .. MaxQty
  BY UnfilledType DEF Book, Matchable
<1> QED
  BY <1>1, <1>2, <1>3, ExitsAssumption DEF Takings

(* What one order takes and keeps.                                         *)
LEMMA AfterOne ==
    ASSUME Book(orders, held), NEW taken, Takings(taken), NEW capped \in SUBSET Matchable,
           NEW c \in Legs, NEW n, n = AfterQuote(c, taken, capped)
    PROVE  /\ n \in OrderType
           /\ n.status = "WORKING" => n.remaining > 0
           /\ (IF n.status = "WORKING" THEN n.remaining ELSE 0) + taken[c] <= Unfilled(orders, c)
           /\ n = NoOrder <=> orders[c] = NoOrder
           /\ taken[c] \in 0 .. MaxQty
           /\ taken[c] <= Unfilled(orders, c)
<1> DEFINE o == orders[c]
<1>1. /\ o \in OrderType /\ o.remaining \in 0 .. MaxQty
      /\ o.status \in {"NONE", "WORKING", "ENDED"} /\ o.day \in 0 .. MaxDay
      /\ taken[c] \in 0 .. MaxQty /\ (o.status = "WORKING" => o.remaining > 0)
  BY DEF Book, Table, OrderType, Takings
<1>2. taken[c] <= Unfilled(orders, c)
  <2>1. CASE c \in Matchable
    BY <2>1 DEF Takings, Unfilled, Matchable
  <2>2. CASE c \notin Matchable
    BY <1>1, <2>2, ExitsAssumption DEF Takings, Unfilled
  <2> QED
    BY <2>1, <2>2
<1>3. CASE c \in capped \/ (o.status = "WORKING" /\ (o.day < today \/ taken[c] = o.remaining))
  <2>1. n = Ended
    BY <1>3 DEF AfterQuote
  <2>2. o.status = "WORKING"
    BY <1>3 DEF Matchable
  <2> QED
    BY <1>1, <1>2, <2>1, <2>2, SimpleOrders DEF Unfilled
<1>4. CASE ~(c \in capped \/ (o.status = "WORKING" /\ (o.day < today \/ taken[c] = o.remaining)))
  <2>1. n = [o EXCEPT !.remaining = @ - taken[c]]
    BY <1>4 DEF AfterQuote
  <2>2. CASE o.status = "WORKING"
    <3>1. /\ n.status = "WORKING" /\ n.remaining = o.remaining - taken[c] /\ n.day = o.day
          /\ Unfilled(orders, c) = o.remaining /\ taken[c] # o.remaining
      BY <1>1, <1>4, <2>1, <2>2 DEF OrderType, Unfilled
    <3>2. n.remaining \in 0 .. MaxQty /\ n.remaining > 0
      BY <1>1, <1>2, <3>1, ExitsAssumption
    <3>3. n \in OrderType
      BY <1>1, <2>1, <2>2, <3>1, <3>2 DEF OrderType
    <3>4. n.remaining + taken[c] <= Unfilled(orders, c)
      BY <1>1, <3>1, ExitsAssumption
    <3> QED
      BY <1>1, <1>2, <2>2, <3>1, <3>2, <3>3, <3>4, SimpleOrders
  <2>3. CASE o.status # "WORKING"
    <3>1. taken[c] = 0 /\ Unfilled(orders, c) = 0
      BY <2>3 DEF Takings, Matchable, Unfilled
    <3>2. n = o
      BY <1>1, <2>1, <3>1, ExitsAssumption DEF OrderType
    <3> QED
      BY <1>1, <2>3, <3>1, <3>2, ExitsAssumption
  <2> QED
    BY <2>2, <2>3
<1> QED
  BY <1>3, <1>4

(* The shares sold at a quote are a sum over all exits.                    *)
LEMMA SoldOffIs ==
    ASSUME NEW taken, Takings(taken)
    PROVE  /\ [c \in Sells |-> taken[c]] \in Counts
           /\ SoldOff(taken) = Total([c \in Sells |-> taken[c]])
           /\ SoldOff(taken) \in Nat
<1> DEFINE f == [c \in Sells |-> taken[c]]
           S == Matchable \ {Entry}
           g == [c \in S |-> taken[c]]
<1>1. f \in Counts
  BY EntryIsLeg DEF Counts, Takings
<1>2. S \in SUBSET Sells
  BY DEF Matchable, Sells
<1>3. g = [c \in S |-> f[c]]
  BY <1>2
<1>4. \A c \in Sells \ S : f[c] = 0
  BY EntryIsLeg DEF Takings
<1>5. SoldOff(taken) = Total(g)
  BY DEF SoldOff
<1> HIDE DEF f, g, S
<1>6. Total(g) = Total(f)
  BY <1>1, <1>2, <1>3, <1>4, TotalOfPart
<1>7. Total(f) \in Nat
  BY <1>1, CountedFinite
<1> QED
  BY <1>1, <1>5, <1>6, <1>7 DEF f

(* A quote's executions leave the book covered, and never sell more than   *)
(* is held.                                                                *)
LEMMA QuoteFits ==
    ASSUME Book(orders, held), NEW taken, Takings(taken), NEW capped \in SUBSET Matchable,
           NEW after, after = [c \in Legs |-> AfterQuote(c, taken, capped)]
    PROVE  /\ Book(after, HeldAfter(taken))
           /\ SoldOff(taken) \in Nat /\ SoldOff(taken) <= held
           /\ taken[Entry] \in 0 .. MaxQty /\ held + taken[Entry] \in 0 .. MaxQty
           /\ \A c \in Legs : after[c] = NoOrder <=> orders[c] = NoOrder
<1> DEFINE f == [c \in Sells |-> taken[c]]
<1>1. held \in 0 .. MaxQty /\ orders \in Table
  BY DEF Book
<1>2. \A c \in Legs :
         /\ after[c] \in OrderType
         /\ after[c].status = "WORKING" => after[c].remaining > 0
         /\ Unfilled(after, c) + taken[c] <= Unfilled(orders, c)
         /\ after[c] = NoOrder <=> orders[c] = NoOrder
         /\ taken[c] \in 0 .. MaxQty
         /\ taken[c] <= Unfilled(orders, c)
  <2> SUFFICES ASSUME NEW c \in Legs
               PROVE  /\ after[c] \in OrderType
                      /\ after[c].status = "WORKING" => after[c].remaining > 0
                      /\ Unfilled(after, c) + taken[c] <= Unfilled(orders, c)
                      /\ after[c] = NoOrder <=> orders[c] = NoOrder
                      /\ taken[c] \in 0 .. MaxQty
                      /\ taken[c] <= Unfilled(orders, c)
    OBVIOUS
  <2>1. after[c] = AfterQuote(c, taken, capped)
    OBVIOUS
  <2>2. Unfilled(after, c) = IF after[c].status = "WORKING" THEN after[c].remaining ELSE 0
    BY DEF Unfilled
  <2> QED
    BY <2>1, <2>2, AfterOne
<1>3. after \in Table
  BY <1>2 DEF Table
<1>4. f \in Counts /\ SoldOff(taken) = Total(f) /\ SoldOff(taken) \in Nat
  BY SoldOffIs
<1>5. \A c \in Sells : Selling(after)[c] + f[c] <= Selling(orders)[c]
  BY <1>2, EntryIsLeg DEF Selling
<1> HIDE DEF f
<1>6. Total(Selling(after)) + Total(f) <= Total(Selling(orders))
  BY <1>1, <1>3, <1>4, <1>5, SellingType, TotalPlus
<1>7. /\ Total(Selling(after)) \in Nat /\ Total(Selling(orders)) \in Nat
      /\ Total(Selling(orders)) <= held
  BY <1>1, <1>3, SellingType DEF Book
<1>8. SoldOff(taken) <= held /\ Total(Selling(after)) <= held - SoldOff(taken)
  BY <1>1, <1>4, <1>6, <1>7, ExitsAssumption
<1>9. /\ taken[Entry] \in 0 .. MaxQty /\ Unfilled(after, Entry) \in 0 .. MaxQty
      /\ Unfilled(orders, Entry) \in 0 .. MaxQty
      /\ Unfilled(after, Entry) + taken[Entry] <= Unfilled(orders, Entry)
      /\ held + Unfilled(orders, Entry) <= MaxQty
  BY <1>1, <1>2, <1>3, UnfilledType, EntryIsLeg DEF Book
<1>10. HeldAfter(taken) = held + taken[Entry] - SoldOff(taken)
  BY DEF HeldAfter
<1>11. /\ held + taken[Entry] \in 0 .. MaxQty
       /\ HeldAfter(taken) \in 0 .. MaxQty
       /\ HeldAfter(taken) + Unfilled(after, Entry) <= MaxQty
       /\ Total(Selling(after)) <= HeldAfter(taken)
  BY <1>1, <1>4, <1>7, <1>8, <1>9, <1>10, ExitsAssumption
<1>12. after[Entry] = NoOrder => HeldAfter(taken) = 0
  <2> SUFFICES ASSUME after[Entry] = NoOrder PROVE HeldAfter(taken) = 0
    OBVIOUS
  <2>1. orders[Entry] = NoOrder
    BY <1>2, EntryIsLeg
  <2>2. held = 0
    BY <2>1 DEF Book
  <2>3. Unfilled(orders, Entry) = 0
    BY <2>1, SimpleOrders DEF Unfilled
  <2>4. taken[Entry] <= 0
    BY <1>2, <2>3, EntryIsLeg
  <2> QED
    BY <1>4, <1>8, <1>9, <1>10, <2>2, <2>4, ExitsAssumption
<1> QED
  BY <1>2, <1>3, <1>4, <1>8, <1>9, <1>11, <1>12 DEF Book

(* A set of numbers has a least one: an initial segment of the numbers     *)
(* that none of the others is a part of.                                   *)
LEMMA LeastExists ==
    ASSUME NEW S \in SUBSET Nat, S # {}
    PROVE  \E x \in S : \A y \in S : x <= y
<1> DEFINE T == {0 .. x : x \in S}
<1>1. T \subseteq FiniteSubsetsOf(Nat)
  <2> SUFFICES ASSUME NEW x \in S PROVE 0 .. x \in FiniteSubsetsOf(Nat)
    OBVIOUS
  <2>1. IsFiniteSet(0 .. x)
    BY FS_Interval
  <2> QED
    BY <2>1 DEF FiniteSubsetsOf
<1>2. T # {}
  OBVIOUS
<1>3. \E t \in T : \A u \in T : ~(<<u, t>> \in StrictSubsetOrdering(Nat))
  <2> HIDE DEF T
  <2> QED
    BY <1>1, <1>2, FS_StrictSubsetOrderingWellFounded, WFMin
<1>4. PICK x \in S : \A u \in T : ~(<<u, 0 .. x>> \in StrictSubsetOrdering(Nat))
  BY <1>3
<1>5. ASSUME NEW y \in S PROVE x <= y
  <2> SUFFICES ASSUME y < x PROVE FALSE
    OBVIOUS
  <2>1. 0 .. y \subseteq 0 .. x /\ x \in 0 .. x /\ x \notin 0 .. y
    OBVIOUS
  <2>2. <<0 .. y, 0 .. x>> \in StrictSubsetOrdering(Nat)
    BY <2>1 DEF StrictSubsetOrdering
  <2> QED
    BY <1>4, <2>2
<1> QED
  BY <1>5

-----------------------------------------------------------------------------
(* The managed position and the handlers' runs.                            *)

Man == [quantity : 0 .. MaxQty, stop : StopLegs \cup {NoLeg}, version : Nat,
        closing : BOOLEAN, partial : BOOLEAN, entered : 0 .. MaxDay]

Asked == [pc : {"idle", "asked"},
          leg : Legs \cup {NoLeg} \cup {Stop(d, v) : d \in 1 .. MaxDay, v \in Nat},
          qty : 0 .. MaxQty, mine : BOOLEAN, then : Levels \cup {"end", "refresh"},
          result : {"NONE"}]

Runs == [orders : Table, mgr : Man, stale : BOOLEAN, disk : Man, ask : Asked]
Ready == {r \in Runs : r.ask = Idle}

(* A run that has asked names a leg that is not a flatten order's.         *)
Asks(s) ==
    /\ s.ask.pc = "asked"
    /\ \/ s.ask.leg \in {Target, Partial, TimeExit(today)}
       \/ s.ask.leg = Stop(today, s.mgr.version) /\ s.mgr.version > 0

(* What a handler may do to its run: it cancels, it saves, it asks; it     *)
(* never changes how much is managed.                                      *)
Outcome(r, s) ==
    /\ s \in Runs
    /\ Calmer(r.orders, s.orders)
    /\ s.mgr.quantity = r.mgr.quantity
    /\ s.disk.quantity \in {r.disk.quantity, r.mgr.quantity}
    /\ s.ask = Idle \/ Asks(s)

(* The managed position after the fills of a quote: what was in step with  *)
(* the book still is.                                                      *)
LEMMA ManagedFollows ==
    ASSUME Book(orders, held), NEW taken, Takings(taken), mgr \in Man, today \in 1 .. MaxDay
    PROVE  /\ Managed(taken) \in Man
           /\ mgr.quantity = held => Managed(taken).quantity = HeldAfter(taken)
           /\ taken[Entry] = 0 /\ SoldOff(taken) = 0 => Managed(taken) = mgr
<1> DEFINE bought == held + taken[Entry]
           sold == SoldOff(taken)
           m == IF taken[Entry] > 0 THEN OnEntryFill(mgr, bought) ELSE mgr
<1>1. /\ held \in 0 .. MaxQty /\ taken[Entry] \in 0 .. MaxQty /\ bought \in 0 .. MaxQty
      /\ sold \in Nat /\ sold <= held
      /\ HeldAfter(taken) = bought - sold
  <2> DEFINE after == [c \in Legs |-> AfterQuote(c, taken, {})]
  <2>1. {} \in SUBSET Matchable /\ after = [c \in Legs |-> AfterQuote(c, taken, {})]
    OBVIOUS
  <2> HIDE DEF after
  <2> QED
    BY <2>1, QuoteFits DEF HeldAfter, Book
<1>2. Managed(taken) = IF sold > 0 THEN OnExitFill(m, bought - sold, taken) ELSE m
  BY DEF Managed
<1>3. m \in Man /\ (mgr.quantity = held => m.quantity = bought) /\ (taken[Entry] = 0 => m = mgr)
  <2>1. CASE taken[Entry] > 0
    <3>1. m = [mgr EXCEPT !.quantity = bought, !.closing = FALSE,
                          !.entered = IF mgr.quantity = 0 THEN today ELSE @]
      BY <2>1 DEF OnEntryFill
    <3> DEFINE e == IF mgr.quantity = 0 THEN today ELSE mgr.entered
    <3>2. e \in 0 .. MaxDay
      BY ExitsAssumption DEF Man
    <3>3. m = [mgr EXCEPT !.quantity = bought, !.closing = FALSE, !.entered = e]
      BY <3>1 DEF Man
    <3> HIDE DEF m, e, bought
    <3>4. m \in Man /\ m.quantity = bought
      BY <1>1, <3>2, <3>3 DEF Man
    <3> QED
      BY <1>1, <2>1, <3>4, ExitsAssumption
  <2>2. CASE ~(taken[Entry] > 0)
    <3>1. m = mgr /\ taken[Entry] = 0
      BY <1>1, <2>2, ExitsAssumption
    <3>2. bought = held
      BY <1>1, <3>1, ExitsAssumption
    <3> QED
      BY <3>1, <3>2
  <2> QED
    BY <2>1, <2>2
<1> HIDE DEF m, bought, sold
<1>4. Nobody \in Man /\ Nobody.quantity = 0
  BY ExitsAssumption DEF Nobody, Man
<1>5. CASE sold > 0
  <2>1. Managed(taken) = OnExitFill(m, bought - sold, taken)
    BY <1>2, <1>5
  <2>2. CASE m.quantity = 0 \/ bought - sold <= 0
    <3>1. Managed(taken) = Nobody
      BY <2>1, <2>2 DEF OnExitFill
    <3>2. m.quantity = bought => bought - sold = 0
      BY <1>1, <1>5, <2>2, ExitsAssumption DEF bought
    <3> QED
      BY <1>1, <1>3, <1>4, <1>5, <3>1, <3>2 DEF sold
  <2>3. CASE ~(m.quantity = 0 \/ bought - sold <= 0)
    <3>1. Managed(taken) = [m EXCEPT !.quantity = bought - sold, !.partial = @ \/ taken[Partial] > 0]
      BY <2>1, <2>3 DEF OnExitFill
    <3>2. bought - sold \in 0 .. MaxQty
      BY <1>1, <2>3, ExitsAssumption
    <3>3. Managed(taken) \in Man /\ Managed(taken).quantity = bought - sold
      BY <1>3, <3>1, <3>2 DEF Man
    <3> QED
      BY <1>1, <1>5, <3>3 DEF sold
  <2> QED
    BY <2>2, <2>3
<1>6. CASE ~(sold > 0)
  <2>1. Managed(taken) = m /\ sold = 0
    BY <1>1, <1>2, <1>6
  <2>2. bought - sold = bought
    BY <1>1, <2>1, ExitsAssumption
  <2> QED
    BY <1>1, <1>3, <2>1, <2>2
<1> QED
  BY <1>5, <1>6

(* _live_stop() names a working stop or none.                              *)
LEMMA LiveStopType ==
    ASSUME NEW o
    PROVE  /\ LiveStop(o) \in StopLegs \cup {NoLeg}
           /\ LiveStop(o) # NoLeg => LiveStop(o) \in Working(o, StopLegs)
<1> DEFINE live == Working(o, StopLegs)
<1>1. CASE live = {}
  BY <1>1 DEF LiveStop
<1>2. CASE live # {}
  <2> DEFINE D == {c[2] : c \in live}
  <2>1. \A c \in live : c \in StopLegs /\ c[2] \in Nat /\ c[3] \in Nat
    BY ExitsAssumption DEF Working, StopLegs, Stop
  <2>2. D \in SUBSET Nat /\ D # {}
    BY <1>2, <2>1
  <2>3. PICK d \in D : \A e \in D : d <= e
    <3> HIDE DEF D
    <3> QED
      BY <2>2, LeastExists
  <2> DEFINE V == {c[3] : c \in {b \in live : b[2] = d}}
  <2>4. V \in SUBSET Nat /\ V # {}
    BY <2>1, <2>3
  <2>5. PICK v \in V : \A w \in V : v <= w
    <3> HIDE DEF V
    <3> QED
      BY <2>4, LeastExists
  <2>6. PICK c \in live : c[2] = d /\ c[3] = v
    BY <2>5
  <2>7. \A b \in live : c[2] < b[2] \/ (c[2] = b[2] /\ c[3] <= b[3])
    <3> SUFFICES ASSUME NEW b \in live PROVE c[2] < b[2] \/ (c[2] = b[2] /\ c[3] <= b[3])
      OBVIOUS
    <3>1. d \in Nat /\ b[2] \in Nat /\ d <= b[2] /\ (b[2] = d => v <= b[3])
      BY <2>1, <2>2, <2>3, <2>5
    <3> QED
      BY <2>6, <3>1
  <2>8. LiveStop(o) \in live
    BY <1>2, <2>7 DEF LiveStop
  <2> QED
    BY <2>1, <2>8
<1> QED
  BY <1>1, <1>2

LEMMA IdleType == Idle \in Asked /\ Idle.leg = NoLeg /\ Idle.pc = "idle" /\ Idle.result = "NONE"
BY ExitsAssumption DEF Idle, Asked, Levels

LEMMA CalmerSelf == \A o : Calmer(o, o)
BY DEF Calmer

(* Asking on top of an outcome.                                            *)
LEMMA AskingOutcome ==
    ASSUME NEW r, NEW s, Outcome(r, s), NEW qty \in 0 .. MaxQty,
           NEW then \in Levels \cup {"end", "refresh"}, NEW leg,
           \/ leg \in {Target, Partial, TimeExit(today)}
           \/ leg = Stop(today, s.mgr.version) /\ s.mgr.version > 0,
           today \in 1 .. MaxDay
    PROVE  Outcome(r, Asking(s, leg, qty, then))
<1> DEFINE a == [pc |-> "asked", leg |-> leg, qty |-> qty, mine |-> TRUE,
                 then |-> then, result |-> "NONE"]
           n == [s EXCEPT !.ask = a]
<1>1. s \in Runs /\ s.mgr \in Man /\ s.mgr.version \in Nat
  BY DEF Outcome, Runs, Man
<1>2. leg \in Legs \cup {NoLeg} \cup {Stop(d, v) : d \in 1 .. MaxDay, v \in Nat}
  BY <1>1 DEF Legs
<1>3. a \in Asked /\ a.pc = "asked" /\ a.leg = leg
  BY <1>2 DEF Asked
<1>4. Asking(s, leg, qty, then) = n
  BY DEF Asking
<1> HIDE DEF a
<1>5. /\ n \in Runs /\ n.orders = s.orders /\ n.mgr = s.mgr /\ n.disk = s.disk /\ n.ask = a
  BY <1>1, <1>3 DEF Runs
<1> HIDE DEF n
<1> QED
  BY <1>3, <1>4, <1>5 DEF Outcome, Asks

LEMMA SelfOutcome ==
    ASSUME NEW r \in Ready
    PROVE  Outcome(r, r)
BY CalmerSelf DEF Ready, Outcome

(* Saving on top of an outcome.                                            *)
LEMMA SavedOutcome ==
    ASSUME NEW r, NEW s, Outcome(r, s)
    PROVE  Outcome(r, Saved(s))
<1> DEFINE n == [s EXCEPT !.disk = s.mgr]
<1>1. s \in Runs
  BY DEF Outcome
<1>2. n \in Runs /\ n.orders = s.orders /\ n.mgr = s.mgr /\ n.disk = s.mgr /\ n.ask = s.ask
  BY <1>1 DEF Runs
<1>3. Saved(s) = n
  BY DEF Saved
<1> HIDE DEF n
<1> QED
  BY <1>2, <1>3 DEF Outcome, Asks

LEMMA RefreshOutcome ==
    ASSUME NEW r \in Ready, NEW then \in Levels \cup {"end"}, today \in 1 .. MaxDay
    PROVE  Outcome(r, RefreshStops(r, then))
<1> DEFINE m == r.mgr
           live == IF m.stop = NoLeg THEN LiveStop(r.orders) ELSE m.stop
           need == ~r.stale \/ m.quantity = 0 \/ m.closing
           adopt == m.stop = NoLeg /\ live # NoLeg /\ r.orders[live].remaining = m.quantity
<1>1. /\ r \in Runs /\ r.ask = Idle /\ r.orders \in Table /\ m \in Man /\ r.disk \in Man
      /\ m.quantity \in 0 .. MaxQty /\ m.version \in Nat
  BY DEF Ready, Runs, Man
<1>2. live \in StopLegs \cup {NoLeg}
  BY <1>1, LiveStopType DEF Man
<1>3. Outcome(r, [r EXCEPT !.stale = FALSE])
  <2> DEFINE n == [r EXCEPT !.stale = FALSE]
  <2>1. n \in Runs /\ n.orders = r.orders /\ n.mgr = r.mgr /\ n.disk = r.disk /\ n.ask = Idle
    BY <1>1 DEF Runs
  <2> HIDE DEF n
  <2>2. Outcome(r, n)
    BY <2>1, CalmerSelf DEF Outcome
  <2> QED
    BY <2>2 DEF n
<1>4. CASE need
  <2>1. RefreshStops(r, then) = Saved([r EXCEPT !.stale = FALSE])
    BY <1>4 DEF RefreshStops
  <2> QED
    BY <1>3, <2>1, SavedOutcome
<1>5. CASE ~need /\ adopt
  <2> DEFINE n == [r EXCEPT !.mgr.stop = live, !.stale = FALSE]
             k == [m EXCEPT !.stop = live]
  <2>1. RefreshStops(r, then) = Saved(n)
    BY <1>5 DEF RefreshStops
  <2> HIDE DEF live
  <2>2. k \in Man /\ k.quantity = m.quantity
    BY <1>1, <1>2 DEF Man
  <2>3. n = [r EXCEPT !.mgr = k, !.stale = FALSE]
    BY <1>1 DEF Runs
  <2> HIDE DEF k
  <2>4. n \in Runs /\ n.orders = r.orders /\ n.mgr = k /\ n.disk = r.disk /\ n.ask = Idle
    BY <1>1, <2>2, <2>3 DEF Runs
  <2> HIDE DEF n
  <2>5. Outcome(r, n)
    BY <2>2, <2>4, CalmerSelf DEF Outcome
  <2> QED
    BY <2>1, <2>5, SavedOutcome
<1>6. CASE ~need /\ ~adopt
  <2> DEFINE o == CancelIn(r.orders, live)
             k == [m EXCEPT !.version = @ + 1]
             n == [r EXCEPT !.orders = CancelIn(@, live), !.mgr.version = @ + 1]
  <2>1. RefreshStops(r, then) = Asking(n, Stop(today, m.version + 1), m.quantity, then)
    BY <1>6 DEF RefreshStops
  <2> HIDE DEF live
  <2>2. o \in Table /\ Calmer(r.orders, o)
    BY <1>1, CancelCalms
  <2>3. k \in Man /\ k.quantity = m.quantity /\ k.version = m.version + 1
    BY <1>1 DEF Man
  <2>4. n = [r EXCEPT !.orders = o, !.mgr = k]
    BY <1>1 DEF Runs
  <2> HIDE DEF k, o
  <2>5. n \in Runs /\ n.orders = o /\ n.mgr = k /\ n.disk = r.disk /\ n.ask = Idle
    BY <1>1, <2>2, <2>3, <2>4 DEF Runs
  <2> HIDE DEF n
  <2>6. Outcome(r, n) /\ n.mgr.version = m.version + 1
    BY <2>2, <2>3, <2>5 DEF Outcome
  <2> DEFINE leg == Stop(today, m.version + 1)
             qty == m.quantity
  <2>7. leg = Stop(today, n.mgr.version) /\ n.mgr.version > 0 /\ qty \in 0 .. MaxQty
    BY <1>1, <2>6
  <2> HIDE DEF leg, qty
  <2>8. Outcome(r, Asking(n, leg, qty, then))
    BY <2>6, <2>7, AskingOutcome
  <2> QED
    BY <2>1, <2>8 DEF leg, qty
<1> QED
  BY <1>4, <1>5, <1>6

LEMMA CancelStopOutcome ==
    ASSUME NEW r \in Ready
    PROVE  Outcome(r, CancelStop(r)) /\ CancelStop(r).ask = Idle
<1> DEFINE o == CancelIn(r.orders, r.mgr.stop)
           k == [r.mgr EXCEPT !.stop = NoLeg]
           n == [r EXCEPT !.orders = CancelIn(@, r.mgr.stop), !.mgr.stop = NoLeg]
<1>1. r \in Runs /\ r.ask = Idle /\ r.orders \in Table /\ r.mgr \in Man
  BY DEF Ready, Runs
<1>2. o \in Table /\ Calmer(r.orders, o)
  BY <1>1, CancelCalms
<1>3. k \in Man /\ k.quantity = r.mgr.quantity
  BY <1>1 DEF Man
<1>4. n = [r EXCEPT !.orders = o, !.mgr = k]
  BY <1>1 DEF Runs
<1>5. CancelStop(r) = n
  BY DEF CancelStop
<1> HIDE DEF k, o
<1>6. n \in Runs /\ n.orders = o /\ n.mgr = k /\ n.disk = r.disk /\ n.ask = Idle
  BY <1>1, <1>2, <1>3, <1>4 DEF Runs
<1> HIDE DEF n
<1> QED
  BY <1>2, <1>3, <1>5, <1>6 DEF Outcome

LEMMA ExitAllOutcome ==
    ASSUME NEW r \in Ready, NEW leg \in {Target, TimeExit(today)}, NEW then \in {"end", "refresh"},
           today \in 1 .. MaxDay
    PROVE  Outcome(r, ExitAll(r, leg, then))
<1> DEFINE s == CancelStop(r)
           qty == r.mgr.quantity
<1>1. Outcome(r, s)
  BY CancelStopOutcome
<1>2. qty \in 0 .. MaxQty
  BY DEF Ready, Runs, Man
<1>3. ExitAll(r, leg, then) = Asking(s, leg, qty, then)
  BY DEF ExitAll
<1> HIDE DEF s, qty
<1> QED
  BY <1>1, <1>2, <1>3, AskingOutcome

LEMMA LevelsOutcome ==
    ASSUME NEW r \in Ready, NEW level \in Levels, today \in 1 .. MaxDay
    PROVE  Outcome(r, CheckLevels(r, level))
<1>1. r.mgr \in Man /\ r.mgr.quantity \in 0 .. MaxQty /\ r \in Runs /\ r.ask = Idle
  BY DEF Ready, Runs, Man
<1>2. Outcome(r, ExitAll(r, Target, "end"))
  BY ExitAllOutcome
<1>3. Outcome(r, ExitPartial(r))
  <2> DEFINE qty == r.mgr.quantity \div 2
             s == CancelStop(r)
             n == [r EXCEPT !.mgr.partial = TRUE]
             k == [r.mgr EXCEPT !.partial = TRUE]
  <2>1. qty \in 0 .. MaxQty
    <3>1. \A x \in Nat : x \div 2 \in Nat /\ x \div 2 <= x
      OBVIOUS
    <3>2. r.mgr.quantity \in Nat /\ r.mgr.quantity <= MaxQty /\ MaxQty \in Nat
      BY <1>1, ExitsAssumption
    <3>3. qty \in Nat /\ qty <= r.mgr.quantity
      BY <3>1, <3>2
    <3> HIDE DEF qty
    <3> QED
      BY <3>2, <3>3
  <2>2. CASE qty = 0
    <3>1. k \in Man /\ k.quantity = r.mgr.quantity
      BY <1>1 DEF Man
    <3>2. n = [r EXCEPT !.mgr = k]
      BY <1>1 DEF Runs
    <3>3. ExitPartial(r) = n
      BY <2>2 DEF ExitPartial
    <3> HIDE DEF k
    <3>4. n \in Runs /\ n.orders = r.orders /\ n.mgr = k /\ n.disk = r.disk /\ n.ask = Idle
      BY <1>1, <3>1, <3>2 DEF Runs
    <3> HIDE DEF n
    <3> QED
      BY <3>1, <3>3, <3>4, CalmerSelf DEF Outcome
  <2>3. CASE qty # 0
    <3>1. ExitPartial(r) = Asking(s, Partial, qty, "end")
      BY <2>3 DEF ExitPartial
    <3>2. Outcome(r, s)
      BY CancelStopOutcome
    <3> HIDE DEF s, qty
    <3> QED
      BY <2>1, <3>1, <3>2, AskingOutcome
  <2> QED
    BY <2>2, <2>3
<1>4. Outcome(r, r)
  BY SelfOutcome
<1> QED
  BY <1>2, <1>3, <1>4 DEF CheckLevels

LEMMA OutcomeTwice ==
    ASSUME NEW r, NEW s, NEW u, Outcome(r, s), Outcome(s, u)
    PROVE  Outcome(r, u)
<1>1. Calmer(r.orders, u.orders)
  BY CalmerTwice DEF Outcome
<1> QED
  BY <1>1 DEF Outcome

LEMMA OnQuoteOutcome ==
    ASSUME NEW r \in Ready, NEW level \in Levels, today \in 1 .. MaxDay
    PROVE  Outcome(r, OnQuote(r, level))
<1> DEFINE fresh == RefreshStops(r, level)
<1>1. Outcome(r, fresh)
  BY RefreshOutcome
<1>2. OnQuote(r, level) = IF fresh.ask = Idle THEN CheckLevels(fresh, level) ELSE fresh
  BY DEF OnQuote
<1> HIDE DEF fresh
<1>3. CASE fresh.ask = Idle
  <2>1. fresh \in Ready
    BY <1>1, <1>3 DEF Outcome, Ready
  <2>2. Outcome(fresh, CheckLevels(fresh, level))
    BY <2>1, LevelsOutcome
  <2> QED
    BY <1>1, <1>2, <1>3, <2>2, OutcomeTwice
<1>4. CASE fresh.ask # Idle
  BY <1>1, <1>2, <1>4
<1> QED
  BY <1>3, <1>4

-----------------------------------------------------------------------------
(* The inductive invariant.                                                *)

Row == [pc : {"idle", "asked", "told"}, leg : Sells \cup {NoLeg}, qty : 0 .. MaxQty,
        mine : BOOLEAN, then : Levels \cup {"end", "refresh"},
        result : {"NONE", "SUBMITTED", "DUPLICATE", "BLOCKED", "REJECTED"}]

Typed ==
    /\ mgr \in Man /\ disk \in Man /\ stale \in BOOLEAN
    /\ task \in [Tasks -> Row]
    /\ \A t \in Tasks : task[t].pc = "asked" => task[t].leg \in Sells
    /\ attempts \in [1 .. MaxDay -> 0 .. MaxAttempts]
    /\ today \in 1 .. MaxDay

(* A flatten order that exists, or that a task waits for, is an attempt    *)
(* already spent; a task that has asked is the only one, and the order     *)
(* does not exist yet.                                                     *)
FlattenOk(d, n) ==
    /\ orders[Flatten(d, n)] # NoOrder => n <= attempts[d]
    /\ \A t \in Tasks : task[t].leg = Flatten(d, n) =>
          /\ n <= attempts[d]
          /\ task[t].result # "DUPLICATE"
          /\ task[t].pc = "asked" => orders[Flatten(d, n)] = NoOrder
          /\ \A u \in Tasks \ {t} : task[u].leg # Flatten(d, n)
Spent == \A d \in 1 .. MaxDay, n \in 1 .. MaxAttempts : FlattenOk(d, n)

ExitsInv == Typed /\ Book(orders, held) /\ Spent /\ ManagedIsHeld

LEMMA FlattenIsSell ==
    ASSUME NEW d \in 1 .. MaxDay, NEW n \in 1 .. MaxAttempts
    PROVE  Flatten(d, n) \in FlattenLegs /\ Flatten(d, n) \in Legs /\ Flatten(d, n) \in Sells
BY LegsDiffer DEF FlattenLegs, Legs, Sells

(* A step that spends no attempt, makes no flatten order and leaves those  *)
(* who wait for one waiting.                                               *)
LEMMA SpentStays ==
    ASSUME Spent, attempts' = attempts,
           \A c \in FlattenLegs : orders[c] = NoOrder => orders'[c] = NoOrder,
           \A t \in Tasks : task'[t].leg \in FlattenLegs =>
                /\ task'[t].leg = task[t].leg /\ task'[t].pc = task[t].pc
                /\ task'[t].result = task[t].result
    PROVE  Spent'
<1> SUFFICES ASSUME NEW d \in 1 .. MaxDay, NEW n \in 1 .. MaxAttempts
             PROVE  FlattenOk(d, n)'
  BY DEF Spent
<1> DEFINE c == Flatten(d, n)
<1>1. c \in FlattenLegs
  BY FlattenIsSell
<1>2. FlattenOk(d, n)
  BY DEF Spent
<1>3. orders'[c] # NoOrder => n <= attempts'[d]
  BY <1>1, <1>2 DEF FlattenOk
<1>4. ASSUME NEW t \in Tasks, task'[t].leg = c
      PROVE  /\ n <= attempts'[d]
             /\ task'[t].result # "DUPLICATE"
             /\ task'[t].pc = "asked" => orders'[c] = NoOrder
             /\ \A u \in Tasks \ {t} : task'[u].leg # c
  <2>1. task[t].leg = c /\ task'[t].pc = task[t].pc /\ task'[t].result = task[t].result
    BY <1>1, <1>4
  <2>2. \A u \in Tasks : task'[u].leg = c => task[u].leg = c
    BY <1>1
  <2> HIDE DEF c
  <2>3. /\ n <= attempts[d] /\ task[t].result # "DUPLICATE"
        /\ task[t].pc = "asked" => orders[c] = NoOrder
        /\ \A u \in Tasks \ {t} : task[u].leg # c
    BY <1>2, <2>1 DEF FlattenOk, c
  <2> QED
    BY <1>1, <2>1, <2>2, <2>3
<1> QED
  BY <1>3, <1>4 DEF FlattenOk

LEMMA AskedLeg ==
    ASSUME NEW r, NEW s, Outcome(r, s), s.mgr.version <= MaxVersion, today \in 1 .. MaxDay
    PROVE  /\ s.ask \in Row
           /\ s.ask.pc = "asked" => s.ask.leg \in Sells
           /\ s.ask.leg \notin FlattenLegs
<1>1. s.ask \in Asked /\ s.mgr.version \in Nat
  BY DEF Outcome, Runs, Man
<1>2. CASE s.ask = Idle
  <2>1. Idle \in Row
    BY ExitsAssumption DEF Idle, Row, Levels
  <2> QED
    BY <1>2, <2>1, IdleType, LegsDiffer DEF FlattenLegs
<1>3. CASE Asks(s)
  <2>1. \/ s.ask.leg \in {Target, Partial, TimeExit(today)}
        \/ s.ask.leg = Stop(today, s.mgr.version) /\ s.mgr.version \in 1 .. MaxVersion
    BY <1>1, <1>3, ExitsAssumption DEF Asks
  <2>2. s.ask.leg \in Sells
    BY <2>1, LegsDiffer DEF Sells, Legs, StopLegs
  <2>3. s.ask.leg \notin FlattenLegs
    BY <2>1, LegsDiffer DEF FlattenLegs
  <2>4. s.ask \in Row
    BY <1>1, <2>2 DEF Asked, Row
  <2> QED
    BY <2>2, <2>3, <2>4
<1> QED
  BY <1>2, <1>3 DEF Outcome

(* Who is suspended waits for what it asked; the others wait on.           *)
LEMMA SuspendsKeep ==
    ASSUME Typed, NEW t \in Tasks, NEW ask \in Row, ask.pc = "asked" => ask.leg \in Sells,
           NEW replaced \in BOOLEAN, Suspends(t, ask, replaced)
    PROVE  /\ task' \in [Tasks -> Row]
           /\ \A u \in Tasks : task'[u].pc = "asked" => task'[u].leg \in Sells
           /\ task'[t] = ask
           /\ \A u \in Tasks \ {t} :
                 /\ task'[u].leg = task[u].leg
                 /\ task'[u].pc = task[u].pc /\ task'[u].result = task[u].result
<1>1. task' = [u \in Tasks |-> IF u = t THEN ask ELSE [task[u] EXCEPT !.mine = @ /\ ~replaced]]
  BY DEF Suspends
<1>2. ASSUME NEW u \in Tasks, u # t
      PROVE  /\ task'[u] \in Row /\ task'[u].leg = task[u].leg
             /\ task'[u].pc = task[u].pc /\ task'[u].result = task[u].result
  <2>1. task[u] \in Row /\ task'[u] = [task[u] EXCEPT !.mine = @ /\ ~replaced]
    BY <1>1, <1>2 DEF Typed
  <2> QED
    BY <2>1 DEF Row
<1>3. task'[t] = ask
  BY <1>1
<1>4. task' \in [Tasks -> Row]
  BY <1>1, <1>2, <1>3
<1>5. \A u \in Tasks : task'[u].pc = "asked" => task'[u].leg \in Sells
  BY <1>2, <1>3 DEF Typed
<1> QED
  BY <1>2, <1>3, <1>4, <1>5

(* A handler's step keeps the types, the book and the spent attempts, and  *)
(* manages and saves no other quantity than it was given.                  *)
LEMMA StepsKeep ==
    ASSUME Typed, Spent, NEW t \in Tasks, NEW r, NEW s, Outcome(r, s),
           s.mgr.version <= MaxVersion, NEW replaced \in BOOLEAN, Steps(t, s, replaced),
           attempts' = attempts, today' = today, Book(r.orders, held'),
           \A c \in Legs : orders[c] = NoOrder => r.orders[c] = NoOrder
    PROVE  /\ Typed' /\ Spent' /\ Book(orders', held')
           /\ mgr'.quantity = r.mgr.quantity
           /\ disk'.quantity \in {r.disk.quantity, r.mgr.quantity}
<1>1. /\ orders' = s.orders /\ mgr' = s.mgr /\ stale' = s.stale
      /\ disk' = IF s.ask = Idle THEN s.mgr ELSE s.disk
      /\ Suspends(t, s.ask, replaced)
  BY DEF Steps
<1>2. today \in 1 .. MaxDay
  BY DEF Typed
<1>3. /\ s.ask \in Row /\ (s.ask.pc = "asked" => s.ask.leg \in Sells)
      /\ s.ask.leg \notin FlattenLegs
  BY <1>2, AskedLeg
<1>4. /\ s \in Runs /\ s.orders \in Table /\ s.mgr \in Man /\ s.disk \in Man /\ s.stale \in BOOLEAN
      /\ Calmer(r.orders, s.orders) /\ s.mgr.quantity = r.mgr.quantity
      /\ s.disk.quantity \in {r.disk.quantity, r.mgr.quantity}
  BY DEF Outcome, Runs
<1> DEFINE ask == s.ask
<1>5. /\ ask \in Row /\ (ask.pc = "asked" => ask.leg \in Sells)
      /\ ask.leg \notin FlattenLegs /\ Suspends(t, ask, replaced)
  BY <1>1, <1>3
<1> HIDE DEF ask
<1>6. /\ task' \in [Tasks -> Row]
      /\ \A u \in Tasks : task'[u].pc = "asked" => task'[u].leg \in Sells
      /\ task'[t] = ask
      /\ \A u \in Tasks \ {t} :
            /\ task'[u].leg = task[u].leg
            /\ task'[u].pc = task[u].pc /\ task'[u].result = task[u].result
  BY <1>5, SuspendsKeep
<1>7. Typed'
  <2>1. mgr' \in Man /\ disk' \in Man /\ stale' \in BOOLEAN
    BY <1>1, <1>4
  <2> QED
    BY <1>6, <2>1 DEF Typed
<1>8. Spent'
  <2>1. \A c \in FlattenLegs : orders[c] = NoOrder => orders'[c] = NoOrder
    BY <1>1, <1>4, CalmerNoOrder DEF Legs
  <2>2. \A u \in Tasks : task'[u].leg \in FlattenLegs =>
            /\ task'[u].leg = task[u].leg /\ task'[u].pc = task[u].pc
            /\ task'[u].result = task[u].result
    BY <1>5, <1>6
  <2> QED
    BY <2>1, <2>2, SpentStays
<1>9. Book(orders', held')
  BY <1>1, <1>4, CalmerBook
<1> QED
  BY <1>1, <1>4, <1>7, <1>8, <1>9

(* A torn fill is never forgotten.                                         *)
LEMMA TornStays ==
    ASSUME NEW new, Noting(new), "torn" \in mishaps \/ "torn" \in new
    PROVE  "torn" \in mishaps'
BY DEF Noting

-----------------------------------------------------------------------------
(* The exit manager's handlers keep the invariant.                         *)

LEMMA QuoteKeeps ==
    ASSUME ExitsInv, NEW t \in Tasks, NEW level \in Levels, Quote(t, level)
    PROVE  ExitsInv'
<1>1. /\ Typed /\ Book(orders, held) /\ Spent /\ ManagedIsHeld
      /\ mgr \in Man /\ disk \in Man /\ stale \in BOOLEAN /\ today \in 1 .. MaxDay
  BY DEF ExitsInv, Typed
<1> DEFINE Any(taken) == \E c \in Matchable : taken[c] > 0
           After(taken, capped) == [c \in Legs |-> AfterQuote(c, taken, capped)]
           Told(taken, capped) ==
              Run(After(taken, capped), Managed(taken),
                  stale \/ (Any(taken) /\ Managed(taken).quantity > 0),
                  IF Any(taken) THEN Managed(taken) ELSE disk)
<1>2. PICK taken \in Executions : \E capped \in SUBSET Cappable(taken) :
          /\ held' = HeldAfter(taken)
          /\ OnQuote(Told(taken, capped), level).mgr.version <= MaxVersion
          /\ Steps(t, OnQuote(Told(taken, capped), level), taken[Entry] > 0)
          /\ Noting(Overlap \cup IF capped \ {Entry} # {} THEN {"capped"} ELSE {})
  BY DEF Quote
<1>3. PICK capped \in SUBSET Cappable(taken) :
          /\ held' = HeldAfter(taken)
          /\ OnQuote(Told(taken, capped), level).mgr.version <= MaxVersion
          /\ Steps(t, OnQuote(Told(taken, capped), level), taken[Entry] > 0)
          /\ Noting(Overlap \cup IF capped \ {Entry} # {} THEN {"capped"} ELSE {})
  BY <1>2
<1> DEFINE told == Managed(taken)
           any == Any(taken)
           after == After(taken, capped)
           r == Told(taken, capped)
           s == OnQuote(r, level)
           replaced == taken[Entry] > 0
<1>4. Takings(taken) /\ capped \in SUBSET Matchable
  BY ExecutionsTake DEF Cappable
<1>5. /\ Book(after, held') /\ SoldOff(taken) \in Nat /\ taken[Entry] \in 0 .. MaxQty
      /\ \A c \in Legs : after[c] = NoOrder <=> orders[c] = NoOrder
  <2>1. after = [c \in Legs |-> AfterQuote(c, taken, capped)]
    OBVIOUS
  <2>2. held' = HeldAfter(taken)
    BY <1>3
  <2> HIDE DEF after, After
  <2>3. /\ Book(after, HeldAfter(taken)) /\ SoldOff(taken) \in Nat /\ taken[Entry] \in 0 .. MaxQty
        /\ \A c \in Legs : after[c] = NoOrder <=> orders[c] = NoOrder
    BY <1>1, <1>4, <2>1, QuoteFits
  <2> QED
    BY <2>2, <2>3
<1>6. /\ told \in Man
      /\ mgr.quantity = held => told.quantity = held'
      /\ taken[Entry] = 0 /\ SoldOff(taken) = 0 => told = mgr
  BY <1>1, <1>3, <1>4, ManagedFollows
<1>7. ~any => SoldOff(taken) = 0 /\ held' = held
  <2> SUFFICES ASSUME ~any PROVE SoldOff(taken) = 0 /\ held' = held
    OBVIOUS
  <2>1. \A c \in Legs : taken[c] \in 0 .. MaxQty
    BY <1>4 DEF Takings
  <2>2. \A c \in Legs : taken[c] = 0
    <3> SUFFICES ASSUME NEW c \in Legs PROVE taken[c] = 0
      OBVIOUS
    <3>1. CASE c \in Matchable
      BY <2>1, <3>1, ExitsAssumption
    <3>2. CASE c \notin Matchable
      BY <1>4, <3>2 DEF Takings
    <3> QED
      BY <3>1, <3>2
  <2> DEFINE f == [c \in Sells |-> taken[c]]
  <2>3. f \in Counts /\ SoldOff(taken) = Total(f)
    BY <1>4, SoldOffIs
  <2>4. \A c \in Sells : f[c] = 0
    BY <2>2, EntryIsLeg
  <2> HIDE DEF f
  <2>5. SoldOff(taken) = 0
    BY <2>3, <2>4, TotalZero
  <2>6. taken[Entry] = 0 /\ held \in Int
    BY <1>1, <2>2, EntryIsLeg, ExitsAssumption DEF Book
  <2> QED
    BY <1>3, <2>5, <2>6 DEF HeldAfter
<1>8. /\ r \in Ready /\ r.orders = after /\ r.mgr = told
      /\ r.disk = IF any THEN told ELSE disk
  <2>1. after \in Table
    BY <1>5 DEF Book
  <2> DEFINE st == stale \/ (any /\ told.quantity > 0)
             dk == IF any THEN told ELSE disk
  <2>2. st \in BOOLEAN /\ dk \in Man
    BY <1>1, <1>6
  <2>3. r = [orders |-> after, mgr |-> told, stale |-> st, disk |-> dk, ask |-> Idle]
    BY DEF Run
  <2> HIDE DEF r, after, told, st, dk
  <2>4. r \in Ready /\ r.orders = after /\ r.mgr = told /\ r.disk = dk
    BY <1>6, <2>1, <2>2, <2>3, IdleType DEF Ready, Runs
  <2> QED
    BY <2>4 DEF dk
<1> HIDE DEF r, after, told, any
<1>9. Outcome(r, s)
  BY <1>1, <1>8, OnQuoteOutcome
<1>10. s.mgr.version <= MaxVersion /\ Steps(t, s, replaced) /\ replaced \in BOOLEAN
  BY <1>3 DEF r
<1>11. attempts' = attempts /\ today' = today
  BY DEF Quote, flatVars
<1> HIDE DEF s, replaced
<1>12. /\ Typed' /\ Spent' /\ Book(orders', held')
       /\ mgr'.quantity = told.quantity
       /\ disk'.quantity \in {r.disk.quantity, told.quantity}
  <2>1. Book(r.orders, held') /\ \A c \in Legs : orders[c] = NoOrder => r.orders[c] = NoOrder
    BY <1>5, <1>8
  <2> QED
    BY <1>1, <1>8, <1>9, <1>10, <1>11, <2>1, StepsKeep
<1>13. ManagedIsHeld'
  <2>1. CASE "torn" \in mishaps
    BY <1>3, <2>1, TornStays DEF ManagedIsHeld
  <2>2. CASE mgr.quantity = held /\ disk.quantity = held
    <3>1. r.disk.quantity = held'
      BY <1>6, <1>7, <1>8, <2>2
    <3> QED
      BY <1>6, <1>12, <2>2, <3>1 DEF ManagedIsHeld
  <2> QED
    BY <1>1, <2>1, <2>2 DEF ManagedIsHeld
<1> QED
  BY <1>12, <1>13 DEF ExitsInv

(* A handler that starts from the managed position as it is.               *)
LEMMA HandlerKeeps ==
    ASSUME ExitsInv, NEW t \in Tasks, NEW r, NEW s, Outcome(r, s), r.orders = orders,
           r.mgr.quantity = mgr.quantity, r.disk.quantity \in {mgr.quantity, disk.quantity},
           s.mgr.version <= MaxVersion, Steps(t, s, FALSE), Noting(Overlap),
           attempts' = attempts, today' = today, held' = held
    PROVE  ExitsInv'
<1>1. Typed /\ Book(orders, held) /\ Spent /\ ManagedIsHeld
  BY DEF ExitsInv
<1>2. /\ Typed' /\ Spent' /\ Book(orders', held')
      /\ mgr'.quantity = r.mgr.quantity
      /\ disk'.quantity \in {r.disk.quantity, r.mgr.quantity}
  <2>1. Book(r.orders, held') /\ FALSE \in BOOLEAN
        /\ \A c \in Legs : orders[c] = NoOrder => r.orders[c] = NoOrder
    BY <1>1
  <2> QED
    BY <1>1, <2>1, StepsKeep
<1>3. ManagedIsHeld'
  <2>1. CASE "torn" \in mishaps
    BY <2>1, TornStays DEF ManagedIsHeld
  <2>2. CASE mgr.quantity = held /\ disk.quantity = held
    BY <1>2, <2>2 DEF ManagedIsHeld
  <2> QED
    BY <1>1, <2>1, <2>2 DEF ManagedIsHeld
<1> QED
  BY <1>2, <1>3 DEF ExitsInv

LEMMA AnsweredType ==
    ASSUME Typed, orders \in Table, NEW a \in Row
    PROVE  /\ Answered(a) \in Ready /\ Answered(a).orders = orders
           /\ Answered(a).mgr.quantity = mgr.quantity
           /\ Answered(a).disk.quantity \in {mgr.quantity, disk.quantity}
<1> DEFINE ok == Accepted(a.result)
           mine == a.mine /\ mgr.quantity > 0
           m == CASE a.leg \in StopLegs /\ ok /\ mine -> [mgr EXCEPT !.stop = a.leg]
                  [] a.leg = Partial /\ mine -> [mgr EXCEPT !.partial = TRUE]
                  [] a.leg \notin StopLegs \cup {Partial} /\ ok /\ mine -> [mgr EXCEPT !.closing = TRUE]
                  [] OTHER -> mgr
           st == StaleAfter(a, ok)
           dk == IF a.leg \in StopLegs THEN m ELSE disk
<1>1. mgr \in Man /\ disk \in Man /\ stale \in BOOLEAN
  BY DEF Typed
<1>2. Partial \notin StopLegs
  BY LegsDiffer DEF StopLegs
<1>3. m \in Man /\ m.quantity = mgr.quantity
  <2>1. /\ a.leg \in StopLegs => [mgr EXCEPT !.stop = a.leg] \in Man
                                 /\ [mgr EXCEPT !.stop = a.leg].quantity = mgr.quantity
        /\ [mgr EXCEPT !.partial = TRUE] \in Man /\ [mgr EXCEPT !.partial = TRUE].quantity = mgr.quantity
        /\ [mgr EXCEPT !.closing = TRUE] \in Man /\ [mgr EXCEPT !.closing = TRUE].quantity = mgr.quantity
    BY <1>1 DEF Man
  <2> HIDE DEF ok, mine
  <2>2. CASE a.leg \in StopLegs /\ ok /\ mine
    <3>1. m = [mgr EXCEPT !.stop = a.leg]
      BY <1>2, <2>2
    <3> QED
      BY <2>1, <2>2, <3>1
  <2>3. CASE a.leg = Partial /\ mine
    <3>1. m = [mgr EXCEPT !.partial = TRUE]
      BY <1>2, <2>3
    <3> QED
      BY <2>1, <3>1
  <2>4. CASE a.leg \notin StopLegs \cup {Partial} /\ ok /\ mine
    <3>1. m = [mgr EXCEPT !.closing = TRUE]
      BY <2>4
    <3> QED
      BY <2>1, <3>1
  <2>5. CASE ~(a.leg \in StopLegs /\ ok /\ mine) /\ ~(a.leg = Partial /\ mine)
             /\ ~(a.leg \notin StopLegs \cup {Partial} /\ ok /\ mine)
    <3>1. m = mgr
      BY <2>5
    <3> QED
      BY <1>1, <3>1
  <2> QED
    BY <2>2, <2>3, <2>4, <2>5
<1>4. st \in BOOLEAN
  BY <1>1 DEF StaleAfter
<1>5. dk \in Man /\ dk.quantity \in {mgr.quantity, disk.quantity}
  <2> HIDE DEF m
  <2> QED
    BY <1>1, <1>3
<1>6. Answered(a) = [orders |-> orders, mgr |-> m, stale |-> st, disk |-> dk, ask |-> Idle]
  BY DEF Answered, Run
<1> HIDE DEF m, st, dk
<1>7. Answered(a) \in Runs /\ Answered(a).ask = Idle /\ Answered(a).orders = orders
      /\ Answered(a).mgr = m /\ Answered(a).disk = dk
  BY <1>3, <1>4, <1>5, <1>6, IdleType DEF Runs
<1> QED
  BY <1>3, <1>5, <1>7 DEF Ready

LEMMA ResumesKeeps ==
    ASSUME ExitsInv, NEW t \in Tasks, Resumes(t)
    PROVE  ExitsInv'
<1> DEFINE a == task[t]
           r == Answered(a)
           s == CASE a.then \in Levels -> CheckLevels(r, a.then)
                  [] a.then = "refresh" -> RefreshStops(r, "end")
                  [] OTHER -> r
<1>1. Typed /\ orders \in Table /\ a \in Row /\ today \in 1 .. MaxDay
  BY DEF ExitsInv, Typed, Book
<1>2. /\ r \in Ready /\ r.orders = orders /\ r.mgr.quantity = mgr.quantity
      /\ r.disk.quantity \in {mgr.quantity, disk.quantity}
  BY <1>1, AnsweredType
<1>3. /\ s.mgr.version <= MaxVersion /\ Steps(t, s, FALSE) /\ Noting(Overlap)
      /\ attempts' = attempts /\ today' = today /\ held' = held
  BY DEF Resumes, flatVars
<1>4. Outcome(r, s)
  <2> HIDE DEF r, a
  <2>1. CASE a.then \in Levels
    <3>1. s = CheckLevels(r, a.then)
      BY <2>1 DEF Levels
    <3> QED
      BY <1>1, <1>2, <2>1, <3>1, LevelsOutcome
  <2>2. CASE a.then = "refresh"
    <3>1. s = RefreshStops(r, "end")
      BY <2>2 DEF Levels
    <3> QED
      BY <1>1, <1>2, <3>1, RefreshOutcome
  <2>3. CASE a.then \notin Levels /\ a.then # "refresh"
    <3>1. s = r
      BY <2>3
    <3> QED
      BY <1>2, <3>1, SelfOutcome
  <2> QED
    BY <2>1, <2>2, <2>3
<1> HIDE DEF r, s
<1> QED
  BY <1>2, <1>3, <1>4, HandlerKeeps

LEMMA SessionStartKeeps ==
    ASSUME ExitsInv, SessionStart
    PROVE  ExitsInv'
<1> DEFINE r == Run(orders, mgr, stale, disk)
           n == [r EXCEPT !.mgr.stop = NoLeg, !.stale = TRUE]
           Begun(due) == IF mgr.quantity = 0 \/ mgr.closing THEN RefreshStops(r, "end")
                         ELSE IF due THEN ExitAll(r, TimeExit(today), "refresh")
                         ELSE RefreshStops(n, "end")
<1>1. /\ Typed /\ orders \in Table /\ today \in 1 .. MaxDay /\ "life" \in Tasks
      /\ mgr \in Man /\ disk \in Man /\ stale \in BOOLEAN
  BY DEF ExitsInv, Typed, Book, Tasks
<1>2. r = [orders |-> orders, mgr |-> mgr, stale |-> stale, disk |-> disk, ask |-> Idle]
  BY DEF Run
<1>3. r \in Ready /\ r \in Runs /\ r.orders = orders /\ r.mgr = mgr /\ r.disk = disk /\ r.ask = Idle
  BY <1>1, <1>2, IdleType DEF Ready, Runs
<1>4. n \in Ready /\ n.orders = orders /\ n.mgr.quantity = mgr.quantity /\ n.disk = disk
  <2> HIDE DEF r
  <2> DEFINE k == [mgr EXCEPT !.stop = NoLeg]
  <2>1. k \in Man /\ k.quantity = mgr.quantity
    BY <1>1 DEF Man
  <2>2. n = [r EXCEPT !.mgr = k, !.stale = TRUE]
    BY <1>3 DEF Runs
  <2> HIDE DEF k
  <2>3. n \in Runs /\ n.orders = orders /\ n.mgr = k /\ n.disk = disk /\ n.ask = Idle
    BY <1>3, <2>1, <2>2 DEF Runs
  <2> HIDE DEF n
  <2> QED
    BY <2>1, <2>3 DEF Ready
<1>5. PICK due \in BOOLEAN :
         /\ Begun(due).mgr.version <= MaxVersion /\ Steps("life", Begun(due), FALSE)
         /\ Noting(Overlap)
         /\ attempts' = attempts /\ today' = today /\ held' = held
  BY DEF SessionStart, flatVars
<1> HIDE DEF r, n
<1> DEFINE s == Begun(due)
<1>6. \E b \in {r, n} : Outcome(b, s)
  <2>1. Outcome(r, RefreshStops(r, "end")) /\ Outcome(n, RefreshStops(n, "end"))
    BY <1>1, <1>3, <1>4, RefreshOutcome
  <2>2. Outcome(r, ExitAll(r, TimeExit(today), "refresh"))
    BY <1>1, <1>3, ExitAllOutcome
  <2> QED
    BY <2>1, <2>2
<1>7. PICK b \in {r, n} : Outcome(b, s)
  BY <1>6
<1>8. b.orders = orders /\ b.mgr.quantity = mgr.quantity /\ b.disk = disk
  BY <1>3, <1>4, <1>7
<1>9. s.mgr.version <= MaxVersion /\ Steps("life", s, FALSE)
  BY <1>5
<1> HIDE DEF s
<1> QED
  BY <1>1, <1>5, <1>7, <1>8, <1>9, HandlerKeeps

-----------------------------------------------------------------------------
(* The submission, the flattener, the session and the crashes.             *)

LEMMA EnterKeeps ==
    ASSUME ExitsInv, Enter
    PROVE  ExitsInv'
<1> DEFINE w == [status |-> "WORKING", remaining |-> MaxQty, day |-> today]
<1>1. /\ orders[Entry] = NoOrder /\ orders' = [orders EXCEPT ![Entry] = w]
      /\ UNCHANGED <<held, mgr, stale, disk, task, attempts, today, mishaps>>
  BY DEF Enter, exitVars, taskVars, flatVars, envVars
<1>2. Typed /\ Book(orders, held) /\ Spent /\ orders \in Table /\ today \in 1 .. MaxDay /\ held = 0
  BY <1>1 DEF ExitsInv, Typed, Book
<1>3. w \in OrderType /\ w.status = "WORKING" /\ w.remaining = MaxQty /\ w # NoOrder
  BY <1>2, ExitsAssumption DEF OrderType, NoOrder
<1> HIDE DEF w
<1>4. orders' \in Table /\ orders'[Entry] = w /\ \A c \in Legs : c # Entry => orders'[c] = orders[c]
  BY <1>1, <1>2, <1>3, EntryIsLeg DEF Table
<1>5. Book(orders', held')
  <2>1. Selling(orders') = Selling(orders)
    BY <1>4, EntryIsLeg DEF Selling, Unfilled
  <2>2. Unfilled(orders', Entry) = MaxQty
    BY <1>3, <1>4 DEF Unfilled
  <2>3. \A c \in Legs : orders'[c].status = "WORKING" => orders'[c].remaining > 0
    BY <1>2, <1>3, <1>4, ExitsAssumption DEF Book
  <2>4. held' + Unfilled(orders', Entry) <= MaxQty
    BY <1>1, <1>2, <2>2, ExitsAssumption
  <2> QED
    BY <1>1, <1>2, <1>3, <1>4, <2>1, <2>3, <2>4 DEF Book
<1>6. Spent'
  <2>1. \A c \in FlattenLegs : orders[c] = NoOrder => orders'[c] = NoOrder
    BY <1>4, LegsDiffer DEF FlattenLegs, Legs
  <2> QED
    BY <1>1, <1>2, <2>1, SpentStays
<1>7. Typed' /\ ManagedIsHeld'
  BY <1>1 DEF ExitsInv, Typed, ManagedIsHeld
<1> QED
  BY <1>5, <1>6, <1>7 DEF ExitsInv

(* A submission is clipped to what is reducible.                           *)
LEMMA ClippedFits ==
    ASSUME Book(orders, held), NEW q \in 0 .. MaxQty, Clipped(q) > 0
    PROVE  Clipped(q) \in 0 .. MaxQty /\ Clipped(q) <= Reducible
<1>1. held \in 0 .. MaxQty /\ orders \in Table
  BY DEF Book
<1>2. Total(Selling(orders)) \in Nat /\ Reducible = held - Total(Selling(orders))
  BY <1>1, SellingType, ReducibleIs
<1>3. Reducible \in Int
  BY <1>1, <1>2, ExitsAssumption
<1> QED
  BY <1>3, ExitsAssumption DEF Clipped

LEMMA SubmitsKeeps ==
    ASSUME ExitsInv, NEW t \in Tasks, Submits(t)
    PROVE  ExitsInv'
<1> DEFINE a == task[t]
           leg == task[t].leg
           qty == Clipped(a.qty)
<1>1. /\ Typed /\ Book(orders, held) /\ Spent /\ ManagedIsHeld /\ today \in 1 .. MaxDay
      /\ orders \in Table /\ task \in [Tasks -> Row] /\ a \in Row /\ a.qty \in 0 .. MaxQty
  BY DEF ExitsInv, Typed, Book, Row
<1>2. a.pc = "asked" /\ leg \in Sells
  BY <1>1 DEF Submits, Typed
<1>3. UNCHANGED <<held, mgr, stale, disk, attempts, today>>
  BY DEF Submits, exitVars, flatVars
<1>4. PICK result \in {"SUBMITTED", "DUPLICATE", "BLOCKED", "REJECTED"} :
        /\ (result = "DUPLICATE") = (orders[leg] # NoOrder)
        /\ result \in {"SUBMITTED", "REJECTED"} => qty > 0
        /\ orders' = CASE result = "SUBMITTED" -> [orders EXCEPT ![leg] = Placed(leg, qty)]
                       [] result = "REJECTED" -> [orders EXCEPT ![leg] = Ended]
                       [] OTHER -> orders
        /\ task' = [task EXCEPT ![t].pc = "told", ![t].result = result]
        /\ \E new : Noting(new)
  BY DEF Submits
<1>5. Book(orders', held')
  <2>1. CASE result = "SUBMITTED"
    <3>1. qty > 0 /\ orders[leg] = NoOrder /\ orders' = [orders EXCEPT ![leg] = Placed(leg, qty)]
      BY <1>4, <2>1
    <3>2. qty \in 0 .. MaxQty /\ qty <= Reducible
      BY <1>1, <3>1, ClippedFits
    <3>0. today \in 0 .. MaxDay
      BY <1>1, ExitsAssumption
    <3> HIDE DEF qty, leg
    <3>3. Book([orders EXCEPT ![leg] = Placed(leg, qty)], held)
      BY <1>1, <1>2, <3>0, <3>1, <3>2, PlacingFits
    <3> QED
      BY <1>3, <3>1, <3>3
  <2>2. CASE result = "REJECTED"
    <3>1. orders[leg] = NoOrder /\ orders' = [orders EXCEPT ![leg] = Ended]
      BY <1>4, <2>2
    <3> HIDE DEF leg
    <3> QED
      BY <1>1, <1>2, <1>3, <3>1, EndingFits
  <2>3. CASE result \notin {"SUBMITTED", "REJECTED"}
    <3>1. orders' = orders
      BY <1>4, <2>3
    <3> QED
      BY <1>1, <1>3, <3>1
  <2> QED
    BY <2>1, <2>2, <2>3
<1>6. \A c \in Legs : c # leg => orders'[c] = orders[c]
  <2>1. \/ orders' = [orders EXCEPT ![leg] = Placed(leg, qty)]
        \/ orders' = [orders EXCEPT ![leg] = Ended]
        \/ orders' = orders
    BY <1>4
  <2> HIDE DEF leg, qty
  <2> QED
    BY <1>1, <2>1 DEF Table
<1>7. /\ task' \in [Tasks -> Row]
      /\ task'[t].leg = leg /\ task'[t].pc = "told" /\ task'[t].result = result
      /\ \A u \in Tasks : u # t => task'[u] = task[u]
  <2>1. task' = [task EXCEPT ![t] = [a EXCEPT !.pc = "told", !.result = result]]
    BY <1>1, <1>4
  <2> DEFINE b == [a EXCEPT !.pc = "told", !.result = result]
  <2>2. b \in Row /\ b.leg = leg /\ b.pc = "told" /\ b.result = result
    BY <1>1, <1>4 DEF Row
  <2> HIDE DEF b
  <2> QED
    BY <1>1, <2>1, <2>2 DEF b
<1>8. Typed'
  <2>1. \A u \in Tasks : task'[u].pc = "asked" => task'[u].leg \in Sells
    BY <1>1, <1>7 DEF Typed
  <2> QED
    BY <1>1, <1>3, <1>7, <2>1 DEF Typed
<1>9. Spent'
  <2> SUFFICES ASSUME NEW d \in 1 .. MaxDay, NEW n \in 1 .. MaxAttempts
               PROVE  FlattenOk(d, n)'
    BY DEF Spent
  <2> DEFINE c == Flatten(d, n)
  <2>1. FlattenOk(d, n) /\ c \in Legs
    BY <1>1, FlattenIsSell DEF Spent
  <2> HIDE DEF c
  <2>2. /\ orders[c] # NoOrder => n <= attempts[d]
        /\ \A u \in Tasks : task[u].leg = c =>
              /\ n <= attempts[d] /\ task[u].result # "DUPLICATE"
              /\ task[u].pc = "asked" => orders[c] = NoOrder
              /\ \A v \in Tasks \ {u} : task[v].leg # c
    BY <2>1 DEF FlattenOk, c
  <2>3. orders'[c] # NoOrder => n <= attempts'[d]
    BY <1>3, <1>6, <2>1, <2>2
  <2>4. \A u \in Tasks : task'[u].leg = task[u].leg
    BY <1>7
  <2>5. ASSUME NEW u \in Tasks, task'[u].leg = c
        PROVE  /\ n <= attempts'[d] /\ task'[u].result # "DUPLICATE"
               /\ task'[u].pc = "asked" => orders'[c] = NoOrder
               /\ \A v \in Tasks \ {u} : task'[v].leg # c
    <3>1. CASE u = t
      <4>1. leg = c /\ orders[c] = NoOrder /\ result # "DUPLICATE"
        BY <1>2, <1>4, <2>2, <2>4, <2>5, <3>1
      <4> QED
        BY <1>3, <1>7, <2>2, <2>4, <2>5, <3>1, <4>1
    <3>2. CASE u # t
      <4>1. leg # c
        BY <2>2, <2>4, <2>5, <3>2
      <4>2. orders'[c] = orders[c]
        BY <1>6, <2>1, <4>1
      <4> QED
        BY <1>3, <1>7, <2>2, <2>4, <2>5, <3>2, <4>2
    <3> QED
      BY <3>1, <3>2
  <2> QED
    BY <2>3, <2>5 DEF FlattenOk, c
<1>10. ManagedIsHeld'
  BY <1>1, <1>3, <1>4, TornStays DEF ManagedIsHeld
<1> QED
  BY <1>5, <1>8, <1>9, <1>10 DEF ExitsInv

(* _release gives up every exit, and manages what it managed.              *)
LEMMA ReleasedType ==
    ASSUME Typed, orders \in Table
    PROVE  /\ Released \in Runs /\ Calmer(orders, Released.orders)
           /\ Released.mgr.quantity = mgr.quantity
           /\ Released.disk.quantity \in {mgr.quantity, disk.quantity}
<1> DEFINE r == Run(orders, mgr, stale, disk)
           x == CancelStop(r)
           y == [x EXCEPT !.mgr.closing = TRUE, !.stale = FALSE]
           down == IF mgr.quantity = 0 THEN r ELSE Saved(y)
           o == [c \in Legs |-> IF c \in Reduces THEN CancelIn(down.orders, c)[c] ELSE down.orders[c]]
<1>1. mgr \in Man /\ disk \in Man /\ stale \in BOOLEAN
  BY DEF Typed
<1>2. r = [orders |-> orders, mgr |-> mgr, stale |-> stale, disk |-> disk, ask |-> Idle]
  BY DEF Run
<1>3. r \in Ready /\ r.orders = orders /\ r.mgr = mgr /\ r.disk = disk
  BY <1>1, <1>2, IdleType DEF Ready, Runs
<1>4. Released = [down EXCEPT !.orders = o]
  BY DEF Released
<1> HIDE DEF r
<1>5. Outcome(r, down)
  <2>1. Outcome(r, r) /\ Outcome(r, x) /\ x.ask = Idle
    BY <1>3, SelfOutcome, CancelStopOutcome
  <2>2. Outcome(r, y)
    <3> HIDE DEF x
    <3> DEFINE k == [x.mgr EXCEPT !.closing = TRUE]
    <3>1. x \in Runs /\ x.mgr \in Man
      BY <2>1 DEF Outcome, Runs
    <3>2. k \in Man /\ k.quantity = x.mgr.quantity
      BY <3>1 DEF Man
    <3>3. y = [x EXCEPT !.mgr = k, !.stale = FALSE]
      BY <3>1 DEF Runs
    <3> HIDE DEF k
    <3>4. y \in Runs /\ y.orders = x.orders /\ y.mgr = k /\ y.disk = x.disk /\ y.ask = x.ask
      BY <3>1, <3>2, <3>3 DEF Runs
    <3> HIDE DEF y
    <3> QED
      BY <2>1, <3>2, <3>4 DEF Outcome
  <2> HIDE DEF y
  <2>3. Outcome(r, Saved(y))
    BY <2>2, SavedOutcome
  <2> QED
    BY <2>1, <2>3
<1> HIDE DEF down
<1>6. down \in Runs /\ down.orders \in Table /\ Calmer(orders, down.orders)
  BY <1>3, <1>5 DEF Outcome, Runs
<1>7. o \in Table /\ Calmer(orders, o)
  <2>1. \A c \in Legs : o[c] \in OrderType
    BY <1>6, CancelCalms DEF Table
  <2>2. \A c \in Legs : o[c] = down.orders[c] \/ (down.orders[c].status = "WORKING" /\ o[c] = Ended)
    BY <1>6, CancelCalms DEF Calmer
  <2>3. o \in Table
    BY <2>1 DEF Table
  <2> HIDE DEF o
  <2>4. Calmer(down.orders, o)
    BY <2>2 DEF Calmer
  <2> QED
    BY <1>6, <2>3, <2>4, CalmerTwice
<1> HIDE DEF o
<1>8. /\ Released \in Runs /\ Released.orders = o /\ Released.mgr = down.mgr
      /\ Released.disk = down.disk
  BY <1>4, <1>6, <1>7 DEF Runs
<1> QED
  BY <1>3, <1>5, <1>7, <1>8 DEF Outcome

LEMMA TickKeeps ==
    ASSUME ExitsInv, NEW t \in Tasks, Tick(t)
    PROVE  ExitsInv'
<1> DEFINE r == Released
           leg == Flatten(today, Attempt)
           ask == [pc |-> "asked", leg |-> leg, qty |-> held, mine |-> TRUE,
                   then |-> "end", result |-> "NONE"]
           works == flatten /\ held > 0 /\ ~FlattenWorking
<1>1. /\ Typed /\ Book(orders, held) /\ Spent /\ ManagedIsHeld /\ today \in 1 .. MaxDay
      /\ orders \in Table /\ held \in 0 .. MaxQty
      /\ attempts \in [1 .. MaxDay -> 0 .. MaxAttempts]
  BY DEF ExitsInv, Typed, Book
<1>2. held' = held /\ today' = today
  BY DEF Tick
<1>3. CASE ~works
  <2>1. UNCHANGED <<orders, mgr, stale, disk, task, attempts, mishaps>>
    BY <1>3 DEF Tick, exitVars, taskVars
  <2>2. Spent'
    BY <1>1, <2>1, SpentStays
  <2>3. Typed'
    BY <1>1, <1>2, <2>1 DEF Typed
  <2>4. Book(orders', held') /\ ManagedIsHeld'
    BY <1>1, <1>2, <2>1 DEF ManagedIsHeld
  <2> QED
    BY <2>2, <2>3, <2>4 DEF ExitsInv
<1>4. CASE works
  <2>1. /\ Attempt <= MaxAttempts
        /\ orders' = Asking(r, leg, held, "end").orders
        /\ mgr' = Asking(r, leg, held, "end").mgr
        /\ stale' = Asking(r, leg, held, "end").stale
        /\ disk' = Asking(r, leg, held, "end").disk
        /\ Suspends(t, Asking(r, leg, held, "end").ask, FALSE)
        /\ attempts' = [attempts EXCEPT ![today] = Attempt]
        /\ Noting(Overlap)
    BY <1>4 DEF Tick
  <2>2. /\ r \in Runs /\ Calmer(orders, r.orders) /\ r.mgr.quantity = mgr.quantity
        /\ r.disk.quantity \in {mgr.quantity, disk.quantity}
    BY <1>1, ReleasedType
  <2>3. /\ Attempt \in 1 .. MaxAttempts /\ Attempt = attempts[today] + 1
        /\ attempts[today] \in 0 .. MaxAttempts
    BY <1>1, <2>1, ExitsAssumption DEF Attempt
  <2>4. leg \in FlattenLegs /\ leg \in Legs /\ leg \in Sells
    BY <1>1, <2>3, FlattenIsSell
  <2>5. Asking(r, leg, held, "end") = [r EXCEPT !.ask = ask]
    BY DEF Asking
  <2>6. ask \in Row /\ ask.leg = leg /\ ask.pc = "asked" /\ ask.result = "NONE"
    BY <1>1, <2>4 DEF Row
  <2> HIDE DEF r, ask, leg
  <2>7. /\ orders' = r.orders /\ mgr' = r.mgr /\ stale' = r.stale /\ disk' = r.disk
        /\ Suspends(t, ask, FALSE)
        /\ r.orders \in Table /\ r.mgr \in Man /\ r.stale \in BOOLEAN /\ r.disk \in Man
    BY <2>1, <2>2, <2>5 DEF Runs
  <2>8. /\ task' \in [Tasks -> Row]
        /\ \A u \in Tasks : task'[u].pc = "asked" => task'[u].leg \in Sells
        /\ task'[t] = ask
        /\ \A u \in Tasks \ {t} :
              /\ task'[u].leg = task[u].leg
              /\ task'[u].pc = task[u].pc /\ task'[u].result = task[u].result
    <3>1. FALSE \in BOOLEAN /\ (ask.pc = "asked" => ask.leg \in Sells)
      BY <2>4, <2>6
    <3> QED
      BY <1>1, <2>6, <2>7, <3>1, SuspendsKeep
  <2>9. /\ attempts' \in [1 .. MaxDay -> 0 .. MaxAttempts]
        /\ attempts'[today] = attempts[today] + 1
        /\ \A d \in 1 .. MaxDay : d # today => attempts'[d] = attempts[d]
    BY <1>1, <2>1, <2>3, ExitsAssumption
  <2>10. Typed'
    BY <1>1, <1>2, <2>7, <2>8, <2>9 DEF Typed
  <2>11. Book(orders', held')
    BY <1>1, <1>2, <2>2, <2>7, CalmerBook
  <2>12. ManagedIsHeld'
    <3>1. CASE "torn" \in mishaps
      BY <2>1, <3>1, TornStays DEF ManagedIsHeld
    <3>2. CASE mgr.quantity = held /\ disk.quantity = held
      BY <1>2, <2>2, <2>7, <3>2 DEF ManagedIsHeld
    <3> QED
      BY <1>1, <3>1, <3>2 DEF ManagedIsHeld
  <2>13. Spent'
    <3> SUFFICES ASSUME NEW d \in 1 .. MaxDay, NEW n \in 1 .. MaxAttempts
                 PROVE  FlattenOk(d, n)'
      BY DEF Spent
    <3> DEFINE c == Flatten(d, n)
    <3>1. FlattenOk(d, n) /\ c \in Legs
      BY <1>1, FlattenIsSell DEF Spent
    <3>2. leg = c => d = today /\ n = attempts[today] + 1
      BY <2>3, LegsDiffer DEF leg
    <3> HIDE DEF c
    <3>3. /\ orders[c] # NoOrder => n <= attempts[d]
          /\ \A u \in Tasks : task[u].leg = c =>
                /\ n <= attempts[d] /\ task[u].result # "DUPLICATE"
                /\ task[u].pc = "asked" => orders[c] = NoOrder
                /\ \A v \in Tasks \ {u} : task[v].leg # c
      BY <3>1 DEF FlattenOk, c
    <3>4. orders[c] = NoOrder => orders'[c] = NoOrder
      BY <2>2, <2>7, <3>1, CalmerNoOrder
    <3>5. attempts[d] \in Nat /\ attempts'[d] \in Nat /\ attempts[d] <= attempts'[d] /\ n \in Nat
      BY <1>1, <2>9, ExitsAssumption
    <3>6. CASE leg = c
      <4>1. n = attempts[d] + 1 /\ n <= attempts'[d] /\ ~(n <= attempts[d])
        BY <2>9, <3>2, <3>5, <3>6
      <4>2. orders'[c] = NoOrder /\ \A u \in Tasks : task[u].leg # c
        BY <3>3, <3>4, <4>1
      <4>3. \A u \in Tasks : task'[u].leg = c => u = t
        BY <2>8, <4>2
      <4> QED
        BY <2>6, <2>8, <4>1, <4>2, <4>3 DEF FlattenOk, c
    <3>7. CASE leg # c
      <4>1. task'[t].leg # c
        BY <2>6, <2>8, <3>7
      <4>2. orders'[c] # NoOrder => n <= attempts'[d]
        BY <3>3, <3>4, <3>5
      <4>3. ASSUME NEW u \in Tasks, task'[u].leg = c
            PROVE  /\ n <= attempts'[d] /\ task'[u].result # "DUPLICATE"
                   /\ task'[u].pc = "asked" => orders'[c] = NoOrder
                   /\ \A v \in Tasks \ {u} : task'[v].leg # c
        <5>1. u # t /\ task[u].leg = c /\ task'[u].pc = task[u].pc /\ task'[u].result = task[u].result
          BY <2>8, <4>1, <4>3
        <5>2. n <= attempts[d]
          BY <3>3, <5>1
        <5>3. \A v \in Tasks \ {u} : task'[v].leg # c
          BY <2>8, <3>3, <4>1, <5>1
        <5>4. n <= attempts'[d]
          BY <3>5, <5>2
        <5> QED
          BY <3>3, <3>4, <5>1, <5>3, <5>4
      <4> QED
        BY <4>2, <4>3 DEF FlattenOk, c
    <3> QED
      BY <3>6, <3>7
  <2> QED
    BY <2>10, <2>11, <2>12, <2>13 DEF ExitsInv
<1> QED
  BY <1>3, <1>4

LEMMA IdleRow == Idle \in Row /\ Idle.pc # "asked" /\ Idle.leg \notin FlattenLegs
BY IdleType, LegsDiffer, ExitsAssumption DEF Idle, Row, Levels, FlattenLegs

LEMMA FlattenAnsweredKeeps ==
    ASSUME ExitsInv, NEW t \in Tasks, FlattenAnswered(t)
    PROVE  ExitsInv'
<1>1. /\ Suspends(t, Idle, FALSE)
      /\ UNCHANGED <<orders, held, mgr, stale, disk, attempts, today, mishaps>>
  BY DEF FlattenAnswered, bookVars, exitVars
<1>2. Typed /\ Book(orders, held) /\ Spent
  BY DEF ExitsInv
<1>3. /\ task' \in [Tasks -> Row]
      /\ \A u \in Tasks : task'[u].pc = "asked" => task'[u].leg \in Sells
      /\ task'[t] = Idle
      /\ \A u \in Tasks \ {t} :
            /\ task'[u].leg = task[u].leg
            /\ task'[u].pc = task[u].pc /\ task'[u].result = task[u].result
  <2>1. FALSE \in BOOLEAN /\ Idle \in Row /\ (Idle.pc = "asked" => Idle.leg \in Sells)
    BY IdleRow
  <2> QED
    BY <1>1, <1>2, <2>1, SuspendsKeep
<1>4. Spent'
  <2>1. \A u \in Tasks : task'[u].leg \in FlattenLegs =>
            /\ task'[u].leg = task[u].leg /\ task'[u].pc = task[u].pc
            /\ task'[u].result = task[u].result
    BY <1>3, IdleRow
  <2> QED
    BY <1>1, <1>2, <2>1, SpentStays
<1>5. Typed' /\ Book(orders', held') /\ ManagedIsHeld'
  BY <1>1, <1>2, <1>3 DEF ExitsInv, Typed, ManagedIsHeld
<1> QED
  BY <1>4, <1>5 DEF ExitsInv

LEMMA CloseKeeps ==
    ASSUME ExitsInv, Close
    PROVE  ExitsInv'
<1>1. /\ orders' = [c \in Legs |-> IF orders[c].status = "WORKING" THEN Ended ELSE orders[c]]
      /\ UNCHANGED <<held, mgr, stale, disk, task, attempts, today, mishaps>>
  BY DEF Close, exitVars, taskVars, flatVars
<1>2. Typed /\ Book(orders, held) /\ Spent /\ orders \in Table
  BY DEF ExitsInv, Book
<1>3. orders' \in Table /\ Calmer(orders, orders')
  BY <1>1, <1>2, SimpleOrders DEF Table, Calmer
<1>4. Book(orders', held')
  BY <1>1, <1>2, <1>3, CalmerBook
<1>5. Spent'
  <2>1. \A c \in FlattenLegs : orders[c] = NoOrder => orders'[c] = NoOrder
    BY <1>3, CalmerNoOrder DEF Legs
  <2> QED
    BY <1>1, <1>2, <2>1, SpentStays
<1>6. Typed' /\ ManagedIsHeld'
  BY <1>1 DEF ExitsInv, Typed, ManagedIsHeld
<1> QED
  BY <1>4, <1>5, <1>6 DEF ExitsInv

(* The process dies: it forgets its tasks, and manages what was stored.    *)
LEMMA DiesKeeps ==
    ASSUME ExitsInv, Dies, Book(orders', held'),
           \A c \in Legs : orders[c] = NoOrder => orders'[c] = NoOrder,
           \/ held' = held /\ ("torn" \in mishaps => "torn" \in mishaps')
           \/ "torn" \in mishaps'
    PROVE  ExitsInv'
<1>1. /\ mgr' = disk /\ stale' = FALSE /\ task' = [t \in Tasks |-> Idle]
      /\ UNCHANGED <<disk, attempts, today>>
  BY DEF Dies, flatVars
<1>2. Typed /\ Spent /\ ManagedIsHeld
  BY DEF ExitsInv
<1>3. Spent'
  <2>1. \A c \in FlattenLegs : orders[c] = NoOrder => orders'[c] = NoOrder
    BY DEF Legs
  <2>2. \A t \in Tasks : task'[t].leg \notin FlattenLegs
    BY <1>1, IdleRow
  <2> QED
    BY <1>1, <1>2, <2>1, <2>2, SpentStays
<1>4. Typed'
  <2>1. task' \in [Tasks -> Row] /\ \A t \in Tasks : task'[t].pc = "asked" => task'[t].leg \in Sells
    BY <1>1, IdleRow
  <2> QED
    BY <1>1, <1>2, <2>1 DEF Typed
<1>5. ManagedIsHeld'
  BY <1>1, <1>2 DEF ManagedIsHeld
<1> QED
  BY <1>3, <1>4, <1>5 DEF ExitsInv

LEMMA CrashKeeps ==
    ASSUME ExitsInv, Crash
    PROVE  ExitsInv'
<1>1. Dies /\ UNCHANGED <<orders, held>> /\ Noting({"restarted"})
  BY DEF Crash, bookVars
<1>2. "torn" \in mishaps => "torn" \in mishaps'
  BY <1>1, TornStays
<1>3. Book(orders', held')
  BY <1>1 DEF ExitsInv
<1> QED
  BY <1>1, <1>2, <1>3, DiesKeeps

LEMMA CrashInFillKeeps ==
    ASSUME ExitsInv, CrashInFill
    PROVE  ExitsInv'
<1> DEFINE Taken(c) == [d \in Legs |-> IF d = c THEN 1 ELSE 0]
<1>1. PICK c \in Matchable :
         /\ held' = HeldAfter(Taken(c))
         /\ orders' = [d \in Legs |-> AfterQuote(d, Taken(c), {})]
  BY DEF CrashInFill
<1>2. Dies /\ Noting({"torn"}) /\ Book(orders, held)
  BY DEF CrashInFill, ExitsInv
<1> DEFINE taken == Taken(c)
<1>3. Takings(taken)
  <2>1. taken = [d \in Legs |-> IF d = c THEN 1 ELSE 0]
    OBVIOUS
  <2> HIDE DEF taken, Taken
  <2> QED
    BY <1>2, <2>1, OneShareTaken
<1>4. held' = HeldAfter(taken) /\ orders' = [d \in Legs |-> AfterQuote(d, taken, {})]
  BY <1>1
<1> HIDE DEF taken, Taken
<1>5. {} \in SUBSET Matchable
  OBVIOUS
<1>6. /\ Book(orders', HeldAfter(taken))
      /\ \A d \in Legs : orders'[d] = NoOrder <=> orders[d] = NoOrder
  BY <1>2, <1>3, <1>4, <1>5, QuoteFits
<1>7. "torn" \in mishaps'
  BY <1>2, TornStays
<1> QED
  BY <1>2, <1>4, <1>6, <1>7, DiesKeeps

LEMMA ExitsNext ==
    ASSUME ExitsInv, [Next]_vars
    PROVE  ExitsInv'
<1>1. CASE Open \/ NextDay \/ EndSession \/ Trip \/ UNCHANGED vars
  <2>1. /\ UNCHANGED <<orders, held, disk, task, attempts, mishaps>>
        /\ mgr' \in {mgr, disk} /\ stale' \in {stale, FALSE}
        /\ today' = today \/ (today < MaxDay /\ today' = today + 1)
    BY <1>1 DEF Open, NextDay, EndSession, Trip, vars, bookVars, exitVars, taskVars, flatVars, envVars
  <2>2. Spent'
    BY <2>1, SpentStays DEF ExitsInv
  <2>3. today' \in 1 .. MaxDay
    BY <2>1, ExitsAssumption DEF ExitsInv, Typed
  <2>4. Typed' /\ Book(orders', held') /\ ManagedIsHeld'
    BY <2>1, <2>3 DEF ExitsInv, Typed, ManagedIsHeld
  <2> QED
    BY <2>2, <2>4 DEF ExitsInv
<1>2. CASE \E t \in {"market", "life"}, level \in Levels : Quote(t, level)
  BY <1>2, QuoteKeeps DEF Tasks
<1>3. CASE \E t \in {"monitor", "life"} : Tick(t)
  BY <1>3, TickKeeps DEF Tasks
<1>4. CASE \E t \in Tasks : Continue(t)
  BY <1>4, SubmitsKeeps, ResumesKeeps, FlattenAnsweredKeeps DEF Continue
<1> QED
  BY <1>1, <1>2, <1>3, <1>4, EnterKeeps, SessionStartKeeps, CloseKeeps, CrashKeeps,
     CrashInFillKeeps DEF Next

LEMMA ExitsInit ==
    ASSUME Init
    PROVE  ExitsInv
<1>1. orders \in Table /\ held = 0 /\ \A c \in Legs : orders[c] = NoOrder
  BY SimpleOrders DEF Init, Table
<1>2. Typed
  <2>1. mgr \in Man /\ disk \in Man /\ stale \in BOOLEAN
    <3>1. Nobody \in Man
      BY ExitsAssumption DEF Nobody, Man
    <3> QED
      BY <3>1 DEF Init
  <2>2. task \in [Tasks -> Row] /\ \A t \in Tasks : task[t].pc # "asked"
    BY IdleRow DEF Init
  <2>3. attempts \in [1 .. MaxDay -> 0 .. MaxAttempts] /\ today \in 1 .. MaxDay
    BY ExitsAssumption DEF Init
  <2> QED
    BY <2>1, <2>2, <2>3 DEF Typed
<1>3. Book(orders, held)
  <2>1. \A c \in Legs : Unfilled(orders, c) = 0
    BY <1>1, SimpleOrders DEF Unfilled
  <2>2. Total(Selling(orders)) = 0
    <3>1. \A c \in Sells : Selling(orders)[c] = 0
      BY <2>1, EntryIsLeg DEF Selling
    <3> QED
      BY <1>1, <3>1, SellingType, TotalZero
  <2>3. \A c \in Legs : orders[c].status # "WORKING"
    BY <1>1, SimpleOrders
  <2> QED
    BY <1>1, <2>1, <2>2, <2>3, EntryIsLeg, ExitsAssumption DEF Book
<1>4. Spent
  <2>1. \A t \in Tasks : task[t].leg \notin FlattenLegs
    BY IdleRow DEF Init
  <2> QED
    BY <1>1, <2>1, FlattenIsSell DEF Spent, FlattenOk
<1>5. ManagedIsHeld
  BY DEF Init, ManagedIsHeld, Nobody
<1> QED
  BY <1>2, <1>3, <1>4, <1>5 DEF ExitsInv

-----------------------------------------------------------------------------
(* The exit manager (src/oms/exit_manager.py, _on_fill and its save) and   *)
(* the position book agree on what is held, in memory and on disk, through *)
(* partial fills, awaited submissions, expiry and restarts, unless the     *)
(* process died between a fill and that save.                              *)
THEOREM ManagedStaysHeld ==
    Spec => []ManagedIsHeld
<1>1. ExitsInv => ManagedIsHeld
  BY DEF ExitsInv
<1> QED
  BY <1>1, ExitsInit, ExitsNext, PTL DEF Spec

(* The exits that work never add up to more than is held                   *)
(* (src/oms/oms.py, the reduce-only clip; exit_manager.py and              *)
(* kill_switch.py cancel before they ask): whichever of the three tasks    *)
(* submit at once, no sequence of fills takes the position below zero.     *)
THEOREM NeverOversold ==
    Spec => [](held >= 0 /\ Reducible >= 0)
<1>1. ExitsInv => held >= 0 /\ Reducible >= 0
  <2> SUFFICES ASSUME ExitsInv PROVE held >= 0 /\ Reducible >= 0
    OBVIOUS
  <2>1. orders \in Table /\ held \in 0 .. MaxQty /\ Total(Selling(orders)) <= held
    BY DEF ExitsInv, Book
  <2>2. Total(Selling(orders)) \in Nat /\ Reducible = held - Total(Selling(orders))
    BY <2>1, SellingType, ReducibleIs
  <2> QED
    BY <2>1, <2>2, ExitsAssumption
<1> QED
  BY <1>1, ExitsInit, ExitsNext, PTL DEF Spec

(* No flatten order is answered DUPLICATE (src/risk/kill_switch.py,        *)
(* Flattener.step): the attempt is spent before the order exists, so       *)
(* neither a second task nor a restart reuses one.                         *)
THEOREM FlattensAreNew ==
    Spec => []FlattenIsNew
<1>1. ExitsInv => FlattenIsNew
  <2> SUFFICES ASSUME ExitsInv, NEW t \in Tasks, task[t].leg \in FlattenLegs
               PROVE  task[t].result # "DUPLICATE"
    BY DEF FlattenIsNew
  <2>1. PICK d \in 1 .. MaxDay, n \in 1 .. MaxAttempts : task[t].leg = Flatten(d, n)
    BY DEF FlattenLegs
  <2>2. FlattenOk(d, n)
    BY DEF ExitsInv, Spent
  <2> QED
    BY <2>1, <2>2 DEF FlattenOk
<1> QED
  BY <1>1, ExitsInit, ExitsNext, PTL DEF Spec

-----------------------------------------------------------------------------
(* The cover: what is held is covered by working exits, or somebody is at  *)
(* work to cover it.  Handlers cancel before they ask, so the cover is     *)
(* down while they wait; what brings it back is a due stop that nobody     *)
(* will take for placed, an exit that was asked for, or a task that will   *)
(* make the stop due when it is resumed.                                   *)

Safe == "unsafe" \notin mishaps
Waits(t) == task[t].pc # "idle"
GivenUp(m) == m.closing \/ m.quantity = 0

(* The working exits add up to q.                                          *)
Covers(o, q) == q <= Total(Selling(o))

(* The exits of a whole position.                                          *)
WholeLegs == Sells \ (FlattenLegs \cup {Partial})

Spots == 1 .. Len(queue)

(* The tasks that wait are those in the queue, each of them once.          *)
QueueOk ==
    /\ queue \in Seq(Tasks)
    /\ \A i \in Spots : Waits(queue[i])
    /\ \A i, j \in Spots : queue[i] = queue[j] => i = j
    /\ \A t \in Tasks : Waits(t) => \E i \in Spots : queue[i] = t
    /\ \A t \in Tasks : ~Waits(t) => task[t].leg = NoLeg

NotedOk ==
    /\ "torn" \in mishaps => "unsafe" \in mishaps
    /\ Safe /\ Len(queue) > 1 => "overlapped" \in mishaps

(* Who still waits when the session is over.                               *)
AfterHours ==
    /\ phase \in {"down", "closed"} => \A t \in Tasks : ~Waits(t)
    /\ phase = "expired" =>
          \A t \in Tasks : Waits(t) => t = "life" /\ task[t].leg \in FlattenLegs

(* Only for a position that is given up may an exit work that is not of    *)
(* today's session (the flattener's last).                                 *)
DaysOk ==
    /\ \A c \in Legs : orders[c].day <= today
    /\ Safe /\ ~GivenUp(mgr) =>
          /\ \A c \in Sells : orders[c].status = "WORKING" =>
                orders[c].day = today /\ phase \notin {"down", "expired", "closed"}
          /\ phase = "expired" => \A t \in Tasks : ~Waits(t)

(* Who will save the managed position, if it is not saved.                 *)
SavedOk == (\A t \in Tasks : task[t].leg \in FlattenLegs \cup {NoLeg}) => mgr = disk

(* The stop is due, and no answer on its way says otherwise.               *)
Refused(t) == task[t].pc = "told" /\ ~Accepted(task[t].result)
Unanswered(t) == task[t].leg \in StopLegs => Refused(t)

(* A task has asked for an exit of all that is not covered; if it is       *)
(* refused, the stop stays due, or two handlers overlapped.                *)
Claims(t, st) ==
    /\ task[t].pc = "asked" /\ task[t].leg \in WholeLegs
    /\ mgr.quantity <= Total(Selling(orders)) + task[t].qty
    /\ task[t].leg \in StopLegs => st \/ "overlapped" \in mishaps

(* A task is about to make the stop due, and nobody after it answers to a  *)
(* stop.                                                                   *)
Marks(i) ==
    /\ \/ task[queue[i]].leg = Partial
       \/ task[queue[i]].leg \in WholeLegs \ StopLegs /\ Refused(queue[i])
    /\ \A j \in Spots : i < j => task[queue[j]].leg \notin StopLegs

Rescued ==
    \/ Covers(orders, mgr.quantity)
    \/ stale /\ \A t \in Tasks : Unanswered(t)
    \/ \E t \in Tasks : Claims(t, stale)
    \/ \E i \in Spots : Marks(i)

CoverOk == Safe /\ phase \in {"starting", "open"} /\ ~GivenUp(mgr) => Rescued

Tidy == QueueOk /\ NotedOk /\ AfterHours /\ DaysOk /\ SavedOk /\ CoverOk

-----------------------------------------------------------------------------
(* Sums.                                                                   *)

(* One order on its own.                                                   *)
Only(c, q) == [d \in Sells |-> IF d = c THEN q ELSE 0]

LEMMA OnlyTotal ==
    ASSUME NEW c \in Sells, NEW q \in 0 .. MaxQty
    PROVE  Only(c, q) \in Counts /\ Total(Only(c, q)) = q
<1>1. Only(c, q) \in Counts
  BY ExitsAssumption DEF Only, Counts
<1>2. q \in Nat
  BY ExitsAssumption
<1>3. IsFiniteSet(1 .. q) /\ Cardinality(1 .. q) = q
  BY <1>2, UpToCount
<1>4. IsFiniteSet({c}) /\ Cardinality({c}) = 1
  BY FS_Singleton
<1>5. Cardinality({c} \X (1 .. q)) = 1 * q
  <2> DEFINE S == 1 .. q
             C == {c}
  <2>1. IsFiniteSet(S) /\ Cardinality(S) = q /\ IsFiniteSet(C) /\ Cardinality(C) = 1
    BY <1>3, <1>4
  <2> HIDE DEF S, C
  <2>2. Cardinality(C \X S) = 1 * q
    BY <2>1, FS_Product
  <2> QED
    BY <2>2 DEF S, C
<1>6. Counted(Only(c, q)) = {c} \X (1 .. q)
  BY <1>2, ExitsAssumption DEF Counted, Only
<1>7. Total(Only(c, q)) = Cardinality({c} \X (1 .. q))
  BY <1>1, <1>6, TotalIsCount
<1> QED
  BY <1>1, <1>2, <1>5, <1>7

(* One order is no more than the sum.                                      *)
LEMMA OneOfTotal ==
    ASSUME NEW f \in Counts, NEW c \in Sells
    PROVE  f[c] <= Total(f)
<1> DEFINE g == Only(c, f[c])
<1>1. f[c] \in 0 .. MaxQty /\ \A d \in Sells : f[d] \in 0 .. MaxQty
  BY DEF Counts
<1>2. g \in Counts /\ Total(g) = f[c]
  BY <1>1, OnlyTotal
<1>3. \A d \in Sells : g[d] <= f[d]
  BY <1>1, ExitsAssumption DEF Only
<1> HIDE DEF g
<1>4. Total(g) <= Total(f)
  BY <1>2, <1>3, TotalMonotone
<1> QED
  BY <1>2, <1>4

(* A new order adds its shares.                                            *)
LEMMA PlacingAdds ==
    ASSUME NEW o \in Table, NEW leg \in Sells, o[leg].status # "WORKING",
           NEW n \in Table, \A c \in Legs : c # leg => n[c] = o[c],
           n[leg].status = "WORKING"
    PROVE  Total(Selling(o)) + n[leg].remaining <= Total(Selling(n))
<1> DEFINE q == n[leg].remaining
           g == Only(leg, q)
<1>1. leg \in Legs /\ q \in 0 .. MaxQty
  BY EntryIsLeg, UnfilledType
<1>2. g \in Counts /\ Total(g) = q
  BY <1>1, OnlyTotal
<1>3. Selling(o) \in Counts /\ Selling(n) \in Counts
  BY SellingType
<1>4. \A c \in Sells : Selling(o)[c] + g[c] <= Selling(n)[c]
  <2> SUFFICES ASSUME NEW c \in Sells PROVE Selling(o)[c] + g[c] <= Selling(n)[c]
    OBVIOUS
  <2>1. Selling(o)[c] = Unfilled(o, c) /\ Selling(n)[c] = Unfilled(n, c)
        /\ Unfilled(o, c) \in 0 .. MaxQty /\ c \in Legs
    BY UnfilledType, EntryIsLeg DEF Selling
  <2>2. CASE c = leg
    BY <1>1, <2>1, <2>2, ExitsAssumption DEF Unfilled, Only
  <2>3. CASE c # leg
    BY <2>1, <2>3, ExitsAssumption DEF Unfilled, Only
  <2> QED
    BY <2>2, <2>3
<1> HIDE DEF g, q
<1>5. Total(Selling(o)) + Total(g) <= Total(Selling(n))
  BY <1>2, <1>3, <1>4, TotalPlus
<1> QED
  BY <1>2, <1>5 DEF q

-----------------------------------------------------------------------------
(* What is noted.                                                          *)

LEMMA NotedSafe ==
    ASSUME NotedOk, NEW new, Noting(new), Safe'
    PROVE  /\ Safe /\ mishaps' = mishaps \cup new
           /\ {"reused", "restarted", "capped", "unsafe", "torn"} \cap mishaps' = {}
           /\ ~({"overlapped", "refused"} \subseteq mishaps')
BY DEF Noting, Safe

LEMMA NotedTorn ==
    ASSUME NotedOk, NEW new, Noting(new)
    PROVE  "torn" \in mishaps' => "unsafe" \in mishaps'
BY DEF Noting

LEMMA SafeHeld ==
    ASSUME ExitsInv, NotedOk, Safe
    PROVE  mgr.quantity = held /\ disk.quantity = held
BY DEF ExitsInv, NotedOk, Safe, ManagedIsHeld

-----------------------------------------------------------------------------
(* The queue.                                                              *)

(* The queue without t, that was at its head or not in it.                 *)
Rest(t) == IF queue # <<>> /\ Head(queue) = t THEN Tail(queue) ELSE queue

MayRun(t) == ~Waits(t) \/ (queue # <<>> /\ Head(queue) = t)

LEMMA RestOf ==
    ASSUME QueueOk, NEW t \in Tasks, MayRun(t)
    PROVE  /\ Rest(t) \in Seq(Tasks)
           /\ \E d \in {0, 1} :
                 /\ d = 0 => ~Waits(t)
                 /\ d = 1 => Len(queue) >= 1 /\ queue[1] = t
                 /\ Len(Rest(t)) = Len(queue) - d
                 /\ \A i \in 1 .. Len(Rest(t)) :
                       Rest(t)[i] = queue[i + d] /\ i + d \in Spots
           /\ \A i \in 1 .. Len(Rest(t)) : Rest(t)[i] \in Tasks \ {t}
<1>1. queue \in Seq(Tasks) /\ Len(queue) \in Nat
  BY DEF QueueOk
<1>2. CASE queue # <<>> /\ Head(queue) = t
  <2>1. Rest(t) = Tail(queue)
    BY <1>2 DEF Rest
  <2>2. /\ Rest(t) \in Seq(Tasks) /\ Len(Rest(t)) = Len(queue) - 1 /\ Len(queue) >= 1
        /\ queue[1] = t
        /\ \A i \in 1 .. Len(Rest(t)) : Rest(t)[i] = queue[i + 1] /\ i + 1 \in Spots
    BY <1>1, <1>2, <2>1 DEF Spots
  <2>3. \A i \in 1 .. Len(Rest(t)) : Rest(t)[i] \in Tasks \ {t}
    <3> SUFFICES ASSUME NEW i \in 1 .. Len(Rest(t)) PROVE Rest(t)[i] \in Tasks \ {t}
      OBVIOUS
    <3>1. i + 1 \in Spots /\ 1 \in Spots /\ i + 1 # 1 /\ Rest(t)[i] = queue[i + 1]
      BY <1>1, <2>2 DEF Spots
    <3>2. queue[i + 1] # queue[1]
      BY <3>1 DEF QueueOk
    <3>3. queue[i + 1] \in Tasks
      BY <1>1, <3>1 DEF Spots
    <3> QED
      BY <2>2, <3>1, <3>2, <3>3
  <2> QED
    BY <2>2, <2>3
<1>3. CASE ~(queue # <<>> /\ Head(queue) = t)
  <2>1. Rest(t) = queue /\ ~Waits(t)
    BY <1>3 DEF Rest, MayRun
  <2>2. \A i \in 1 .. Len(queue) : queue[i] \in Tasks \ {t}
    BY <1>1, <2>1 DEF QueueOk, Spots
  <2>3. \A i \in 1 .. Len(queue) : i + 0 = i /\ Len(queue) = Len(queue) - 0
    BY <1>1
  <2> QED
    BY <1>1, <2>1, <2>2, <2>3 DEF Spots
<1> QED
  BY <1>2, <1>3

(* The place of a task in the queue without t.                             *)
LEMMA RestHas ==
    ASSUME QueueOk, NEW t \in Tasks, MayRun(t), NEW u \in Tasks, u # t, Waits(u)
    PROVE  \E i \in 1 .. Len(Rest(t)) : Rest(t)[i] = u
<1>1. PICK k \in Spots : queue[k] = u
  BY DEF QueueOk
<1>2. PICK d \in {0, 1} :
         /\ d = 1 => Len(queue) >= 1 /\ queue[1] = t
         /\ Len(Rest(t)) = Len(queue) - d
         /\ \A i \in 1 .. Len(Rest(t)) : Rest(t)[i] = queue[i + d] /\ i + d \in Spots
  BY RestOf
<1>3. k \in 1 .. Len(queue) /\ Len(queue) \in Nat
  BY <1>1 DEF Spots, QueueOk
<1>4. k - d \in 1 .. Len(Rest(t)) /\ (k - d) + d = k
  BY <1>1, <1>2, <1>3
<1> QED
  BY <1>1, <1>2, <1>4

(* A handler's step on the queue.                                          *)
LEMMA SuspendsQueue ==
    ASSUME Typed, QueueOk, NEW t \in Tasks, MayRun(t), NEW ask \in Row,
           ask = Idle \/ ask.pc = "asked", NEW replaced \in BOOLEAN, Suspends(t, ask, replaced)
    PROVE  /\ QueueOk'
           /\ task'[t] = ask
           /\ \A u \in Tasks \ {t} :
                 /\ task'[u].leg = task[u].leg /\ task'[u].pc = task[u].pc
                 /\ task'[u].result = task[u].result /\ task'[u].qty = task[u].qty
           /\ queue' = IF ask = Idle THEN Rest(t) ELSE Append(Rest(t), t)
<1>1. /\ task' = [u \in Tasks |-> IF u = t THEN ask ELSE [task[u] EXCEPT !.mine = @ /\ ~replaced]]
      /\ queue' = IF ask = Idle THEN Rest(t) ELSE Append(Rest(t), t)
  BY DEF Suspends, Rest
<1>2. ASSUME NEW u \in Tasks, u # t
      PROVE  /\ task'[u].leg = task[u].leg /\ task'[u].pc = task[u].pc
             /\ task'[u].result = task[u].result /\ task'[u].qty = task[u].qty
  <2>1. task[u] \in Row /\ task'[u] = [task[u] EXCEPT !.mine = @ /\ ~replaced]
    BY <1>1, <1>2 DEF Typed
  <2> QED
    BY <2>1 DEF Row
<1>3. task'[t] = ask /\ DOMAIN task' = Tasks
  BY <1>1
<1> DEFINE q == Rest(t)
<1>4. /\ q \in Seq(Tasks) /\ Len(q) \in Nat
      /\ \A i \in 1 .. Len(q) : q[i] \in Tasks \ {t} /\ Waits(q[i])
      /\ \A i, j \in 1 .. Len(q) : q[i] = q[j] => i = j
  <2>1. PICK d \in {0, 1} : \A i \in 1 .. Len(q) : q[i] = queue[i + d] /\ i + d \in Spots
    BY RestOf
  <2>2. q \in Seq(Tasks) /\ \A i \in 1 .. Len(q) : q[i] \in Tasks \ {t}
    BY RestOf
  <2> HIDE DEF q
  <2>3. \A i \in 1 .. Len(q) : Waits(q[i])
    BY <2>1 DEF QueueOk
  <2>4. ASSUME NEW i \in 1 .. Len(q), NEW j \in 1 .. Len(q), q[i] = q[j] PROVE i = j
    <3>1. i + d = j + d
      BY <2>1, <2>4 DEF QueueOk
    <3>2. i \in Int /\ j \in Int /\ d \in Int
      OBVIOUS
    <3> QED
      BY <3>1, <3>2
  <2> QED
    BY <2>2, <2>3, <2>4
<1>5. \A u \in Tasks \ {t} : Waits(u) => \E i \in 1 .. Len(q) : q[i] = u
  BY RestHas
<1>6. \A u \in Tasks \ {t} : (Waits(u))' <=> Waits(u)
  BY <1>2 DEF Waits
<1> HIDE DEF q
<1>7. \A u \in Tasks : ~(Waits(u))' => task'[u].leg = NoLeg
  BY <1>2, <1>3, IdleType DEF QueueOk, Waits
<1>8. CASE ask = Idle
  <2>1. queue' = q /\ ~(Waits(t))'
    BY <1>1, <1>3, <1>8, IdleType DEF q, Waits
  <2>2. /\ queue' \in Seq(Tasks)
        /\ \A i \in 1 .. Len(queue') : task'[queue'[i]].pc # "idle"
        /\ \A i, j \in 1 .. Len(queue') : queue'[i] = queue'[j] => i = j
    BY <1>4, <1>6, <2>1 DEF Waits
  <2>3. \A u \in Tasks : (Waits(u))' => \E i \in 1 .. Len(queue') : queue'[i] = u
    BY <1>5, <1>6, <2>1
  <2> QED
    BY <1>1, <1>2, <1>3, <1>7, <2>1, <2>2, <2>3 DEF QueueOk, Spots, Waits
<1>9. CASE ask # Idle
  <2>1. queue' = Append(q, t) /\ (Waits(t))'
    BY <1>1, <1>3, <1>9 DEF q, Waits
  <2>2. /\ queue' \in Seq(Tasks) /\ Len(queue') = Len(q) + 1 /\ queue'[Len(q) + 1] = t
        /\ \A i \in 1 .. Len(q) : queue'[i] = q[i]
    BY <1>4, <2>1
  <2>3. \A i \in 1 .. Len(queue') : i \in 1 .. Len(q) \/ i = Len(q) + 1
    BY <1>4, <2>2
  <2>4. \A i \in 1 .. Len(queue') : task'[queue'[i]].pc # "idle"
    BY <1>4, <1>6, <2>1, <2>2, <2>3 DEF Waits
  <2>5. \A i, j \in 1 .. Len(queue') : queue'[i] = queue'[j] => i = j
    BY <1>4, <2>2, <2>3
  <2>6. \A u \in Tasks : (Waits(u))' => \E i \in 1 .. Len(queue') : queue'[i] = u
    <3> SUFFICES ASSUME NEW u \in Tasks, (Waits(u))' PROVE \E i \in 1 .. Len(queue') : queue'[i] = u
      OBVIOUS
    <3>1. CASE u = t
      BY <1>4, <2>2, <3>1
    <3>2. CASE u # t
      <4>1. PICK i \in 1 .. Len(q) : q[i] = u
        BY <1>5, <1>6, <3>2
      <4> QED
        BY <1>4, <2>2, <4>1
    <3> QED
      BY <3>1, <3>2
  <2> QED
    BY <1>1, <1>2, <1>3, <1>7, <2>2, <2>4, <2>5, <2>6 DEF QueueOk, Spots, Waits
<1> QED
  BY <1>1, <1>2, <1>3, <1>8, <1>9

-----------------------------------------------------------------------------
(* What a handler leaves when it is suspended or ends.                     *)

AsksWhole(s) ==
    /\ s.ask.pc = "asked" /\ s.ask.leg # Partial /\ s.ask.qty = s.mgr.quantity
    /\ s.ask.leg \in StopLegs => s.stale
AsksPart(s) == s.ask.pc = "asked" /\ s.ask.leg = Partial

(* The position is covered, or given up, or it is being sold.              *)
Settles(s) ==
    \/ GivenUp(s.mgr)
    \/ s.ask = Idle /\ Covers(s.orders, s.mgr.quantity)
    \/ AsksWhole(s)
    \/ AsksPart(s)

(* Nothing was done about the cover.                                       *)
Rests(r, s) == s.ask = Idle /\ s.orders = r.orders /\ s.stale = r.stale

Manages(r, s) == s.mgr.quantity = r.mgr.quantity /\ (r.mgr.closing => s.mgr.closing)

(* A handler from r to s.                                                  *)
Turn(r, s) ==
    /\ Manages(r, s)
    /\ Settles(s) \/ Rests(r, s)
    /\ Settles(r) => Settles(s)

(* A resting stop for the whole position covers it.                        *)
LEMMA StopIsCover ==
    ASSUME NEW o \in Table, NEW c \in Working(o, StopLegs)
    PROVE  Covers(o, o[c].remaining)
<1>1. c \in Sells /\ c \in Legs /\ o[c].status = "WORKING"
  BY LegsDiffer DEF Working, Sells, Legs, StopLegs
<1>2. Selling(o) \in Counts /\ Selling(o)[c] = o[c].remaining
  BY <1>1, SellingType DEF Selling, Unfilled
<1> QED
  BY <1>1, <1>2, OneOfTotal DEF Covers

LEMMA RefreshTurn ==
    ASSUME NEW r \in Ready, NEW then \in Levels \cup {"end"}, today \in 1 .. MaxDay
    PROVE  /\ Turn(r, RefreshStops(r, then))
           /\ r.stale => Settles(RefreshStops(r, then))
<1> DEFINE m == r.mgr
           live == IF m.stop = NoLeg THEN LiveStop(r.orders) ELSE m.stop
           need == ~r.stale \/ m.quantity = 0 \/ m.closing
           adopt == m.stop = NoLeg /\ live # NoLeg /\ r.orders[live].remaining = m.quantity
           s == RefreshStops(r, then)
<1>1. /\ r \in Runs /\ r.ask = Idle /\ r.orders \in Table /\ m \in Man /\ r.disk \in Man
      /\ m.quantity \in 0 .. MaxQty /\ r.stale \in BOOLEAN
  BY DEF Ready, Runs, Man
<1>2. CASE need
  <2>1. s = Saved([r EXCEPT !.stale = FALSE])
    BY <1>2 DEF RefreshStops
  <2>2. s = [orders |-> r.orders, mgr |-> m, stale |-> FALSE, disk |-> m, ask |-> Idle]
    BY <1>1, <2>1 DEF Saved, Runs
  <2> HIDE DEF s
  <2>3. s.mgr = m /\ s.ask = Idle /\ s.orders = r.orders /\ s.stale = FALSE
    BY <2>2
  <2>4. Settles(s) \/ ~r.stale
    BY <1>2, <2>3 DEF Settles, GivenUp
  <2>5. Settles(r) => Settles(s)
    BY <1>1, <2>3, IdleType DEF Settles, AsksWhole, AsksPart
  <2> QED
    BY <1>1, <2>3, <2>4, <2>5 DEF Turn, Manages, Rests, s
<1>3. CASE ~need /\ adopt
  <2> DEFINE k == [m EXCEPT !.stop = live]
  <2>1. s = Saved([r EXCEPT !.mgr.stop = live, !.stale = FALSE])
    BY <1>3 DEF RefreshStops
  <2>2. live \in Working(r.orders, StopLegs)
    BY <1>3, LiveStopType
  <2> HIDE DEF live
  <2>3. s = [orders |-> r.orders, mgr |-> k, stale |-> FALSE, disk |-> k, ask |-> Idle]
    BY <1>1, <2>1 DEF Saved, Runs
  <2>4. k.quantity = m.quantity /\ k.closing = m.closing
    BY <1>1 DEF Man
  <2> HIDE DEF s, k
  <2>5. Covers(r.orders, r.orders[live].remaining)
    BY <1>1, <2>2, StopIsCover
  <2>6. Settles(s)
    BY <1>3, <2>3, <2>4, <2>5 DEF Settles
  <2>7. Manages(r, s)
    BY <2>3, <2>4 DEF Manages
  <2> QED
    BY <2>6, <2>7 DEF Turn, s
<1>4. CASE ~need /\ ~adopt
  <2> DEFINE o == CancelIn(r.orders, live)
             k == [m EXCEPT !.version = @ + 1]
             a == [pc |-> "asked", leg |-> Stop(today, m.version + 1), qty |-> m.quantity,
                   mine |-> TRUE, then |-> then, result |-> "NONE"]
  <2>1. s = Asking([r EXCEPT !.orders = CancelIn(@, live), !.mgr.version = @ + 1],
                   Stop(today, m.version + 1), m.quantity, then)
    BY <1>4 DEF RefreshStops
  <2> HIDE DEF live
  <2>2. s = [orders |-> o, mgr |-> k, stale |-> r.stale, disk |-> r.disk, ask |-> a]
    BY <1>1, <2>1 DEF Asking, Runs
  <2>3. k.quantity = m.quantity /\ k.closing = m.closing
    BY <1>1 DEF Man
  <2>4. a.pc = "asked" /\ a.leg # Partial /\ a.qty = m.quantity
    BY LegsDiffer
  <2> HIDE DEF s, k, o, a
  <2>5. AsksWhole(s)
    BY <1>4, <2>2, <2>3, <2>4 DEF AsksWhole
  <2>6. Manages(r, s)
    BY <2>2, <2>3 DEF Manages
  <2> QED
    BY <2>5, <2>6 DEF Turn, Settles, s
<1> QED
  BY <1>2, <1>3, <1>4

LEMMA ExitAllTurn ==
    ASSUME NEW r \in Ready, NEW leg \in {Target, TimeExit(today)}, NEW then
    PROVE  /\ Turn(r, ExitAll(r, leg, then))
           /\ Settles(ExitAll(r, leg, then))
<1> DEFINE o == CancelIn(r.orders, r.mgr.stop)
           k == [r.mgr EXCEPT !.stop = NoLeg]
           a == [pc |-> "asked", leg |-> leg, qty |-> r.mgr.quantity,
                 mine |-> TRUE, then |-> then, result |-> "NONE"]
           s == ExitAll(r, leg, then)
<1>1. r \in Runs /\ r.mgr \in Man
  BY DEF Ready, Runs
<1>2. s = Asking(CancelStop(r), leg, r.mgr.quantity, then)
  BY DEF ExitAll
<1>3. s = [orders |-> o, mgr |-> k, stale |-> r.stale, disk |-> r.disk, ask |-> a]
  BY <1>1, <1>2 DEF Asking, CancelStop, Runs
<1>4. k.quantity = r.mgr.quantity /\ k.closing = r.mgr.closing
  BY <1>1 DEF Man
<1>5. leg # Partial /\ leg \notin StopLegs
  BY DEF Target, TimeExit, Partial, StopLegs, Stop
<1>6. a.pc = "asked" /\ a.leg = leg /\ a.qty = r.mgr.quantity
  OBVIOUS
<1> HIDE DEF s, k, o, a
<1>7. AsksWhole(s) /\ Manages(r, s)
  BY <1>3, <1>4, <1>5, <1>6 DEF AsksWhole, Manages
<1> QED
  BY <1>7 DEF Turn, Settles, s

LEMMA SelfTurn ==
    ASSUME NEW r \in Ready
    PROVE  Turn(r, r)
BY DEF Turn, Manages, Rests, Ready

LEMMA LevelsTurn ==
    ASSUME NEW r \in Ready, NEW level \in Levels
    PROVE  Turn(r, CheckLevels(r, level))
<1> DEFINE s == CheckLevels(r, level)
<1>1. r \in Runs /\ r.mgr \in Man /\ r.ask = Idle
  BY DEF Ready, Runs
<1>2. CASE s = r
  BY <1>2, SelfTurn
<1>3. CASE s = ExitAll(r, Target, "end")
  BY <1>3, ExitAllTurn
<1>4. CASE s = ExitPartial(r)
  <2> DEFINE qty == r.mgr.quantity \div 2
             j == [r.mgr EXCEPT !.partial = TRUE]
             k == [r.mgr EXCEPT !.stop = NoLeg]
             o == CancelIn(r.orders, r.mgr.stop)
             a == [pc |-> "asked", leg |-> Partial, qty |-> qty,
                   mine |-> TRUE, then |-> "end", result |-> "NONE"]
  <2>1. CASE qty = 0
    <3>1. s = [r EXCEPT !.mgr.partial = TRUE]
      BY <1>4, <2>1 DEF ExitPartial
    <3>2. s = [r EXCEPT !.mgr = j]
      BY <1>1, <3>1 DEF Runs
    <3>3. j.quantity = r.mgr.quantity /\ j.closing = r.mgr.closing
      BY <1>1 DEF Man
    <3> HIDE DEF s, j
    <3>4. s.orders = r.orders /\ s.mgr = j /\ s.stale = r.stale /\ s.ask = Idle
      BY <1>1, <3>2 DEF Runs
    <3>5. Settles(r) => Settles(s)
      BY <1>1, <3>3, <3>4, IdleType DEF Settles, GivenUp, AsksWhole, AsksPart
    <3> QED
      BY <3>3, <3>4, <3>5 DEF Turn, Manages, Rests, s
  <2>2. CASE qty # 0
    <3>1. s = Asking(CancelStop(r), Partial, qty, "end")
      BY <1>4, <2>2 DEF ExitPartial
    <3> HIDE DEF qty
    <3>2. s = [orders |-> o, mgr |-> k, stale |-> r.stale, disk |-> r.disk, ask |-> a]
      BY <1>1, <3>1 DEF Asking, CancelStop, Runs
    <3>3. k.quantity = r.mgr.quantity /\ k.closing = r.mgr.closing
      BY <1>1 DEF Man
    <3>4. a.pc = "asked" /\ a.leg = Partial
      OBVIOUS
    <3> HIDE DEF s, k, o, a
    <3>5. AsksPart(s) /\ Manages(r, s)
      BY <3>2, <3>3, <3>4 DEF AsksPart, Manages
    <3> QED
      BY <3>5 DEF Turn, Settles, s
  <2> QED
    BY <2>1, <2>2
<1> QED
  BY <1>2, <1>3, <1>4 DEF CheckLevels

LEMMA QuoteTurn ==
    ASSUME NEW r \in Ready, NEW level \in Levels, today \in 1 .. MaxDay
    PROVE  /\ Turn(r, OnQuote(r, level))
           /\ r.stale => Settles(OnQuote(r, level))
<1> DEFINE f == RefreshStops(r, level)
           s == OnQuote(r, level)
<1>1. Turn(r, f) /\ (r.stale => Settles(f)) /\ Outcome(r, f)
  BY RefreshTurn, RefreshOutcome
<1>2. s = IF f.ask = Idle THEN CheckLevels(f, level) ELSE f
  BY DEF OnQuote
<1> HIDE DEF f, s
<1>3. CASE f.ask # Idle
  BY <1>1, <1>2, <1>3 DEF s
<1>4. CASE f.ask = Idle
  <2>1. f \in Ready
    BY <1>1, <1>4 DEF Outcome, Ready
  <2>2. Turn(f, s)
    BY <1>2, <1>4, <2>1, LevelsTurn
  <2>3. Manages(r, s)
    BY <1>1, <2>2 DEF Turn, Manages
  <2>4. Settles(s) \/ Rests(r, s)
    BY <1>1, <2>2 DEF Turn, Rests
  <2>5. (Settles(r) => Settles(s)) /\ (r.stale => Settles(s))
    BY <1>1, <2>2 DEF Turn
  <2> QED
    BY <2>3, <2>4, <2>5 DEF Turn, s
<1> QED
  BY <1>3, <1>4

-----------------------------------------------------------------------------
(* The cover after a handler's step.                                       *)

(* Who is still at work to cover the position without t.                   *)
Leaves(t, st) ==
    \/ Covers(orders, mgr.quantity)
    \/ st /\ \A u \in Tasks \ {t} : Unanswered(u)
    \/ \E u \in Tasks \ {t} : Claims(u, st)
    \/ \E i \in Spots : Marks(i) /\ queue[i] # t

(* A task waits on, for the same answer or with it.                        *)
SameTask(u) ==
    /\ task'[u].leg = task[u].leg /\ task'[u].pc = task[u].pc
    /\ task'[u].result = task[u].result /\ task'[u].qty = task[u].qty

LEMMA LeavesRescued ==
    ASSUME QueueOk, NEW t \in Tasks, MayRun(t), NEW st, Leaves(t, st),
           task'[t].leg = NoLeg, \A u \in Tasks \ {t} : SameTask(u), queue' = Rest(t),
           mgr'.quantity = mgr.quantity, Selling(orders)' = Selling(orders), stale' = st,
           mishaps \subseteq mishaps'
    PROVE  Rescued'
<1>1. CASE Covers(orders, mgr.quantity)
  BY <1>1 DEF Rescued, Covers
<1>2. CASE st /\ \A u \in Tasks \ {t} : Unanswered(u)
  <2>1. NoLeg \notin StopLegs
    BY LegsDiffer DEF StopLegs
  <2>2. \A u \in Tasks : Unanswered(u)'
    BY <1>2, <2>1 DEF Unanswered, Refused, SameTask
  <2> QED
    BY <1>2, <2>2 DEF Rescued
<1>3. CASE \E u \in Tasks \ {t} : Claims(u, st)
  <2>1. PICK u \in Tasks \ {t} : Claims(u, st)
    BY <1>3
  <2>2. SameTask(u)
    OBVIOUS
  <2>3. Claims(u, stale)'
    BY <2>1, <2>2 DEF Claims, SameTask
  <2> QED
    BY <2>3 DEF Rescued
<1>4. CASE \E i \in Spots : Marks(i) /\ queue[i] # t
  <2>1. PICK i \in Spots : Marks(i) /\ queue[i] # t
    BY <1>4
  <2>2. PICK d \in {0, 1} :
           /\ d = 1 => queue[1] = t
           /\ Len(Rest(t)) = Len(queue) - d
           /\ \A k \in 1 .. Len(Rest(t)) : Rest(t)[k] = queue[k + d] /\ k + d \in Spots
    BY RestOf
  <2>3. queue \in Seq(Tasks) /\ Len(queue) \in Nat /\ i \in 1 .. Len(queue)
    BY <2>1 DEF QueueOk, Spots
  <2>4. \A k \in Spots' : /\ k \in 1 .. Len(Rest(t)) /\ queue'[k] = queue[k + d] /\ k + d \in Spots
                          /\ queue'[k] \in Tasks \ {t}
    BY <2>2, RestOf DEF Spots
  <2> DEFINE k == i - d
  <2>5. k \in Spots' /\ k + d = i
    <3>1. i > d
      BY <2>1, <2>2, <2>3
    <3> QED
      BY <2>2, <2>3, <3>1 DEF Spots
  <2> HIDE DEF k
  <2>6. queue'[k] = queue[i] /\ queue[i] \in Tasks \ {t}
    BY <2>4, <2>5
  <2>7. ASSUME NEW j \in Spots', k < j PROVE task'[queue'[j]].leg \notin StopLegs
    <3>1. queue'[j] = queue[j + d] /\ j + d \in Spots /\ queue'[j] \in Tasks \ {t}
      BY <2>4
    <3>2. i < j + d
      BY <2>2, <2>3, <2>4, <2>5, <2>7
    <3>3. task[queue[j + d]].leg \notin StopLegs
      BY <2>1, <3>1, <3>2 DEF Marks
    <3> QED
      BY <3>1, <3>3 DEF SameTask
  <2>8. \/ task'[queue'[k]].leg = Partial
        \/ task'[queue'[k]].leg \in WholeLegs \ StopLegs /\ Refused(queue[k])'
    BY <2>1, <2>6 DEF Marks, Refused, SameTask
  <2>9. Marks(k)'
    BY <2>7, <2>8 DEF Marks
  <2> QED
    BY <2>5, <2>9 DEF Rescued
<1> QED
  BY <1>1, <1>2, <1>3, <1>4 DEF Leaves

LEMMA TurnRescues ==
    ASSUME Typed, QueueOk, NotedOk, NEW t \in Tasks, MayRun(t), NEW r, NEW s, Outcome(r, s),
           s.mgr.version <= MaxVersion, NEW replaced \in BOOLEAN, Steps(t, s, replaced),
           NEW new, Noting(new), Safe', ~GivenUp(mgr'),
           \/ Settles(s)
           \/ /\ s.ask = Idle /\ Selling(s.orders) = Selling(orders)
              /\ s.mgr.quantity = mgr.quantity /\ Leaves(t, s.stale)
    PROVE  Rescued'
<1> DEFINE ask == s.ask
<1>1. /\ orders' = s.orders /\ mgr' = s.mgr /\ stale' = s.stale
      /\ Suspends(t, ask, replaced)
  BY DEF Steps
<1>2. /\ s.orders \in Table /\ s.mgr \in Man /\ s.mgr.quantity \in 0 .. MaxQty
      /\ ask = Idle \/ ask.pc = "asked"
  BY DEF Outcome, Runs, Man, Asks
<1>3. /\ ask \in Row /\ (ask.pc = "asked" => ask.leg \in Sells) /\ ask.leg \notin FlattenLegs
  BY AskedLeg DEF Typed
<1> HIDE DEF ask
<1>4. /\ QueueOk' /\ task'[t] = ask
      /\ \A u \in Tasks \ {t} : SameTask(u)
      /\ queue' = IF ask = Idle THEN Rest(t) ELSE Append(Rest(t), t)
  BY <1>1, <1>2, <1>3, SuspendsQueue DEF SameTask
<1>5. mishaps \subseteq mishaps'
  BY NotedSafe
<1>6. CASE ask = Idle /\ Covers(s.orders, s.mgr.quantity)
  BY <1>1, <1>6 DEF Rescued, Covers, Selling, Unfilled
<1>7. CASE AsksWhole(s)
  <2>1. /\ ask.pc = "asked" /\ ask.leg # Partial /\ ask.qty = s.mgr.quantity
        /\ ask.leg \in StopLegs => s.stale
    BY <1>7 DEF AsksWhole, ask
  <2>2. ask.leg \in WholeLegs
    BY <1>3, <2>1 DEF WholeLegs
  <2>3. Total(Selling(s.orders)) \in Nat
    BY <1>2, SellingType
  <2> DEFINE x == Total(Selling(s.orders))
             y == s.mgr.quantity
  <2>4. x \in Nat /\ y \in Int
    BY <1>2, <2>3, ExitsAssumption
  <2> HIDE DEF x, y
  <2>5. y <= x + y
    BY <2>4
  <2>6. mgr'.quantity <= Total(Selling(orders)') + task'[t].qty
    <3>1. Selling(orders)' = Selling(s.orders)
      BY <1>1 DEF Selling, Unfilled
    <3> QED
      BY <1>1, <1>4, <2>1, <2>5, <3>1 DEF x, y
  <2>7. Claims(t, stale)'
    BY <1>1, <1>4, <2>1, <2>2, <2>6 DEF Claims, Total
  <2> QED
    BY <2>7 DEF Rescued
<1>8. CASE AsksPart(s)
  <2>1. ask.pc = "asked" /\ ask.leg = Partial
    BY <1>8 DEF AsksPart, ask
  <2>2. queue' = Append(Rest(t), t) /\ Rest(t) \in Seq(Tasks)
    BY <1>4, <2>1, IdleType, RestOf
  <2>3. /\ Len(queue') \in Spots' /\ queue'[Len(queue')] = t
        /\ \A j \in Spots' : ~(Len(queue') < j)
    BY <2>2 DEF Spots
  <2>4. Marks(Len(queue))'
    BY <1>4, <2>1, <2>3 DEF Marks
  <2> QED
    BY <2>3, <2>4 DEF Rescued
<1>9. CASE /\ ask = Idle /\ Selling(s.orders) = Selling(orders)
           /\ s.mgr.quantity = mgr.quantity /\ Leaves(t, s.stale)
  <2>1. Selling(orders)' = Selling(orders)
    BY <1>1, <1>9 DEF Selling, Unfilled
  <2>2. task'[t].leg = NoLeg /\ queue' = Rest(t) /\ mgr'.quantity = mgr.quantity /\ stale' = s.stale
    BY <1>1, <1>4, <1>9, IdleType
  <2> QED
    BY <1>4, <1>5, <1>9, <2>1, <2>2, LeavesRescued
<1> QED
  BY <1>1, <1>6, <1>7, <1>8, <1>9 DEF Settles, ask

-----------------------------------------------------------------------------
(* Every handler's step.                                                   *)

LEMMA LegKinds ==
    /\ NoLeg \notin Sells /\ NoLeg \notin StopLegs /\ NoLeg \notin FlattenLegs /\ NoLeg # Partial
    /\ Partial \notin StopLegs /\ Partial \notin FlattenLegs
    /\ StopLegs \cap FlattenLegs = {}
BY LegsDiffer DEF Sells, Legs, StopLegs, FlattenLegs

LEMMA HandlerTidy ==
    ASSUME Typed, QueueOk, NotedOk, NEW t \in Tasks, MayRun(t), NEW r, NEW s, Outcome(r, s),
           s.mgr.version <= MaxVersion, NEW replaced \in BOOLEAN, Steps(t, s, replaced),
           NEW new, Noting(new), Overlap \subseteq new
    PROVE  QueueOk' /\ NotedOk' /\ SavedOk'
<1> DEFINE ask == s.ask
<1>1. /\ mgr' = s.mgr /\ disk' = IF ask = Idle THEN s.mgr ELSE s.disk
      /\ Suspends(t, ask, replaced)
  BY DEF Steps
<1>2. ask = Idle \/ ask.pc = "asked"
  BY DEF Outcome, Asks
<1>3. /\ ask \in Row /\ (ask.pc = "asked" => ask.leg \in Sells) /\ ask.leg \notin FlattenLegs
  BY AskedLeg DEF Typed
<1> HIDE DEF ask
<1>4. QueueOk' /\ task'[t] = ask
  BY <1>1, <1>2, <1>3, SuspendsQueue
<1>5. NotedOk'
  <2>1. Safe' /\ Len(queue') > 1 => "overlapped" \in mishaps'
    BY NotedSafe DEF Overlap
  <2> QED
    BY <2>1, NotedTorn DEF NotedOk
<1>6. SavedOk'
  <2>1. CASE ask = Idle
    BY <1>1, <2>1 DEF SavedOk
  <2>2. CASE ask # Idle
    <3>1. task'[t].leg \notin FlattenLegs \cup {NoLeg}
      BY <1>2, <1>3, <1>4, <2>2, LegKinds
    <3> QED
      BY <3>1 DEF SavedOk
  <2> QED
    BY <2>1, <2>2
<1> QED
  BY <1>4, <1>5, <1>6

(* Orders are only cancelled, and the session goes on.                     *)
LEMMA DaysCalm ==
    ASSUME DaysOk, ExitsInv, Calmer(orders, orders'), today' = today, Safe' => Safe,
           GivenUp(mgr) => GivenUp(mgr'), phase' = phase \/ phase' \in {"starting", "open"},
           phase' # "expired"
    PROVE  DaysOk'
<1>1. today \in 1 .. MaxDay /\ Ended.day = 0 /\ Ended.status = "ENDED"
  BY DEF ExitsInv, Typed, Ended, NoOrder
<1>2. \A c \in Legs : orders'[c].day <= today'
  BY <1>1, ExitsAssumption DEF DaysOk, Calmer
<1>3. ASSUME Safe', ~GivenUp(mgr'), NEW c \in Sells, orders'[c].status = "WORKING"
      PROVE  orders'[c].day = today' /\ phase' \notin {"down", "expired", "closed"}
  <2>1. orders'[c] = orders[c] /\ c \in Legs
    BY <1>1, <1>3, EntryIsLeg DEF Calmer
  <2> QED
    BY <1>3, <2>1 DEF DaysOk
<1> QED
  BY <1>2, <1>3 DEF DaysOk, GivenUp

(* A task that has not asked for an exit leaves the cover to the others.   *)
LEMMA LeavesSame ==
    ASSUME Rescued, NEW t \in Tasks, task[t].pc # "asked",
           task[t].leg \in FlattenLegs \cup {NoLeg}
    PROVE  Leaves(t, stale)
<1>1. CASE \E u \in Tasks : Claims(u, stale)
  BY <1>1 DEF Leaves, Claims
<1>2. CASE \E i \in Spots : Marks(i)
  BY <1>2, LegKinds DEF Leaves, Marks, WholeLegs
<1> QED
  BY <1>1, <1>2 DEF Rescued, Leaves

(* A task that was told of its exit, and is the next to run.               *)
LEMMA LeavesTold ==
    ASSUME Rescued, QueueOk, NotedOk, Safe, NEW t \in Tasks, task[t].pc = "told",
           Head(queue) = t
    PROVE  /\ queue # <<>>
           /\ Leaves(t, StaleAfter(task[t], Accepted(task[t].result)))
<1> DEFINE st == StaleAfter(task[t], Accepted(task[t].result))
<1>1. queue \in Seq(Tasks) /\ Len(queue) \in Nat /\ Waits(t)
  BY DEF QueueOk, Waits
<1>2. PICK k \in Spots : queue[k] = t
  BY <1>1 DEF QueueOk
<1>3. queue # <<>> /\ queue[1] = t /\ 1 \in Spots
  BY <1>1, <1>2 DEF Spots
<1>4. CASE Covers(orders, mgr.quantity)
  BY <1>3, <1>4 DEF Leaves
<1>5. CASE stale /\ \A u \in Tasks : Unanswered(u)
  <2>1. st
    BY <1>5 DEF StaleAfter, Unanswered, Refused
  <2> QED
    BY <1>3, <1>5, <2>1 DEF Leaves
<1>6. CASE \E u \in Tasks : Claims(u, stale)
  <2>1. PICK u \in Tasks : Claims(u, stale)
    BY <1>6
  <2>2. u # t /\ Waits(u)
    BY <2>1 DEF Claims, Waits
  <2>3. PICK j \in Spots : queue[j] = u
    BY <2>2 DEF QueueOk
  <2>4. Len(queue) > 1
    BY <1>1, <1>3, <2>2, <2>3 DEF Spots
  <2>5. Claims(u, st)
    BY <2>1, <2>4 DEF Claims, NotedOk
  <2> QED
    BY <1>3, <2>2, <2>5 DEF Leaves
<1>7. CASE \E i \in Spots : Marks(i)
  <2>1. PICK i \in Spots : Marks(i)
    BY <1>7
  <2>2. CASE queue[i] # t
    BY <1>3, <2>1, <2>2 DEF Leaves
  <2>3. CASE queue[i] = t
    <3>1. i = 1
      BY <1>3, <2>3 DEF QueueOk
    <3>2. st
      BY <2>1, <2>3, LegKinds DEF Marks, StaleAfter, Refused
    <3>3. ASSUME NEW u \in Tasks \ {t} PROVE Unanswered(u)
      <4>1. CASE ~Waits(u)
        BY <4>1, LegKinds DEF QueueOk, Unanswered
      <4>2. CASE Waits(u)
        <5>1. PICK j \in Spots : queue[j] = u
          BY <4>2 DEF QueueOk
        <5>2. 1 < j
          BY <1>1, <1>3, <3>3, <5>1 DEF Spots
        <5> QED
          BY <2>1, <3>1, <5>1, <5>2 DEF Marks, Unanswered
      <4> QED
        BY <4>1, <4>2
    <3> QED
      BY <1>3, <3>2, <3>3 DEF Leaves
  <2> QED
    BY <2>2, <2>3
<1> QED
  BY <1>4, <1>5, <1>6, <1>7 DEF Rescued

LEMMA AnsweredTurn ==
    ASSUME Typed, NEW a \in Row
    PROVE  /\ Answered(a).stale = StaleAfter(a, Accepted(a.result))
           /\ mgr.closing => Answered(a).mgr.closing
<1> DEFINE ok == Accepted(a.result)
           mine == a.mine /\ mgr.quantity > 0
           m == CASE a.leg \in StopLegs /\ ok /\ mine -> [mgr EXCEPT !.stop = a.leg]
                  [] a.leg = Partial /\ mine -> [mgr EXCEPT !.partial = TRUE]
                  [] a.leg \notin StopLegs \cup {Partial} /\ ok /\ mine -> [mgr EXCEPT !.closing = TRUE]
                  [] OTHER -> mgr
<1>1. Answered(a).stale = StaleAfter(a, ok) /\ Answered(a).mgr = m
  BY DEF Answered, Run
<1>2. mgr.closing => m.closing
  <2>1. /\ [mgr EXCEPT !.stop = a.leg].closing = mgr.closing
        /\ [mgr EXCEPT !.partial = TRUE].closing = mgr.closing
        /\ [mgr EXCEPT !.closing = TRUE].closing = TRUE
    BY DEF Typed, Man
  <2>2. m \in {[mgr EXCEPT !.stop = a.leg], [mgr EXCEPT !.partial = TRUE],
               [mgr EXCEPT !.closing = TRUE], mgr}
    BY LegKinds
  <2> HIDE DEF m
  <2> QED
    BY <2>1, <2>2
<1> QED
  BY <1>1, <1>2

-----------------------------------------------------------------------------
(* The exit manager's handlers keep the cover.                             *)

LEMMA ResumesCovers ==
    ASSUME ExitsInv, Tidy, NEW t \in Tasks, Resumes(t)
    PROVE  Tidy'
<1> DEFINE a == task[t]
           r == Answered(a)
           s == CASE a.then \in Levels -> CheckLevels(r, a.then)
                  [] a.then = "refresh" -> RefreshStops(r, "end")
                  [] OTHER -> r
           st == StaleAfter(a, Accepted(a.result))
<1>1. /\ Typed /\ orders \in Table /\ a \in Row /\ today \in 1 .. MaxDay
      /\ QueueOk /\ NotedOk /\ AfterHours /\ DaysOk /\ CoverOk
  BY DEF ExitsInv, Typed, Book, Tidy
<1>2. /\ r \in Ready /\ r.orders = orders /\ r.mgr.quantity = mgr.quantity
      /\ r.stale = st /\ (mgr.closing => r.mgr.closing)
  BY <1>1, AnsweredType, AnsweredTurn
<1>3. /\ s.mgr.version <= MaxVersion /\ Steps(t, s, FALSE) /\ Noting(Overlap)
      /\ today' = today /\ a.pc = "told" /\ Head(queue) = t /\ a.leg \notin FlattenLegs
      /\ (phase' = phase \/ (phase' = "open" /\ phase = "starting"))
  <2>1. /\ s.mgr.version <= MaxVersion /\ Steps(t, s, FALSE) /\ Noting(Overlap)
        /\ today' = today /\ a.pc = "told" /\ Head(queue) = t /\ a.leg \notin FlattenLegs
        /\ phase' = IF phase = "starting" /\ s.ask = Idle THEN "open" ELSE phase
    BY DEF Resumes
  <2> HIDE DEF s
  <2> QED
    BY <2>1
<1>4. Outcome(r, s) /\ Turn(r, s)
  <2> HIDE DEF r, a
  <2>1. CASE a.then \in Levels
    <3>1. s = CheckLevels(r, a.then)
      BY <2>1 DEF Levels
    <3> QED
      BY <1>1, <1>2, <2>1, <3>1, LevelsOutcome, LevelsTurn
  <2>2. CASE a.then = "refresh"
    <3>1. s = RefreshStops(r, "end")
      BY <2>2 DEF Levels
    <3> QED
      BY <1>1, <1>2, <3>1, RefreshOutcome, RefreshTurn
  <2>3. CASE a.then \notin Levels /\ a.then # "refresh"
    <3>1. s = r
      BY <2>3
    <3> QED
      BY <1>2, <3>1, SelfOutcome, SelfTurn
  <2> QED
    BY <2>1, <2>2, <2>3
<1> HIDE DEF r, s, st
<1>5. Waits(t) /\ queue # <<>> /\ MayRun(t)
  <2>1. Waits(t)
    BY <1>3 DEF Waits
  <2>2. queue # <<>>
    BY <1>1, <2>1 DEF QueueOk, Spots
  <2> QED
    BY <1>3, <2>1, <2>2 DEF MayRun
<1>6. QueueOk' /\ NotedOk' /\ SavedOk'
  <2>1. FALSE \in BOOLEAN /\ Overlap \subseteq Overlap
    OBVIOUS
  <2> QED
    BY <1>1, <1>3, <1>4, <1>5, <2>1, HandlerTidy
<1>7. phase \notin {"down", "closed", "expired"} /\ phase' \notin {"down", "closed", "expired"}
  BY <1>1, <1>3, <1>5 DEF AfterHours
<1>8. orders' = s.orders /\ mgr' = s.mgr
  BY <1>3 DEF Steps
<1>9. Safe' => Safe
  BY <1>1, <1>3, NotedSafe
<1>10. /\ Calmer(orders, orders') /\ mgr'.quantity = mgr.quantity
       /\ GivenUp(mgr) => GivenUp(mgr')
  BY <1>2, <1>4, <1>8 DEF Outcome, Turn, Manages, GivenUp
<1>11. DaysOk'
  BY <1>1, <1>3, <1>7, <1>9, <1>10, DaysCalm
<1>12. CoverOk'
  <2> SUFFICES ASSUME Safe', phase' \in {"starting", "open"}, ~GivenUp(mgr')
               PROVE  Rescued'
    BY DEF CoverOk, GivenUp
  <2>1. Rescued /\ Safe
    BY <1>1, <1>3, <1>9, <1>10 DEF CoverOk
  <2>2. Leaves(t, st)
    BY <1>1, <1>3, <2>1, LeavesTold DEF st
  <2>3. \/ Settles(s)
        \/ /\ s.ask = Idle /\ Selling(s.orders) = Selling(orders)
           /\ s.mgr.quantity = mgr.quantity /\ Leaves(t, s.stale)
    BY <1>2, <1>4, <2>2 DEF Turn, Rests, Manages
  <2>4. FALSE \in BOOLEAN
    OBVIOUS
  <2> QED
    BY <1>1, <1>3, <1>4, <1>5, <2>3, <2>4, TurnRescues
<1> QED
  BY <1>6, <1>7, <1>11, <1>12 DEF Tidy, AfterHours, Waits

LEMMA SessionStartCovers ==
    ASSUME ExitsInv, Tidy, SessionStart
    PROVE  Tidy'
<1> DEFINE r == Run(orders, mgr, stale, disk)
           n == [r EXCEPT !.mgr.stop = NoLeg, !.stale = TRUE]
           Begun(due) == IF mgr.quantity = 0 \/ mgr.closing THEN RefreshStops(r, "end")
                         ELSE IF due THEN ExitAll(r, TimeExit(today), "refresh")
                         ELSE RefreshStops(n, "end")
<1>1. /\ Typed /\ orders \in Table /\ today \in 1 .. MaxDay /\ "life" \in Tasks
      /\ mgr \in Man /\ disk \in Man /\ stale \in BOOLEAN
      /\ QueueOk /\ NotedOk /\ DaysOk
  BY DEF ExitsInv, Typed, Book, Tasks, Tidy
<1>2. r = [orders |-> orders, mgr |-> mgr, stale |-> stale, disk |-> disk, ask |-> Idle]
  BY DEF Run
<1>3. r \in Ready /\ r \in Runs /\ r.orders = orders /\ r.mgr = mgr /\ r.disk = disk /\ r.ask = Idle
  BY <1>1, <1>2, IdleType DEF Ready, Runs
<1>4. /\ n \in Ready /\ n.orders = orders /\ n.mgr.quantity = mgr.quantity
      /\ n.mgr.closing = mgr.closing /\ n.stale
  <2> HIDE DEF r
  <2> DEFINE k == [mgr EXCEPT !.stop = NoLeg]
  <2>1. k \in Man /\ k.quantity = mgr.quantity /\ k.closing = mgr.closing
    BY <1>1 DEF Man
  <2>2. n = [r EXCEPT !.mgr = k, !.stale = TRUE]
    BY <1>3 DEF Runs
  <2> HIDE DEF k
  <2>3. n \in Runs /\ n.orders = orders /\ n.mgr = k /\ n.ask = Idle /\ n.stale
    BY <1>3, <2>1, <2>2 DEF Runs
  <2> HIDE DEF n
  <2> QED
    BY <2>1, <2>3 DEF Ready
<1>5. PICK due \in BOOLEAN :
         /\ Begun(due).mgr.version <= MaxVersion /\ Steps("life", Begun(due), FALSE)
         /\ Noting(Overlap) /\ task["life"] = Idle /\ today' = today
         /\ phase' \in {"starting", "open"}
  BY DEF SessionStart, flatVars
<1> HIDE DEF r, n
<1> DEFINE s == Begun(due)
<1>6. \E b \in {r, n} : Outcome(b, s) /\ Turn(b, s) /\ Settles(s)
  <2>1. /\ Outcome(r, RefreshStops(r, "end")) /\ Outcome(n, RefreshStops(n, "end"))
        /\ Turn(r, RefreshStops(r, "end")) /\ Turn(n, RefreshStops(n, "end"))
        /\ Settles(RefreshStops(n, "end"))
    BY <1>1, <1>3, <1>4, RefreshOutcome, RefreshTurn
  <2>2. /\ Outcome(r, ExitAll(r, TimeExit(today), "refresh"))
        /\ Turn(r, ExitAll(r, TimeExit(today), "refresh"))
        /\ Settles(ExitAll(r, TimeExit(today), "refresh"))
    BY <1>1, <1>3, ExitAllOutcome, ExitAllTurn
  <2>3. mgr.quantity = 0 \/ mgr.closing => Settles(r)
    BY <1>3 DEF Settles, GivenUp
  <2>4. mgr.quantity = 0 \/ mgr.closing => Settles(RefreshStops(r, "end"))
    BY <2>1, <2>3 DEF Turn
  <2> QED
    BY <2>1, <2>2, <2>4
<1>7. PICK b \in {r, n} : Outcome(b, s) /\ Turn(b, s) /\ Settles(s)
  BY <1>6
<1>8. b.orders = orders /\ b.mgr.quantity = mgr.quantity /\ b.mgr.closing = mgr.closing
  BY <1>3, <1>4, <1>7
<1>9. s.mgr.version <= MaxVersion /\ Steps("life", s, FALSE)
  BY <1>5
<1> HIDE DEF s
<1>10. MayRun("life")
  BY <1>5, IdleType DEF MayRun, Waits
<1>11. QueueOk' /\ NotedOk' /\ SavedOk'
  <2>1. FALSE \in BOOLEAN /\ Overlap \subseteq Overlap
    OBVIOUS
  <2> QED
    BY <1>1, <1>5, <1>7, <1>9, <1>10, <2>1, HandlerTidy
<1>12. DaysOk'
  <2>1. orders' = s.orders /\ mgr' = s.mgr
    BY <1>9 DEF Steps
  <2>2. Calmer(orders, orders') /\ (GivenUp(mgr) => GivenUp(mgr'))
    BY <1>7, <1>8, <2>1 DEF Outcome, Turn, Manages, GivenUp
  <2>3. Safe' => Safe
    BY <1>1, <1>5, NotedSafe
  <2>4. phase' # "expired"
    BY <1>5
  <2> QED
    BY <1>1, <1>5, <2>2, <2>3, <2>4, DaysCalm
<1>13. CoverOk'
  <2> SUFFICES ASSUME Safe', ~GivenUp(mgr')
               PROVE  Rescued'
    BY DEF CoverOk, GivenUp
  <2>1. FALSE \in BOOLEAN
    OBVIOUS
  <2> QED
    BY <1>1, <1>5, <1>7, <1>9, <1>10, <2>1, TurnRescues
<1> QED
  BY <1>5, <1>11, <1>12, <1>13 DEF Tidy, AfterHours

(* A quote that trades nothing leaves today's exits as they are.           *)
LEMMA QuietQuote ==
    ASSUME ExitsInv, DaysOk, Safe, ~GivenUp(mgr), NEW taken, Takings(taken),
           ~ \E c \in Matchable : taken[c] > 0, NEW capped \in SUBSET {Entry}, NEW after,
           after = [c \in Legs |-> AfterQuote(c, taken, capped)]
    PROVE  Selling(after) = Selling(orders)
<1>1. ASSUME NEW c \in Sells PROVE Unfilled(after, c) = Unfilled(orders, c)
  <2>1. /\ c \in Legs /\ c \notin capped /\ today \in 1 .. MaxDay
        /\ after[c] = AfterQuote(c, taken, capped)
        /\ orders \in Table /\ orders[c].remaining \in 0 .. MaxQty
        /\ (orders[c].status = "WORKING" => orders[c].remaining > 0)
    BY EntryIsLeg, UnfilledType DEF ExitsInv, Typed, Book
  <2>2. taken[c] = 0
    <3>1. taken[c] \in 0 .. MaxQty
      BY <2>1 DEF Takings
    <3>2. CASE c \in Matchable
      BY <3>1, <3>2, ExitsAssumption
    <3>3. CASE c \notin Matchable
      BY <2>1, <3>3 DEF Takings
    <3> QED
      BY <3>2, <3>3
  <2>3. orders[c].status = "WORKING" => orders[c].day = today
    BY DEF DaysOk
  <2>4. ~(orders[c].status = "WORKING" /\ (orders[c].day < today \/ taken[c] = orders[c].remaining))
    BY <2>1, <2>2, <2>3, ExitsAssumption
  <2>5. after[c] = [orders[c] EXCEPT !.remaining = @ - taken[c]]
    BY <2>1, <2>4 DEF AfterQuote
  <2>6. orders[c] \in OrderType
    BY <2>1 DEF Table
  <2>7. after[c].status = orders[c].status /\ after[c].remaining = orders[c].remaining
    BY <2>1, <2>2, <2>5, <2>6, ExitsAssumption DEF OrderType
  <2> QED
    BY <2>7 DEF Unfilled
<1> QED
  BY <1>1 DEF Selling

-----------------------------------------------------------------------------
(* A quote expires what is not of today.                                   *)
LEMMA DaysAfter ==
    ASSUME Book(orders, held), today \in 1 .. MaxDay, \A c \in Legs : orders[c].day <= today,
           NEW taken, NEW capped, NEW c \in Legs, NEW n, n = AfterQuote(c, taken, capped)
    PROVE  n.day <= today /\ (n.status = "WORKING" => n.day = today)
<1>1. orders[c] \in OrderType /\ Ended.day = 0 /\ Ended.status = "ENDED"
  BY DEF Book, Table, Ended, NoOrder
<1>2. orders[c].day \in Nat /\ orders[c].day <= today /\ today \in Nat
  BY <1>1, ExitsAssumption DEF OrderType
<1>3. CASE n = Ended
  BY <1>1, <1>2, <1>3
<1>4. CASE n # Ended
  <2>1. /\ n = [orders[c] EXCEPT !.remaining = @ - taken[c]]
        /\ ~(orders[c].status = "WORKING" /\ orders[c].day < today)
    BY <1>4 DEF AfterQuote
  <2>2. n.day = orders[c].day /\ n.status = orders[c].status
    BY <1>1, <2>1 DEF OrderType
  <2> QED
    BY <1>2, <2>1, <2>2
<1> QED
  BY <1>3, <1>4

LEMMA QuoteCovers ==
    ASSUME ExitsInv, Tidy, NEW t \in Tasks, NEW level \in Levels, Quote(t, level)
    PROVE  Tidy'
<1>1. /\ Typed /\ Book(orders, held) /\ orders \in Table
      /\ mgr \in Man /\ disk \in Man /\ stale \in BOOLEAN /\ today \in 1 .. MaxDay
      /\ QueueOk /\ NotedOk /\ DaysOk /\ CoverOk
  BY DEF ExitsInv, Typed, Book, Tidy
<1>2. /\ task[t] = Idle /\ phase' = phase /\ today' = today
      /\ phase \in {"open", "opening"}
  BY DEF Quote
<1> DEFINE Any(taken) == \E c \in Matchable : taken[c] > 0
           After(taken, capped) == [c \in Legs |-> AfterQuote(c, taken, capped)]
           Told(taken, capped) ==
              Run(After(taken, capped), Managed(taken),
                  stale \/ (Any(taken) /\ Managed(taken).quantity > 0),
                  IF Any(taken) THEN Managed(taken) ELSE disk)
           Gone(capped) == IF capped \ {Entry} # {} THEN {"capped"} ELSE {}
<1>3. PICK taken \in Executions : \E capped \in SUBSET Cappable(taken) :
          /\ OnQuote(Told(taken, capped), level).mgr.version <= MaxVersion
          /\ Steps(t, OnQuote(Told(taken, capped), level), taken[Entry] > 0)
          /\ Noting(Overlap \cup Gone(capped))
  BY DEF Quote
<1>4. PICK capped \in SUBSET Cappable(taken) :
          /\ OnQuote(Told(taken, capped), level).mgr.version <= MaxVersion
          /\ Steps(t, OnQuote(Told(taken, capped), level), taken[Entry] > 0)
          /\ Noting(Overlap \cup Gone(capped))
  BY <1>3
<1> DEFINE told == Managed(taken)
           any == Any(taken)
           after == After(taken, capped)
           r == Told(taken, capped)
           s == OnQuote(r, level)
           replaced == taken[Entry] > 0
           new == Overlap \cup Gone(capped)
<1>5. Takings(taken) /\ capped \in SUBSET Matchable
  BY <1>1, ExecutionsTake DEF Cappable
<1>6. after = [c \in Legs |-> AfterQuote(c, taken, capped)]
  OBVIOUS
<1>7. /\ s.mgr.version <= MaxVersion /\ Steps(t, s, replaced) /\ replaced \in BOOLEAN
      /\ Noting(new) /\ Overlap \subseteq new
      /\ "capped" \notin new => capped \in SUBSET {Entry}
  BY <1>4
<1> HIDE DEF new, replaced
<1>8. told \in Man /\ (~any => told = mgr) 
  <2>1. /\ told \in Man
        /\ taken[Entry] = 0 /\ SoldOff(taken) = 0 => told = mgr
    BY <1>1, <1>5, ManagedFollows
  <2>2. ASSUME ~any PROVE taken[Entry] = 0 /\ SoldOff(taken) = 0
    <3>1. \A c \in Legs : taken[c] \in 0 .. MaxQty
      BY <1>5 DEF Takings
    <3>2. ASSUME NEW c \in Legs PROVE taken[c] = 0
      <4>1. CASE c \in Matchable
        BY <2>2, <3>1, <4>1, ExitsAssumption
      <4>2. CASE c \notin Matchable
        BY <1>5, <4>2 DEF Takings
      <4> QED
        BY <4>1, <4>2
    <3> DEFINE f == [c \in Sells |-> taken[c]]
    <3>3. f \in Counts /\ SoldOff(taken) = Total(f)
      BY <1>5, SoldOffIs
    <3>4. \A c \in Sells : f[c] = 0
      BY <3>2, EntryIsLeg
    <3> HIDE DEF f
    <3> QED
      BY <3>2, <3>3, <3>4, TotalZero, EntryIsLeg
  <2> QED
    BY <2>1, <2>2
<1>9. after \in Table
  <2> HIDE DEF after, After
  <2>1. Book(after, HeldAfter(taken))
    BY <1>1, <1>5, <1>6, QuoteFits
  <2> QED
    BY <2>1 DEF Book
<1>10. /\ r \in Ready /\ r.orders = after /\ r.mgr = told
       /\ r.stale = (stale \/ (any /\ told.quantity > 0))
  <2> DEFINE st == stale \/ (any /\ told.quantity > 0)
             dk == IF any THEN told ELSE disk
  <2>1. st \in BOOLEAN /\ dk \in Man
    BY <1>1, <1>8
  <2>2. r = [orders |-> after, mgr |-> told, stale |-> st, disk |-> dk, ask |-> Idle]
    BY DEF Run
  <2> HIDE DEF r, after, told, st, dk
  <2>3. r \in Ready /\ r.orders = after /\ r.mgr = told /\ r.stale = st
    BY <1>8, <1>9, <2>1, <2>2, IdleType DEF Ready, Runs
  <2> QED
    BY <2>3 DEF st
<1> HIDE DEF r, after, told, any
<1>11. Outcome(r, s) /\ Turn(r, s) /\ (r.stale => Settles(s))
  BY <1>1, <1>10, OnQuoteOutcome, QuoteTurn
<1> HIDE DEF s
<1>12. MayRun(t) /\ task[t].pc = "idle" /\ task[t].leg = NoLeg
  BY <1>2, IdleType DEF MayRun, Waits
<1>13. QueueOk' /\ NotedOk' /\ SavedOk'
  BY <1>1, <1>7, <1>11, <1>12, HandlerTidy
<1>14. /\ orders' = s.orders /\ mgr' = s.mgr /\ Calmer(after, s.orders)
       /\ s.mgr.quantity = told.quantity /\ (told.closing => s.mgr.closing)
  BY <1>7, <1>10, <1>11 DEF Steps, Outcome, Turn, Manages
<1>15. DaysOk'
  <2>1. \A c \in Legs : /\ after[c].day <= today
                        /\ after[c].status = "WORKING" => after[c].day = today
    BY <1>1, <1>6, DaysAfter DEF DaysOk
  <2>2. Ended.day = 0 /\ Ended.status = "ENDED" /\ 0 <= today
    BY <1>1, ExitsAssumption DEF Ended, NoOrder
  <2>3. \A c \in Legs : /\ orders'[c].day <= today'
                        /\ orders'[c].status = "WORKING" => orders'[c].day = today'
    BY <1>2, <1>14, <2>1, <2>2 DEF Calmer
  <2> QED
    BY <1>2, <2>3, EntryIsLeg DEF DaysOk
<1>16. CoverOk'
  <2> SUFFICES ASSUME Safe', phase' \in {"starting", "open"}, ~GivenUp(mgr')
               PROVE  Rescued'
    BY DEF CoverOk, GivenUp
  <2>1. ASSUME any PROVE Settles(s)
    <3>1. told.quantity > 0
      BY <1>8, <1>14, ExitsAssumption DEF GivenUp, Man
    <3>2. Settles(s)
      BY <1>10, <1>11, <2>1, <3>1
    <3> QED
      BY <3>2
  <2>2. ASSUME ~any
        PROVE  \/ Settles(s)
               \/ /\ s.ask = Idle /\ Selling(s.orders) = Selling(orders)
                  /\ s.mgr.quantity = mgr.quantity /\ Leaves(t, s.stale)
    <3>1. told = mgr /\ r.stale = stale /\ ~GivenUp(mgr)
      <4>1. told = mgr
        BY <1>8, <2>2
      <4>2. r.stale = stale
        BY <1>1, <1>10, <2>2
      <4>3. s.mgr.quantity = mgr.quantity /\ (mgr.closing => s.mgr.closing) /\ mgr' = s.mgr
        BY <1>14, <4>1
      <4> QED
        BY <4>1, <4>2, <4>3 DEF GivenUp
    <3>2. Safe /\ capped \in SUBSET {Entry}
      <4>1. Safe /\ mishaps' = mishaps \cup new /\ "capped" \notin mishaps'
        BY <1>1, <1>7, NotedSafe
      <4> QED
        BY <1>7, <4>1
    <3>3. Leaves(t, stale)
      <4>1. Rescued
        BY <1>1, <1>2, <3>1, <3>2 DEF CoverOk
      <4> QED
        BY <1>12, <4>1, LeavesSame
    <3>4. Selling(after) = Selling(orders)
      BY <1>1, <1>5, <1>6, <2>2, <3>1, <3>2, QuietQuote DEF any
    <3> QED
      BY <1>10, <1>11, <1>14, <3>1, <3>3, <3>4 DEF Turn, Rests
  <2>3. \/ Settles(s)
        \/ /\ s.ask = Idle /\ Selling(s.orders) = Selling(orders)
           /\ s.mgr.quantity = mgr.quantity /\ Leaves(t, s.stale)
    BY <2>1, <2>2
  <2> QED
    BY <1>1, <1>7, <1>11, <1>12, <2>3, TurnRescues
<1> QED
  BY <1>2, <1>13, <1>15, <1>16 DEF Tidy, AfterHours

-----------------------------------------------------------------------------
(* The flattener's handlers.                                               *)
LEMMA FlattenAnsweredCovers ==
    ASSUME ExitsInv, Tidy, NEW t \in Tasks, FlattenAnswered(t)
    PROVE  Tidy'
<1>1. /\ Typed /\ orders \in Table /\ QueueOk /\ NotedOk /\ AfterHours /\ DaysOk /\ SavedOk /\ CoverOk
  BY DEF ExitsInv, Typed, Book, Tidy
<1>2. /\ task[t].pc = "told" /\ Head(queue) = t /\ task[t].leg \in FlattenLegs
      /\ Suspends(t, Idle, FALSE)
      /\ phase' = IF phase = "expired" THEN "closed" ELSE phase
      /\ UNCHANGED <<orders, held, mgr, stale, disk, today, mishaps>>
  BY DEF FlattenAnswered, bookVars, exitVars
<1>3. Waits(t) /\ queue # <<>> /\ MayRun(t)
  <2>1. Waits(t)
    BY <1>2 DEF Waits
  <2>2. queue # <<>>
    BY <1>1, <2>1 DEF QueueOk, Spots
  <2> QED
    BY <1>2, <2>1, <2>2 DEF MayRun
<1>4. /\ QueueOk' /\ task'[t] = Idle
      /\ \A u \in Tasks \ {t} : SameTask(u)
      /\ queue' = Rest(t)
  <2>1. Idle \in Row /\ FALSE \in BOOLEAN
    BY IdleRow
  <2> QED
    BY <1>1, <1>2, <1>3, <2>1, SuspendsQueue DEF SameTask
<1>5. task'[t].leg = NoLeg /\ task'[t].pc = "idle"
  BY <1>4, IdleType
<1>6. NotedOk'
  <2>1. queue \in Seq(Tasks) /\ Len(Rest(t)) \in Nat /\ Len(Rest(t)) <= Len(queue)
    BY <1>1, <1>3, RestOf DEF QueueOk
  <2>2. Safe' /\ Len(queue') > 1 => Safe /\ Len(queue) > 1
    BY <1>2, <1>4, <2>1 DEF Safe
  <2> QED
    BY <1>1, <1>2, <2>2 DEF NotedOk
<1>7. phase \notin {"down", "closed"} /\ phase' \notin {"down", "expired"}
  BY <1>1, <1>2, <1>3 DEF AfterHours
<1>8. AfterHours'
  <2>1. ASSUME phase' = "closed", NEW u \in Tasks PROVE ~(Waits(u))'
    <3>1. phase = "expired"
      BY <1>2, <1>7, <2>1
    <3>2. u # t => ~Waits(u)
      BY <1>1, <1>3, <3>1 DEF AfterHours
    <3> QED
      BY <1>4, <1>5, <3>2 DEF Waits, SameTask
  <2> QED
    BY <1>7, <2>1 DEF AfterHours
<1>9. DaysOk'
  <2>1. ASSUME Safe', ~GivenUp(mgr'), NEW c \in Sells, orders'[c].status = "WORKING"
        PROVE  orders'[c].day = today' /\ phase' \notin {"down", "expired", "closed"}
    <3>1. orders[c].day = today /\ phase \notin {"down", "expired", "closed"}
      BY <1>1, <1>2, <2>1 DEF DaysOk, Safe, GivenUp
    <3> QED
      BY <1>2, <3>1
  <2> QED
    BY <1>1, <1>2, <1>7, <2>1 DEF DaysOk
<1>10. SavedOk'
  <2>1. SavedOk
    BY <1>1
  <2>2. (\A u \in Tasks : task'[u].leg \in FlattenLegs \cup {NoLeg})
        => \A u \in Tasks : task[u].leg \in FlattenLegs \cup {NoLeg}
    BY <1>2, <1>4 DEF SameTask
  <2> QED
    BY <1>2, <2>1, <2>2 DEF SavedOk
<1>11. CoverOk'
  <2> SUFFICES ASSUME Safe', phase' \in {"starting", "open"}, ~GivenUp(mgr')
               PROVE  Rescued'
    BY DEF CoverOk, GivenUp
  <2>1. Rescued
    BY <1>1, <1>2 DEF CoverOk, Safe, GivenUp
  <2>2. Leaves(t, stale)
    BY <1>2, <2>1, LeavesSame
  <2>3. Selling(orders)' = Selling(orders) /\ mgr'.quantity = mgr.quantity /\ mishaps \subseteq mishaps'
    BY <1>2 DEF Selling, Unfilled
  <2> QED
    BY <1>1, <1>2, <1>3, <1>4, <1>5, <2>2, <2>3, LeavesRescued
<1> QED
  BY <1>4, <1>6, <1>8, <1>9, <1>10, <1>11 DEF Tidy

(* _release gives the position up, and saves it.                           *)
LEMMA ReleasedGives ==
    ASSUME Typed, orders \in Table
    PROVE  /\ GivenUp(Released.mgr)
           /\ mgr = disk => Released.mgr = Released.disk
<1> DEFINE r == Run(orders, mgr, stale, disk)
           x == CancelStop(r)
           y == [x EXCEPT !.mgr.closing = TRUE, !.stale = FALSE]
           down == IF mgr.quantity = 0 THEN r ELSE Saved(y)
           o == [c \in Legs |-> IF c \in Reduces THEN CancelIn(down.orders, c)[c] ELSE down.orders[c]]
<1>1. mgr \in Man /\ disk \in Man /\ stale \in BOOLEAN
  BY DEF Typed
<1>2. r = [orders |-> orders, mgr |-> mgr, stale |-> stale, disk |-> disk, ask |-> Idle]
  BY DEF Run
<1>3. Released = [down EXCEPT !.orders = o]
  BY DEF Released
<1> HIDE DEF o
<1>4. CASE mgr.quantity = 0
  <2>1. down = r
    BY <1>4
  <2> HIDE DEF down
  <2>2. Released.mgr = mgr /\ Released.disk = disk
    BY <1>2, <1>3, <2>1
  <2> QED
    BY <1>4, <2>2 DEF GivenUp
<1>5. CASE mgr.quantity # 0
  <2>1. down = Saved(y)
    BY <1>5
  <2>2. /\ r \in Runs /\ r.mgr \in Man
    BY <1>1, <1>2, IdleType DEF Runs
  <2> HIDE DEF r
  <2> DEFINE p == CancelIn(r.orders, r.mgr.stop)
             k == [r.mgr EXCEPT !.stop = NoLeg]
             j == [x.mgr EXCEPT !.closing = TRUE]
  <2>3. x = [r EXCEPT !.orders = p, !.mgr = k]
    BY <2>2 DEF CancelStop, Runs
  <2>4. x \in Runs /\ x.mgr \in Man
    <3>1. p \in Table
      BY <2>2, CancelCalms DEF Runs
    <3>2. k \in Man
      BY <2>2 DEF Man
    <3> HIDE DEF x, p, k
    <3>3. x \in Runs
      BY <2>2, <2>3, <3>1, <3>2 DEF Runs
    <3> QED
      BY <3>3 DEF Runs
  <2> HIDE DEF x, p, k
  <2>5. j.closing
    BY <2>4 DEF Man
  <2>6. y = [x EXCEPT !.mgr = j, !.stale = FALSE]
    BY <2>4 DEF Runs
  <2> HIDE DEF y, down, j
  <2>7. down = [y EXCEPT !.disk = y.mgr]
    BY <2>1 DEF Saved
  <2>8. Released.mgr = j /\ Released.disk = j
    BY <1>3, <2>4, <2>6, <2>7 DEF Runs
  <2> QED
    BY <2>5, <2>8 DEF GivenUp
<1> QED
  BY <1>4, <1>5

LEMMA TickCovers ==
    ASSUME ExitsInv, Tidy, NEW t \in Tasks, Tick(t)
    PROVE  Tidy'
<1> DEFINE r == Released
           leg == Flatten(today, Attempt)
           ask == [pc |-> "asked", leg |-> leg, qty |-> held, mine |-> TRUE,
                   then |-> "end", result |-> "NONE"]
           works == flatten /\ held > 0 /\ ~FlattenWorking
<1>1. /\ Typed /\ orders \in Table /\ held \in 0 .. MaxQty /\ today \in 1 .. MaxDay
      /\ attempts \in [1 .. MaxDay -> 0 .. MaxAttempts]
      /\ QueueOk /\ NotedOk /\ AfterHours /\ DaysOk /\ SavedOk
  BY DEF ExitsInv, Typed, Book, Tidy
<1>2. /\ task[t] = Idle /\ today' = today
      /\ phase' = IF phase = "expired" /\ ~works THEN "closed" ELSE phase
      /\ (phase = "open" /\ works) \/ (t = "life" /\ phase = "expired")
  BY DEF Tick
<1>3. MayRun(t) /\ ~Waits(t) /\ task[t].leg = NoLeg
  BY <1>2, IdleType DEF MayRun, Waits
<1>4. CASE ~works
  <2>1. UNCHANGED <<orders, mgr, stale, disk, task, queue, mishaps>>
    BY <1>4 DEF Tick, exitVars, taskVars
  <2>2. phase = "expired" /\ phase' = "closed" /\ t = "life"
    BY <1>2, <1>4
  <2>3. QueueOk' /\ NotedOk' /\ SavedOk'
    BY <1>1, <2>1 DEF QueueOk, NotedOk, SavedOk, Spots, Waits, Safe
  <2>4. AfterHours'
    BY <1>1, <1>3, <2>1, <2>2 DEF AfterHours, Waits
  <2>5. DaysOk'
    <3>1. ASSUME Safe', ~GivenUp(mgr'), NEW c \in Sells, orders'[c].status = "WORKING"
          PROVE  FALSE
      BY <1>1, <2>1, <2>2, <3>1 DEF DaysOk, Safe, GivenUp
    <3> QED
      BY <1>1, <1>2, <2>1, <2>2, <3>1 DEF DaysOk
  <2>6. CoverOk'
    BY <2>2 DEF CoverOk
  <2> QED
    BY <2>3, <2>4, <2>5, <2>6 DEF Tidy
<1>5. CASE works
  <2>1. /\ Attempt <= MaxAttempts
        /\ orders' = Asking(r, leg, held, "end").orders
        /\ mgr' = Asking(r, leg, held, "end").mgr
        /\ disk' = Asking(r, leg, held, "end").disk
        /\ Suspends(t, Asking(r, leg, held, "end").ask, FALSE)
        /\ Noting(Overlap)
    BY <1>5 DEF Tick
  <2>2. /\ r \in Runs /\ Calmer(orders, r.orders)
        /\ GivenUp(r.mgr) /\ (mgr = disk => r.mgr = r.disk)
    BY <1>1, ReleasedType, ReleasedGives
  <2>3. Attempt \in 1 .. MaxAttempts
    BY <1>1, <2>1, ExitsAssumption DEF Attempt
  <2>4. leg \in FlattenLegs /\ leg \in Sells
    BY <1>1, <2>3, FlattenIsSell
  <2>5. Asking(r, leg, held, "end") = [r EXCEPT !.ask = ask]
    BY DEF Asking
  <2>6. ask \in Row /\ ask.leg = leg /\ ask.pc = "asked"
    BY <1>1, <2>4 DEF Row
  <2> HIDE DEF r, ask, leg
  <2>7. /\ orders' = r.orders /\ mgr' = r.mgr /\ disk' = r.disk /\ Suspends(t, ask, FALSE)
    BY <2>1, <2>2, <2>5 DEF Runs
  <2>8. /\ QueueOk' /\ task'[t] = ask
        /\ \A u \in Tasks \ {t} : SameTask(u)
    <3>1. FALSE \in BOOLEAN
      OBVIOUS
    <3> QED
      BY <1>1, <1>3, <2>6, <2>7, <3>1, SuspendsQueue DEF SameTask
  <2>9. phase' = phase /\ phase \in {"open", "expired"} /\ (phase = "expired" => t = "life")
    BY <1>2, <1>5
  <2>10. NotedOk'
    <3>1. Safe' /\ Len(queue') > 1 => "overlapped" \in mishaps'
      BY <1>1, <2>1, NotedSafe DEF Overlap
    <3> QED
      BY <1>1, <2>1, <3>1, NotedTorn DEF NotedOk
  <2>11. AfterHours'
    <3>1. ASSUME phase' = "expired", NEW u \in Tasks, (Waits(u))'
          PROVE  u = "life" /\ task'[u].leg \in FlattenLegs
      <4>1. u # t => ~(Waits(u))'
        BY <1>1, <2>8, <2>9, <3>1 DEF AfterHours, Waits, SameTask
      <4> QED
        BY <2>4, <2>6, <2>8, <2>9, <3>1, <4>1
    <3> QED
      BY <2>9, <3>1 DEF AfterHours
  <2>12. GivenUp(mgr')
    BY <2>2, <2>7
  <2>13. DaysOk'
    <3>1. Ended.day = 0 /\ 0 <= today
      BY <1>1, ExitsAssumption DEF Ended, NoOrder
    <3>2. \A c \in Legs : orders'[c].day <= today'
      BY <1>1, <1>2, <2>2, <2>7, <3>1 DEF Calmer, DaysOk
    <3> QED
      BY <2>12, <3>2 DEF DaysOk, GivenUp
  <2>14. SavedOk'
    <3>1. (\A u \in Tasks : task'[u].leg \in FlattenLegs \cup {NoLeg})
            => \A u \in Tasks : task[u].leg \in FlattenLegs \cup {NoLeg}
      BY <1>3, <2>8 DEF SameTask
    <3> QED
      BY <1>1, <2>2, <2>7, <3>1 DEF SavedOk
  <2>15. CoverOk'
    BY <2>12 DEF CoverOk, GivenUp
  <2> QED
    BY <2>8, <2>10, <2>11, <2>13, <2>14, <2>15 DEF Tidy
<1> QED
  BY <1>4, <1>5

-----------------------------------------------------------------------------
(* A submission covers what it claimed, or leaves it to who is told.       *)

(* Nobody else waits when a submission is refused.                         *)
LEMMA Alone ==
    ASSUME QueueOk, NEW t \in Tasks, Waits(t), ~(Len(queue) > 1)
    PROVE  /\ 1 \in Spots /\ queue[1] = t /\ \A j \in Spots : j = 1
           /\ \A u \in Tasks \ {t} : task[u].leg = NoLeg
<1>1. queue \in Seq(Tasks) /\ Len(queue) \in Nat
  BY DEF QueueOk
<1>2. PICK k \in Spots : queue[k] = t
  BY DEF QueueOk
<1>3. 1 \in Spots /\ \A j \in Spots : j = 1
  BY <1>1, <1>2 DEF Spots
<1>4. queue[1] = t
  BY <1>2, <1>3
<1>5. ASSUME NEW u \in Tasks \ {t} PROVE task[u].leg = NoLeg
  <2>1. ~Waits(u)
    BY <1>3, <1>4, <1>5 DEF QueueOk
  <2> QED
    BY <2>1 DEF QueueOk
<1> QED
  BY <1>3, <1>4, <1>5

LEMMA SubmitsCovers ==
    ASSUME ExitsInv, Tidy, NEW t \in Tasks, Submits(t)
    PROVE  Tidy'
<1> DEFINE a == task[t]
           leg == task[t].leg
           qty == Clipped(a.qty)
           Noted(x) == CASE x = "DUPLICATE" -> {"reused"}
                         [] x = "SUBMITTED" -> {}
                         [] OTHER -> {"refused"}
<1>1. /\ Typed /\ Book(orders, held) /\ today \in 1 .. MaxDay
      /\ orders \in Table /\ task \in [Tasks -> Row] /\ a \in Row /\ a.qty \in 0 .. MaxQty
      /\ QueueOk /\ NotedOk /\ AfterHours /\ DaysOk /\ SavedOk /\ CoverOk
  BY DEF ExitsInv, Typed, Book, Row, Tidy
<1>2. a.pc = "asked" /\ leg \in Sells
  BY <1>1 DEF Submits, Typed
<1>3. UNCHANGED <<held, mgr, stale, disk, today, phase, queue>>
  BY DEF Submits, exitVars
<1>4. PICK result \in {"SUBMITTED", "DUPLICATE", "BLOCKED", "REJECTED"} :
        /\ (result = "DUPLICATE") = (orders[leg] # NoOrder)
        /\ result \in {"SUBMITTED", "REJECTED"} => qty > 0
        /\ orders' = CASE result = "SUBMITTED" -> [orders EXCEPT ![leg] = Placed(leg, qty)]
                       [] result = "REJECTED" -> [orders EXCEPT ![leg] = Ended]
                       [] OTHER -> orders
        /\ task' = [task EXCEPT ![t].pc = "told", ![t].result = result]
        /\ Noting(Noted(result))
  BY DEF Submits
<1> DEFINE new == Noted(result)
<1>5. /\ Noting(new)
      /\ result = "DUPLICATE" => "reused" \in new
      /\ result \in {"BLOCKED", "REJECTED"} => "refused" \in new
  BY <1>4
<1> HIDE DEF new, Noted
<1>6. /\ task'[t].leg = leg /\ task'[t].pc = "told" /\ task'[t].result = result
      /\ task'[t].qty = a.qty /\ \A u \in Tasks \ {t} : task'[u] = task[u]
  <2>1. task' = [task EXCEPT ![t] = [a EXCEPT !.pc = "told", !.result = result]]
    BY <1>1, <1>4
  <2> DEFINE b == [a EXCEPT !.pc = "told", !.result = result]
  <2>2. b.leg = leg /\ b.pc = "told" /\ b.result = result /\ b.qty = a.qty
    BY <1>1, <1>4 DEF Row
  <2> HIDE DEF b
  <2> QED
    BY <1>1, <2>1, <2>2 DEF b
<1>7. \A c \in Legs : c # leg => orders'[c] = orders[c]
  <2>1. \/ orders' = [orders EXCEPT ![leg] = Placed(leg, qty)]
        \/ orders' = [orders EXCEPT ![leg] = Ended]
        \/ orders' = orders
    BY <1>4
  <2> HIDE DEF leg, qty
  <2> QED
    BY <1>1, <2>1 DEF Table
<1>8. /\ \A u \in Tasks : (Waits(u))' <=> Waits(u)
      /\ \A u \in Tasks : task'[u].leg = task[u].leg
      /\ Waits(t)
  BY <1>2, <1>6 DEF Waits
<1>9. QueueOk' /\ AfterHours' /\ SavedOk'
  <2>1. QueueOk'
    <3>1. queue \in Seq(Tasks) /\ \A i \in Spots : queue[i] \in Tasks
      BY <1>1 DEF QueueOk, Spots
    <3> QED
      BY <1>1, <1>3, <1>8, <3>1 DEF QueueOk, Spots
  <2>2. AfterHours'
    BY <1>1, <1>3, <1>8 DEF AfterHours
  <2>3. SavedOk'
    BY <1>1, <1>3, <1>8 DEF SavedOk
  <2> QED
    BY <2>1, <2>2, <2>3
<1>10. Safe' => /\ Safe /\ mishaps' = mishaps \cup new
                /\ "reused" \notin mishaps'
                /\ ~({"overlapped", "refused"} \subseteq mishaps')
  BY <1>1, <1>5, NotedSafe
<1>11. NotedOk'
  BY <1>1, <1>3, <1>5, <1>10, NotedTorn DEF NotedOk
<1> HIDE DEF leg, qty
<1>12. /\ result = "SUBMITTED" => orders'[leg] = Placed(leg, qty) /\ qty > 0
       /\ result = "REJECTED" => orders'[leg] = Ended
       /\ result \in {"DUPLICATE", "BLOCKED"} => orders'[leg] = orders[leg]
       /\ result # "DUPLICATE" => orders[leg] = NoOrder
  <2>1. leg \in DOMAIN orders
    BY <1>1, <1>2, EntryIsLeg DEF Table
  <2> QED
    BY <1>4, <2>1
<1>13. qty > 0 => qty \in 1 .. MaxQty
  BY <1>1, ClippedFits, ExitsAssumption DEF qty
<1>14. qty > 0 => /\ Placed(leg, qty).status = "WORKING" /\ Placed(leg, qty).day = today
                  /\ Placed(leg, qty).remaining = qty /\ Placed(leg, qty) \in OrderType
  <2>1. today \in 0 .. MaxDay
    BY <1>1, ExitsAssumption
  <2> QED
    BY <1>13, <2>1, ExitsAssumption DEF Placed, OrderType
<1>15. /\ \A c \in Legs : orders'[c].day <= today'
       /\ orders'[leg].status = "WORKING" /\ orders[leg].status # "WORKING" => orders'[leg].day = today
  <2>1. Ended.day = 0 /\ Ended.status = "ENDED" /\ 0 <= today /\ today <= today /\ leg \in Legs
    BY <1>1, <1>2, EntryIsLeg, ExitsAssumption DEF Ended, NoOrder
  <2> QED
    BY <1>1, <1>3, <1>7, <1>12, <1>14, <2>1 DEF DaysOk
<1>16. DaysOk'
  <2>1. ASSUME Safe', ~GivenUp(mgr')
        PROVE  /\ phase \notin {"down", "expired", "closed"}
               /\ \A c \in Sells : orders'[c].status = "WORKING" => orders'[c].day = today'
    <3>1. Safe /\ ~GivenUp(mgr)
      BY <1>3, <1>10, <2>1 DEF GivenUp
    <3>3. phase \notin {"down", "expired", "closed"}
      BY <1>1, <1>8, <3>1 DEF AfterHours, DaysOk
    <3>4. \A c \in Sells : orders[c].status = "WORKING" => orders[c].day = today
      BY <1>1, <3>1 DEF DaysOk
    <3>5. ASSUME NEW c \in Sells, orders'[c].status = "WORKING" PROVE orders'[c].day = today'
      <4>1. c \in Legs
        BY EntryIsLeg
      <4>2. CASE c # leg \/ orders'[c] = orders[c]
        BY <1>3, <1>7, <3>4, <3>5, <4>1, <4>2
      <4>3. CASE c = leg /\ orders'[c] # orders[c]
        <5>1. orders[leg] = NoOrder
          BY <1>12, <4>3
        <5> QED
          BY <1>3, <1>15, <3>5, <4>3, <5>1, SimpleOrders
      <4> QED
        BY <4>2, <4>3
    <3> QED
      BY <3>3, <3>5
  <2> QED
    BY <1>3, <1>15, <2>1 DEF DaysOk
<1>17. CoverOk'
  <2> SUFFICES ASSUME Safe', phase' \in {"starting", "open"}, ~GivenUp(mgr')
               PROVE  Rescued'
    BY DEF CoverOk, GivenUp
  <2> DEFINE x == Total(Selling(orders))
             n == orders'
             y == Total(Selling(n))
  <2>1. /\ Safe /\ mishaps' = mishaps \cup new /\ "reused" \notin mishaps'
        /\ ~({"overlapped", "refused"} \subseteq mishaps')
    BY <1>10
  <2>2. Rescued /\ mgr.quantity = held /\ mgr' = mgr
    <3>1. mgr' = mgr /\ phase' = phase
      BY <1>3
    <3>2. ~GivenUp(mgr)
      BY <3>1 DEF GivenUp
    <3> QED
      BY <1>1, <2>1, <3>1, <3>2, SafeHeld DEF CoverOk
  <2>3. result # "DUPLICATE"
    BY <1>5, <2>1
  <2>4. orders[leg] = NoOrder /\ orders[leg].status # "WORKING"
    BY <1>12, <2>3, SimpleOrders
  <2>5. n \in Table
    <3>1. Book(orders', held')
      BY SubmitsKeeps DEF ExitsInv
    <3> QED
      BY <3>1 DEF Book
  <2>6. x \in Nat /\ y \in Nat
    BY <1>1, <2>5, SellingType
  <2>7. result = "SUBMITTED" => x + qty <= y /\ qty \in Nat
    <3> SUFFICES ASSUME result = "SUBMITTED" PROVE x + qty <= y /\ qty \in Nat
      OBVIOUS
    <3>1. qty > 0 /\ n[leg].status = "WORKING" /\ n[leg].remaining = qty
      BY <1>12, <1>14
    <3>2. \A c \in Legs : c # leg => n[c] = orders[c]
      BY <1>7
    <3> HIDE DEF n
    <3>3. x + n[leg].remaining <= y
      BY <1>1, <1>2, <2>4, <2>5, <3>1, <3>2, PlacingAdds
    <3> QED
      BY <1>13, <3>1, <3>3
  <2>8. result # "SUBMITTED" => y = x
    <3> SUFFICES ASSUME result # "SUBMITTED" PROVE Selling(n) = Selling(orders)
      OBVIOUS
    <3>1. n[leg].status # "WORKING"
      BY <1>12, <2>3, <2>4, SimpleOrders
    <3>2. \A c \in Sells : Unfilled(n, c) = Unfilled(orders, c)
      BY <1>7, <2>4, <3>1, EntryIsLeg DEF Unfilled
    <3> HIDE DEF n
    <3> QED
      BY <3>2 DEF Selling
  <2>9. x <= y
    BY <2>6, <2>7, <2>8
  <2>10. Total(Selling(orders))' = y
    BY DEF Total, Selling, Unfilled
  <2> HIDE DEF x, y, n
  <2>11. mgr.quantity \in Nat
    BY <1>1, ExitsAssumption DEF Typed, Man
  <2>12. CASE Covers(orders, mgr.quantity)
    <3>1. mgr.quantity <= y
      BY <2>6, <2>9, <2>11, <2>12 DEF Covers, x
    <3> QED
      BY <2>2, <2>10, <3>1 DEF Rescued, Covers
  <2>13. CASE stale /\ \A u \in Tasks : Unanswered(u)
    <3>1. leg \notin StopLegs
      BY <1>2, <2>13 DEF Unanswered, Refused, leg
    <3>2. \A u \in Tasks : Unanswered(u)'
      BY <1>6, <2>13, <3>1 DEF Unanswered, Refused
    <3> QED
      BY <1>3, <2>13, <3>2 DEF Rescued
  <2>14. CASE \E u \in Tasks \ {t} : Claims(u, stale)
    <3>1. PICK u \in Tasks \ {t} : Claims(u, stale)
      BY <2>14
    <3>2. task'[u] = task[u] /\ task[u].qty \in Nat
      BY <1>1, <1>6, <3>1, ExitsAssumption DEF Row
    <3>3. mgr.quantity <= y + task[u].qty
      <4>1. mgr.quantity <= x + task[u].qty
        BY <3>1 DEF Claims, x
      <4> QED
        BY <2>6, <2>9, <2>11, <3>2, <4>1
    <3>4. Claims(u, stale)'
      BY <1>3, <2>1, <2>2, <2>10, <3>1, <3>2, <3>3 DEF Claims
    <3> QED
      BY <3>4 DEF Rescued
  <2>15. CASE Claims(t, stale)
    <3>1. /\ leg \in WholeLegs /\ mgr.quantity <= x + a.qty
          /\ leg \in StopLegs => stale \/ "overlapped" \in mishaps
      BY <2>15 DEF Claims, x, leg
    <3>2. CASE result = "SUBMITTED"
      <4>1. Reducible = held - x
        BY <1>1, ReducibleIs DEF x
      <4>2. qty = IF a.qty <= Reducible THEN a.qty ELSE Reducible
        BY DEF qty, Clipped
      <4>3. x + qty <= y /\ qty \in Nat
        BY <2>7, <3>2
      <4>4. held \in Nat /\ a.qty \in Nat
        BY <1>1, ExitsAssumption DEF Book
      <4>5. mgr.quantity <= y
        BY <2>2, <2>6, <2>11, <3>1, <4>1, <4>2, <4>3, <4>4
      <4> QED
        BY <2>2, <2>10, <4>5 DEF Rescued, Covers
    <3>3. CASE result # "SUBMITTED"
      <4>1. result \in {"BLOCKED", "REJECTED"}
        BY <2>3, <3>3
      <4>2. "overlapped" \notin mishaps' /\ "overlapped" \notin mishaps
        BY <1>5, <2>1, <4>1
      <4>3. ~(Len(queue) > 1)
        BY <1>1, <2>1, <4>2 DEF NotedOk
      <4>4. /\ 1 \in Spots /\ queue[1] = t /\ \A j \in Spots : j = 1
            /\ \A u \in Tasks \ {t} : task[u].leg = NoLeg
        BY <1>1, <1>8, <4>3, Alone
      <4>5. Refused(t)' /\ task'[t].leg = leg
        BY <1>6, <4>1 DEF Refused, Accepted
      <4>6. CASE leg \in StopLegs
        <5>1. stale'
          BY <1>3, <3>1, <4>2, <4>6
        <5>2. \A u \in Tasks : Unanswered(u)'
          BY <1>6, <4>4, <4>5, LegKinds DEF Unanswered
        <5> QED
          BY <5>1, <5>2 DEF Rescued
      <4>7. CASE leg \notin StopLegs
        <5>1. Spots' = Spots /\ queue' = queue
          BY <1>3 DEF Spots
        <5>2. \A j \in Spots' : ~(1 < j)
          BY <4>4, <5>1
        <5>3. task'[queue'[1]].leg \in WholeLegs \ StopLegs /\ Refused(queue[1])'
          BY <1>3, <3>1, <4>4, <4>5, <4>7 DEF Refused
        <5>4. Marks(1)'
          BY <5>2, <5>3 DEF Marks
        <5> QED
          BY <4>4, <5>1, <5>4 DEF Rescued
      <4> QED
        BY <4>6, <4>7
    <3> QED
      BY <3>2, <3>3
  <2>16. CASE \E i \in Spots : Marks(i)
    <3>1. PICK i \in Spots : Marks(i)
      BY <2>16
    <3>2. Spots' = Spots /\ queue' = queue /\ \A j \in Spots : queue[j] \in Tasks
      BY <1>1, <1>3 DEF Spots, QueueOk
    <3>3. \A j \in Spots' : i < j => task'[queue'[j]].leg \notin StopLegs
      BY <1>8, <3>1, <3>2 DEF Marks
    <3>4. CASE task[queue[i]].leg = Partial
      BY <1>8, <3>1, <3>2, <3>3, <3>4 DEF Rescued, Marks
    <3>5. CASE task[queue[i]].leg \in WholeLegs \ StopLegs /\ Refused(queue[i])
      <4>1. queue[i] # t /\ task'[queue[i]] = task[queue[i]]
        BY <1>2, <1>6, <3>1, <3>2, <3>5 DEF Refused
      <4>2. task'[queue'[i]].leg \in WholeLegs \ StopLegs /\ Refused(queue[i])'
        BY <3>2, <3>5, <4>1 DEF Refused
      <4>3. Marks(i)'
        BY <3>3, <4>2 DEF Marks
      <4> QED
        BY <3>1, <3>2, <4>3 DEF Rescued
    <3> QED
      BY <3>1, <3>4, <3>5 DEF Marks
  <2> QED
    BY <2>2, <2>12, <2>13, <2>14, <2>15, <2>16 DEF Rescued
<1> QED
  BY <1>9, <1>11, <1>16, <1>17 DEF Tidy

-----------------------------------------------------------------------------
(* The session, the entry, crashes.                                        *)

LEMMA SelfTidy ==
    ASSUME Tidy, UNCHANGED <<mgr, stale, disk, task, queue, today, phase, mishaps>>,
           Selling(orders)' = Selling(orders),
           \A c \in Legs : orders'[c].day <= today,
           \A c \in Sells : orders'[c] = orders[c]
    PROVE  Tidy'
<1>1. QueueOk' /\ NotedOk' /\ AfterHours' /\ SavedOk'
  BY DEF Tidy, QueueOk, NotedOk, AfterHours, SavedOk, Spots, Waits, Safe
<1>2. DaysOk'
  BY DEF Tidy, DaysOk, Safe, GivenUp, Waits
<1>3. CoverOk'
  <2> SUFFICES ASSUME Safe', phase' \in {"starting", "open"}, ~GivenUp(mgr')
               PROVE  Rescued'
    BY DEF CoverOk, GivenUp
  <2>1. Rescued
    BY DEF Tidy, CoverOk, Safe, GivenUp
  <2>2. Covers(orders, mgr.quantity) => Covers(orders, mgr.quantity)'
    BY DEF Covers
  <2>3. \A u \in Tasks : Unanswered(u) => Unanswered(u)'
    BY DEF Unanswered, Refused
  <2>4. \A u \in Tasks : Claims(u, stale) => Claims(u, stale)'
    BY DEF Claims
  <2>5. \A i \in Spots : Marks(i) => Marks(i)' /\ i \in Spots'
    BY DEF Marks, Refused, Spots
  <2> QED
    BY <2>1, <2>2, <2>3, <2>4, <2>5 DEF Rescued
<1> QED
  BY <1>1, <1>2, <1>3 DEF Tidy

(* Who dies forgets its tasks.                                             *)
LEMMA DiesCovers ==
    ASSUME Dies, ~Safe', "torn" \in mishaps' => "unsafe" \in mishaps',
           \A c \in Legs : orders'[c].day <= today'
    PROVE  Tidy'
<1>1. /\ mgr' = disk' /\ task' = [t \in Tasks |-> Idle] /\ queue' = <<>> /\ phase' = "down"
  BY DEF Dies
<1>2. \A t \in Tasks : task'[t].pc = "idle" /\ task'[t].leg = NoLeg
  BY <1>1, IdleType
<1>3. queue' \in Seq(Tasks) /\ Len(queue') = 0
  BY <1>1
<1>4. QueueOk'
  BY <1>2, <1>3 DEF QueueOk, Spots, Waits
<1>5. NotedOk' /\ AfterHours' /\ DaysOk' /\ SavedOk' /\ CoverOk'
  BY <1>1, <1>2 DEF NotedOk, AfterHours, DaysOk, SavedOk, CoverOk, Safe, Waits
<1> QED
  BY <1>4, <1>5 DEF Tidy

LEMMA CrashCovers ==
    ASSUME ExitsInv, Tidy, Crash \/ CrashInFill
    PROVE  Tidy'
<1>1. /\ Dies /\ Book(orders, held) /\ today' = today /\ today \in 1 .. MaxDay
      /\ \A c \in Legs : orders[c].day <= today
  BY DEF Crash, CrashInFill, ExitsInv, Typed, Dies, Tidy, DaysOk
<1>2. ~Safe' /\ ("torn" \in mishaps' => "unsafe" \in mishaps')
  <2>1. CASE Noting({"restarted"})
    BY <2>1 DEF Noting, Safe
  <2>2. CASE Noting({"torn"})
    BY <2>2 DEF Noting, Safe
  <2> QED
    BY <2>1, <2>2 DEF Crash, CrashInFill
<1>3. \A c \in Legs : orders'[c].day <= today'
  <2>1. CASE Crash
    BY <1>1, <2>1 DEF Crash, bookVars
  <2>2. CASE CrashInFill
    <3> DEFINE Taken(d) == [c \in Legs |-> IF c = d THEN 1 ELSE 0]
    <3>1. PICK d \in Matchable : orders' = [c \in Legs |-> AfterQuote(c, Taken(d), {})]
      BY <2>2 DEF CrashInFill
    <3> HIDE DEF Taken
    <3> QED
      BY <1>1, <3>1, DaysAfter
  <2> QED
    BY <2>1, <2>2
<1> QED
  BY <1>1, <1>2, <1>3, DiesCovers

LEMMA EnterCovers ==
    ASSUME ExitsInv, Tidy, Enter
    PROVE  Tidy'
<1> DEFINE w == [status |-> "WORKING", remaining |-> MaxQty, day |-> today]
<1>1. /\ orders' = [orders EXCEPT ![Entry] = w]
      /\ UNCHANGED <<mgr, stale, disk, task, queue, today, phase, mishaps>>
  BY DEF Enter, exitVars, taskVars, envVars
<1>2. orders \in Table /\ today \in Nat /\ w.day = today
  BY ExitsAssumption DEF ExitsInv, Book, Typed
<1> HIDE DEF w
<1>3. orders'[Entry] = w /\ \A c \in Legs : c # Entry => orders'[c] = orders[c]
  BY <1>1, <1>2, EntryIsLeg DEF Table
<1>4. \A c \in Sells : orders'[c] = orders[c]
  BY <1>3, EntryIsLeg
<1>5. Selling(orders)' = Selling(orders)
  BY <1>4 DEF Selling, Unfilled
<1>6. \A c \in Legs : orders'[c].day <= today
  BY <1>2, <1>3 DEF Tidy, DaysOk
<1> QED
  BY <1>1, <1>4, <1>5, <1>6, SelfTidy

LEMMA CloseCovers ==
    ASSUME ExitsInv, Tidy, Close
    PROVE  Tidy'
<1>1. /\ orders' = [c \in Legs |-> IF orders[c].status = "WORKING" THEN Ended ELSE orders[c]]
      /\ UNCHANGED <<mgr, stale, disk, task, queue, today, mishaps>>
      /\ phase' = "expired" /\ \A t \in Tasks : task[t] = Idle
  BY DEF Close, exitVars, taskVars
<1>2. today \in Nat /\ 0 <= today /\ Ended.day = 0 /\ Ended.status = "ENDED"
  BY ExitsAssumption DEF ExitsInv, Typed, Ended, NoOrder
<1>3. \A t \in Tasks : task'[t].pc = "idle"
  BY <1>1, IdleType
<1>4. QueueOk' /\ NotedOk' /\ SavedOk'
  BY <1>1 DEF Tidy, QueueOk, NotedOk, SavedOk, Spots, Waits, Safe
<1>5. \A c \in Legs : orders'[c].status # "WORKING" /\ orders'[c].day <= today'
  BY <1>1, <1>2 DEF Tidy, DaysOk
<1>6. AfterHours' /\ DaysOk' /\ CoverOk'
  BY <1>1, <1>3, <1>5, EntryIsLeg DEF AfterHours, DaysOk, CoverOk, Waits
<1> QED
  BY <1>4, <1>6 DEF Tidy

(* Between sessions nobody waits, and what is managed is saved.            *)
LEMMA NightCovers ==
    ASSUME ExitsInv, Tidy, Open \/ EndSession \/ NextDay
    PROVE  Tidy'
<1>1. /\ UNCHANGED <<orders, disk, task, queue, mishaps>>
      /\ phase \in {"down", "closed"} /\ phase' \in {"down", "opening"}
      /\ mgr' \in {mgr, disk}
      /\ today' = today \/ today' = today + 1
  BY DEF Open, EndSession, NextDay, bookVars, exitVars, taskVars
<1>2. /\ orders \in Table /\ today \in Nat
      /\ QueueOk /\ NotedOk /\ AfterHours /\ DaysOk /\ SavedOk
  BY ExitsAssumption DEF ExitsInv, Typed, Book, Tidy
<1>3. \A t \in Tasks : ~Waits(t) /\ task[t].leg = NoLeg
  BY <1>1, <1>2 DEF AfterHours, QueueOk
<1>4. mgr' = mgr /\ mgr = disk
  BY <1>1, <1>2, <1>3 DEF SavedOk
<1>5. QueueOk' /\ NotedOk' /\ SavedOk'
  BY <1>1, <1>2, <1>4 DEF QueueOk, NotedOk, SavedOk, Spots, Waits, Safe
<1>6. AfterHours' /\ CoverOk'
  BY <1>1, <1>3 DEF AfterHours, CoverOk, Waits
<1>7. DaysOk'
  <2>1. \A c \in Legs : orders'[c].day <= today'
    <3> SUFFICES ASSUME NEW c \in Legs PROVE orders[c].day <= today'
      BY <1>1
    <3>1. orders[c].day \in Nat /\ orders[c].day <= today
      BY <1>2, ExitsAssumption DEF Table, OrderType, DaysOk
    <3> QED
      BY <1>1, <1>2, <3>1
  <2>2. ASSUME Safe', ~GivenUp(mgr'), NEW c \in Sells, orders'[c].status = "WORKING"
        PROVE  FALSE
    BY <1>1, <1>2, <1>4, <2>2 DEF DaysOk, Safe, GivenUp
  <2> QED
    BY <1>1, <2>1, <2>2 DEF DaysOk
<1> QED
  BY <1>5, <1>6, <1>7 DEF Tidy

LEMMA TidyNext ==
    ASSUME ExitsInv, Tidy, [Next]_vars
    PROVE  Tidy'
<1>1. CASE Trip \/ UNCHANGED vars
  <2>1. UNCHANGED <<orders, mgr, stale, disk, task, queue, today, phase, mishaps>>
    BY <1>1 DEF Trip, vars, bookVars, exitVars, taskVars, flatVars, envVars
  <2>2. Selling(orders)' = Selling(orders)
    BY <2>1 DEF Selling, Unfilled
  <2>3. \A c \in Legs : orders'[c].day <= today
    BY <2>1 DEF Tidy, DaysOk
  <2> QED
    BY <2>1, <2>2, <2>3, SelfTidy
<1>2. CASE \E t \in {"market", "life"}, level \in Levels : Quote(t, level)
  BY <1>2, QuoteCovers DEF Tasks
<1>3. CASE \E t \in {"monitor", "life"} : Tick(t)
  BY <1>3, TickCovers DEF Tasks
<1>4. CASE \E t \in Tasks : Continue(t)
  BY <1>4, SubmitsCovers, ResumesCovers, FlattenAnsweredCovers DEF Continue
<1> QED
  BY <1>1, <1>2, <1>3, <1>4, EnterCovers, SessionStartCovers, CloseCovers, CrashCovers,
     NightCovers DEF Next

LEMMA TidyInit ==
    ASSUME Init
    PROVE  Tidy
<1>1. /\ \A c \in Legs : orders[c] = NoOrder
      /\ \A t \in Tasks : task[t].pc = "idle" /\ task[t].leg = NoLeg
      /\ queue = <<>> /\ mgr = disk /\ phase = "down" /\ today = 1 /\ mishaps = {}
  BY IdleType DEF Init
<1>2. queue \in Seq(Tasks) /\ Len(queue) = 0
  BY <1>1
<1>3. QueueOk
  BY <1>1, <1>2 DEF QueueOk, Spots, Waits
<1>4. NotedOk /\ AfterHours /\ SavedOk /\ CoverOk
  BY <1>1, <1>2 DEF NotedOk, AfterHours, SavedOk, CoverOk, Safe, Waits
<1>5. DaysOk
  BY <1>1, SimpleOrders, EntryIsLeg DEF DaysOk, NoOrder
<1> QED
  BY <1>3, <1>4, <1>5 DEF Tidy

-----------------------------------------------------------------------------
(* StopCovers: between handlers of an open session, a position that is     *)
(* neither being closed nor due for a new stop is covered to the last      *)
(* share by working exits (src/oms/exit_manager.py, refresh_stops and the  *)
(* handlers that cancel before they ask), in any interleaving of the three *)
(* tasks with fills, refusals and the flattener, unless a leg was reused,  *)
(* an exit gave up at the cap, the process was restarted in the session,   *)
(* or an order was refused to one of two handlers that overlapped.         *)
THEOREM PositionStaysCovered ==
    Spec => []StopCovers
<1>1. ExitsInv /\ Tidy => StopCovers
  <2> SUFFICES ASSUME ExitsInv, Tidy, Quiet, phase = "open", mgr.quantity > 0, ~mgr.closing,
                      ~stale, Safe
               PROVE  Reducible = 0
    BY DEF StopCovers, Safe
  <2>1. /\ Book(orders, held) /\ orders \in Table /\ held \in Nat
        /\ QueueOk /\ NotedOk /\ CoverOk
    BY ExitsAssumption DEF ExitsInv, Book, Tidy
  <2>2. mgr.quantity = held
    BY <2>1, SafeHeld
  <2>3. Rescued
    BY <2>1 DEF CoverOk, GivenUp
  <2>4. \A t \in Tasks : ~Waits(t) /\ task[t].pc # "asked"
    BY IdleType DEF Quiet, Waits
  <2>5. \A i \in Spots : FALSE
    <3> SUFFICES ASSUME NEW i \in Spots PROVE FALSE
      OBVIOUS
    <3>1. queue[i] \in Tasks /\ Waits(queue[i])
      BY <2>1 DEF QueueOk, Spots
    <3> QED
      BY <2>4, <3>1
  <2>6. Covers(orders, mgr.quantity)
    BY <2>3, <2>4, <2>5 DEF Rescued, Claims
  <2>7. Total(Selling(orders)) \in Nat /\ Total(Selling(orders)) <= held
        /\ Reducible = held - Total(Selling(orders))
    BY <2>1, SellingType, ReducibleIs DEF Book
  <2> QED
    BY <2>1, <2>2, <2>6, <2>7 DEF Covers
<1> QED
  BY <1>1, ExitsInit, ExitsNext, TidyInit, TidyNext, PTL DEF Spec
=============================================================================
