------------------------------ MODULE OMSProofs -----------------------------
(***************************************************************************)
(* What Shares satisfies: the sum changes by exactly what one order        *)
(* changes.  What a fold over a set satisfies.  And what the OMS's         *)
(* operators keep: the types, the agreement of the memory with the stored  *)
(* image, and filled <= quantity; each lemma takes one operation together  *)
(* with the event that it stores.                                          *)
(***************************************************************************)
EXTENDS OMS, Folds, FiniteSetTheorems, WellFoundedInduction, TLAPS

Counts == [Intents -> 0 .. MaxQty]

(* The shares counted for one order.                                       *)
LEMMA OneOrder ==
    ASSUME NEW c, NEW n \in Nat
    PROVE  /\ IsFiniteSet({c} \X (1 .. n))
           /\ Cardinality({c} \X (1 .. n)) = n
<1>1. IsFiniteSet(1 .. n) /\ Cardinality(1 .. n) = n
  BY FS_Interval
<1>2. IsFiniteSet({c}) /\ Cardinality({c}) = 1
  BY FS_Singleton
<1> QED
  BY <1>1, <1>2, FS_Product

(* No order counts anything.                                               *)
LEMMA ZeroShares ==
    ASSUME NEW f, \A c \in Intents : f[c] = 0
    PROVE  Shares(f) = 0
<1> DEFINE All(g) == {s \in Intents \X (1 .. MaxQty) : s[2] <= g[s[1]]}
<1>1. Shares(f) = Cardinality(All(f))
  BY DEF Shares
<1>2. All(f) = {}
  BY MaxQtyAssumption
<1> HIDE DEF All
<1> QED
  BY <1>1, <1>2, FS_EmptySet

(* Shares is the sum of its argument: a natural number that changes by     *)
(* what one intent's count changes.                                        *)
LEMMA SharesUpdate ==
    ASSUME NEW f \in Counts, NEW c \in Intents, NEW v \in 0 .. MaxQty
    PROVE  /\ Shares(f) \in Nat
           /\ f[c] <= Shares(f)
           /\ Shares([f EXCEPT ![c] = v]) = Shares(f) - f[c] + v
<1> DEFINE All(g) == {s \in Intents \X (1 .. MaxQty) : s[2] <= g[s[1]]}
           Rest == {s \in Intents \X (1 .. MaxQty) : s[2] <= f[s[1]] /\ s[1] # c}
           One(n) == {c} \X (1 .. n)
<1> f[c] \in 0 .. MaxQty
  BY DEF Counts
<1> MaxQty \in Nat
  BY MaxQtyAssumption
<1>1. IsFiniteSet(Intents \X (1 .. MaxQty))
  <2>1. IsFiniteSet(1 .. MaxQty)
    BY FS_Interval
  <2> QED
    BY <2>1, FS_Product, IntentsAssumption
<1>2. IsFiniteSet(Rest) /\ Cardinality(Rest) \in Nat
  BY <1>1, FS_Subset, FS_CardinalityType
<1>3. ASSUME NEW g \in Counts, \A d \in Intents : d # c => g[d] = f[d]
      PROVE  Shares(g) = Cardinality(Rest) + g[c]
  <2>0. g[c] \in Nat /\ g[c] <= MaxQty
    BY <1>3 DEF Counts
  <2>1. All(g) = Rest \cup One(g[c])
    BY <1>3, <2>0 DEF Counts
  <2>2. Rest \cap One(g[c]) = {}
    OBVIOUS
  <2>3. IsFiniteSet(One(g[c])) /\ Cardinality(One(g[c])) = g[c]
    BY <2>0, OneOrder
  <2>4. Cardinality(Rest \cup One(g[c])) = Cardinality(Rest) + g[c] - 0
    BY <1>2, <2>2, <2>3, FS_Union, FS_EmptySet
  <2>5. Shares(g) = Cardinality(All(g))
    BY DEF Shares
  <2> HIDE DEF All, Rest, One
  <2>6. Shares(g) = Cardinality(Rest) + g[c] - 0
    BY <2>1, <2>4, <2>5
  <2> QED
    BY <1>2, <2>0, <2>6
<1>4. Shares(f) = Cardinality(Rest) + f[c]
  BY <1>3
<1>5. [f EXCEPT ![c] = v] \in Counts
  BY DEF Counts
<1>6. Shares([f EXCEPT ![c] = v]) = Cardinality(Rest) + v
  <2> DEFINE g == [f EXCEPT ![c] = v]
  <2>1. /\ g \in Counts
        /\ \A d \in Intents : d # c => g[d] = f[d]
        /\ g[c] = v
    BY <1>5 DEF Counts
  <2> HIDE DEF g
  <2>2. Shares(g) = Cardinality(Rest) + g[c]
    BY <1>3, <2>1
  <2> QED
    BY <2>1, <2>2 DEF g
<1> QED
  BY <1>2, <1>4, <1>6

-----------------------------------------------------------------------------
(* Folds over a finite set.                                                *)

Some(S) == CHOOSE x \in S : TRUE

(* What holds of the empty set, and of a set as soon as it holds without   *)
(* the element that is taken first, holds of every part of a finite set.   *)
LEMMA PartsReached ==
    ASSUME NEW M, IsFiniteSet(M), NEW T, {} \in T,
           \A S \in SUBSET M : S # {} /\ S \ {Some(S)} \in T => S \in T
    PROVE  \A S \in SUBSET M : S \in T
<1> SUFFICES ASSUME NEW U \in SUBSET M, U \notin T PROVE FALSE
  OBVIOUS
<1> DEFINE Bad == {S \in SUBSET M : S \notin T}
<1>1. Bad \subseteq FiniteSubsetsOf(M) /\ Bad # {}
  BY FS_Subset DEF FiniteSubsetsOf
<1>2. \E S \in Bad : \A V \in Bad : ~(<<V, S>> \in StrictSubsetOrdering(M))
  <2> HIDE DEF Bad
  <2> QED
    BY <1>1, FS_StrictSubsetOrderingWellFounded, WFMin
<1>3. PICK S \in Bad : \A V \in Bad : ~(<<V, S>> \in StrictSubsetOrdering(M))
  BY <1>2
<1>4. S # {} /\ Some(S) \in S
  BY <1>3 DEF Some
<1>5. <<S \ {Some(S)}, S>> \in StrictSubsetOrdering(M)
  BY <1>3, <1>4 DEF StrictSubsetOrdering
<1>6. S \ {Some(S)} \in T
  BY <1>3, <1>5
<1> QED
  BY <1>3, <1>4, <1>6

(* Taking the elements of S in turn, from b, by the table st.              *)
Follows(h, b, st, S) ==
    \A V \in SUBSET S : h[V] = IF V = {} THEN b ELSE st[<<h[V \ {Some(V)}], Some(V)>>]

LEMMA FollowsOneWay ==
    ASSUME NEW S, IsFiniteSet(S), NEW b, NEW st, NEW h, NEW k,
           Follows(h, b, st, S), Follows(k, b, st, S)
    PROVE  h[S] = k[S]
<1> DEFINE T == {V \in SUBSET S : h[V] = k[V]}
<1>1. {} \in T
  BY DEF Follows
<1>2. ASSUME NEW V \in SUBSET S, V # {}, V \ {Some(V)} \in T PROVE V \in T
  BY <1>2 DEF Follows
<1>3. \A V \in SUBSET S : V \in T
  <2> HIDE DEF T
  <2> QED
    BY <1>1, <1>2, PartsReached
<1> QED
  BY <1>3

LEMMA FollowsExists ==
    ASSUME NEW M, IsFiniteSet(M), NEW b, NEW st
    PROVE  \E h : Follows(h, b, st, M)
<1> DEFINE Way(V) == CHOOSE k : Follows(k, b, st, V)
<1>2. ASSUME NEW S \in SUBSET M, S # {}, \A V \in SUBSET S : V # S => \E k : Follows(k, b, st, V)
      PROVE  \E k : Follows(k, b, st, S)
  <2> DEFINE k == [V \in SUBSET S |->
                     IF V # S THEN Way(V)[V] ELSE st[<<Way(S \ {Some(S)})[S \ {Some(S)}], Some(S)>>]]
  <2>0. \A V \in SUBSET S : V # {} => Some(V) \in V
    BY DEF Some
  <2>1. \A V \in SUBSET S : V # S => Follows(Way(V), b, st, V)
    BY <1>2
  <2> HIDE DEF Way
  <2>2. ASSUME NEW V \in SUBSET S, V # {}, V # S
        PROVE  k[V] = st[<<k[V \ {Some(V)}], Some(V)>>]
    <3> DEFINE W == V \ {Some(V)}
    <3>1. W \in SUBSET V /\ W \in SUBSET S /\ W # S
      BY <2>2, <2>0
    <3>2. Follows(Way(V), b, st, V) /\ Follows(Way(V), b, st, W) /\ Follows(Way(W), b, st, W)
      BY <2>1, <2>2, <3>1 DEF Follows
    <3>3. IsFiniteSet(W)
      BY <3>1, FS_Subset
    <3>4. Way(V)[W] = Way(W)[W]
      <4> HIDE DEF W
      <4> QED
        BY <3>2, <3>3, FollowsOneWay
    <3>5. Way(V)[V] = st[<<Way(V)[W], Some(V)>>]
      BY <3>2, <2>2 DEF Follows
    <3>6. k[V] = Way(V)[V] /\ k[W] = Way(W)[W]
      BY <2>2, <3>1
    <3> QED
      BY <3>4, <3>5, <3>6
  <2>3. k[{}] = b
    <3>1. Follows(Way({}), b, st, {}) /\ k[{}] = Way({})[{}]
      BY <1>2, <2>1
    <3> QED
      BY <3>1 DEF Follows
  <2>4. k[S] = st[<<k[S \ {Some(S)}], Some(S)>>]
    BY <1>2, <2>0
  <2> HIDE DEF k
  <2>5. Follows(k, b, st, S)
    BY <1>2, <2>2, <2>3, <2>4 DEF Follows
  <2> QED
    BY <2>5
<1>3. ASSUME NEW S \in SUBSET M PROVE \E k : Follows(k, b, st, S)
  <2> DEFINE Bad == {V \in SUBSET M : ~\E k : Follows(k, b, st, V)}
  <2> SUFFICES ASSUME S \in Bad PROVE FALSE
    OBVIOUS
  <2>1. Bad \subseteq FiniteSubsetsOf(M) /\ Bad # {}
    BY FS_Subset DEF FiniteSubsetsOf
  <2>2. \E V \in Bad : \A W \in Bad : ~(<<W, V>> \in StrictSubsetOrdering(M))
    <3> HIDE DEF Bad
    <3> QED
      BY <2>1, FS_StrictSubsetOrderingWellFounded, WFMin
  <2>3. PICK V \in Bad : \A W \in Bad : ~(<<W, V>> \in StrictSubsetOrdering(M))
    BY <2>2
  <2>4. \A W \in SUBSET V : W # V => W \notin Bad
    BY <2>3 DEF StrictSubsetOrdering
  <2>5. CASE V = {}
    <3>1. Follows([W \in {{}} |-> b], b, st, {})
      BY DEF Follows
    <3> QED
      BY <2>3, <2>5, <3>1
  <2>6. CASE V # {}
    BY <1>2, <2>3, <2>4, <2>6
  <2> QED
    BY <2>5, <2>6
<1> QED
  BY <1>3

(* The fold, and what it keeps: J[S] holds of the value once S is taken.   *)
FoldOf(h, b, st, M) ==
    h = [S \in SUBSET M |-> IF S = {} THEN b ELSE st[<<h[S \ {Some(S)}], Some(S)>>]]

LEMMA FoldKeeps ==
    ASSUME NEW M, IsFiniteSet(M), NEW b, NEW st, NEW J, b \in J[{}],
           \A S \in SUBSET M : S # {} =>
               \A a \in J[S \ {Some(S)}] : st[<<a, Some(S)>>] \in J[S]
    PROVE  \E h : FoldOf(h, b, st, M) /\ \A S \in SUBSET M : h[S] \in J[S]
<1>1. PICK k : Follows(k, b, st, M)
  BY FollowsExists
<1> DEFINE h == [S \in SUBSET M |-> k[S]]
           T == {S \in SUBSET M : h[S] \in J[S]}
<1>2. FoldOf(h, b, st, M)
  BY <1>1 DEF Follows, FoldOf
<1>3. {} \in T
  BY <1>1 DEF Follows
<1>4. ASSUME NEW S \in SUBSET M, S # {}, S \ {Some(S)} \in T PROVE S \in T
  <2>1. h[S] = st[<<h[S \ {Some(S)}], Some(S)>>]
    BY <1>1, <1>4 DEF Follows
  <2> HIDE DEF h
  <2> QED
    BY <1>4, <2>1
<1>5. \A S \in SUBSET M : S \in T
  <2> HIDE DEF T
  <2> QED
    BY <1>3, <1>4, PartsReached
<1> QED
  BY <1>2, <1>5

-----------------------------------------------------------------------------
(* The operators of the OMS.                                               *)

WellFilled(orders) == \A c \in Intents : orders[c].filled <= orders[c].quantity

(* Replacing one order of an OMS state.                                    *)
LEMMA SetOrder ==
    ASSUME NEW o \in OmsType, NEW c \in Intents, NEW r \in OrderType
    PROVE  /\ [o EXCEPT !.orders[c] = r] \in OmsType
           /\ [o EXCEPT !.orders[c] = r].orders = [o.orders EXCEPT ![c] = r]
           /\ [o EXCEPT !.orders[c] = r].position = o.position
           /\ [o EXCEPT !.orders[c] = r].seen = o.seen
BY DEF OmsType

LEMMA SetSame ==
    ASSUME NEW o \in OmsType, NEW c \in Intents
    PROVE  [o EXCEPT !.orders[c] = o.orders[c]] = o
<1>1. [o.orders EXCEPT ![c] = o.orders[c]] = o.orders
  BY DEF OmsType
<1> QED
  BY <1>1 DEF OmsType

(* Replacing the same order in memory and in the image by orders that      *)
(* agree keeps the two in agreement.                                       *)
LEMMA SetBoth ==
    ASSUME NEW o \in OmsType, NEW i \in OmsType, Agree(i, o), WellFilled(o.orders),
           NEW c \in Intents, NEW r \in OrderType, NEW q \in OrderType,
           q.status = r.status, q.quantity = r.quantity, q.filled = r.filled,
           r.filled <= r.quantity
    PROVE  /\ Agree([i EXCEPT !.orders[c] = q], [o EXCEPT !.orders[c] = r])
           /\ WellFilled([o EXCEPT !.orders[c] = r].orders)
<1> DEFINE o2 == [o EXCEPT !.orders[c] = r]
           i2 == [i EXCEPT !.orders[c] = q]
<1>1. o2.orders = [o.orders EXCEPT ![c] = r] /\ o2.position = o.position /\ o2.seen = o.seen
  BY SetOrder
<1>2. i2.orders = [i.orders EXCEPT ![c] = q] /\ i2.position = i.position /\ i2.seen = i.seen
  BY SetOrder
<1>3. o.orders \in [Intents -> OrderType] /\ i.orders \in [Intents -> OrderType]
  BY DEF OmsType
<1> HIDE DEF o2, i2
<1>4. \A d \in Intents : /\ o2.orders[d] = IF d = c THEN r ELSE o.orders[d]
                         /\ i2.orders[d] = IF d = c THEN q ELSE i.orders[d]
  BY <1>1, <1>2, <1>3
<1>5. Agree(i2, o2)
  BY <1>1, <1>2, <1>4 DEF Agree
<1>6. WellFilled(o2.orders)
  BY <1>4 DEF WellFilled
<1> QED
  BY <1>5, <1>6 DEF o2, i2

(* The status of one order set in memory and in the image.                 *)
LEMMA SetStatusBoth ==
    ASSUME NEW o \in OmsType, NEW i \in OmsType, Agree(i, o), WellFilled(o.orders),
           NEW c \in Intents, NEW s \in Status
    PROVE  /\ SetStatus(o, c, s) \in OmsType
           /\ StoreStatus(i, c, s) \in OmsType
           /\ SetStatus(o, c, s).seen = o.seen
           /\ Agree(StoreStatus(i, c, s), SetStatus(o, c, s))
           /\ WellFilled(SetStatus(o, c, s).orders)
<1> DEFINE r == [o.orders[c] EXCEPT !.status = s]
           q == [i.orders[c] EXCEPT !.status = s]
<1>1. SetStatus(o, c, s) = [o EXCEPT !.orders[c] = r]
  BY DEF SetStatus, OmsType
<1>2. StoreStatus(i, c, s) = [i EXCEPT !.orders[c] = q]
  BY DEF SetStatus, StoreStatus, OmsType
<1>3. /\ r \in OrderType /\ q \in OrderType
      /\ q.status = r.status /\ q.quantity = r.quantity /\ q.filled = r.filled
      /\ r.filled <= r.quantity
  BY DEF OmsType, OrderType, Agree, WellFilled
<1> HIDE DEF r, q
<1> QED
  BY <1>1, <1>2, <1>3, SetOrder, SetBoth

(* Registering a new order.                                                *)
LEMMA RegisterBoth ==
    ASSUME NEW o \in OmsType, NEW i \in OmsType, Agree(i, o), WellFilled(o.orders),
           NEW c \in Intents, NEW qty \in 1 .. MaxQty
    PROVE  /\ Register(o, c, qty) \in OmsType
           /\ Register(i, c, qty) \in OmsType
           /\ Register(o, c, qty).seen = o.seen
           /\ Agree(Register(i, c, qty), Register(o, c, qty))
           /\ WellFilled(Register(o, c, qty).orders)
<1> DEFINE r == [status |-> "SUBMITTED", quantity |-> qty, filled |-> 0, atBroker |-> FALSE]
<1>1. r \in OrderType /\ r.filled <= r.quantity
  BY MaxQtyAssumption DEF OrderType, Status
<1>2. /\ Register(o, c, qty) = [o EXCEPT !.orders[c] = r]
      /\ Register(i, c, qty) = [i EXCEPT !.orders[c] = r]
  BY DEF Register
<1> HIDE DEF r
<1> QED
  BY <1>1, <1>2, SetOrder, SetBoth

(* _advance changes nothing but the status.                                *)
LEMMA AdvanceType ==
    ASSUME NEW r \in OrderType, NEW s \in Status
    PROVE  /\ Advance(r, s) \in OrderType
           /\ Advance(r, s).filled = r.filled
           /\ Advance(r, s).quantity = r.quantity
           /\ Advance(r, s).status = IF Advances(r.status, s) THEN s ELSE r.status
BY DEF OrderType, Advance

(* An update never moves an order out of a terminal status.                *)
LEMMA TerminalStays ==
    ASSUME NEW s \in Terminal, NEW t \in Status
    PROVE  ~Advances(s, t)
BY DEF Advances, NextStatus, Terminal, Status

(* A status update delivered to the OMS, and the event it records.         *)
LEMMA UpdateBoth ==
    ASSUME NEW o \in OmsType, NEW i \in OmsType, Agree(i, o), WellFilled(o.orders),
           NEW c \in Intents, NEW s \in Status, NEW u, u = [order |-> c, status |-> s]
    PROVE  /\ OnUpdate(o, u) \in OmsType
           /\ StoreUpdate(i, o, u) \in OmsType
           /\ OnUpdate(o, u).seen = o.seen
           /\ Agree(StoreUpdate(i, o, u), OnUpdate(o, u))
           /\ WellFilled(OnUpdate(o, u).orders)
<1> DEFINE r == [o.orders[c] EXCEPT !.atBroker = TRUE]
           r2 == IF s \in DrivenByFills THEN r ELSE Advance(r, s)
           q == IF ~Moves(o, u) THEN i.orders[c]
                ELSE IF s \in Terminal THEN [i.orders[c] EXCEPT !.status = s]
                ELSE AckedOrder(i.orders[c], s)
<1>0. /\ o.orders[c] \in OrderType /\ i.orders[c] \in OrderType
      /\ o.orders[c].filled <= o.orders[c].quantity
      /\ i.orders[c].status = o.orders[c].status
      /\ i.orders[c].quantity = o.orders[c].quantity
      /\ i.orders[c].filled = o.orders[c].filled
  BY DEF OmsType, WellFilled, Agree
<1>1. r \in OrderType /\ r.status = o.orders[c].status /\ r.filled = o.orders[c].filled
      /\ r.quantity = o.orders[c].quantity
  BY <1>0 DEF OrderType
<1>2. /\ r2 \in OrderType /\ r2.filled = r.filled /\ r2.quantity = r.quantity
      /\ r2.status = IF s \notin DrivenByFills /\ Advances(o.orders[c].status, s) THEN s
                     ELSE o.orders[c].status
  BY <1>1, AdvanceType
<1>3. Moves(o, u) <=> /\ o.orders[c].status # "NONE"
                      /\ s \notin DrivenByFills
                      /\ Advances(o.orders[c].status, s)
  BY DEF Moves
<1>4. OnUpdate(o, u) = IF o.orders[c].status = "NONE" THEN o ELSE [o EXCEPT !.orders[c] = r2]
  BY <1>1 DEF OnUpdate
<1>5. /\ q \in OrderType /\ q.filled = r.filled /\ q.quantity = r.quantity
      /\ q.status = IF Moves(o, u) THEN s ELSE o.orders[c].status
  <2>1. CASE ~Moves(o, u)
    BY <2>1, <1>0, <1>1
  <2>2. CASE Moves(o, u) /\ s \in Terminal
    BY <2>2, <1>0, <1>1 DEF OrderType
  <2>3. CASE Moves(o, u) /\ s \notin Terminal
    <3>1. i.orders[c].status \notin Terminal
      BY <2>3, <1>0, <1>3, TerminalStays
    <3> QED
      BY <2>3, <3>1, <1>0, <1>1 DEF OrderType, AckedOrder
  <2> QED
    BY <2>1, <2>2, <2>3
<1>6. StoreUpdate(i, o, u) = [i EXCEPT !.orders[c] = q]
  <2>1. CASE ~Moves(o, u)
    BY <2>1, SetSame DEF StoreUpdate
  <2>2. CASE Moves(o, u) /\ s \in Terminal
    BY <2>2 DEF StoreUpdate, StoreStatus, SetStatus, OmsType
  <2>3. CASE Moves(o, u) /\ s \notin Terminal
    BY <2>3 DEF StoreUpdate, StoreAcked, OmsType
  <2> QED
    BY <2>1, <2>2, <2>3
<1> HIDE DEF r, r2, q
<1>7. CASE o.orders[c].status = "NONE"
  <2>1. StoreUpdate(i, o, u) = i
    BY <1>3, <1>7 DEF StoreUpdate
  <2> QED
    BY <1>4, <1>7, <2>1
<1>8. CASE o.orders[c].status # "NONE"
  <2>1. OnUpdate(o, u) = [o EXCEPT !.orders[c] = r2]
    BY <1>4, <1>8
  <2>2. /\ q.status = r2.status /\ q.quantity = r2.quantity /\ q.filled = r2.filled
        /\ r2.filled <= r2.quantity
    BY <1>0, <1>1, <1>2, <1>3, <1>5, <1>8
  <2> QED
    <3>1. /\ [o EXCEPT !.orders[c] = r2] \in OmsType
          /\ [o EXCEPT !.orders[c] = r2].seen = o.seen
      BY <1>2, SetOrder
    <3>2. [i EXCEPT !.orders[c] = q] \in OmsType
      BY <1>5, SetOrder
    <3>3. /\ Agree([i EXCEPT !.orders[c] = q], [o EXCEPT !.orders[c] = r2])
          /\ WellFilled([o EXCEPT !.orders[c] = r2].orders)
      BY <1>2, <1>5, <2>2, SetBoth
    <3> QED
      BY <2>1, <1>6, <3>1, <3>2, <3>3
<1> QED
  BY <1>7, <1>8

(* PositionBook.apply.                                                     *)
LEMMA ApplyBoth ==
    ASSUME NEW o \in OmsType, NEW f \in FillType, FillId(f) \notin o.seen
    PROVE  /\ ApplyFill(o, f) \in OmsType
           /\ ApplyFill(o, f).orders = o.orders
           /\ ApplyFill(o, f).position = o.position + Signed(f)
           /\ ApplyFill(o, f).seen = o.seen \cup {FillId(f)}
<1>1. FillId(f) \in FillIds
  BY DEF FillId, FillIds, FillType
<1>2. f.qty \in Int
  BY DEF FillType
<1>3. Signed(f) \in Int
  BY <1>2 DEF Signed
<1>4. o.position + Signed(f) \in Int /\ o.seen \cup {FillId(f)} \in SUBSET FillIds
  BY <1>1, <1>3 DEF OmsType
<1>5. ApplyFill(o, f) = [orders |-> o.orders, position |-> o.position + Signed(f),
                         seen |-> o.seen \cup {FillId(f)}]
  BY DEF ApplyFill, OmsType
<1> QED
  BY <1>4, <1>5 DEF OmsType

(* _on_fill's order: clipped at the ordered quantity.                      *)
LEMMA FilledOrderType ==
    ASSUME NEW r \in OrderType, NEW f \in FillType, r.filled <= r.quantity
    PROVE  /\ FilledOrder(r, f) \in OrderType
           /\ FilledOrder(r, f).filled <= FilledOrder(r, f).quantity
           /\ FilledOrder(r, f).quantity = r.quantity
<1> DEFINE n == AtMost(r.filled + f.qty, r.quantity)
<1>1. n \in 0 .. MaxQty /\ n <= r.quantity
  BY MaxQtyAssumption DEF AtMost, OrderType, FillType
<1> HIDE DEF n
<1> DEFINE st == IF n = r.quantity THEN "FILLED" ELSE "PARTIALLY_FILLED"
<1>2. st \in Status
  BY DEF Status, Live, Terminal
<1> HIDE DEF st
<1>3. FilledOrder(r, f) = [r EXCEPT !.filled = n, !.atBroker = TRUE, !.status = st]
  BY DEF FilledOrder, n, st
<1> QED
  BY <1>1, <1>2, <1>3 DEF OrderType

(* A fill delivered to the OMS, and the event it records.                  *)
LEMMA FillBoth ==
    ASSUME NEW o \in OmsType, NEW i \in OmsType, Agree(i, o), WellFilled(o.orders),
           NEW f \in FillType
    PROVE  /\ OnFill(o, f) \in OmsType
           /\ StoreOnFill(i, o, f) \in OmsType
           /\ OnFill(o, f).seen = o.seen \cup {FillId(f)}
           /\ Agree(StoreOnFill(i, o, f), OnFill(o, f))
           /\ WellFilled(OnFill(o, f).orders)
<1> DEFINE c == f.order
           p == ApplyFill(o, f)
           ip == ApplyFill(i, f)
<1>0. c \in Intents /\ i.seen = o.seen
  BY DEF FillType, Agree
<1>1. CASE FillId(f) \in o.seen
  BY <1>1 DEF OnFill, StoreOnFill
<1>2. CASE FillId(f) \notin o.seen
  <2>1. /\ p \in OmsType /\ p.orders = o.orders /\ p.seen = o.seen \cup {FillId(f)}
        /\ p.position = o.position + Signed(f)
    BY <1>2, ApplyBoth
  <2>2. /\ ip \in OmsType /\ ip.orders = i.orders /\ ip.seen = i.seen \cup {FillId(f)}
        /\ ip.position = i.position + Signed(f)
    BY <1>0, <1>2, ApplyBoth
  <2>3. Agree(ip, p) /\ WellFilled(p.orders)
    BY <2>1, <2>2 DEF Agree
  <2>4. StoreOnFill(i, o, f) = StoreFill(i, f, OnFill(o, f).orders[c])
    BY <1>2 DEF StoreOnFill
  <2>5. i.orders[c].status = o.orders[c].status
    BY <1>0 DEF Agree
  <2>6. CASE o.orders[c].status = "NONE"
    <3>1. OnFill(o, f) = p
      BY <1>2, <2>6 DEF OnFill
    <3>2. StoreOnFill(i, o, f) = ip
      BY <2>4, <2>5, <2>6 DEF StoreFill
    <3> QED
      BY <3>1, <3>2, <2>1, <2>2, <2>3
  <2>7. CASE o.orders[c].status # "NONE"
    <3> DEFINE r == FilledOrder(o.orders[c], f)
               q == [i.orders[c] EXCEPT !.filled = r.filled, !.status = r.status, !.atBroker = TRUE]
    <3>1. r \in OrderType /\ r.filled <= r.quantity /\ r.quantity = o.orders[c].quantity
      BY <1>0, FilledOrderType DEF OmsType, WellFilled
    <3>2. OnFill(o, f) = [p EXCEPT !.orders[c] = FilledOrder(p.orders[c], f)]
      BY <1>2, <2>1, <2>7 DEF OnFill, OmsType
    <3>3. OnFill(o, f) = [p EXCEPT !.orders[c] = r]
      BY <2>1, <3>2
    <3>4. OnFill(o, f).orders[c] = r
      BY <1>0, <2>1, <3>1, <3>3 DEF OmsType
    <3>5. StoreOnFill(i, o, f) = [ip EXCEPT !.orders[c] =
              [ip.orders[c] EXCEPT !.filled = r.filled, !.status = r.status, !.atBroker = TRUE]]
      <4> HIDE DEF r
      <4>1. StoreFill(i, f, r) = [ip EXCEPT !.orders[c] =
              [ip.orders[c] EXCEPT !.filled = r.filled, !.status = r.status, !.atBroker = TRUE]]
        BY <2>2, <2>5, <2>7 DEF StoreFill, OmsType
      <4> QED
        BY <2>4, <3>4, <4>1
    <3>6. StoreOnFill(i, o, f) = [ip EXCEPT !.orders[c] = q]
      BY <2>2, <3>5
    <3>7. /\ q \in OrderType /\ q.status = r.status /\ q.filled = r.filled
          /\ q.quantity = r.quantity
      <4> HIDE DEF r
      <4>1. i.orders[c] \in OrderType /\ i.orders[c].quantity = o.orders[c].quantity
        BY <1>0 DEF OmsType, Agree
      <4> QED
        BY <3>1, <4>1 DEF OrderType
    <3> HIDE DEF c, p, ip, r, q
    <3>8. /\ [p EXCEPT !.orders[c] = r] \in OmsType
          /\ [p EXCEPT !.orders[c] = r].seen = p.seen
      BY <1>0, <2>1, <3>1, SetOrder
    <3>9. [ip EXCEPT !.orders[c] = q] \in OmsType
      BY <1>0, <2>2, <3>7, SetOrder
    <3>10. /\ Agree([ip EXCEPT !.orders[c] = q], [p EXCEPT !.orders[c] = r])
           /\ WellFilled([p EXCEPT !.orders[c] = r].orders)
      BY <1>0, <2>1, <2>2, <2>3, <3>1, <3>7, SetBoth
    <3> QED
      BY <2>1, <3>3, <3>6, <3>8, <3>9, <3>10
  <2> QED
    BY <2>6, <2>7
<1> QED
  BY <1>1, <1>2

(* No fill is missing: nothing is adopted.                                 *)
LEMMA NothingToAdopt ==
    ASSUME NEW o, NEW i, NEW fills, \A f \in fills : FillId(f) \in o.seen
    PROVE  AdoptFills(o, fills) = o /\ StoreAdopted(i, o, fills) = i
<1>1. {f \in fills : FillId(f) \notin o.seen} = {}
  OBVIOUS
<1>2. AdoptFills(o, fills) = o
  BY <1>1 DEF AdoptFills
<1>3. StoreAdopted(i, o, fills) = i
  BY <1>1 DEF StoreAdopted
<1> QED
  BY <1>2, <1>3

(* _mark_unknown after the broker has accepted.                            *)
LEMMA AckFailedBoth ==
    ASSUME NEW o \in OmsType, NEW i \in OmsType, Agree(i, o), WellFilled(o.orders),
           NEW c \in Intents, NEW o2,
           o2 = [o EXCEPT !.orders[c] = [@ EXCEPT !.atBroker = TRUE, !.status = "UNKNOWN"]]
    PROVE  /\ o2 \in OmsType
           /\ StoreStatus(i, c, "UNKNOWN") \in OmsType
           /\ o2.seen = o.seen
           /\ Agree(StoreStatus(i, c, "UNKNOWN"), o2)
           /\ WellFilled(o2.orders)
<1> DEFINE r == [o.orders[c] EXCEPT !.atBroker = TRUE, !.status = "UNKNOWN"]
           q == [i.orders[c] EXCEPT !.status = "UNKNOWN"]
<1>0. "UNKNOWN" \in Status
  BY DEF Status
<1>1. o2 = [o EXCEPT !.orders[c] = r]
  BY DEF OmsType
<1>2. StoreStatus(i, c, "UNKNOWN") = [i EXCEPT !.orders[c] = q]
  BY DEF SetStatus, StoreStatus, OmsType
<1>3. /\ r \in OrderType /\ q \in OrderType
      /\ q.status = r.status /\ q.quantity = r.quantity /\ q.filled = r.filled
      /\ r.filled <= r.quantity
  <2>1. /\ o.orders[c] \in OrderType /\ i.orders[c] \in OrderType
        /\ o.orders[c].filled <= o.orders[c].quantity
        /\ i.orders[c].quantity = o.orders[c].quantity
        /\ i.orders[c].filled = o.orders[c].filled
    BY DEF OmsType, Agree, WellFilled
  <2> QED
    BY <1>0, <2>1 DEF OrderType
<1> HIDE DEF r, q
<1>4. [o EXCEPT !.orders[c] = r] \in OmsType /\ [o EXCEPT !.orders[c] = r].seen = o.seen
  BY <1>3, SetOrder
<1>5. [i EXCEPT !.orders[c] = q] \in OmsType
  BY <1>3, SetOrder
<1>6. /\ Agree([i EXCEPT !.orders[c] = q], [o EXCEPT !.orders[c] = r])
      /\ WellFilled([o EXCEPT !.orders[c] = r].orders)
  BY <1>3, SetBoth
<1> QED
  BY <1>1, <1>2, <1>4, <1>5, <1>6

(* resolve_unknown when the broker has the order.                          *)
LEMMA ResolveBoth ==
    ASSUME NEW o \in OmsType, NEW i \in OmsType, Agree(i, o), WellFilled(o.orders),
           NEW c \in Intents, NEW s \in Status, o.orders[c].status = "UNKNOWN",
           NEW fills, \A f \in fills : FillId(f) \in o.seen
    PROVE  /\ ResolveFound(o, c, s, fills) \in OmsType
           /\ StoreResolved(i, o, c, s, fills) \in OmsType
           /\ ResolveFound(o, c, s, fills).seen = o.seen
           /\ Agree(StoreResolved(i, o, c, s, fills), ResolveFound(o, c, s, fills))
           /\ WellFilled(ResolveFound(o, c, s, fills).orders)
<1> DEFINE r0 == [o.orders[c] EXCEPT !.atBroker = TRUE]
           r == IF s \in DrivenByFills THEN r0 ELSE Advance(r0, s)
           found == [o EXCEPT !.orders[c] = r0]
           q == AckedOrder(i.orders[c], r.status)
<1>0. /\ o.orders[c] \in OrderType /\ i.orders[c] \in OrderType
      /\ o.orders[c].filled <= o.orders[c].quantity
      /\ i.orders[c].status = o.orders[c].status
      /\ i.orders[c].quantity = o.orders[c].quantity
      /\ i.orders[c].filled = o.orders[c].filled
  BY DEF OmsType, WellFilled, Agree
<1>1. /\ r0 \in OrderType /\ r0.status = "UNKNOWN" /\ r0.filled = o.orders[c].filled
      /\ r0.quantity = o.orders[c].quantity
  BY <1>0 DEF OrderType
<1>2. /\ r \in OrderType /\ r.filled = r0.filled /\ r.quantity = r0.quantity
  BY <1>1, AdvanceType
<1>3. found \in OmsType /\ found.seen = o.seen /\ found.orders = [o.orders EXCEPT ![c] = r0]
  BY <1>1, SetOrder
<1>4. found.orders[c] = r0
  BY <1>3 DEF OmsType
<1>5. found = [o EXCEPT !.orders[c].atBroker = TRUE]
  BY DEF OmsType
<1> HIDE DEF found
<1>6. AdoptFills(found, fills) = found
  BY <1>3, NothingToAdopt
<1>7. ResolveFound(o, c, s, fills) = [o EXCEPT !.orders[c] = r]
  <2>0. r0.status \notin Terminal
    BY <1>1 DEF Terminal
  <2>1. ResolveFound(o, c, s, fills)
          = IF s \in DrivenByFills THEN found ELSE [found EXCEPT !.orders[c] = Advance(r0, s)]
    BY <1>4, <1>5, <1>6, <2>0 DEF ResolveFound
  <2>2. CASE s \in DrivenByFills
    BY <2>1, <2>2 DEF found
  <2>3. CASE s \notin DrivenByFills
    <3>1. [found EXCEPT !.orders[c] = Advance(r0, s)] = [o EXCEPT !.orders[c] = Advance(r0, s)]
      BY DEF found, OmsType
    <3> QED
      BY <2>1, <2>3, <3>1
  <2> QED
    BY <2>2, <2>3
<1> HIDE DEF r0, r
<1>8. ResolveFound(o, c, s, fills).orders[c] = r
  <2>1. [o EXCEPT !.orders[c] = r].orders = [o.orders EXCEPT ![c] = r]
    BY <1>2, SetOrder
  <2> QED
    BY <1>7, <2>1 DEF OmsType
<1>9. StoreResolved(i, o, c, s, fills) = [i EXCEPT !.orders[c] = q]
  <2>1. StoreAdopted(i, o, fills) = i
    BY NothingToAdopt
  <2> QED
    BY <1>8, <2>1 DEF StoreResolved, StoreAcked
<1>10. /\ q \in OrderType /\ q.status = r.status /\ q.quantity = r.quantity
       /\ q.filled = r.filled /\ r.filled <= r.quantity
  <2>1. i.orders[c].status \notin Terminal
    BY <1>0 DEF Terminal
  <2>2. q = [i.orders[c] EXCEPT !.atBroker = TRUE, !.status = r.status]
    BY <2>1 DEF AckedOrder
  <2>3. r.status \in Status
    BY <1>2 DEF OrderType
  <2> QED
    BY <1>0, <1>1, <1>2, <2>2, <2>3 DEF OrderType
<1> HIDE DEF q
<1>11. /\ [o EXCEPT !.orders[c] = r] \in OmsType
       /\ [o EXCEPT !.orders[c] = r].seen = o.seen
  BY <1>2, SetOrder
<1>12. [i EXCEPT !.orders[c] = q] \in OmsType
  BY <1>10, SetOrder
<1>13. /\ Agree([i EXCEPT !.orders[c] = q], [o EXCEPT !.orders[c] = r])
       /\ WellFilled([o EXCEPT !.orders[c] = r].orders)
  BY <1>2, <1>10, SetBoth
<1> QED
  BY <1>7, <1>9, <1>11, <1>12, <1>13

-----------------------------------------------------------------------------
(* What the operators do to the row of one order.                          *)

OnlyRow(a, b, c) == \A d \in Intents : d # c => b.orders[d] = a.orders[d]

LEMMA OmsRow ==
    ASSUME NEW o \in OmsType, NEW c \in Intents, NEW r \in OrderType, NEW o2,
           o2 = [o EXCEPT !.orders[c] = r]
    PROVE  OnlyRow(o, o2, c) /\ o2.orders[c] = r /\ o2.position = o.position /\ o2.seen = o.seen
BY DEF OmsType, OnlyRow

LEMMA RegisterRow ==
    ASSUME NEW o \in OmsType, NEW c \in Intents, NEW qty \in 1 .. MaxQty
    PROVE  /\ OnlyRow(o, Register(o, c, qty), c)
           /\ Register(o, c, qty).orders[c].status = "SUBMITTED"
           /\ Register(o, c, qty).orders[c].quantity = qty
           /\ Register(o, c, qty).orders[c].filled = 0
           /\ Register(o, c, qty).position = o.position
           /\ Register(o, c, qty).seen = o.seen
BY DEF OmsType, OnlyRow, Register

LEMMA SetStatusRow ==
    ASSUME NEW o \in OmsType, NEW c \in Intents, NEW s \in Status
    PROVE  /\ OnlyRow(o, SetStatus(o, c, s), c)
           /\ SetStatus(o, c, s).orders[c].status = s
           /\ SetStatus(o, c, s).orders[c].quantity = o.orders[c].quantity
           /\ SetStatus(o, c, s).orders[c].filled = o.orders[c].filled
           /\ SetStatus(o, c, s).position = o.position
           /\ SetStatus(o, c, s).seen = o.seen
BY DEF OmsType, OrderType, OnlyRow, SetStatus

(* An update that fills do not drive moves the order to where the state    *)
(* machine lets it go, and touches nothing else the broker knows of.       *)
LEMMA UpdateRow ==
    ASSUME NEW o \in OmsType, NEW c \in Intents, NEW s \in Status, s \notin DrivenByFills,
           o.orders[c].status # "NONE", NEW u, u = [order |-> c, status |-> s]
    PROVE  /\ OnlyRow(o, OnUpdate(o, u), c)
           /\ OnUpdate(o, u).orders[c].status
                = IF Advances(o.orders[c].status, s) THEN s ELSE o.orders[c].status
           /\ OnUpdate(o, u).orders[c].quantity = o.orders[c].quantity
           /\ OnUpdate(o, u).orders[c].filled = o.orders[c].filled
           /\ OnUpdate(o, u).position = o.position
           /\ OnUpdate(o, u).seen = o.seen
<1> DEFINE r == [o.orders[c] EXCEPT !.atBroker = TRUE]
<1>1. /\ r \in OrderType /\ r.status = o.orders[c].status
      /\ r.quantity = o.orders[c].quantity /\ r.filled = o.orders[c].filled
  BY DEF OmsType, OrderType
<1>2. OnUpdate(o, u) = [o EXCEPT !.orders[c] = Advance(r, s)]
  BY <1>1 DEF OnUpdate
<1> HIDE DEF r
<1>3. /\ Advance(r, s) \in OrderType /\ Advance(r, s).filled = r.filled
      /\ Advance(r, s).quantity = r.quantity
      /\ Advance(r, s).status = IF Advances(r.status, s) THEN s ELSE r.status
  BY <1>1, AdvanceType
<1>4. /\ OnlyRow(o, OnUpdate(o, u), c) /\ OnUpdate(o, u).orders[c] = Advance(r, s)
      /\ OnUpdate(o, u).position = o.position /\ OnUpdate(o, u).seen = o.seen
  BY <1>2, <1>3, OmsRow
<1> QED
  BY <1>1, <1>3, <1>4

(* A fill of a known order that fits into it.                              *)
LEMMA FillRow ==
    ASSUME NEW o \in OmsType, NEW f \in FillType, NEW c, c = f.order, WellFilled(o.orders),
           FillId(f) \notin o.seen, o.orders[c].status # "NONE",
           o.orders[c].filled + f.qty <= o.orders[c].quantity
    PROVE  /\ OnlyRow(o, OnFill(o, f), c)
           /\ OnFill(o, f).orders[c].quantity = o.orders[c].quantity
           /\ OnFill(o, f).orders[c].filled = o.orders[c].filled + f.qty
           /\ OnFill(o, f).orders[c].status
                = IF o.orders[c].filled + f.qty = o.orders[c].quantity THEN "FILLED"
                  ELSE "PARTIALLY_FILLED"
           /\ OnFill(o, f).position = o.position + Signed(f)
           /\ OnFill(o, f).seen = o.seen \cup {FillId(f)}
<1> DEFINE p == ApplyFill(o, f)
           r == FilledOrder(o.orders[c], f)
<1>1. /\ p \in OmsType /\ p.orders = o.orders /\ p.position = o.position + Signed(f)
      /\ p.seen = o.seen \cup {FillId(f)}
  BY ApplyBoth
<1>2. c \in Intents /\ o.orders[c] \in OrderType /\ f.qty \in Int
  BY DEF FillType, OmsType
<1>3. AtMost(o.orders[c].filled + f.qty, o.orders[c].quantity) = o.orders[c].filled + f.qty
  BY DEF AtMost
<1>4. /\ r.filled = o.orders[c].filled + f.qty /\ r.quantity = o.orders[c].quantity
      /\ r.status = IF o.orders[c].filled + f.qty = o.orders[c].quantity THEN "FILLED"
                    ELSE "PARTIALLY_FILLED"
  BY <1>2, <1>3 DEF FilledOrder, OrderType
<1>5. r \in OrderType
  BY <1>2, FilledOrderType DEF WellFilled
<1>6. OnFill(o, f) = [p EXCEPT !.orders[c] = r]
  BY <1>1, <1>2 DEF OnFill, OmsType
<1> HIDE DEF p, r
<1>7. /\ OnlyRow(p, OnFill(o, f), c) /\ OnFill(o, f).orders[c] = r
      /\ OnFill(o, f).position = p.position /\ OnFill(o, f).seen = p.seen
  BY <1>1, <1>2, <1>5, <1>6, OmsRow
<1> QED
  BY <1>1, <1>4, <1>7 DEF OnlyRow

-----------------------------------------------------------------------------
(* Adopting fills.                                                         *)

(* Whether the broker's id of an order is known makes no difference to a   *)
(* fill.                                                                   *)
LEMMA AgreeFill ==
    ASSUME NEW o \in OmsType, NEW p \in OmsType, Agree(p, o), WellFilled(o.orders), NEW f \in FillType
    PROVE  OnFill(p, f) \in OmsType /\ Agree(OnFill(p, f), OnFill(o, f))
<1> DEFINE c == f.order
<1>0. c \in Intents /\ p.seen = o.seen
  BY DEF FillType, Agree
<1>1. OnFill(p, f) \in OmsType
  <2>1. WellFilled(p.orders) /\ Agree(p, p)
    BY DEF Agree, WellFilled
  <2> QED
    BY <2>1, FillBoth
<1>2. CASE FillId(f) \in o.seen
  BY <1>0, <1>1, <1>2 DEF OnFill
<1>3. CASE FillId(f) \notin o.seen
  <2> DEFINE u == ApplyFill(o, f)
             v == ApplyFill(p, f)
  <2>1. /\ u \in OmsType /\ u.orders = o.orders /\ u.seen = o.seen \cup {FillId(f)}
        /\ u.position = o.position + Signed(f)
    BY <1>3, ApplyBoth
  <2>2. /\ v \in OmsType /\ v.orders = p.orders /\ v.seen = p.seen \cup {FillId(f)}
        /\ v.position = p.position + Signed(f)
    BY <1>0, <1>3, ApplyBoth
  <2>3. Agree(v, u) /\ WellFilled(u.orders)
    BY <2>1, <2>2 DEF Agree
  <2>4. /\ p.orders[c].status = o.orders[c].status /\ p.orders[c].quantity = o.orders[c].quantity
        /\ p.orders[c].filled = o.orders[c].filled
    BY <1>0 DEF Agree
  <2>5. CASE o.orders[c].status = "NONE"
    BY <1>0, <1>1, <1>3, <2>3, <2>4, <2>5 DEF OnFill
  <2>6. CASE o.orders[c].status # "NONE"
    <3> DEFINE r == FilledOrder(o.orders[c], f)
               q == FilledOrder(p.orders[c], f)
    <3>1. r \in OrderType /\ r.filled <= r.quantity /\ q \in OrderType
      BY <1>0, <2>4, FilledOrderType DEF OmsType, WellFilled
    <3>2. q.status = r.status /\ q.quantity = r.quantity /\ q.filled = r.filled
      <4>1. o.orders[c] \in OrderType /\ p.orders[c] \in OrderType
        BY <1>0 DEF OmsType
      <4> QED
        BY <2>4, <4>1 DEF FilledOrder, OrderType
    <3>3. OnFill(o, f) = [u EXCEPT !.orders[c] = r]
      BY <1>3, <2>1, <2>6 DEF OnFill, OmsType
    <3>4. OnFill(p, f) = [v EXCEPT !.orders[c] = q]
      BY <1>0, <1>3, <2>2, <2>4, <2>6 DEF OnFill, OmsType
    <3> HIDE DEF c, u, v, r, q
    <3>5. Agree([v EXCEPT !.orders[c] = q], [u EXCEPT !.orders[c] = r])
      BY <1>0, <2>1, <2>2, <2>3, <3>1, <3>2, SetBoth
    <3> QED
      BY <1>1, <3>3, <3>4, <3>5
  <2> QED
    BY <2>5, <2>6
<1> QED
  BY <1>2, <1>3

(* The fills to adopt, and the folds of _adopt_fills over them, with the   *)
(* events and without.                                                     *)
Missing(o, fills) == {f \in fills : FillId(f) \notin o.seen}
BooksBoth(g, i, o, M) ==
    g = [S \in SUBSET M |->
            IF S = {} THEN <<i, o>>
            ELSE <<StoreOnFill(g[S \ {Some(S)}][1], g[S \ {Some(S)}][2], Some(S)),
                   OnFill(g[S \ {Some(S)}][2], Some(S))>>]
Books(g, p, M) ==
    g = [S \in SUBSET M |-> IF S = {} THEN p ELSE OnFill(g[S \ {Some(S)}], Some(S))]

LEMMA BooksBothOneWay ==
    ASSUME NEW i, NEW o, NEW M, IsFiniteSet(M), NEW g, BooksBoth(g, i, o, M),
           NEW h, BooksBoth(h, i, o, M)
    PROVE  \A S \in SUBSET M : g[S] = h[S]
<1> DEFINE T == {S \in SUBSET M : g[S] = h[S]}
<1>1. {} \in T
  BY DEF BooksBoth
<1>2. ASSUME NEW S \in SUBSET M, S # {}, S \ {Some(S)} \in T PROVE S \in T
  BY <1>2 DEF BooksBoth
<1>3. \A S \in SUBSET M : S \in T
  <2> HIDE DEF T
  <2> QED
    BY <1>1, <1>2, PartsReached
<1> QED
  BY <1>3

LEMMA BooksOneWay ==
    ASSUME NEW p, NEW M, IsFiniteSet(M), NEW g, Books(g, p, M), NEW h, Books(h, p, M)
    PROVE  \A S \in SUBSET M : g[S] = h[S]
<1> DEFINE T == {S \in SUBSET M : g[S] = h[S]}
<1>1. {} \in T
  BY DEF Books
<1>2. ASSUME NEW S \in SUBSET M, S # {}, S \ {Some(S)} \in T PROVE S \in T
  BY <1>2 DEF Books
<1>3. \A S \in SUBSET M : S \in T
  <2> HIDE DEF T
  <2> QED
    BY <1>1, <1>2, PartsReached
<1> QED
  BY <1>3

LEMMA BooksBothFold ==
    ASSUME NEW i, NEW o, NEW fills, NEW U, U = Missing(o, fills), IsFiniteSet(U),
           NEW h, BooksBoth(h, i, o, U)
    PROVE  StoreAdopted(i, o, fills) = h[U][1]
<1> DEFINE M == {f \in fills : FillId(f) \notin o.seen}
           g == CHOOSE x : BooksBoth(x, i, o, M)
           both == FoldSet(LAMBDA f, acc : <<StoreOnFill(acc[1], acc[2], f), OnFill(acc[2], f)>>,
                           <<i, o>>, M)
<1>0. U = M
  BY DEF Missing
<1>1. BooksBoth(g, i, o, M)
  BY <1>0
<1>2. both = g[M]
  BY Zenon DEF FoldSet, MapThenFoldSet, BooksBoth, Some
<1>3. StoreAdopted(i, o, fills) = IF M = {} THEN i ELSE both[1]
  BY DEF StoreAdopted
<1>4. M = {} => g[M][1] = i
  <2> HIDE DEF M, g
  <2> QED
    BY <1>1 DEF BooksBoth
<1>5. g[M] = h[M]
  <2> HIDE DEF M, g
  <2> QED
    BY <1>0, <1>1, BooksBothOneWay
<1> HIDE DEF both, g, M
<1> QED
  BY <1>0, <1>2, <1>3, <1>4, <1>5

LEMMA BooksFold ==
    ASSUME NEW p, NEW fills, NEW U, U = Missing(p, fills), IsFiniteSet(U),
           NEW h, Books(h, p, U)
    PROVE  AdoptFills(p, fills) = h[U]
<1> DEFINE M == {f \in fills : FillId(f) \notin p.seen}
           g == CHOOSE x : Books(x, p, M)
           all == FoldSet(LAMBDA f, acc : OnFill(acc, f), p, M)
<1>0. U = M
  BY DEF Missing
<1>1. Books(g, p, M)
  BY <1>0
<1>2. all = g[M]
  BY Zenon DEF FoldSet, MapThenFoldSet, Books, Some
<1>3. AdoptFills(p, fills) = IF M = {} THEN p ELSE all
  BY DEF AdoptFills
<1>4. M = {} => g[M] = p
  <2> HIDE DEF M, g
  <2> QED
    BY <1>1 DEF Books
<1>5. g[M] = h[M]
  <2> HIDE DEF M, g
  <2> QED
    BY <1>0, <1>1, BooksOneWay
<1> HIDE DEF all, g, M
<1> QED
  BY <1>0, <1>2, <1>3, <1>4, <1>5

(* What each missing fill keeps is kept by adopting them all: J[S] is what *)
(* holds of the image and the memory once the fills of S are booked.       *)
EachFillKeeps(J, i, o, M) ==
    /\ J \in [SUBSET M -> SUBSET (OmsType \X OmsType)]
    /\ <<i, o>> \in J[{}]
    /\ \A S \in SUBSET M : \A a \in J[S] : WellFilled(a[2].orders)
    /\ \A S \in SUBSET M : \A f \in S : \A a \in J[S \ {f}] :
           <<StoreOnFill(a[1], a[2], f), OnFill(a[2], f)>> \in J[S]

LEMMA Adoption ==
    ASSUME NEW o \in OmsType, NEW i \in OmsType, NEW p \in OmsType, Agree(p, o),
           NEW fills, fills \subseteq FillType, IsFiniteSet(fills),
           NEW M, M = Missing(o, fills),
           NEW J, EachFillKeeps(J, i, o, M)
    PROVE  \E x \in OmsType : /\ <<StoreAdopted(i, o, fills), x>> \in J[M]
                              /\ AdoptFills(p, fills) \in OmsType
                              /\ Agree(AdoptFills(p, fills), x)
<1> DEFINE b == <<i, o>>
           step == [z \in (OmsType \X OmsType) \X M |->
                       <<StoreOnFill(z[1][1], z[1][2], z[2]), OnFill(z[1][2], z[2])>>]
<1>0. IsFiniteSet(M) /\ M \in SUBSET M /\ M \subseteq FillType
      /\ M = Missing(p, fills)
  BY FS_Subset DEF Agree, Missing
<1>1. \A S \in SUBSET M : S # {} => Some(S) \in S /\ Some(S) \in M /\ S \ {Some(S)} \in SUBSET M
  BY DEF Some
<1>2. \A a \in OmsType \X OmsType, f \in M :
          step[<<a, f>>] = <<StoreOnFill(a[1], a[2], f), OnFill(a[2], f)>>
  OBVIOUS
<1>3. \A S \in SUBSET M : \A a \in J[S] : a \in OmsType \X OmsType /\ WellFilled(a[2].orders)
  BY DEF EachFillKeeps
<1>b. \A S \in SUBSET M : S # {} =>
          \A a \in J[S \ {Some(S)}] :
              <<StoreOnFill(a[1], a[2], Some(S)), OnFill(a[2], Some(S))>> \in J[S]
  BY <1>1 DEF EachFillKeeps
<1>4. \A S \in SUBSET M : S # {} =>
          \A a \in J[S \ {Some(S)}] : step[<<a, Some(S)>>] \in J[S]
  <2> HIDE DEF step
  <2> SUFFICES ASSUME NEW S \in SUBSET M, S # {}, NEW a \in J[S \ {Some(S)}]
               PROVE  step[<<a, Some(S)>>] \in J[S]
    OBVIOUS
  <2>1. Some(S) \in M /\ a \in OmsType \X OmsType
    BY <1>1, <1>3
  <2>2. <<StoreOnFill(a[1], a[2], Some(S)), OnFill(a[2], Some(S))>> \in J[S]
    BY <1>b
  <2> QED
    BY <1>2, <2>1, <2>2
<1>5. b \in J[{}]
  BY DEF EachFillKeeps
<1> HIDE DEF step
<1>6. PICK h : FoldOf(h, b, step, M) /\ \A S \in SUBSET M : h[S] \in J[S]
  <2> HIDE DEF b
  <2> QED
    BY <1>0, <1>4, <1>5, FoldKeeps
<1>7. BooksBoth(h, i, o, M)
  <2>1. \A S \in SUBSET M : S # {} =>
          step[<<h[S \ {Some(S)}], Some(S)>>]
            = <<StoreOnFill(h[S \ {Some(S)}][1], h[S \ {Some(S)}][2], Some(S)),
                OnFill(h[S \ {Some(S)}][2], Some(S))>>
    BY <1>1, <1>2, <1>3, <1>6
  <2> QED
    BY <1>6, <2>1 DEF BooksBoth, FoldOf
<1>8. StoreAdopted(i, o, fills) = h[M][1]
  <2>1. IsFiniteSet(M)
    BY <1>0
  <2> QED
    BY <1>7, <2>1, BooksBothFold
<1> DEFINE x == h[M][2]
           one == [z \in OmsType \X M |-> OnFill(z[1], z[2])]
           K == [S \in SUBSET M |-> {q \in OmsType : Agree(q, h[S][2])}]
<1>10. \A S \in SUBSET M : h[S][2] \in OmsType /\ WellFilled(h[S][2].orders)
  BY <1>3, <1>6
<1>11. h[{}] = b /\ \A S \in SUBSET M : S # {} => h[S][2] = OnFill(h[S \ {Some(S)}][2], Some(S))
  <2>1. \A S \in SUBSET M : h[S] = IF S = {} THEN b ELSE step[<<h[S \ {Some(S)}], Some(S)>>]
    BY <1>6 DEF FoldOf
  <2>2. h[{}] = b
    BY <2>1
  <2>3. ASSUME NEW S \in SUBSET M, S # {} PROVE h[S][2] = OnFill(h[S \ {Some(S)}][2], Some(S))
    <3>1. h[S] = step[<<h[S \ {Some(S)}], Some(S)>>]
      BY <2>1, <2>3
    <3>2. Some(S) \in M /\ h[S \ {Some(S)}] \in OmsType \X OmsType
      BY <1>1, <1>3, <1>6, <2>3
    <3> QED
      BY <1>2, <3>1, <3>2
  <2> QED
    BY <2>2, <2>3
<1>12. \A q \in OmsType, f \in M : one[<<q, f>>] = OnFill(q, f)
  OBVIOUS
<1>13. \A S \in SUBSET M : K[S] = {q \in OmsType : Agree(q, h[S][2])}
  OBVIOUS
<1> HIDE DEF one, K
<1>14. \A S \in SUBSET M : S # {} =>
          \A q \in K[S \ {Some(S)}] : one[<<q, Some(S)>>] \in K[S]
  <2> SUFFICES ASSUME NEW S \in SUBSET M, S # {}, NEW q \in K[S \ {Some(S)}]
               PROVE  one[<<q, Some(S)>>] \in K[S]
    OBVIOUS
  <2> DEFINE s == Some(S)
             y == h[S \ {s}][2]
  <2>1. s \in M /\ s \in FillType /\ S \ {s} \in SUBSET M
    BY <1>0, <1>1
  <2>2. q \in OmsType /\ Agree(q, y)
    BY <1>13, <2>1
  <2>3. y \in OmsType /\ WellFilled(y.orders)
    BY <1>10, <2>1
  <2>4. one[<<q, s>>] = OnFill(q, s)
    BY <1>12, <2>1, <2>2
  <2>5. h[S][2] = OnFill(y, s)
    BY <1>11
  <2> HIDE DEF s, y
  <2>6. OnFill(q, s) \in OmsType /\ Agree(OnFill(q, s), OnFill(y, s))
    BY <2>1, <2>2, <2>3, AgreeFill
  <2>7. one[<<q, s>>] \in K[S]
    BY <1>13, <2>4, <2>5, <2>6
  <2> QED
    BY <2>7 DEF s
<1>15. p \in K[{}]
  BY <1>11, <1>13
<1>16. PICK k : FoldOf(k, p, one, M) /\ \A S \in SUBSET M : k[S] \in K[S]
  BY <1>0, <1>14, <1>15, FoldKeeps
<1>17. Books(k, p, M)
  <2>1. \A S \in SUBSET M : S # {} =>
          one[<<k[S \ {Some(S)}], Some(S)>>] = OnFill(k[S \ {Some(S)}], Some(S))
    BY <1>1, <1>12, <1>13, <1>16
  <2> QED
    BY <1>16, <2>1 DEF Books, FoldOf
<1>18. AdoptFills(p, fills) = k[M]
  BY <1>0, <1>17, BooksFold
<1>20. AdoptFills(p, fills) \in OmsType /\ Agree(AdoptFills(p, fills), x)
  <2>1. k[M] \in K[M]
    BY <1>0, <1>16
  <2> QED
    BY <1>0, <1>13, <1>18, <2>1
<1>21. <<StoreAdopted(i, o, fills), x>> \in J[M] /\ x \in OmsType
  <2>1. h[M] \in OmsType \X OmsType /\ h[M] \in J[M]
    BY <1>0, <1>3, <1>6
  <2>2. \A z \in OmsType \X OmsType : z = <<z[1], z[2]>>
    OBVIOUS
  <2> QED
    BY <1>8, <2>1, <2>2
<1> QED
  BY <1>20, <1>21
=============================================================================
