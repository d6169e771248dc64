-------------------------- MODULE OmsAdapterProofs --------------------------
(***************************************************************************)
(* The adapter's safety theorems, for every number of intents, quantity    *)
(* and message, in whatever order they arrive: every fill is booked once,  *)
(* in memory and in the stored events.  With a stream that keeps an        *)
(* order's messages in order, the exits stay covered and an order that has *)
(* ended, and whose call is over, stays ended.                             *)
(***************************************************************************)
EXTENDS OmsAdapter, OMSProofs

-----------------------------------------------------------------------------
(* Sums of shares over the intents.                                        *)

LEMMA SharesNat ==
    ASSUME NEW f
    PROVE  /\ IsFiniteSet({s \in Intents \X (1 .. MaxQty) : s[2] <= f[s[1]]})
           /\ Shares(f) \in Nat
<1>1. IsFiniteSet(1 .. MaxQty)
  BY FS_Interval, MaxQtyAssumption
<1>2. IsFiniteSet(Intents \X (1 .. MaxQty))
  BY <1>1, FS_Product, IntentsAssumption
<1> QED
  BY <1>2, FS_Subset, FS_CardinalityType DEF Shares

(* Summing counts that are no smaller gives no less.                       *)
LEMMA SharesMono ==
    ASSUME NEW f \in Counts, NEW g \in Counts, \A c \in Intents : f[c] <= g[c]
    PROVE  Shares(f) <= Shares(g)
<1> DEFINE All(h) == {s \in Intents \X (1 .. MaxQty) : s[2] <= h[s[1]]}
<1>1. IsFiniteSet(All(g))
  BY SharesNat
<1>2. All(f) \subseteq All(g)
  BY MaxQtyAssumption DEF Counts
<1> HIDE DEF All
<1>3. Cardinality(All(f)) <= Cardinality(All(g))
  BY <1>1, <1>2, FS_Subset
<1> QED
  BY <1>3 DEF Shares, All

(* Sums are added count by count.                                          *)
LEMMA SharesAdd ==
    ASSUME NEW f \in Counts, NEW g \in Counts, NEW h \in Counts,
           \A c \in Intents : h[c] = f[c] + g[c]
    PROVE  Shares(h) = Shares(f) + Shares(g)
<1> DEFINE On(k, S) == [c \in Intents |-> IF c \in S THEN k[c] ELSE 0]
           T == {S \in SUBSET Intents : Shares(On(h, S)) = Shares(On(f, S)) + Shares(On(g, S))}
<1>0. MaxQty \in Nat /\ IsFiniteSet(Intents)
  BY MaxQtyAssumption, IntentsAssumption
<1>1. {} \in T
  <2>1. ASSUME NEW k PROVE Shares(On(k, {})) = 0
    BY ZeroShares
  <2> QED
    BY <2>1
<1>2. ASSUME NEW S \in SUBSET Intents, S # {}, S \ {Some(S)} \in T PROVE S \in T
  <2> DEFINE s == Some(S)
             R == S \ {s}
  <2>1. s \in S
    BY <1>2 DEF Some
  <2>2. ASSUME NEW k \in Counts
        PROVE  Shares(On(k, S)) = Shares(On(k, R)) + k[s] /\ Shares(On(k, R)) \in Nat
    <3> DEFINE r == On(k, R)
    <3>1. r \in Counts /\ s \in Intents /\ k[s] \in 0 .. MaxQty /\ r[s] = 0
      BY <1>0, <2>1 DEF Counts
    <3>2. On(k, S) = [r EXCEPT ![s] = k[s]]
      BY <2>1
    <3> HIDE DEF r, s
    <3>3. /\ Shares([r EXCEPT ![s] = k[s]]) = Shares(r) - r[s] + k[s]
          /\ Shares(r) \in Nat
      BY <3>1, SharesUpdate
    <3>4. Shares(On(k, S)) = Shares(r) + k[s] /\ Shares(r) \in Nat
      BY <3>1, <3>2, <3>3
    <3> QED
      BY <3>4 DEF r
  <2>3. h[s] = f[s] + g[s] /\ f[s] \in Nat /\ g[s] \in Nat
    BY <2>1 DEF Counts
  <2>4. Shares(On(h, R)) = Shares(On(f, R)) + Shares(On(g, R))
    BY <1>2
  <2> HIDE DEF s, R, On
  <2> QED
    BY <2>2, <2>3, <2>4
<1>3. \A S \in SUBSET Intents : S \in T
  <2> HIDE DEF T
  <2> QED
    BY <1>0, <1>1, <1>2, PartsReached
<1>4. Shares(On(h, Intents)) = Shares(On(f, Intents)) + Shares(On(g, Intents))
  BY <1>3
<1>5. On(h, Intents) = h /\ On(f, Intents) = f /\ On(g, Intents) = g
  BY DEF Counts
<1> QED
  BY <1>4, <1>5

(* What the orders of C have traded moves with the order that fills.       *)
LEMMA TradedStep ==
    ASSUME NEW o \in OmsType, NEW o2 \in OmsType, NEW c \in Intents, OnlyRow(o, o2, c), NEW C
    PROVE  Traded(o2.orders, C) = Traded(o.orders, C)
                                    + IF c \in C THEN o2.orders[c].filled - o.orders[c].filled ELSE 0
<1> DEFINE F(k) == [d \in Intents |-> IF d \in C THEN k.orders[d].filled ELSE 0]
           f == F(o)
           v == F(o2)[c]
<1>0. \A k \in OmsType : \A d \in Intents : k.orders[d].filled \in 0 .. MaxQty
  BY DEF OmsType, OrderType
<1>1. f \in Counts /\ v \in 0 .. MaxQty
  BY <1>0, MaxQtyAssumption DEF Counts
<1>2. F(o2) = [f EXCEPT ![c] = v]
  BY DEF OnlyRow
<1>3. Traded(o.orders, C) = Shares(f) /\ Traded(o2.orders, C) = Shares(F(o2))
  BY DEF Traded
<1>4. /\ f[c] = IF c \in C THEN o.orders[c].filled ELSE 0
      /\ v = IF c \in C THEN o2.orders[c].filled ELSE 0
  OBVIOUS
<1>5. f[c] \in Nat /\ v \in Nat
  BY <1>1, MaxQtyAssumption DEF Counts
<1> HIDE DEF F, f, v
<1>6. Shares([f EXCEPT ![c] = v]) = Shares(f) - f[c] + v /\ Shares(f) \in Nat
  BY <1>1, SharesUpdate
<1> QED
  BY <1>0, <1>2, <1>3, <1>4, <1>5, <1>6, MaxQtyAssumption

LEMMA TradedNat ==
    ASSUME NEW x, NEW C
    PROVE  Traded(x, C) \in Nat
BY SharesNat DEF Traded

LEMMA TradedMono ==
    ASSUME NEW x, NEW y, NEW C,
           \A c \in Intents : /\ x[c].filled \in 0 .. MaxQty /\ y[c].filled \in 0 .. MaxQty
                              /\ x[c].filled <= y[c].filled
    PROVE  Traded(x, C) <= Traded(y, C) /\ Traded(x, C) \in Nat /\ Traded(y, C) \in Nat
<1> DEFINE F(k) == [d \in Intents |-> IF d \in C THEN k[d].filled ELSE 0]
           f == F(x)
           g == F(y)
<1>1. f \in Counts /\ g \in Counts /\ \A d \in Intents : f[d] <= g[d]
  BY MaxQtyAssumption DEF Counts
<1>2. Traded(x, C) = Shares(f) /\ Traded(y, C) = Shares(g)
  BY DEF Traded
<1> HIDE DEF f, g
<1> QED
  BY <1>1, <1>2, SharesMono, SharesNat

-----------------------------------------------------------------------------
(* The shares that a set of fills trades.                                  *)

Size(F) == Cardinality({s \in F \X (1 .. MaxQty) : s[2] <= s[1].qty})

LEMMA SizeEmpty == Size({}) = 0
<1>1. {s \in {} \X (1 .. MaxQty) : s[2] <= s[1].qty} = {}
  OBVIOUS
<1> QED
  BY <1>1, FS_EmptySet DEF Size

LEMMA SizeNat ==
    ASSUME NEW F, IsFiniteSet(F)
    PROVE  IsFiniteSet({s \in F \X (1 .. MaxQty) : s[2] <= s[1].qty}) /\ Size(F) \in Nat
<1>1. IsFiniteSet(1 .. MaxQty)
  BY FS_Interval, MaxQtyAssumption
<1>2. IsFiniteSet(F \X (1 .. MaxQty))
  BY <1>1, FS_Product
<1> QED
  BY <1>2, FS_Subset, FS_CardinalityType DEF Size

(* One more fill adds its quantity.                                        *)
LEMMA SizeUpdate ==
    ASSUME NEW F, F \subseteq FillType, IsFiniteSet(F), NEW f \in FillType, f \notin F
    PROVE  Size(F \cup {f}) = Size(F) + f.qty
<1> DEFINE All(S) == {s \in S \X (1 .. MaxQty) : s[2] <= s[1].qty}
           One == {f} \X (1 .. f.qty)
<1>0. f.qty \in Nat /\ f.qty <= MaxQty /\ MaxQty \in Nat
  BY MaxQtyAssumption DEF FillType
<1>1. IsFiniteSet(All(F)) /\ Cardinality(All(F)) \in Nat
  BY SizeNat DEF Size
<1>2. IsFiniteSet(One) /\ Cardinality(One) = f.qty
  BY <1>0, OneOrder
<1>3. All(F \cup {f}) = All(F) \cup One
  BY <1>0
<1>4. All(F) \cap One = {}
  OBVIOUS
<1> HIDE DEF All, One
<1>5. Cardinality(All(F) \cup One) = Cardinality(All(F)) + f.qty - 0
  BY <1>1, <1>2, <1>4, FS_Union, FS_EmptySet
<1>6. Size(F) = Cardinality(All(F))
  BY DEF Size, All
<1>7. Size(F \cup {f}) = Cardinality(All(F) \cup One)
  <2>1. Size(F \cup {f}) = Cardinality(All(F \cup {f}))
    BY DEF Size, All
  <2> QED
    BY <1>3, <2>1
<1>8. Cardinality(All(F)) \in Nat
  BY <1>1
<1> HIDE DEF Size
<1> QED
  BY <1>0, <1>5, <1>6, <1>7, <1>8

(* Some of the fills trade no more than all; and less, if a fill is out.   *)
LEMMA SizeMono ==
    ASSUME NEW F, F \subseteq FillType, IsFiniteSet(F), NEW G, G \subseteq F
    PROVE  /\ Size(G) <= Size(F) /\ Size(G) \in Nat /\ Size(F) \in Nat
           /\ Size(G) = Size(F) => G = F
<1> DEFINE All(S) == {s \in S \X (1 .. MaxQty) : s[2] <= s[1].qty}
<1>1. IsFiniteSet(G) /\ Size(G) \in Nat /\ Size(F) \in Nat
  BY FS_Subset, SizeNat
<1>2. ASSUME NEW H, H \subseteq F PROVE Size(H) <= Size(F)
  <2>1. IsFiniteSet(All(F)) /\ All(H) \subseteq All(F)
    BY <1>2, SizeNat
  <2> HIDE DEF All
  <2>2. Cardinality(All(H)) <= Cardinality(All(F))
    BY <2>1, FS_Subset
  <2> QED
    BY <2>2 DEF Size, All
<1>3. ASSUME NEW f \in F, f \notin G PROVE Size(G) < Size(F)
  <2>1. Size(G \cup {f}) = Size(G) + f.qty /\ f.qty \in Nat /\ f.qty >= 1
    <3>1. f \in FillType /\ G \subseteq FillType
      BY <1>3
    <3>2. Size(G \cup {f}) = Size(G) + f.qty
      BY <1>1, <1>3, <3>1, SizeUpdate
    <3> QED
      BY <3>1, <3>2, MaxQtyAssumption DEF FillType
  <2>2. Size(G \cup {f}) <= Size(F)
    BY <1>2, <1>3
  <2> QED
    BY <1>1, <2>1, <2>2
<1> QED
  BY <1>1, <1>2, <1>3

(* It is the sum of their quantities.                                      *)
LEMMA SizeIsSum ==
    ASSUME NEW F, F \subseteq FillType, IsFiniteSet(F)
    PROVE  MapThenSumSet(LAMBDA f : f.qty, F) = Size(F)
<1> DEFINE Adds(g) == g = [S \in SUBSET F |->
                             IF S = {} THEN 0 ELSE Some(S).qty + g[S \ {Some(S)}]]
           g0 == CHOOSE g : Adds(g)
           k == [S \in SUBSET F |-> Size(S)]
<1>1. Adds(k)
  <2>1. ASSUME NEW S \in SUBSET F, S # {}
        PROVE  Size(S) = Some(S).qty + Size(S \ {Some(S)})
    <3> DEFINE s == Some(S)
               R == S \ {s}
    <3>1. s \in FillType /\ s \in S /\ s \notin R /\ S = R \cup {s}
      BY <2>1 DEF Some
    <3>2. R \subseteq FillType /\ IsFiniteSet(R)
      BY FS_Subset
    <3> HIDE DEF s, R
    <3>3. Size(R \cup {s}) = Size(R) + s.qty
      BY <3>1, <3>2, SizeUpdate
    <3>4. Size(R) \in Nat /\ s.qty \in Nat
      <4>1. Size(R) \in Nat
        BY <3>2, SizeNat
      <4>2. s.qty \in Nat
        BY <3>1, MaxQtyAssumption DEF FillType
      <4> QED
        BY <4>1, <4>2
    <3>5. Size(S) = s.qty + Size(R)
      BY <3>1, <3>3, <3>4
    <3> QED
      BY <3>5 DEF s, R
  <2> QED
    BY <2>1, SizeEmpty
<1>2. Adds(g0)
  <2> HIDE DEF k
  <2>1. \E g : Adds(g)
    BY <1>1
  <2> QED
    BY <2>1
<1>3. MapThenSumSet(LAMBDA f : f.qty, F) = g0[F]
  BY Zenon DEF MapThenSumSet, MapThenFoldSet, Some
<1> HIDE DEF g0, k
<1>4. \A S \in SUBSET F : g0[S] = k[S]
  <2> DEFINE T == {S \in SUBSET F : g0[S] = k[S]}
  <2>1. {} \in T
    BY <1>1, <1>2
  <2>2. ASSUME NEW S \in SUBSET F, S # {}, S \ {Some(S)} \in T PROVE S \in T
    BY <1>1, <1>2, <2>2
  <2> HIDE DEF T, Adds
  <2>3. \A S \in SUBSET F : S \in T
    BY <2>1, <2>2, PartsReached
  <2> QED
    BY <2>3 DEF T
<1> QED
  BY <1>3, <1>4 DEF k

-----------------------------------------------------------------------------
(* The inductive invariant.                                                *)

(* The trades of an order, and those that the OMS has seen.                *)
FillsOf(c) == {f \in venue.fills : f.order = c}
SeenOf(seen, c) == {f \in FillsOf(c) : FillId(f) \in seen}

(* The orders that resolve_unknown is asking about.                        *)
Asked == pass \cup {l.order : l \in lookup}

(* An order at the venue.                                                  *)
VenueRow(c) ==
    LET v == venue.orders[c]
    IN  /\ request[c] = "landed" <=> v.status # "NONE"
        /\ request[c] = "none" <=> call[c] = "none"
        /\ v.status = "NONE" => v = Absent
        /\ v.status \in Live => v.filled < v.quantity
        /\ v.filled <= v.quantity /\ v.fillCount <= v.filled
        /\ Size(FillsOf(c)) = v.filled
        /\ \A f \in FillsOf(c) : f.n <= v.fillCount
        /\ \A f, g \in FillsOf(c) : f.n = g.n => f = g

(* What the venue has said is still so when it is final.                   *)
Told(u) ==
    /\ u.status # "NONE" => venue.orders[u.order].status # "NONE"
    /\ u.status \in Terminal => venue.orders[u.order].status = u.status

VenueInv ==
    /\ IsFiniteSet(venue.fills)
    /\ \A c \in Intents : VenueRow(c)
    /\ \A u \in sent : u.status \notin DrivenByFills \cup {"NONE"} /\ Told(u)
    /\ \A l \in lookup : Told(l) /\ l.order \notin pass /\ \A m \in lookup : m = l
    /\ \A c \in Asked : call[c] = "over"

(* An order at the OMS, that has seen these fill ids.                      *)
RowOk(r, seen, c) ==
    /\ r.filled = Size(SeenOf(seen, c))
    /\ r.status = "NONE" <=> request[c] = "none"
    /\ r.status # "NONE" => r.quantity >= 1
    /\ request[c] = "landed" => r.quantity = venue.orders[c].quantity
    /\ r.status = "UNKNOWN" => call[c] = "over"
    /\ c \in Asked /\ request[c] # "landed" => r.status = "UNKNOWN"
    /\ InOrder /\ r.status \in Terminal =>
          /\ FillsOf(c) = SeenOf(seen, c)
          /\ request[c] # "flying" /\ venue.orders[c].status \notin Live

SeenMade(seen) == \A c \in Intents, n \in Nat : <<c, n>> \in seen => n <= venue.orders[c].fillCount

OmsPart(i, o) ==
    /\ o \in OmsType /\ i \in OmsType /\ Agree(i, o)
    /\ \A c \in Intents : RowOk(o.orders[c], o.seen, c)
    /\ SeenMade(o.seen)
    /\ o.position = Held + Traded(o.orders, Buys) - Traded(o.orders, Sells)

(* What an exit has sold or can still sell.                                *)
Claim(c) == Tradable(c) + venue.orders[c].filled
Claims == Shares([c \in Intents |-> IF c \in Sells THEN Claim(c) ELSE 0])

CoverInv == InOrder => Claims <= Held + Traded(oms.orders, Buys)

AdapterInv == TypeOK /\ VenueInv /\ OmsPart(image, oms) /\ CoverInv
-----------------------------------------------------------------------------
(* A fill delivered or adopted.                                            *)

(* The OMS has booked no more of an order than the venue has traded, and   *)
(* the venue no more than was ordered.                                     *)
LEMMA Fits ==
    ASSUME TypeOK, VenueInv, NEW i, NEW o, OmsPart(i, o)
    PROVE  /\ WellFilled(o.orders)
           /\ \A c \in Intents : o.orders[c].filled <= venue.orders[c].filled
<1> SUFFICES ASSUME NEW c \in Intents
             PROVE  /\ o.orders[c].filled <= venue.orders[c].filled
                    /\ o.orders[c].filled <= o.orders[c].quantity
  BY DEF WellFilled
<1>1. /\ o \in OmsType /\ RowOk(o.orders[c], o.seen, c) /\ VenueRow(c)
      /\ IsFiniteSet(venue.fills) /\ venue.fills \subseteq FillType
      /\ venue.orders[c].quantity \in 0 .. MaxQty /\ venue.orders[c].filled \in 0 .. MaxQty
  BY DEF OmsPart, VenueInv, TypeOK, VenueType
<1>2. /\ IsFiniteSet(FillsOf(c)) /\ FillsOf(c) \subseteq FillType
      /\ SeenOf(o.seen, c) \subseteq FillsOf(c)
  BY <1>1, FS_Subset DEF FillsOf, SeenOf
<1>3. Size(SeenOf(o.seen, c)) <= Size(FillsOf(c))
  BY <1>2, SizeMono
<1>4. o.orders[c].filled <= venue.orders[c].filled
  BY <1>1, <1>3 DEF RowOk, VenueRow
<1>5. o.orders[c].filled \in 0 .. MaxQty /\ o.orders[c].quantity \in 0 .. MaxQty
  BY <1>1 DEF OmsType, OrderType
<1>6. CASE request[c] = "landed"
  BY <1>1, <1>4, <1>5, <1>6, MaxQtyAssumption DEF RowOk, VenueRow
<1>7. CASE request[c] # "landed"
  BY <1>1, <1>4, <1>5, <1>7, MaxQtyAssumption DEF VenueRow, Absent
<1> QED
  BY <1>4, <1>6, <1>7

(* A trade of the venue is of an order that the OMS knows.                 *)
LEMMA FillKnown ==
    ASSUME TypeOK, VenueInv, NEW f \in venue.fills
    PROVE  f \in FillType /\ f.order \in Intents /\ f \in FillsOf(f.order) /\ request[f.order] = "landed"
<1>1. f \in FillType /\ f.order \in Intents /\ f \in FillsOf(f.order)
  BY DEF TypeOK, VenueType, FillsOf, FillType
<1> DEFINE c == f.order
           v == venue.orders[c]
<1>2. Size(FillsOf(c)) = v.filled /\ IsFiniteSet(FillsOf(c)) /\ FillsOf(c) \subseteq FillType
  BY <1>1, FS_Subset DEF VenueInv, VenueRow, TypeOK, VenueType, FillsOf
<1>3. v.filled # 0
  <2>1. Size({}) = 0 /\ FillsOf(c) # {} /\ {} \subseteq FillsOf(c)
    BY <1>1, SizeEmpty
  <2> HIDE DEF c, v
  <2> QED
    BY <1>2, <2>1, SizeMono
<1> HIDE DEF v
<1>4. v.status # "NONE"
  BY <1>1, <1>3 DEF VenueInv, VenueRow, Absent, v
<1>5. request[c] = "landed"
  BY <1>1, <1>4 DEF VenueInv, VenueRow, v
<1> QED
  BY <1>1, <1>5

(* The OMS only ever learns more: of fills, and of how an order ended.     *)
Later(o, o2) ==
    /\ o.seen \subseteq o2.seen
    /\ \A c \in Intents :
          /\ o2.orders[c].quantity = o.orders[c].quantity
          /\ o.orders[c].filled <= o2.orders[c].filled
          /\ InOrder /\ o.orders[c].status \in Terminal
             => o2.orders[c].status = o.orders[c].status

LEMMA LaterSame ==
    ASSUME NEW o \in OmsType
    PROVE  Later(o, o)
<1>1. \A c \in Intents : o.orders[c].filled \in 0 .. MaxQty
  BY DEF OmsType, OrderType
<1> QED
  BY <1>1, MaxQtyAssumption DEF Later

LEMMA LaterChain ==
    ASSUME NEW o \in OmsType, NEW o2 \in OmsType, NEW o3 \in OmsType, Later(o, o2), Later(o2, o3)
    PROVE  Later(o, o3)
<1>1. \A c \in Intents : /\ o.orders[c].filled \in Int /\ o2.orders[c].filled \in Int
                         /\ o3.orders[c].filled \in Int
  BY MaxQtyAssumption DEF OmsType, OrderType
<1> QED
  BY <1>1 DEF Later

(* A fill that the OMS has not seen: it fits into the order, and the row   *)
(* of the order is right again.                                            *)
LEMMA UnseenFill ==
    ASSUME TypeOK, VenueInv, NEW i, NEW o, OmsPart(i, o), NEW f \in venue.fills,
           FillId(f) \notin o.seen, NEW c, c = f.order, NEW seen, seen = o.seen \cup {FillId(f)}
    PROVE  /\ o.orders[c].status # "NONE" /\ ~(InOrder /\ o.orders[c].status \in Terminal)
           /\ o.orders[c].filled + f.qty <= o.orders[c].quantity
           /\ o.orders[c].filled + f.qty = Size(SeenOf(seen, c))
           /\ o.orders[c].filled + f.qty = o.orders[c].quantity
              => FillsOf(c) = SeenOf(seen, c) /\ venue.orders[c].status \notin Live
<1> DEFINE S == SeenOf(o.seen, c)
           A == FillsOf(c)
           v == venue.orders[c]
           r == o.orders[c]
<1>1. f \in FillType /\ c \in Intents /\ f \in A /\ request[c] = "landed"
  BY FillKnown
<1>2. A \subseteq FillType /\ IsFiniteSet(A) /\ S \subseteq A /\ f \notin S
  BY FS_Subset DEF VenueInv, TypeOK, VenueType, FillsOf, SeenOf
<1>3. \A g \in A : g.n = f.n => g = f
  BY <1>1 DEF VenueInv, VenueRow
<1>4. SeenOf(seen, c) = S \cup {f}
  <2>1. \A g \in A : FillId(g) = FillId(f) => g = f
    BY <1>1, <1>3 DEF FillId, FillsOf
  <2> QED
    BY <1>1, <2>1 DEF SeenOf
<1>5. S \cup {f} \subseteq A
  BY <1>1, <1>2
<1>6. r.filled = Size(S) /\ r.quantity = v.quantity /\ r.status # "NONE"
      /\ ~(InOrder /\ r.status \in Terminal)
  BY <1>1, <1>2 DEF OmsPart, RowOk
<1>7. Size(A) = v.filled /\ v.filled <= v.quantity /\ (v.status \in Live => v.filled < v.quantity)
  BY <1>1 DEF VenueInv, VenueRow
<1>8. v.filled \in Nat /\ v.quantity \in Nat
  BY <1>1, MaxQtyAssumption DEF TypeOK, VenueType
<1> HIDE DEF S, A, v, r
<1>9. Size(S \cup {f}) = Size(S) + f.qty
  <2>1. S \subseteq FillType /\ IsFiniteSet(S)
    BY <1>2, FS_Subset
  <2> QED
    BY <1>1, <1>2, <2>1, SizeUpdate
<1>10. Size(S \cup {f}) <= Size(A) /\ (Size(S \cup {f}) = Size(A) => S \cup {f} = A)
       /\ Size(S \cup {f}) \in Nat
  BY <1>2, <1>5, SizeMono
<1>11. /\ r.filled + f.qty = Size(S \cup {f})
       /\ r.filled + f.qty <= r.quantity
  BY <1>6, <1>7, <1>8, <1>9, <1>10
<1>12. ASSUME r.filled + f.qty = r.quantity
       PROVE  A = S \cup {f} /\ v.status \notin Live
  BY <1>6, <1>7, <1>8, <1>10, <1>11, <1>12
<1> QED
  BY <1>4, <1>6, <1>11, <1>12 DEF S, A, v, r

LEMMA FillStep ==
    ASSUME TypeOK, VenueInv, NEW i, NEW o, OmsPart(i, o), NEW f \in venue.fills,
           NEW o2, o2 = OnFill(o, f), NEW i2, i2 = StoreOnFill(i, o, f)
    PROVE  OmsPart(i2, o2) /\ Later(o, o2) /\ FillId(f) \in o2.seen
<1>0. o \in OmsType /\ i \in OmsType /\ Agree(i, o) /\ WellFilled(o.orders)
  BY Fits DEF OmsPart
<1>1. CASE FillId(f) \in o.seen
  <2>1. o2 = o /\ i2 = i
    BY <1>1 DEF OnFill, StoreOnFill
  <2> QED
    BY <1>0, <1>1, <2>1, LaterSame
<1>2. CASE FillId(f) \notin o.seen
  <2> DEFINE c == f.order
             seen == o.seen \cup {FillId(f)}
             r == o.orders[c]
             r2 == o2.orders[c]
  <2>1. f \in FillType /\ c \in Intents /\ f \in FillsOf(c) /\ request[c] = "landed"
    BY FillKnown
  <2>2. /\ r.status # "NONE" /\ ~(InOrder /\ r.status \in Terminal)
        /\ r.filled + f.qty <= r.quantity
        /\ r.filled + f.qty = Size(SeenOf(seen, c))
        /\ r.filled + f.qty = r.quantity
           => FillsOf(c) = SeenOf(seen, c) /\ venue.orders[c].status \notin Live
    BY <1>2, UnseenFill
  <2>3. /\ o2 \in OmsType /\ i2 \in OmsType /\ Agree(i2, o2)
    BY <1>0, <2>1, FillBoth
  <2>4. /\ OnlyRow(o, o2, c) /\ r2.quantity = r.quantity /\ r2.filled = r.filled + f.qty
        /\ r2.status = IF r.filled + f.qty = r.quantity THEN "FILLED" ELSE "PARTIALLY_FILLED"
        /\ o2.position = o.position + Signed(f) /\ o2.seen = seen
    BY <1>0, <1>2, <2>1, <2>2, FillRow
  <2>5. RowOk(r2, seen, c)
    <3>1. RowOk(r, o.seen, c)
      BY <2>1 DEF OmsPart
    <3> HIDE DEF seen, r, r2, c
    <3> QED
      BY <2>1, <2>2, <2>4, <3>1 DEF RowOk, Terminal
  <2>6. ASSUME NEW d \in Intents, d # c PROVE RowOk(o2.orders[d], seen, d)
    <3>1. SeenOf(seen, d) = SeenOf(o.seen, d) /\ o2.orders[d] = o.orders[d]
      BY <2>4, <2>6 DEF SeenOf, FillsOf, FillId, OnlyRow
    <3>2. RowOk(o.orders[d], o.seen, d)
      BY DEF OmsPart
    <3> QED
      BY <3>1, <3>2 DEF RowOk
  <2>7. SeenMade(seen)
    <3>1. f.n <= venue.orders[c].fillCount
      BY <2>1 DEF VenueInv, VenueRow
    <3> QED
      BY <3>1 DEF OmsPart, SeenMade, FillId
  <2>8. o2.position = Held + Traded(o2.orders, Buys) - Traded(o2.orders, Sells)
    <3> DEFINE x == Traded(o.orders, Buys)
               y == Traded(o.orders, Sells)
    <3>1. /\ Traded(o2.orders, Buys) = x + IF c \in Buys THEN f.qty ELSE 0
          /\ Traded(o2.orders, Sells) = y + IF c \in Sells THEN f.qty ELSE 0
      <4>1. r2.filled - r.filled = f.qty
        <5>1. r.filled \in Nat /\ f.qty \in Nat
          BY <1>0, <2>1, MaxQtyAssumption DEF OmsType, OrderType, FillType
        <5> QED
          BY <2>4, <5>1
      <4> HIDE DEF c
      <4>2. ASSUME NEW C
            PROVE  Traded(o2.orders, C) = Traded(o.orders, C) + IF c \in C THEN f.qty ELSE 0
        BY <1>0, <2>1, <2>3, <2>4, <4>1, TradedStep
      <4> QED
        BY <4>2
    <3>2. x \in Nat /\ y \in Nat /\ f.qty \in Nat
      <4>1. x \in Nat /\ y \in Nat
        BY TradedNat
      <4>2. f.qty \in Nat
        BY <2>1, MaxQtyAssumption DEF FillType
      <4> QED
        BY <4>1, <4>2
    <3>3. o.position = Held + x - y
      BY DEF OmsPart
    <3> HIDE DEF x, y
    <3> QED
      BY <2>1, <2>4, <3>1, <3>2, <3>3, OmsAdapterAssumption DEF Signed, Sells
  <2>9. Later(o, o2)
    <3>1. r.filled \in Nat /\ f.qty \in Nat
      BY <1>0, <2>1, MaxQtyAssumption DEF OmsType, OrderType, FillType
    <3>2. \A d \in Intents : o.orders[d].filled \in Nat
      BY <1>0, MaxQtyAssumption DEF OmsType, OrderType
    <3> QED
      BY <2>2, <2>4, <3>1, <3>2 DEF Later, OnlyRow
  <2>10. \A d \in Intents : RowOk(o2.orders[d], o2.seen, d)
    BY <2>4, <2>5, <2>6
  <2>11. OmsPart(i2, o2)
    BY <2>3, <2>4, <2>7, <2>8, <2>10 DEF OmsPart
  <2> QED
    BY <2>4, <2>9, <2>11
<1> QED
  BY <1>1, <1>2

(* Whether the broker's id is known does not matter.                       *)
LEMMA AgreePart ==
    ASSUME NEW i, NEW x, OmsPart(i, x), NEW a \in OmsType, Agree(a, x)
    PROVE  OmsPart(i, a)
<1>0. x \in OmsType /\ i \in OmsType /\ Agree(i, x) /\ SeenMade(x.seen)
      /\ x.position = Held + Traded(x.orders, Buys) - Traded(x.orders, Sells)
      /\ \A c \in Intents : RowOk(x.orders[c], x.seen, c)
  BY DEF OmsPart
<1>1. /\ a.seen = x.seen /\ a.position = x.position
      /\ \A c \in Intents : /\ a.orders[c].status = x.orders[c].status
                            /\ a.orders[c].quantity = x.orders[c].quantity
                            /\ a.orders[c].filled = x.orders[c].filled
  BY DEF Agree
<1>2. Agree(i, a)
  BY <1>0, <1>1 DEF Agree
<1>3. \A c \in Intents : RowOk(a.orders[c], a.seen, c)
  BY <1>0, <1>1 DEF RowOk
<1>4. Traded(a.orders, Buys) = Traded(x.orders, Buys) /\ Traded(a.orders, Sells) = Traded(x.orders, Sells)
  <2>1. ASSUME NEW C
        PROVE  [c \in Intents |-> IF c \in C THEN a.orders[c].filled ELSE 0]
                 = [c \in Intents |-> IF c \in C THEN x.orders[c].filled ELSE 0]
    BY <1>1
  <2> QED
    BY <2>1 DEF Traded
<1> QED
  BY <1>0, <1>1, <1>2, <1>3, <1>4 DEF OmsPart

(* _adopt_fills books every trade of the venue that was not seen, as if    *)
(* each had been delivered.                                                *)
LEMMA AdoptStep ==
    ASSUME TypeOK, VenueInv, OmsPart(image, oms), NEW p \in OmsType, Agree(p, oms),
           NEW i2, i2 = StoreAdopted(image, oms, venue.fills),
           NEW a, a = AdoptFills(p, venue.fills)
    PROVE  /\ OmsPart(i2, a) /\ Later(oms, a)
           /\ \A f \in venue.fills : FillId(f) \in a.seen
<1> DEFINE M == Missing(oms, venue.fills)
           Good(S, z) == /\ OmsPart(z[1], z[2]) /\ Later(oms, z[2])
                         /\ \A f \in S : FillId(f) \in z[2].seen
           J == [S \in SUBSET M |-> {z \in OmsType \X OmsType : Good(S, z)}]
<1>0. /\ oms \in OmsType /\ image \in OmsType /\ M \subseteq venue.fills
      /\ venue.fills \subseteq FillType /\ IsFiniteSet(venue.fills)
  BY DEF OmsPart, Missing, TypeOK, VenueInv, VenueType
<1>1. EachFillKeeps(J, image, oms, M)
  <2>1. J \in [SUBSET M -> SUBSET (OmsType \X OmsType)]
    <3> HIDE DEF Good, M
    <3> QED
      OBVIOUS
  <2>2. <<image, oms>> \in J[{}]
    <3>1. Good({}, <<image, oms>>)
      BY <1>0, LaterSame
    <3> HIDE DEF Good, M
    <3> QED
      BY <1>0, <3>1
  <2>3. ASSUME NEW S \in SUBSET M, NEW z \in J[S] PROVE WellFilled(z[2].orders)
    <3>1. OmsPart(z[1], z[2])
      BY <2>3
    <3> QED
      BY <3>1, Fits
  <2>4. ASSUME NEW S \in SUBSET M, NEW f \in S, NEW z \in J[S \ {f}]
        PROVE  <<StoreOnFill(z[1], z[2], f), OnFill(z[2], f)>> \in J[S]
    <3> DEFINE u == StoreOnFill(z[1], z[2], f)
               w == OnFill(z[2], f)
    <3>1. z \in OmsType \X OmsType /\ Good(S \ {f}, z)
      <4> HIDE DEF Good, M
      <4>1. S \ {f} \in SUBSET M
        OBVIOUS
      <4> QED
        BY <2>4, <4>1
    <3>2. f \in venue.fills
      BY <1>0, <2>4
    <3>3. OmsPart(u, w) /\ Later(z[2], w) /\ FillId(f) \in w.seen
      <4> HIDE DEF u, w
      <4>1. OmsPart(z[1], z[2])
        BY <3>1
      <4> QED
        BY <3>2, <4>1, FillStep DEF u, w
    <3> HIDE DEF u, w
    <3>4. u \in OmsType /\ w \in OmsType
      BY <3>3 DEF OmsPart
    <3>5. Later(oms, w)
      <4>1. z[2] \in OmsType /\ Later(oms, z[2])
        BY <3>1
      <4> QED
        BY <1>0, <3>3, <3>4, <4>1, LaterChain
    <3>6. \A g \in S : FillId(g) \in w.seen
      <4>1. \A g \in S \ {f} : FillId(g) \in z[2].seen
        BY <3>1
      <4> QED
        BY <3>3, <4>1 DEF Later
    <3>7. Good(S, <<u, w>>)
      BY <3>3, <3>5, <3>6
    <3>8. <<u, w>> \in J[S]
      <4> HIDE DEF Good, M
      <4> QED
        BY <2>4, <3>4, <3>7
    <3> QED
      BY <3>8 DEF u, w
  <2> HIDE DEF J
  <2> QED
    BY <2>1, <2>2, <2>3, <2>4 DEF EachFillKeeps
<1>2. \E x \in OmsType : <<i2, x>> \in J[M] /\ a \in OmsType /\ Agree(a, x)
  <2> HIDE DEF J, M
  <2>1. M = Missing(oms, venue.fills)
    BY DEF M
  <2> QED
    BY <1>0, <1>1, <2>1, Adoption
<1>3. PICK x \in OmsType : <<i2, x>> \in J[M] /\ a \in OmsType /\ Agree(a, x)
  BY <1>2
<1>4. Good(M, <<i2, x>>)
  <2> HIDE DEF Good, M
  <2> QED
    BY <1>3
<1>5. OmsPart(i2, x) /\ Later(oms, x) /\ \A f \in M : FillId(f) \in x.seen
  BY <1>4
<1>6. OmsPart(i2, a)
  BY <1>3, <1>5, AgreePart
<1>7. Later(oms, a)
  BY <1>3, <1>5 DEF Later, Agree
<1>8. \A f \in venue.fills : FillId(f) \in a.seen
  BY <1>3, <1>5 DEF Agree, Missing, Later
<1> QED
  BY <1>6, <1>7, <1>8

-----------------------------------------------------------------------------
(* What a step has to show.                                                *)

(* The step is about order c: for the others nothing has changed.          *)
Others(c) ==
    \A d \in Intents : d # c =>
        /\ venue'.orders[d] = venue.orders[d] /\ FillsOf(d)' = FillsOf(d)
        /\ request'[d] = request[d] /\ call'[d] = call[d]
        /\ d \in Asked' => d \in Asked

LEMMA RowsStep ==
    ASSUME NEW i, NEW o, OmsPart(i, o), NEW c \in Intents, Others(c),
           oms' \in OmsType, image' \in OmsType, Agree(image, oms)',
           OnlyRow(o, oms', c), oms'.orders[c].filled = o.orders[c].filled,
           oms'.position = o.position, oms'.seen = o.seen,
           \A n \in Nat : <<c, n>> \in o.seen => n <= venue'.orders[c].fillCount,
           RowOk(oms.orders[c], oms.seen, c)'
    PROVE  OmsPart(image, oms)'
<1>0. o \in OmsType
  BY DEF OmsPart
<1>1. ASSUME NEW d \in Intents, d # c PROVE RowOk(oms.orders[d], oms.seen, d)'
  <2>1. oms'.orders[d] = o.orders[d] /\ RowOk(o.orders[d], o.seen, d)
    BY <1>1 DEF OmsPart, OnlyRow
  <2>2. SeenOf(oms.seen, d)' = SeenOf(o.seen, d)
    BY <1>1 DEF Others, SeenOf
  <2> QED
    BY <1>1, <2>1, <2>2 DEF RowOk, Others
<1>2. \A d \in Intents : RowOk(oms.orders[d], oms.seen, d)'
  BY <1>1
<1>3. SeenMade(oms.seen)'
  <2>1. \A d \in Intents : d # c => venue'.orders[d].fillCount = venue.orders[d].fillCount
    BY DEF Others
  <2> QED
    BY <2>1 DEF OmsPart, SeenMade
<1>4. (oms.position = Held + Traded(oms.orders, Buys) - Traded(oms.orders, Sells))'
  <2>1. \A C : Traded(oms'.orders, C) = Traded(o.orders, C)
    <3>1. ASSUME NEW C
          PROVE  [d \in Intents |-> IF d \in C THEN oms'.orders[d].filled ELSE 0]
                   = [d \in Intents |-> IF d \in C THEN o.orders[d].filled ELSE 0]
      BY DEF OnlyRow
    <3> QED
      BY <3>1 DEF Traded
  <2> QED
    BY <2>1 DEF OmsPart
<1> QED
  BY <1>2, <1>3, <1>4 DEF OmsPart

(* Nothing that the rows speak of has changed, but for the OMS itself.     *)
LEMMA SameWorld ==
    ASSUME OmsPart(image', oms'), venue' = venue, request' = request, call' = call,
           \A c \in Asked' : c \in Asked
    PROVE  OmsPart(image, oms)'
<1>1. ASSUME NEW d \in Intents PROVE RowOk(oms.orders[d], oms.seen, d)'
  <2>1. RowOk(oms'.orders[d], oms'.seen, d)
    BY DEF OmsPart
  <2>2. SeenOf(oms.seen, d)' = SeenOf(oms'.seen, d) /\ FillsOf(d)' = FillsOf(d)
    BY DEF SeenOf, FillsOf
  <2> QED
    BY <2>1, <2>2 DEF RowOk
<1> QED
  BY <1>1 DEF OmsPart, SeenMade

LEMMA VenueKept ==
    ASSUME VenueInv, venue' = venue, sent' = sent,
           \A c \in Intents : /\ request'[c] = "landed" <=> request[c] = "landed"
                              /\ request'[c] = "none" <=> call'[c] = "none"
                              /\ call[c] = "over" => call'[c] = "over",
           pass \subseteq Intents, pass' \subseteq pass, lookup' \subseteq lookup,
           \A l \in lookup : l.order \in Intents
    PROVE  VenueInv'
<1>1. \A c \in Intents : VenueRow(c)'
  <2>1. \A c \in Intents : FillsOf(c)' = FillsOf(c)
    BY DEF FillsOf
  <2> QED
    BY <2>1 DEF VenueInv, VenueRow
<1>2. \A u : Told(u)' <=> Told(u)
  BY DEF Told
<1>3. (\A c \in Asked : call[c] = "over")'
  BY DEF VenueInv, Asked
<1> QED
  BY <1>1, <1>2, <1>3 DEF VenueInv

(* One order of the venue has moved, from a status that was not final.     *)
LEMMA VenueStepKept ==
    ASSUME VenueInv, NEW c \in Intents, Others(c), VenueRow(c)', IsFiniteSet(venue'.fills),
           venue.orders[c].status \notin Terminal, venue'.orders[c].status # "NONE",
           \A u \in sent' : u \in sent \/ (u.status \notin DrivenByFills \cup {"NONE"} /\ Told(u)'),
           \A u \in sent : u.order \in Intents, \A l \in lookup : l.order \in Intents,
           UNCHANGED <<call, pass, lookup>>
    PROVE  VenueInv'
<1>1. ASSUME NEW d \in Intents, d # c PROVE VenueRow(d)'
  <2>1. VenueRow(d)
    BY DEF VenueInv
  <2> QED
    BY <1>1, <2>1 DEF VenueRow, Others
<1>2. \A u : u.order \in Intents /\ Told(u) => Told(u)'
  BY DEF Told, Others
<1>3. \A u \in sent' : u.status \notin DrivenByFills \cup {"NONE"} /\ Told(u)'
  BY <1>2 DEF VenueInv
<1>4. \A l \in lookup' : Told(l)' /\ l.order \notin pass' /\ \A m \in lookup' : m = l
  BY <1>2 DEF VenueInv
<1>5. \A d \in Asked' : call'[d] = "over"
  BY DEF VenueInv, Asked
<1>6. \A d \in Intents : VenueRow(d)'
  BY <1>1
<1> QED
  BY <1>3, <1>4, <1>5, <1>6 DEF VenueInv

(* What an order claims: all of a request that is on its way, what is left *)
(* of an order that works, and what has been traded.                       *)
Owes(q, req, v) ==
    (IF req = "flying" THEN q ELSE IF v.status \in Live THEN Remaining(v) ELSE 0) + v.filled

ClaimsAre == \A c \in Intents : Claim(c) = Owes(oms.orders[c].quantity, request[c], venue.orders[c])
ClaimsTyped == \A c \in Intents : Claim(c) \in 0 .. MaxQty

LEMMA ClaimIs == VenueInv => ClaimsAre
<1> SUFFICES ASSUME VenueInv, NEW c \in Intents
             PROVE  Claim(c) = Owes(oms.orders[c].quantity, request[c], venue.orders[c])
  BY DEF ClaimsAre
<1>1. request[c] = "flying" => venue.orders[c].status \notin Live
  BY DEF VenueInv, VenueRow, Live
<1>2. CASE request[c] = "flying"
  BY <1>1, <1>2 DEF Tradable, Claim, Owes
<1>3. CASE request[c] # "flying" /\ venue.orders[c].status \in Live
  BY <1>3 DEF Tradable, Claim, Owes
<1>4. CASE request[c] # "flying" /\ venue.orders[c].status \notin Live
  BY <1>4 DEF Tradable, Claim, Owes
<1> QED
  BY <1>2, <1>3, <1>4

LEMMA ClaimType == TypeOK /\ VenueInv => ClaimsTyped
<1> SUFFICES ASSUME TypeOK, VenueInv, NEW c \in Intents PROVE Claim(c) \in 0 .. MaxQty
  BY DEF ClaimsTyped
<1> DEFINE v == venue.orders[c]
           q == oms.orders[c].quantity
<1>1. /\ v.quantity \in 0 .. MaxQty /\ v.filled \in 0 .. MaxQty /\ q \in 0 .. MaxQty
  BY DEF TypeOK, VenueType, OmsType, OrderType
<1>2. v.filled <= v.quantity /\ (request[c] = "flying" => v.filled = 0)
  BY DEF VenueInv, VenueRow, Absent
<1>3. Claim(c) = Owes(q, request[c], v)
  BY ClaimIs DEF ClaimsAre
<1> HIDE DEF v, q
<1> QED
  BY <1>1, <1>2, <1>3, MaxQtyAssumption DEF Remaining, Owes

(* No sell claims more, and no buy has been unbooked.                      *)
LEMMA CoverKept ==
    ASSUME CoverInv, ClaimsTyped, ClaimsTyped', oms \in OmsType, oms' \in OmsType,
           \A c \in Sells : Claim(c)' <= Claim(c),
           \A c \in Intents : oms.orders[c].filled <= oms'.orders[c].filled
    PROVE  CoverInv'
<1> SUFFICES ASSUME InOrder PROVE Claims' <= Held + Traded(oms'.orders, Buys)
  BY DEF CoverInv
<1> DEFINE f == [c \in Intents |-> IF c \in Sells THEN Claim(c) ELSE 0]
           g == [c \in Intents |-> IF c \in Sells THEN Claim(c)' ELSE 0]
<1>1. f \in Counts /\ g \in Counts /\ \A c \in Intents : g[c] <= f[c]
  BY MaxQtyAssumption DEF Counts, ClaimsTyped
<1>2. Claims = Shares(f) /\ Claims' = Shares(g)
  BY DEF Claims
<1> HIDE DEF f, g
<1>3. Claims' <= Claims /\ Claims \in Nat /\ Claims' \in Nat
  BY <1>1, <1>2, SharesMono, SharesNat
<1>4. /\ Traded(oms.orders, Buys) <= Traded(oms'.orders, Buys)
      /\ Traded(oms.orders, Buys) \in Nat /\ Traded(oms'.orders, Buys) \in Nat
  <2>1. \A c \in Intents : /\ oms.orders[c].filled \in 0 .. MaxQty
                           /\ oms'.orders[c].filled \in 0 .. MaxQty
    BY DEF OmsType, OrderType
  <2> QED
    BY <2>1, TradedMono
<1> QED
  BY <1>3, <1>4, OmsAdapterAssumption DEF CoverInv

LEMMA CoverStep ==
    ASSUME AdapterInv, TypeOK', VenueInv',
           \A c \in Intents : oms.orders[c].filled <= oms'.orders[c].filled,
           \A c \in Sells : Owes(oms'.orders[c].quantity, request'[c], venue'.orders[c])
                              <= Owes(oms.orders[c].quantity, request[c], venue.orders[c])
    PROVE  CoverInv'
<1>1. ClaimsTyped /\ ClaimsTyped'
  <2>1. (TypeOK /\ VenueInv)' => ClaimsTyped'
    BY ClaimType, PTL
  <2> QED
    BY <2>1, ClaimType DEF AdapterInv
<1>2. ClaimsAre /\ ClaimsAre'
  <2>1. VenueInv' => ClaimsAre'
    BY ClaimIs, PTL
  <2> QED
    BY <2>1, ClaimIs DEF AdapterInv
<1>3. oms \in OmsType /\ oms' \in OmsType /\ CoverInv
  BY DEF AdapterInv, TypeOK
<1>4. \A c \in Sells : Claim(c)' <= Claim(c)
  BY <1>2 DEF ClaimsAre, Sells
<1> QED
  BY <1>1, <1>3, <1>4, CoverKept

(* The venue has not moved, and a request can only have got lost.          *)
LEMMA QuietCover ==
    ASSUME AdapterInv, TypeOK', VenueInv', venue' = venue,
           \A c \in Intents : /\ oms.orders[c].filled <= oms'.orders[c].filled
                              /\ oms'.orders[c].quantity = oms.orders[c].quantity
                              /\ request'[c] = request[c] \/ request'[c] = "lost"
    PROVE  CoverInv'
<1>1. \A c \in Intents : Owes(oms'.orders[c].quantity, request'[c], venue'.orders[c])
                              <= Owes(oms.orders[c].quantity, request[c], venue.orders[c])
  <2> SUFFICES ASSUME NEW c \in Intents
               PROVE  Owes(oms'.orders[c].quantity, request'[c], venue'.orders[c])
                              <= Owes(oms.orders[c].quantity, request[c], venue.orders[c])
    OBVIOUS
  <2> DEFINE v == venue.orders[c]
             q == oms.orders[c].quantity
  <2>1. v.quantity \in Nat /\ v.filled \in Nat /\ q \in Nat
    BY MaxQtyAssumption DEF AdapterInv, TypeOK, VenueType, OmsType, OrderType
  <2>2. request[c] = "flying" => v.status \notin Live
    BY DEF AdapterInv, VenueInv, VenueRow, Live
  <2>3. oms'.orders[c].quantity = q /\ venue'.orders[c] = v
        /\ (request'[c] = request[c] \/ request'[c] = "lost")
    OBVIOUS
  <2> HIDE DEF v, q
  <2>4. Owes(q, request'[c], v) <= Owes(q, request[c], v)
    BY <2>1, <2>2, <2>3 DEF Owes, Remaining
  <2> QED
    BY <2>3, <2>4 DEF v, q
<1> QED
  BY <1>1, CoverStep DEF Sells

(* Once its call is over, an order that has ended stays as it ended.       *)
Final ==
    \A c \in Intents : call[c] = "over" /\ oms.orders[c].status \in Terminal
                       => oms'.orders[c].status = oms.orders[c].status

(* Only the status of one order of the OMS has moved, where its request    *)
(* and its call may have come to an end.                                   *)
LEMMA StatusStep ==
    ASSUME AdapterInv, NEW c \in Intents, venue' = venue, sent' = sent,
           \/ request' = request
           \/ request[c] = "flying" /\ request' = [request EXCEPT ![c] = "lost"],
           \/ call' = call
           \/ call[c] = "waiting" /\ call' = [call EXCEPT ![c] = "over"],
           pass' \subseteq pass, lookup' \subseteq lookup, checks' \in [Intents -> 0 .. 2],
           oms' \in OmsType, image' \in OmsType, Agree(image, oms)', OnlyRow(oms, oms', c),
           oms'.orders[c].quantity = oms.orders[c].quantity,
           oms'.orders[c].filled = oms.orders[c].filled,
           oms'.position = oms.position, oms'.seen = oms.seen,
           RowOk(oms.orders[c], oms.seen, c)'
    PROVE  AdapterInv'
<1>0. /\ TypeOK /\ VenueInv /\ OmsPart(image, oms)
      /\ request \in [Intents -> {"none", "flying", "landed", "lost"}]
      /\ call \in [Intents -> {"none", "waiting", "over"}]
  BY DEF AdapterInv, TypeOK
<1>1. TypeOK'
  BY <1>0 DEF TypeOK
<1>2. VenueInv'
  <2>1. \A d \in Intents : (request[d] = "none" <=> call[d] = "none")
    BY <1>0 DEF VenueInv, VenueRow
  <2>2. \A d \in Intents : /\ request'[d] = "landed" <=> request[d] = "landed"
                           /\ request'[d] = "none" <=> call'[d] = "none"
                           /\ call[d] = "over" => call'[d] = "over"
    BY <1>0, <2>1
  <2>3. pass \subseteq Intents /\ \A l \in lookup : l.order \in Intents
    BY <1>0 DEF TypeOK
  <2> QED
    BY <1>0, <2>2, <2>3, VenueKept
<1>3. OmsPart(image, oms)'
  <2>1. Others(c)
    BY <1>0 DEF Others, FillsOf, Asked
  <2>2. \A n \in Nat : <<c, n>> \in oms.seen => n <= venue'.orders[c].fillCount
    BY <1>0 DEF OmsPart, SeenMade
  <2> QED
    BY <1>0, <2>1, <2>2, RowsStep
<1>4. CoverInv'
  <2>1. \A d \in Intents : /\ oms.orders[d].filled <= oms'.orders[d].filled
                           /\ oms'.orders[d].quantity = oms.orders[d].quantity
    <3>1. \A d \in Intents : oms.orders[d].filled \in Int
      BY <1>0, MaxQtyAssumption DEF TypeOK, OmsType, OrderType
    <3> QED
      BY <3>1 DEF OnlyRow
  <2>2. \A d \in Intents : request'[d] = request[d] \/ request'[d] = "lost"
    BY <1>0
  <2> QED
    BY <1>1, <1>2, <2>1, <2>2, QuietCover
<1> QED
  BY <1>1, <1>2, <1>3, <1>4 DEF AdapterInv

(* What the new status s of the order has to be compatible with.           *)
LEMMA RowMoves ==
    ASSUME AdapterInv, NEW c \in Intents, venue' = venue, oms'.seen = oms.seen,
           oms'.orders[c].quantity = oms.orders[c].quantity,
           oms'.orders[c].filled = oms.orders[c].filled,
           NEW s, s = oms'.orders[c].status,
           oms.orders[c].status # "NONE", s # "NONE", request'[c] # "none",
           request'[c] = "landed" => request[c] = "landed",
           s = "UNKNOWN" => call'[c] = "over",
           c \in Asked' /\ request'[c] # "landed" => s = "UNKNOWN",
           InOrder /\ s \in Terminal => /\ FillsOf(c) = SeenOf(oms.seen, c)
                                        /\ request'[c] # "flying"
                                        /\ venue.orders[c].status \notin Live
    PROVE  RowOk(oms.orders[c], oms.seen, c)'
<1>1. RowOk(oms.orders[c], oms.seen, c)
  BY DEF AdapterInv, OmsPart
<1>2. FillsOf(c)' = FillsOf(c) /\ SeenOf(oms.seen, c)' = SeenOf(oms.seen, c)
  BY DEF FillsOf, SeenOf
<1> QED
  BY <1>1, <1>2 DEF RowOk

(* The state of an order that the rows of the invariant speak of.          *)
LEMMA RowFacts ==
    ASSUME AdapterInv, NEW c \in Intents
    PROVE  /\ RowOk(oms.orders[c], oms.seen, c) /\ VenueRow(c)
           /\ oms \in OmsType /\ image \in OmsType /\ Agree(image, oms) /\ WellFilled(oms.orders)
           /\ oms.orders[c] \in OrderType /\ image.orders[c] \in OrderType
           /\ oms.orders[c].filled <= oms.orders[c].quantity
<1>1. OmsPart(image, oms) /\ TypeOK /\ VenueInv
  BY DEF AdapterInv
<1>2. WellFilled(oms.orders)
  BY <1>1, Fits
<1> QED
  BY <1>1, <1>2 DEF OmsPart, VenueInv, OmsType, WellFilled

(* An order that never reached the venue has no trades there.              *)
LEMMA NoTrades ==
    ASSUME AdapterInv, NEW c \in Intents, request[c] # "landed"
    PROVE  /\ FillsOf(c) = {} /\ FillsOf(c) = SeenOf(oms.seen, c)
           /\ venue.orders[c] = Absent
<1>1. venue.orders[c] = Absent /\ Size(FillsOf(c)) = 0
  BY DEF AdapterInv, VenueInv, VenueRow, Absent
<1>2. FillsOf(c) \subseteq FillType /\ IsFiniteSet(FillsOf(c))
  BY FS_Subset DEF AdapterInv, VenueInv, TypeOK, VenueType, FillsOf
<1>3. FillsOf(c) = {}
  <2>1. {} \subseteq FillsOf(c) /\ Size({}) = 0
    BY SizeEmpty
  <2> QED
    BY <1>1, <1>2, <2>1, SizeMono
<1> QED
  BY <1>1, <1>3 DEF SeenOf

(* Every step below keeps the invariant; the ones that move an order also  *)
(* keep what has ended as it is.                                           *)
LEMMA AckedKeeps ==
    ASSUME AdapterInv, NEW c \in Intents, Acked(c)
    PROVE  AdapterInv' /\ Final
<1> DEFINE st == IF c \in Stops THEN "TRIGGER_PENDING" ELSE "OPEN"
           r0 == [oms.orders[c] EXCEPT !.atBroker = TRUE]
           r == Advance(r0, st)
           q == AckedOrder(image.orders[c], r.status)
<1>0. /\ RowOk(oms.orders[c], oms.seen, c) /\ VenueRow(c)
      /\ oms \in OmsType /\ image \in OmsType /\ Agree(image, oms) /\ WellFilled(oms.orders)
      /\ oms.orders[c] \in OrderType /\ image.orders[c] \in OrderType
      /\ oms.orders[c].filled <= oms.orders[c].quantity
      /\ checks \in [Intents -> 0 .. 2] /\ call \in [Intents -> {"none", "waiting", "over"}]
  BY RowFacts DEF AdapterInv, TypeOK
<1>1. /\ request[c] = "landed" /\ call[c] = "waiting" /\ call' = [call EXCEPT ![c] = "over"]
      /\ venue' = venue /\ sent' = sent /\ pass' = pass /\ lookup' = lookup
      /\ request' = request /\ checks' = checks
  BY DEF Acked, Returns, venueVars, resolveVars
<1>2. Asked' = Asked /\ call'[c] = "over"
  BY <1>0, <1>1 DEF Asked
<1>3. CASE oms.orders[c].status = "SUBMITTED"
  <2>1. /\ r0 \in OrderType /\ r0.status = "SUBMITTED" /\ r0.filled = oms.orders[c].filled
        /\ r0.quantity = oms.orders[c].quantity /\ st \in Status
    BY <1>0, <1>3 DEF OrderType, Status, Live
  <2> HIDE DEF r0
  <2>2. /\ r \in OrderType /\ r.status = st /\ r.filled = r0.filled /\ r.quantity = r0.quantity
    <3>1. Advances("SUBMITTED", st)
      BY DEF Advances, NextStatus, Status
    <3> QED
      BY <2>1, <3>1, AdvanceType
  <2> HIDE DEF r
  <2>3. /\ image.orders[c].status = "SUBMITTED"
        /\ image.orders[c].quantity = oms.orders[c].quantity
        /\ image.orders[c].filled = oms.orders[c].filled
    BY <1>0, <1>3 DEF Agree
  <2>4. q \in OrderType /\ q.status = r.status /\ q.quantity = r.quantity /\ q.filled = r.filled
    BY <1>0, <2>1, <2>2, <2>3 DEF AckedOrder, OrderType, Terminal
  <2>5. oms' = [oms EXCEPT !.orders[c] = r] /\ image' = [image EXCEPT !.orders[c] = q]
    BY <1>3 DEF Acked, StoreAcked, r, r0
  <2> HIDE DEF q, st
  <2>6. oms' \in OmsType /\ image' \in OmsType
    BY <1>0, <2>2, <2>4, <2>5, SetOrder
  <2>7. Agree(image', oms')
    BY <1>0, <2>1, <2>2, <2>4, <2>5, SetBoth
  <2>8. /\ OnlyRow(oms, oms', c) /\ oms'.orders[c] = r /\ oms'.position = oms.position
        /\ oms'.seen = oms.seen
    BY <1>0, <2>2, <2>5, OmsRow
  <2>9. r.status \in {"OPEN", "TRIGGER_PENDING"}
    BY <2>2 DEF st
  <2>10. RowOk(oms.orders[c], oms.seen, c)'
    BY <1>1, <1>3, <2>1, <2>2, <2>8, <2>9, RowMoves DEF Terminal
  <2>11. AdapterInv'
    BY <1>0, <1>1, <2>1, <2>2, <2>6, <2>7, <2>8, <2>10, StatusStep
  <2>12. Final
    BY <1>1, <2>8 DEF Final, OnlyRow
  <2> QED
    BY <2>11, <2>12
<1>4. CASE oms.orders[c].status # "SUBMITTED"
  <2>1. oms' = oms /\ image' = image
    BY <1>4 DEF Acked
  <2>2. RowOk(oms.orders[c], oms.seen, c)'
    BY <1>0, <1>1, <1>2, <2>1 DEF RowOk, SeenOf, FillsOf
  <2>3. AdapterInv'
    BY <1>0, <1>1, <2>1, <2>2, StatusStep DEF OnlyRow
  <2> QED
    BY <2>1, <2>3 DEF Final
<1> QED
  BY <1>3, <1>4

(* _submit's and resolve_unknown's status sets.                            *)
LEMMA SetKeeps ==
    ASSUME AdapterInv, NEW c \in Intents, NEW s \in Status, s # "NONE",
           oms' = SetStatus(oms, c, s), image' = StoreStatus(image, c, s),
           venue' = venue, sent' = sent, checks' \in [Intents -> 0 .. 2],
           \/ request' = request
           \/ request[c] = "flying" /\ request' = [request EXCEPT ![c] = "lost"],
           \/ call' = call
           \/ call[c] = "waiting" /\ call' = [call EXCEPT ![c] = "over"],
           pass' \subseteq pass, lookup' \subseteq lookup,
           request[c] # "none",
           s = "UNKNOWN" => call'[c] = "over",
           c \in Asked' /\ request'[c] # "landed" => s = "UNKNOWN",
           s \in Terminal => request[c] # "landed" /\ request'[c] # "flying",
           call[c] = "over" => oms.orders[c].status \notin Terminal
    PROVE  AdapterInv' /\ Final
<1>0. /\ RowOk(oms.orders[c], oms.seen, c)
      /\ oms \in OmsType /\ image \in OmsType /\ Agree(image, oms) /\ WellFilled(oms.orders)
      /\ request \in [Intents -> {"none", "flying", "landed", "lost"}]
  BY RowFacts DEF AdapterInv, TypeOK
<1>1. oms' \in OmsType /\ image' \in OmsType /\ Agree(image', oms')
  BY <1>0, SetStatusBoth
<1>2. /\ OnlyRow(oms, oms', c) /\ oms'.orders[c].status = s
      /\ oms'.orders[c].quantity = oms.orders[c].quantity
      /\ oms'.orders[c].filled = oms.orders[c].filled
      /\ oms'.position = oms.position /\ oms'.seen = oms.seen
  BY <1>0, SetStatusRow
<1>3. /\ oms.orders[c].status # "NONE" /\ request'[c] # "none"
      /\ request'[c] = "landed" => request[c] = "landed"
  BY <1>0 DEF RowOk
<1>4. s \in Terminal => FillsOf(c) = SeenOf(oms.seen, c) /\ venue.orders[c].status \notin Live
  BY NoTrades DEF Absent, Live
<1>5. RowOk(oms.orders[c], oms.seen, c)'
  BY <1>2, <1>3, <1>4, RowMoves
<1>6. AdapterInv'
  BY <1>1, <1>2, <1>5, StatusStep
<1>7. Final
  BY <1>2 DEF Final, OnlyRow
<1> QED
  BY <1>6, <1>7

LEMMA RefusedKeeps ==
    ASSUME AdapterInv, NEW c \in Intents, Refused(c)
    PROVE  AdapterInv' /\ Final
<1>1. /\ request[c] = "flying" /\ request' = [request EXCEPT ![c] = "lost"]
      /\ call[c] = "waiting" /\ call' = [call EXCEPT ![c] = "over"]
      /\ venue' = venue /\ sent' = sent /\ pass' = pass /\ lookup' = lookup /\ checks' = checks
      /\ oms' = SetStatus(oms, c, "REJECTED") /\ image' = StoreStatus(image, c, "REJECTED")
  BY DEF Refused, Returns, venueVars, resolveVars
<1>2. checks \in [Intents -> 0 .. 2] /\ request \in [Intents -> {"none", "flying", "landed", "lost"}]
      /\ "REJECTED" \in Status
  BY DEF AdapterInv, TypeOK, Status, Terminal
<1>3. c \notin Asked'
  BY <1>1 DEF AdapterInv, VenueInv, Asked
<1>4. request'[c] = "lost"
  BY <1>1, <1>2
<1> QED
  BY <1>1, <1>2, <1>3, <1>4, SetKeeps

LEMMA TimesOutKeeps ==
    ASSUME AdapterInv, NEW c \in Intents, TimesOut(c)
    PROVE  AdapterInv' /\ Final
<1>1. /\ call[c] = "waiting" /\ call' = [call EXCEPT ![c] = "over"] /\ request' = request
      /\ venue' = venue /\ sent' = sent /\ pass' = pass /\ lookup' = lookup
      /\ checks' = [checks EXCEPT ![c] = 0]
      /\ oms' = SetStatus(oms, c, "UNKNOWN") /\ image' = StoreStatus(image, c, "UNKNOWN")
  BY DEF TimesOut, Returns, venueVars, resolveVars
<1>2. checks' \in [Intents -> 0 .. 2] /\ call'[c] = "over" /\ "UNKNOWN" \in Status
  BY <1>1 DEF AdapterInv, TypeOK, Status
<1>3. request[c] # "none"
  BY <1>1 DEF AdapterInv, VenueInv, VenueRow
<1> QED
  BY <1>1, <1>2, <1>3, SetKeeps DEF Terminal

LEMMA NotFoundKeeps ==
    ASSUME AdapterInv, NEW c \in Intents, NEW timedOut \in BOOLEAN, NotFound(c, timedOut)
    PROVE  AdapterInv' /\ Final
<1> DEFINE n == AtMost(checks[c] + 1, 2)
<1>0. /\ checks \in [Intents -> 0 .. 2] /\ "REJECTED" \in Status
      /\ RowOk(oms.orders[c], oms.seen, c) /\ VenueRow(c)
      /\ oms \in OmsType /\ image \in OmsType /\ Agree(image, oms)
  BY RowFacts DEF AdapterInv, TypeOK, Status, Terminal
<1>1. n \in 0 .. 2
  <2>1. checks[c] \in 0 .. 2
    BY <1>0
  <2> QED
    BY <2>1 DEF AtMost
<1>2. /\ request' = request /\ call' = call /\ venue' = venue /\ sent' = sent
      /\ pass' = pass /\ lookup' = {} /\ [order |-> c, status |-> "NONE"] \in lookup
      /\ timedOut => request[c] = "lost"
  BY DEF NotFound, venueVars
<1>3. c \in Asked /\ c \notin Asked' /\ call[c] = "over" /\ \A d \in Asked' : d \in Asked
  BY <1>2 DEF AdapterInv, VenueInv, Asked
<1>4. CASE n = 2 /\ timedOut
  <2>1. /\ oms' = SetStatus(oms, c, "REJECTED") /\ image' = StoreStatus(image, c, "REJECTED")
        /\ checks' = [checks EXCEPT ![c] = 0]
    BY <1>4 DEF NotFound
  <2>2. checks' \in [Intents -> 0 .. 2] /\ request[c] = "lost"
    BY <1>0, <1>2, <1>4, <2>1
  <2>3. oms.orders[c].status = "UNKNOWN"
    BY <1>0, <1>3, <2>2 DEF RowOk
  <2> QED
    BY <1>0, <1>2, <1>3, <2>1, <2>2, <2>3, SetKeeps DEF Terminal
<1>5. CASE ~(n = 2 /\ timedOut)
  <2>1. oms' = oms /\ image' = image /\ checks' = [checks EXCEPT ![c] = n]
    BY <1>5 DEF NotFound
  <2>2. checks' \in [Intents -> 0 .. 2]
    BY <1>0, <1>1, <2>1
  <2>3. RowOk(oms.orders[c], oms.seen, c)'
    BY <1>0, <1>2, <1>3, <2>1 DEF RowOk, SeenOf, FillsOf
  <2>4. AdapterInv'
    BY <1>0, <1>2, <2>1, <2>2, <2>3, StatusStep DEF OnlyRow
  <2> QED
    BY <2>1, <2>4 DEF Final
<1> QED
  BY <1>4, <1>5

(* The OMS has learnt something, of one order or of many.                  *)
LEMMA LearntKeeps ==
    ASSUME AdapterInv, OmsPart(image, oms)', \A c \in Intents :
               /\ oms.orders[c].filled <= oms'.orders[c].filled
               /\ oms'.orders[c].quantity = oms.orders[c].quantity,
           checks' \in [Intents -> 0 .. 2], pass' \subseteq pass, lookup' \subseteq lookup,
           UNCHANGED <<venue, sent, request, call>>
    PROVE  AdapterInv'
<1>0. TypeOK /\ VenueInv
  BY DEF AdapterInv
<1>1. TypeOK'
  BY <1>0 DEF TypeOK, OmsPart
<1>2. VenueInv'
  <2>1. pass \subseteq Intents /\ \A l \in lookup : l.order \in Intents
    BY <1>0 DEF TypeOK
  <2>2. \A c \in Intents : request[c] = "none" <=> call[c] = "none"
    BY <1>0 DEF VenueInv, VenueRow
  <2> QED
    BY <1>0, <2>1, <2>2, VenueKept
<1>3. CoverInv'
  BY <1>1, <1>2, QuietCover
<1> QED
  BY <1>1, <1>2, <1>3 DEF AdapterInv

LEMMA LaterKeeps ==
    ASSUME AdapterInv, OmsPart(image', oms'), Later(oms, oms'), checks' = checks,
           UNCHANGED <<venue, sent, request, call, pass, lookup>>
    PROVE  AdapterInv' /\ (InOrder => Final)
<1>1. OmsPart(image, oms)'
  BY SameWorld DEF Asked
<1>2. checks \in [Intents -> 0 .. 2]
  BY DEF AdapterInv, TypeOK
<1>3. AdapterInv'
  BY <1>1, <1>2, LearntKeeps DEF Later
<1> QED
  BY <1>3 DEF Final, Later

LEMMA DeliverFillKeeps ==
    ASSUME AdapterInv, NEW f \in venue.fills, DeliverFill(f)
    PROVE  AdapterInv' /\ (InOrder => Final)
<1>1. /\ oms' = OnFill(oms, f) /\ image' = StoreOnFill(image, oms, f) /\ checks' = checks
      /\ UNCHANGED <<venue, sent, request, call, pass, lookup>>
  BY DEF DeliverFill, venueVars, resolveVars
<1>2. TypeOK /\ VenueInv /\ OmsPart(image, oms)
  BY DEF AdapterInv
<1>3. OmsPart(image', oms') /\ Later(oms, oms')
  BY <1>1, <1>2, FillStep
<1> QED
  BY <1>1, <1>3, LaterKeeps

LEMMA ReconcileKeeps ==
    ASSUME AdapterInv, Reconcile
    PROVE  AdapterInv' /\ (InOrder => Final)
<1>1. /\ oms' = AdoptFills(oms, venue.fills) /\ image' = StoreAdopted(image, oms, venue.fills)
      /\ checks' = checks /\ UNCHANGED <<venue, sent, request, call, pass, lookup>>
  BY DEF Reconcile, venueVars, resolveVars
<1>2. /\ TypeOK /\ VenueInv /\ OmsPart(image, oms)
      /\ oms \in OmsType /\ Agree(oms, oms)
  BY DEF AdapterInv, TypeOK, Agree
<1>3. OmsPart(image', oms') /\ Later(oms, oms')
  BY <1>1, <1>2, AdoptStep
<1> QED
  BY <1>1, <1>3, LaterKeeps

LEMMA DeliverUpdateKeeps ==
    ASSUME AdapterInv, NEW u \in sent, DeliverUpdate(u)
    PROVE  AdapterInv' /\ Final
<1> DEFINE c == u.order
           s == u.status
           r == oms.orders[c]
<1>1. /\ oms' = OnUpdate(oms, u) /\ image' = StoreUpdate(image, oms, u) /\ checks' = checks
      /\ UNCHANGED <<venue, sent, request, call, pass, lookup>>
      /\ InOrder /\ s \in Terminal => \A f \in venue.fills : f.order = c => FillId(f) \in oms.seen
  BY DEF DeliverUpdate, venueVars, resolveVars
<1>2. /\ c \in Intents /\ s \in VenueStatus /\ u = [order |-> c, status |-> s]
      /\ checks \in [Intents -> 0 .. 2]
  BY DEF AdapterInv, TypeOK
<1>3. s \notin DrivenByFills \cup {"NONE"} /\ Told(u)
  BY DEF AdapterInv, VenueInv
<1>4. s \in Status /\ s # "UNKNOWN"
  BY <1>2 DEF VenueStatus, Status, Live, Terminal
<1>5. /\ RowOk(r, oms.seen, c) /\ VenueRow(c)
      /\ oms \in OmsType /\ image \in OmsType /\ Agree(image, oms) /\ WellFilled(oms.orders)
      /\ r \in OrderType
  BY <1>2, RowFacts
<1>6. request[c] = "landed" /\ r.status # "NONE"
  BY <1>3, <1>5 DEF Told, VenueRow, RowOk
<1> HIDE DEF c, s, r
<1>7. oms' \in OmsType /\ image' \in OmsType /\ Agree(image', oms')
  BY <1>1, <1>2, <1>4, <1>5, UpdateBoth
<1>8. /\ OnlyRow(oms, oms', c)
      /\ oms'.orders[c].status = IF Advances(r.status, s) THEN s ELSE r.status
      /\ oms'.orders[c].quantity = r.quantity /\ oms'.orders[c].filled = r.filled
      /\ oms'.position = oms.position /\ oms'.seen = oms.seen
  BY <1>1, <1>2, <1>3, <1>4, <1>5, <1>6, UpdateRow DEF r
<1>9. s \in Terminal => venue.orders[c].status \notin Live
  BY <1>3 DEF Told, c, s, Terminal, Live
<1>10. InOrder /\ s \in Terminal => FillsOf(c) = SeenOf(oms.seen, c)
  BY <1>1 DEF FillsOf, SeenOf
<1> DEFINE t == oms'.orders[c].status
<1>11. /\ t # "NONE" /\ (t = "UNKNOWN" => call'[c] = "over")
       /\ InOrder /\ t \in Terminal => /\ FillsOf(c) = SeenOf(oms.seen, c)
                                       /\ venue.orders[c].status \notin Live
  BY <1>1, <1>3, <1>4, <1>5, <1>6, <1>8, <1>9, <1>10 DEF RowOk
<1>12. RowOk(oms.orders[c], oms.seen, c)'
  <2> HIDE DEF t
  <2>1. oms'.orders[c].status = t
    BY DEF t
  <2> QED
    BY <1>1, <1>2, <1>6, <1>8, <1>11, <2>1, RowMoves DEF r
<1>13. AdapterInv'
  BY <1>1, <1>2, <1>7, <1>8, <1>12, StatusStep DEF r
<1>14. Final
  <2>1. r.status \in Terminal => ~Advances(r.status, s)
    BY <1>4, TerminalStays
  <2> QED
    BY <1>8, <2>1 DEF Final, OnlyRow, r
<1> QED
  BY <1>13, <1>14

LEMMA FoundKeeps ==
    ASSUME AdapterInv, NEW c \in Intents, Found(c)
    PROVE  AdapterInv' /\ (InOrder => Final)
<1>1. PICK l \in lookup : /\ l.order = c /\ l.status # "NONE"
                          /\ oms' = ResolveFound(oms, c, l.status, venue.fills)
                          /\ image' = StoreResolved(image, oms, c, l.status, venue.fills)
  BY DEF Found
<1> DEFINE s == l.status
           found == [oms EXCEPT !.orders[c].atBroker = TRUE]
           a == AdoptFills(found, venue.fills)
           i == StoreAdopted(image, oms, venue.fills)
           r == IF a.orders[c].status \in Terminal \/ s \in DrivenByFills THEN a.orders[c]
                ELSE Advance(a.orders[c], s)
           q == AckedOrder(i.orders[c], r.status)
<1>2. /\ checks' = [checks EXCEPT ![c] = 0] /\ lookup' = {}
      /\ UNCHANGED <<venue, sent, request, call, pass>>
  BY DEF Found, venueVars
<1>3. /\ TypeOK /\ VenueInv /\ OmsPart(image, oms) /\ VenueRow(c)
      /\ oms \in OmsType /\ Agree(image, oms) /\ oms.orders[c] \in OrderType
  BY RowFacts DEF AdapterInv
<1>4. s \in VenueStatus /\ s # "NONE" /\ Told(l)
  BY <1>1, <1>3 DEF VenueInv, TypeOK
<1>5. s \in Status /\ s # "UNKNOWN"
  BY <1>4 DEF VenueStatus, Status, Live, Terminal
<1>6. request[c] = "landed" /\ (s \in Terminal => venue.orders[c].status \notin Live)
  BY <1>1, <1>3, <1>4 DEF Told, VenueRow, Terminal, Live
<1>7. found \in OmsType /\ Agree(found, oms)
  <2> DEFINE r0 == [oms.orders[c] EXCEPT !.atBroker = TRUE]
  <2>1. /\ r0 \in OrderType /\ r0.status = oms.orders[c].status
        /\ r0.quantity = oms.orders[c].quantity /\ r0.filled = oms.orders[c].filled
    BY <1>3 DEF OrderType
  <2>2. found = [oms EXCEPT !.orders[c] = r0]
    BY <1>3 DEF OmsType
  <2> HIDE DEF found, r0
  <2>3. /\ OnlyRow(oms, found, c) /\ found.orders[c] = r0 /\ found.position = oms.position
        /\ found.seen = oms.seen
    BY <1>3, <2>1, <2>2, OmsRow
  <2>4. found \in OmsType
    BY <1>3, <2>1, <2>2, SetOrder
  <2> QED
    BY <2>1, <2>3, <2>4 DEF Agree, OnlyRow
<1> HIDE DEF found
<1>8. /\ OmsPart(i, a) /\ Later(oms, a)
      /\ \A f \in venue.fills : FillId(f) \in a.seen
  <2> HIDE DEF a, i
  <2> QED
    BY <1>3, <1>7, AdoptStep DEF a, i
<1>9. oms' = IF a.orders[c].status \in Terminal \/ s \in DrivenByFills THEN a
             ELSE [a EXCEPT !.orders[c] = Advance(a.orders[c], s)]
  BY <1>1 DEF ResolveFound, found
<1>10. image' = StoreAcked(i, c, oms'.orders[c].status)
  BY <1>1 DEF StoreResolved
<1> HIDE DEF a, i, s
<1>11. /\ a \in OmsType /\ i \in OmsType /\ Agree(i, a) /\ RowOk(a.orders[c], a.seen, c)
       /\ WellFilled(a.orders) /\ SeenMade(a.seen)
       /\ a.orders[c] \in OrderType /\ i.orders[c] \in OrderType
       /\ a.orders[c].filled <= a.orders[c].quantity
  <2>1. WellFilled(a.orders)
    BY <1>3, <1>8, Fits
  <2> QED
    BY <1>8, <2>1 DEF OmsPart, OmsType, WellFilled
<1>12. /\ r \in OrderType /\ r.filled = a.orders[c].filled /\ r.quantity = a.orders[c].quantity
       /\ r.status = a.orders[c].status \/ (r.status = s /\ a.orders[c].status \notin Terminal)
  BY <1>5, <1>11, AdvanceType
<1>13. oms' = [a EXCEPT !.orders[c] = r]
  <2>1. [a EXCEPT !.orders[c] = a.orders[c]] = a
    BY <1>11, SetSame
  <2> QED
    BY <1>9, <2>1
<1> HIDE DEF r
<1>14. /\ OnlyRow(a, oms', c) /\ oms'.orders[c] = r /\ oms'.position = a.position
       /\ oms'.seen = a.seen
  BY <1>11, <1>12, <1>13, OmsRow
<1>15. image' = [i EXCEPT !.orders[c] = q]
  BY <1>10, <1>14 DEF StoreAcked
<1>16. q \in OrderType /\ q.status = r.status /\ q.quantity = r.quantity /\ q.filled = r.filled
  <2>1. /\ i.orders[c].status = a.orders[c].status
        /\ i.orders[c].quantity = a.orders[c].quantity
        /\ i.orders[c].filled = a.orders[c].filled
    BY <1>11 DEF Agree
  <2>2. r.status \in Status
    BY <1>12 DEF OrderType
  <2> QED
    BY <1>11, <1>12, <2>1, <2>2 DEF AckedOrder, OrderType
<1> HIDE DEF q
<1>17. oms' \in OmsType /\ image' \in OmsType
  BY <1>11, <1>12, <1>13, <1>15, <1>16, SetOrder
<1>18. Agree(image', oms')
  BY <1>11, <1>12, <1>13, <1>15, <1>16, SetBoth
<1>19. RowOk(oms.orders[c], oms.seen, c)'
  <2>1. SeenOf(oms.seen, c)' = SeenOf(a.seen, c) /\ FillsOf(c)' = FillsOf(c)
    BY <1>2, <1>14 DEF SeenOf, FillsOf
  <2>2. FillsOf(c) = SeenOf(a.seen, c)
    BY <1>8 DEF FillsOf, SeenOf
  <2>3. RowOk(a.orders[c], a.seen, c)
    BY <1>11
  <2> QED
    BY <1>2, <1>4, <1>5, <1>6, <1>12, <1>14, <2>1, <2>2, <2>3 DEF RowOk
<1>20. OmsPart(image, oms)'
  <2>1. Others(c)
    BY <1>2 DEF Others, FillsOf, Asked
  <2>2. \A n \in Nat : <<c, n>> \in a.seen => n <= venue'.orders[c].fillCount
    BY <1>2, <1>11 DEF SeenMade
  <2> QED
    BY <1>8, <1>12, <1>14, <1>17, <1>18, <1>19, <2>1, <2>2, RowsStep
<1>21. \A d \in Intents : /\ oms.orders[d].filled <= oms'.orders[d].filled
                          /\ oms'.orders[d].quantity = oms.orders[d].quantity
  BY <1>8, <1>12, <1>14 DEF Later, OnlyRow
<1>22. AdapterInv'
  <2>1. checks' \in [Intents -> 0 .. 2]
    BY <1>2, <1>3 DEF TypeOK
  <2> QED
    BY <1>2, <1>20, <1>21, <2>1, LearntKeeps
<1>23. InOrder => Final
  BY <1>8, <1>12, <1>14 DEF Later, OnlyRow, Final
<1> QED
  BY <1>22, <1>23

LEMMA LookupKeeps ==
    ASSUME AdapterInv, NEW c \in Intents, Lookup(c)
    PROVE  AdapterInv' /\ Final
<1>1. /\ c \in pass /\ lookup = {} /\ pass' = pass \ {c}
      /\ lookup' = {[order |-> c, status |-> venue.orders[c].status]}
      /\ UNCHANGED <<oms, checks, image, venue, sent, request, call>>
  BY DEF Lookup, omsVars, venueVars
<1>2. TypeOK /\ VenueInv /\ OmsPart(image, oms) /\ CoverInv
  BY DEF AdapterInv
<1>3. TypeOK'
  <2>1. venue.orders[c].status \in VenueStatus
    BY <1>2 DEF TypeOK, VenueType
  <2> QED
    BY <1>1, <1>2, <2>1 DEF TypeOK
<1>4. \A d \in Asked' : d \in Asked
  BY <1>1 DEF Asked
<1>5. VenueInv'
  <2>1. \A d \in Intents : VenueRow(d)'
    BY <1>1, <1>2 DEF VenueInv, VenueRow, FillsOf
  <2>2. \A u : Told(u)' <=> Told(u)
    BY <1>1 DEF Told
  <2>3. \A l \in lookup' : Told(l)' /\ l.order \notin pass' /\ \A m \in lookup' : m = l
    BY <1>1 DEF Told
  <2>4. \A d \in Asked' : call'[d] = "over"
    BY <1>1, <1>2, <1>4 DEF VenueInv
  <2> QED
    BY <1>1, <1>2, <2>1, <2>2, <2>3, <2>4 DEF VenueInv
<1>6. OmsPart(image, oms)'
  BY <1>1, <1>2, <1>4, SameWorld
<1>7. CoverInv'
  <2>1. \A d \in Intents : oms.orders[d].filled <= oms.orders[d].filled
    BY <1>2, MaxQtyAssumption DEF TypeOK, OmsType, OrderType
  <2> QED
    BY <1>1, <1>3, <1>5, <2>1, QuietCover
<1> QED
  BY <1>1, <1>3, <1>5, <1>6, <1>7 DEF AdapterInv, Final

LEMMA ResolveStartsKeeps ==
    ASSUME AdapterInv, ResolveStarts
    PROVE  AdapterInv' /\ Final
<1>1. /\ pass = {} /\ lookup = {} /\ pass' = {c \in Intents : oms.orders[c].status = "UNKNOWN"}
      /\ UNCHANGED <<oms, checks, image, venue, sent, request, call, lookup>>
  BY DEF ResolveStarts, omsVars, venueVars
<1>2. TypeOK /\ VenueInv /\ OmsPart(image, oms) /\ CoverInv
  BY DEF AdapterInv
<1>3. TypeOK'
  BY <1>1, <1>2 DEF TypeOK
<1>4. \A d \in Asked' : d \in Intents /\ oms.orders[d].status = "UNKNOWN"
  BY <1>1 DEF Asked
<1>5. VenueInv'
  <2>1. \A d \in Intents : VenueRow(d)'
    BY <1>1, <1>2 DEF VenueInv, VenueRow, FillsOf
  <2>2. \A u : Told(u)' <=> Told(u)
    BY <1>1 DEF Told
  <2>3. \A d \in Asked' : call'[d] = "over"
    BY <1>1, <1>2, <1>4 DEF OmsPart, RowOk
  <2> QED
    BY <1>1, <1>2, <2>1, <2>2, <2>3 DEF VenueInv
<1>6. OmsPart(image, oms)'
  <2>1. ASSUME NEW d \in Intents PROVE RowOk(oms.orders[d], oms.seen, d)'
    <3>1. RowOk(oms.orders[d], oms.seen, d)
      BY <1>2 DEF OmsPart
    <3>2. SeenOf(oms.seen, d)' = SeenOf(oms.seen, d) /\ FillsOf(d)' = FillsOf(d)
      BY <1>1 DEF SeenOf, FillsOf
    <3> QED
      BY <1>1, <1>4, <3>1, <3>2 DEF RowOk
  <2> QED
    BY <1>1, <1>2, <2>1 DEF OmsPart, SeenMade
<1>7. CoverInv'
  <2>1. \A d \in Intents : oms.orders[d].filled <= oms.orders[d].filled
    BY <1>2, MaxQtyAssumption DEF TypeOK, OmsType, OrderType
  <2> QED
    BY <1>1, <1>3, <1>5, <2>1, QuietCover
<1> QED
  BY <1>1, <1>3, <1>5, <1>6, <1>7 DEF AdapterInv, Final

(* The venue has moved one order.                                          *)
LEMMA VenueMoves ==
    ASSUME AdapterInv, NEW c \in Intents, TypeOK', VenueInv', Others(c),
           UNCHANGED <<oms, image>>,
           \A n \in Nat : <<c, n>> \in oms.seen => n <= venue'.orders[c].fillCount,
           RowOk(oms.orders[c], oms.seen, c)',
           Owes(oms.orders[c].quantity, request'[c], venue'.orders[c])
               <= Owes(oms.orders[c].quantity, request[c], venue.orders[c])
    PROVE  AdapterInv'
<1>0. OmsPart(image, oms) /\ oms \in OmsType /\ image \in OmsType
  BY DEF AdapterInv, TypeOK
<1>1. OmsPart(image, oms)'
  <2>1. Agree(image, oms)' /\ OnlyRow(oms, oms', c)
    BY <1>0 DEF OmsPart, OnlyRow, Agree
  <2> QED
    BY <1>0, <2>1, RowsStep
<1>2. CoverInv'
  <2>1. \A d \in Intents : oms.orders[d].filled <= oms'.orders[d].filled
    BY <1>0, MaxQtyAssumption DEF OmsType, OrderType
  <2>2. ClaimsTyped /\ ClaimsAre
    BY ClaimType, ClaimIs DEF AdapterInv
  <2>3. \A d \in Intents : Owes(oms'.orders[d].quantity, request'[d], venue'.orders[d])
                              <= Owes(oms.orders[d].quantity, request[d], venue.orders[d])
    <3> SUFFICES ASSUME NEW d \in Intents, d # c
                 PROVE  Owes(oms'.orders[d].quantity, request'[d], venue'.orders[d])
                              <= Owes(oms.orders[d].quantity, request[d], venue.orders[d])
      OBVIOUS
    <3>1. Owes(oms.orders[d].quantity, request[d], venue.orders[d]) \in 0 .. MaxQty
      BY <2>2 DEF ClaimsTyped, ClaimsAre
    <3>2. oms'.orders[d].quantity = oms.orders[d].quantity /\ request'[d] = request[d]
          /\ venue'.orders[d] = venue.orders[d]
      BY DEF Others
    <3> QED
      BY <3>1, <3>2, MaxQtyAssumption
  <2> QED
    BY <2>1, <2>3, CoverStep DEF Sells
<1> QED
  BY <1>1, <1>2 DEF AdapterInv

VenueOrder == [status : VenueStatus, quantity : 0 .. MaxQty, filled : 0 .. MaxQty,
               fillCount : 0 .. MaxQty]

(* What each of these lemmas starts from.                                  *)
LEMMA VenueFacts ==
    ASSUME AdapterInv, NEW c \in Intents
    PROVE  /\ TypeOK /\ VenueInv /\ VenueRow(c) /\ RowOk(oms.orders[c], oms.seen, c)
           /\ venue.orders[c] \in VenueOrder
           /\ oms.orders[c].quantity \in Nat
           /\ \A n \in Nat : <<c, n>> \in oms.seen => n <= venue.orders[c].fillCount
           /\ \A u \in sent : u.order \in Intents
           /\ \A l \in lookup : l.order \in Intents
BY MaxQtyAssumption DEF AdapterInv, TypeOK, VenueInv, OmsPart, VenueType, VenueOrder, SeenMade,
                            OmsType, OrderType

LEMMA VenueSet ==
    ASSUME venue \in VenueType, NEW c \in Intents, NEW v \in VenueOrder, NEW F, F \subseteq FillType,
           venue' = [venue EXCEPT !.orders[c] = v, !.fills = F]
    PROVE  /\ venue' \in VenueType /\ venue'.orders[c] = v /\ venue'.fills = F
           /\ \A d \in Intents : d # c => venue'.orders[d] = venue.orders[d]
BY DEF VenueType, VenueOrder

LEMMA VenueSetOrder ==
    ASSUME venue \in VenueType, NEW c \in Intents, NEW v \in VenueOrder,
           venue' = [venue EXCEPT !.orders[c] = v]
    PROVE  /\ venue' \in VenueType /\ venue'.orders[c] = v /\ venue'.fills = venue.fills
           /\ \A d \in Intents : d # c => venue'.orders[d] = venue.orders[d]
BY DEF VenueType, VenueOrder

LEMMA ArrivesKeeps ==
    ASSUME AdapterInv, NEW c \in Intents, Arrives(c)
    PROVE  AdapterInv'
<1> DEFINE st == IF c \in Stops THEN "TRIGGER_PENDING" ELSE "OPEN"
           q == oms.orders[c].quantity
           v2 == [status |-> st, quantity |-> q, filled |-> 0, fillCount |-> 0]
           m == [order |-> c, status |-> st]
<1>0. /\ TypeOK /\ VenueInv /\ VenueRow(c) /\ RowOk(oms.orders[c], oms.seen, c)
      /\ q \in Nat
      /\ \A u \in sent : u.order \in Intents
      /\ \A l \in lookup : l.order \in Intents
  BY VenueFacts
<1>1. /\ request[c] = "flying" /\ request' = [request EXCEPT ![c] = "landed"]
      /\ venue' = [venue EXCEPT !.orders[c] = v2] /\ sent' = sent \cup {m}
      /\ UNCHANGED <<oms, checks, image, call, pass, lookup>>
  BY DEF Arrives, VenueStep, omsVars, resolveVars
<1>2. venue.orders[c] = Absent /\ FillsOf(c) = {} /\ FillsOf(c) = SeenOf(oms.seen, c)
  BY <1>1, NoTrades
<1>3. oms.orders[c].status # "NONE" /\ q >= 1 /\ q \in 0 .. MaxQty
  BY <1>0, <1>1 DEF RowOk, TypeOK, OmsType, OrderType
<1>4. st \in Live /\ st \notin Terminal /\ st \notin DrivenByFills /\ st # "NONE" /\ st \in VenueStatus
  BY DEF Live, Terminal, DrivenByFills, VenueStatus
<1> HIDE DEF st, q
<1>5. /\ venue' \in VenueType /\ venue'.orders[c] = v2 /\ venue'.fills = venue.fills
      /\ \A d \in Intents : d # c => venue'.orders[d] = venue.orders[d]
  <2>1. v2 \in VenueOrder /\ venue \in VenueType
    BY <1>0, <1>3, <1>4, MaxQtyAssumption DEF TypeOK, VenueOrder
  <2> HIDE DEF v2
  <2> QED
    BY <1>1, <2>1, VenueSetOrder
<1>6. request'[c] = "landed" /\ \A d \in Intents : d # c => request'[d] = request[d]
  BY <1>0, <1>1 DEF TypeOK
<1>7. Others(c)
  BY <1>1, <1>5, <1>6 DEF Others, FillsOf, Asked
<1>8. TypeOK'
  BY <1>0, <1>1, <1>4, <1>5 DEF TypeOK
<1>9. FillsOf(c)' = {} /\ SeenOf(oms.seen, c)' = {}
  BY <1>2, <1>5 DEF FillsOf, SeenOf
<1>10. VenueRow(c)'
  <2>1. call'[c] # "none"
    BY <1>0, <1>1 DEF VenueRow
  <2> QED
    BY <1>0, <1>3, <1>4, <1>5, <1>6, <1>9, <2>1, SizeEmpty DEF VenueRow
<1>11. VenueInv'
  <2>1. Told(m)' /\ IsFiniteSet(venue'.fills)
    BY <1>0, <1>4, <1>5, <1>6 DEF Told, VenueInv
  <2>2. \A u \in sent' : u \in sent \/ (u.status \notin DrivenByFills \cup {"NONE"} /\ Told(u)')
    BY <1>1, <1>4, <2>1
  <2>3. venue.orders[c].status \notin Terminal /\ venue'.orders[c].status # "NONE"
    BY <1>2, <1>4, <1>5, <1>6 DEF Absent, Terminal
  <2> QED
    BY <1>0, <1>1, <1>7, <1>10, <2>1, <2>2, <2>3, VenueStepKept
<1>12. RowOk(oms.orders[c], oms.seen, c)'
  BY <1>0, <1>1, <1>2, <1>3, <1>5, <1>6, <1>9 DEF RowOk, q
<1>13. \A n \in Nat : <<c, n>> \in oms.seen => n <= venue'.orders[c].fillCount
  <2>1. \A n \in Nat : <<c, n>> \in oms.seen => n <= venue.orders[c].fillCount
    BY VenueFacts
  <2> QED
    BY <1>2, <1>5, <1>6, <2>1 DEF Absent
<1>14. Owes(q, "landed", v2) <= Owes(q, "flying", venue.orders[c])
  BY <1>0, <1>2, <1>4 DEF Owes, Absent, Remaining
<1> QED
  BY <1>1, <1>5, <1>6, <1>7, <1>8, <1>11, <1>12, <1>13, <1>14, VenueMoves DEF q

LEMMA LostKeeps ==
    ASSUME AdapterInv, NEW c \in Intents, Lost(c)
    PROVE  AdapterInv'
<1>0. RowOk(oms.orders[c], oms.seen, c) /\ oms \in OmsType /\ image \in OmsType /\ Agree(image, oms)
      /\ request \in [Intents -> {"none", "flying", "landed", "lost"}]
      /\ checks \in [Intents -> 0 .. 2] /\ VenueRow(c)
  BY RowFacts DEF AdapterInv, TypeOK
<1>1. /\ request[c] = "flying" /\ request' = [request EXCEPT ![c] = "lost"]
      /\ UNCHANGED <<oms, checks, image, venue, sent, call, pass, lookup>>
  BY DEF Lost, VenueStep, omsVars, resolveVars, venueVars
<1>2. RowOk(oms.orders[c], oms.seen, c)'
  BY <1>0, <1>1 DEF RowOk, SeenOf, FillsOf, Asked
<1> QED
  BY <1>0, <1>1, <1>2, StatusStep DEF OnlyRow

LEMMA PublishKeeps ==
    ASSUME AdapterInv, NEW c \in Intents, NEW st \in {"OPEN", "CANCELLED", "EXPIRED"},
           venue.orders[c].status \in Live, Publish(c, st), VenueStep, UNCHANGED request
    PROVE  AdapterInv'
<1> DEFINE v == venue.orders[c]
           v2 == [v EXCEPT !.status = st]
           m == [order |-> c, status |-> st]
           q == oms.orders[c].quantity
<1>0. /\ TypeOK /\ VenueInv /\ VenueRow(c) /\ RowOk(oms.orders[c], oms.seen, c)
      /\ v \in VenueOrder /\ q \in Nat
      /\ \A n \in Nat : <<c, n>> \in oms.seen => n <= v.fillCount
      /\ \A u \in sent : u.order \in Intents
      /\ \A l \in lookup : l.order \in Intents
  BY VenueFacts
<1>1. /\ sent' = sent \cup {m} /\ UNCHANGED <<oms, checks, image, call, pass, lookup, request>>
  BY DEF Publish, VenueStep, omsVars, resolveVars
<1>2. st \in VenueStatus /\ st \notin DrivenByFills /\ st # "NONE"
  BY DEF VenueStatus, Live, Terminal, DrivenByFills
<1>3. /\ v2 \in VenueOrder /\ v2.status = st /\ v2.quantity = v.quantity /\ v2.filled = v.filled
      /\ v2.fillCount = v.fillCount
  BY <1>0, <1>2 DEF VenueOrder
<1>4. /\ venue' \in VenueType /\ venue'.orders[c] = v2 /\ venue'.fills = venue.fills
      /\ \A d \in Intents : d # c => venue'.orders[d] = venue.orders[d]
  <2>1. venue' = [venue EXCEPT !.orders[c] = v2]
    BY <1>0 DEF Publish, TypeOK, VenueType
  <2>2. venue \in VenueType
    BY <1>0 DEF TypeOK
  <2> HIDE DEF v2
  <2> QED
    BY <1>3, <2>1, <2>2, VenueSetOrder
<1> HIDE DEF v2
<1>5. Others(c)
  BY <1>1, <1>4 DEF Others, FillsOf, Asked
<1>6. TypeOK'
  BY <1>0, <1>1, <1>2, <1>4 DEF TypeOK
<1>7. v.status # "NONE" /\ v.status \notin Terminal
  BY DEF Live, Terminal
<1>8. FillsOf(c)' = FillsOf(c) /\ SeenOf(oms.seen, c)' = SeenOf(oms.seen, c)
  BY <1>1, <1>4 DEF FillsOf, SeenOf
<1>9. VenueRow(c)'
  BY <1>0, <1>1, <1>2, <1>3, <1>4, <1>7, <1>8 DEF VenueRow
<1>10. VenueInv'
  <2>1. Told(m)' /\ IsFiniteSet(venue'.fills)
    BY <1>0, <1>2, <1>3, <1>4 DEF Told, VenueInv
  <2>2. \A u \in sent' : u \in sent \/ (u.status \notin DrivenByFills \cup {"NONE"} /\ Told(u)')
    BY <1>1, <1>2, <2>1
  <2>3. venue'.orders[c].status # "NONE"
    BY <1>2, <1>3, <1>4
  <2> QED
    BY <1>0, <1>1, <1>5, <1>7, <1>9, <2>1, <2>2, <2>3, VenueStepKept
<1>11. RowOk(oms.orders[c], oms.seen, c)'
  BY <1>0, <1>1, <1>3, <1>4, <1>8 DEF RowOk, Asked
<1>12. Owes(q, request[c], v2) <= Owes(q, request[c], v)
  <2>1. request[c] = "landed" /\ v.filled < v.quantity
    BY <1>0, <1>7 DEF VenueRow
  <2>2. v.filled \in Nat /\ v.quantity \in Nat
    BY <1>0, MaxQtyAssumption DEF VenueOrder
  <2>3. Owes(q, request[c], v) = v.quantity - v.filled + v.filled
    BY <2>1 DEF Owes, Remaining
  <2>4. Owes(q, request[c], v2)
          = (IF st \in Live THEN v.quantity - v.filled ELSE 0) + v.filled
    BY <1>3, <2>1 DEF Owes, Remaining
  <2> QED
    BY <2>1, <2>2, <2>3, <2>4
<1>13. \A n \in Nat : <<c, n>> \in oms.seen => n <= venue'.orders[c].fillCount
  BY <1>0, <1>3, <1>4
<1> QED
  BY <1>1, <1>4, <1>5, <1>6, <1>10, <1>11, <1>12, <1>13, VenueMoves DEF v, q

LEMMA VenueFillsKeeps ==
    ASSUME AdapterInv, NEW c \in Intents, NEW qty \in 1 .. MaxQty, VenueFills(c, qty)
    PROVE  AdapterInv'
<1> DEFINE v == venue.orders[c]
           v2 == [v EXCEPT !.filled = v.filled + qty, !.fillCount = v.fillCount + 1,
                           !.status = IF qty = Remaining(v) THEN "FILLED" ELSE "PARTIALLY_FILLED"]
           f == [order |-> c, n |-> v.fillCount + 1, qty |-> qty]
           q == oms.orders[c].quantity
           A == FillsOf(c)
<1>0. /\ TypeOK /\ VenueInv /\ VenueRow(c) /\ RowOk(oms.orders[c], oms.seen, c)
      /\ v \in VenueOrder /\ q \in Nat
      /\ \A n \in Nat : <<c, n>> \in oms.seen => n <= v.fillCount
      /\ \A u \in sent : u.order \in Intents
      /\ \A l \in lookup : l.order \in Intents
  BY VenueFacts
<1>1. /\ v.status \in {"OPEN", "PARTIALLY_FILLED"} /\ qty <= Remaining(v)
      /\ UNCHANGED <<oms, checks, image, call, pass, lookup, sent, request>>
  BY DEF VenueFills, VenueStep, omsVars, resolveVars
<1>2. v.status \in Live /\ v.status # "NONE" /\ v.status \notin Terminal /\ request[c] = "landed"
  BY <1>0, <1>1 DEF Live, Terminal, VenueRow
<1>3. /\ qty \in Nat /\ qty >= 1 /\ qty <= MaxQty /\ MaxQty \in Nat
      /\ v.filled \in Nat /\ v.fillCount \in Nat /\ v.quantity \in Nat /\ v.quantity <= MaxQty
      /\ v.fillCount <= v.filled /\ v.filled + qty <= v.quantity
      /\ qty = Remaining(v) <=> v.filled + qty = v.quantity
  BY <1>0, <1>1, MaxQtyAssumption DEF VenueOrder, VenueRow, Remaining
<1>4. /\ v2 \in VenueOrder /\ v2.quantity = v.quantity /\ v2.filled = v.filled + qty
      /\ v2.fillCount = v.fillCount + 1
      /\ v2.status = IF v.filled + qty = v.quantity THEN "FILLED" ELSE "PARTIALLY_FILLED"
  <2> DEFINE a == v.filled + qty
             b == v.fillCount + 1
             st == IF qty = Remaining(v) THEN "FILLED" ELSE "PARTIALLY_FILLED"
  <2>1. a \in 0 .. MaxQty /\ b \in 0 .. MaxQty
    BY <1>3
  <2>2. st \in VenueStatus
    BY DEF VenueStatus, Live, Terminal
  <2>3. st = IF v.filled + qty = v.quantity THEN "FILLED" ELSE "PARTIALLY_FILLED"
    BY <1>3
  <2>4. v2 = [v EXCEPT !.filled = a, !.fillCount = b, !.status = st]
    OBVIOUS
  <2>5. v \in VenueOrder
    BY <1>0
  <2> HIDE DEF v2, a, b, st, v
  <2>6. /\ v2 \in VenueOrder /\ v2.quantity = v.quantity /\ v2.filled = a
        /\ v2.fillCount = b /\ v2.status = st
    BY <2>1, <2>2, <2>4, <2>5 DEF VenueOrder
  <2> QED
    BY <2>3, <2>6 DEF a, b
<1>5. f \in FillType /\ f \notin venue.fills /\ FillId(f) \notin oms.seen
      /\ \A g \in A : g.n # f.n
  <2>1. \A g \in A : g.n <= v.fillCount /\ g.n \in Nat
    <3>1. A \subseteq FillType
      BY <1>0 DEF TypeOK, VenueType, FillsOf
    <3> QED
      BY <1>0, <3>1 DEF VenueRow, FillType
  <2>2. \A g \in A : g.n # f.n
    BY <1>3, <2>1
  <2>3. f \in FillType
    BY <1>3 DEF FillType
  <2>4. f \notin venue.fills
    BY <2>2 DEF FillsOf
  <2>5. FillId(f) \notin oms.seen
    BY <1>0, <1>3 DEF FillId
  <2> QED
    BY <2>2, <2>3, <2>4, <2>5
<1>6. /\ venue' \in VenueType /\ venue'.orders[c] = v2 /\ venue'.fills = venue.fills \cup {f}
      /\ \A d \in Intents : d # c => venue'.orders[d] = venue.orders[d]
  <2>1. venue' = [venue EXCEPT !.orders[c] = v2, !.fills = venue.fills \cup {f}]
    BY <1>0 DEF VenueFills, TypeOK, VenueType
  <2>2. venue \in VenueType /\ venue.fills \cup {f} \subseteq FillType
    BY <1>0, <1>5 DEF TypeOK, VenueType
  <2> HIDE DEF v2, f
  <2> QED
    BY <1>4, <2>1, <2>2, VenueSet
<1>7. f.order = c /\ f.n = v2.fillCount /\ f.qty = qty
  BY <1>4
<1> HIDE DEF v2, f
<1>8. Others(c)
  BY <1>1, <1>6, <1>7 DEF Others, FillsOf, Asked
<1>9. TypeOK'
  BY <1>0, <1>1, <1>6 DEF TypeOK
<1>10. FillsOf(c)' = A \cup {f} /\ SeenOf(oms.seen, c)' = SeenOf(oms.seen, c)
  <2>1. FillsOf(c)' = A \cup {f}
    BY <1>6, <1>7 DEF FillsOf
  <2> QED
    BY <1>1, <1>5, <2>1 DEF SeenOf
<1>11. Size(A \cup {f}) = v2.filled
  <2>1. A \subseteq FillType /\ IsFiniteSet(A) /\ f \notin A
    BY <1>0, <1>5, FS_Subset DEF TypeOK, VenueType, FillsOf, VenueInv
  <2>2. Size(A) = v.filled
    BY <1>0 DEF VenueRow
  <2> HIDE DEF A, v
  <2> QED
    BY <1>4, <1>5, <1>7, <2>1, <2>2, SizeUpdate
<1>12. VenueRow(c)'
  <2>1. /\ \A g \in A \cup {f} : g.n <= v2.fillCount
        /\ \A g, h \in A \cup {f} : g.n = h.n => g = h
    <3>1. /\ \A g \in A : g.n <= v.fillCount /\ g.n \in Nat
          /\ \A g, h \in A : g.n = h.n => g = h
      BY <1>0 DEF VenueRow, TypeOK, VenueType, FillType, FillsOf
    <3> QED
      BY <1>3, <1>4, <1>5, <1>7, <3>1
  <2>2. v2.status # "NONE" /\ (v2.status \in Live => v2.filled < v2.quantity)
        /\ v2.filled <= v2.quantity /\ v2.fillCount <= v2.filled
    BY <1>3, <1>4 DEF Live
  <2>3. call'[c] # "none"
    BY <1>0, <1>1, <1>2 DEF VenueRow
  <2> HIDE DEF A, v
  <2> QED
    BY <1>1, <1>2, <1>6, <1>10, <1>11, <2>1, <2>2, <2>3 DEF VenueRow
<1>13. VenueInv'
  <2>1. IsFiniteSet(venue'.fills)
    BY <1>0, <1>6, FS_AddElement DEF VenueInv
  <2>2. venue'.orders[c].status # "NONE"
    BY <1>4, <1>6
  <2> QED
    BY <1>0, <1>1, <1>2, <1>8, <1>12, <2>1, <2>2, VenueStepKept
<1>14. RowOk(oms.orders[c], oms.seen, c)'
  <2>1. ~(InOrder /\ oms.orders[c].status \in Terminal)
    BY <1>0, <1>2 DEF RowOk
  <2> QED
    BY <1>0, <1>1, <1>2, <1>4, <1>6, <1>10, <2>1 DEF RowOk, Asked
<1>15. Owes(q, request[c], v2) <= Owes(q, request[c], v)
  <2>1. Owes(q, request[c], v) = v.quantity - v.filled + v.filled
    BY <1>2 DEF Owes, Remaining
  <2>2. Owes(q, request[c], v2)
          = (IF v2.status \in Live THEN v2.quantity - v2.filled ELSE 0) + v2.filled
    BY <1>2 DEF Owes, Remaining
  <2>3. v2.status \in Live <=> v.filled + qty # v.quantity
    BY <1>4 DEF Live
  <2> HIDE DEF v
  <2> QED
    BY <1>3, <1>4, <2>1, <2>2, <2>3
<1>16. \A n \in Nat : <<c, n>> \in oms.seen => n <= venue'.orders[c].fillCount
  BY <1>0, <1>3, <1>4, <1>6
<1> QED
  BY <1>1, <1>6, <1>8, <1>9, <1>13, <1>14, <1>15, <1>16, VenueMoves DEF v, q

(* The orders of the sells that the OMS thinks are working, with what they *)
(* have sold, cover all that the venue may still sell: this is why the     *)
(* stream has to keep the order of an order's messages.                    *)
LEMMA ClaimsCounted ==
    ASSUME AdapterInv, InOrder
    PROVE  Claims <= Outstanding(oms.orders, Working(oms.orders, Sells)) + Traded(oms.orders, Sells)
<1> DEFINE W == Working(oms.orders, Sells)
           f == [c \in Intents |-> IF c \in Sells THEN Claim(c) ELSE 0]
           out == [c \in Intents |-> IF c \in W THEN Remaining(oms.orders[c]) ELSE 0]
           sold == [c \in Intents |-> IF c \in Sells THEN oms.orders[c].filled ELSE 0]
           h == [c \in Intents |-> out[c] + sold[c]]
<1>0. ClaimsTyped /\ ClaimsAre
  BY ClaimType, ClaimIs DEF AdapterInv
<1>1. f \in Counts
  BY <1>0, MaxQtyAssumption DEF Counts, ClaimsTyped
<1>2. ASSUME NEW c \in Intents
      PROVE  /\ out[c] \in 0 .. MaxQty /\ sold[c] \in 0 .. MaxQty /\ h[c] \in 0 .. MaxQty
             /\ f[c] <= h[c]
  <2> DEFINE r == oms.orders[c]
             v == venue.orders[c]
  <2>1. /\ r.quantity \in 0 .. MaxQty /\ r.filled \in 0 .. MaxQty /\ r.filled <= r.quantity
        /\ RowOk(r, oms.seen, c) /\ VenueRow(c)
    BY RowFacts DEF OrderType
  <2>2. v.quantity \in Nat /\ v.filled \in Nat
    BY MaxQtyAssumption DEF AdapterInv, TypeOK, VenueType
  <2>3. Claim(c) = Owes(r.quantity, request[c], v)
    BY <1>0 DEF ClaimsAre
  <2>4. CASE c \notin Sells
    <3>1. c \notin W
      BY <2>4 DEF Working
    <3> QED
      BY <2>4, <3>1, MaxQtyAssumption
  <2>5. CASE c \in Sells /\ r.status \notin Terminal \cup {"NONE"}
    <3>1. c \in W
      BY <2>5 DEF Working
    <3>2. out[c] = r.quantity - r.filled /\ sold[c] = r.filled /\ f[c] = Claim(c)
      BY <2>5, <3>1 DEF Remaining
    <3>3. Claim(c) <= r.quantity
      <4>1. CASE request[c] = "flying"
        BY <2>1, <2>2, <2>3, <4>1, MaxQtyAssumption DEF Owes, VenueRow, Absent
      <4>2. CASE request[c] = "landed"
        <5>1. r.quantity = v.quantity /\ v.filled <= v.quantity
          BY <2>1, <4>2 DEF RowOk, VenueRow
        <5> QED
          BY <2>2, <2>3, <4>2, <5>1 DEF Owes, Remaining
      <4>3. CASE request[c] # "flying" /\ request[c] # "landed"
        BY <2>1, <2>2, <2>3, <4>3, MaxQtyAssumption DEF Owes, VenueRow, Absent, Live
      <4> QED
        BY <4>1, <4>2, <4>3
    <3> HIDE DEF r, v, f, out, sold
    <3> QED
      BY <2>1, <3>2, <3>3, MaxQtyAssumption
  <2>6. CASE c \in Sells /\ r.status \in Terminal \cup {"NONE"}
    <3>1. c \notin W
      BY <2>6 DEF Working
    <3>2. out[c] = 0 /\ sold[c] = r.filled /\ f[c] = Claim(c)
      BY <2>6, <3>1
    <3>3. request[c] # "flying" /\ v.status \notin Live /\ v.filled = r.filled
      <4>1. CASE r.status = "NONE"
        <5>1. request[c] = "none"
          BY <2>1, <4>1 DEF RowOk
        <5>2. SeenOf(oms.seen, c) = {} /\ v = Absent
          BY <5>1, NoTrades
        <5> QED
          BY <2>1, <5>1, <5>2, SizeEmpty DEF RowOk, Absent, Live
      <4>2. CASE r.status \in Terminal
        BY <2>1, <4>2 DEF RowOk, VenueRow
      <4> QED
        BY <2>6, <4>1, <4>2
    <3>4. Claim(c) = v.filled
      BY <2>2, <2>3, <3>3 DEF Owes
    <3> HIDE DEF r, v, f, out, sold
    <3> QED
      BY <2>1, <3>2, <3>3, <3>4, MaxQtyAssumption
  <2> QED
    BY <2>4, <2>5, <2>6
<1>3. out \in Counts /\ sold \in Counts /\ h \in Counts
      /\ \A c \in Intents : h[c] = out[c] + sold[c] /\ f[c] <= h[c]
  BY <1>2 DEF Counts
<1>4. /\ Claims = Shares(f) /\ Outstanding(oms.orders, W) = Shares(out)
      /\ Traded(oms.orders, Sells) = Shares(sold)
  BY DEF Claims, Outstanding, Traded
<1> HIDE DEF f, out, sold, h, W
<1>5. Shares(f) <= Shares(h) /\ Shares(h) = Shares(out) + Shares(sold)
  BY <1>1, <1>3, SharesMono, SharesAdd
<1> QED
  BY <1>4, <1>5 DEF W

LEMMA SubmitKeeps ==
    ASSUME AdapterInv, NEW c \in Intents, NEW qty \in 1 .. MaxQty, Submit(c, qty)
    PROVE  AdapterInv' /\ Final
<1>0. /\ TypeOK /\ VenueInv /\ OmsPart(image, oms) /\ CoverInv /\ VenueRow(c)
      /\ RowOk(oms.orders[c], oms.seen, c)
      /\ oms \in OmsType /\ image \in OmsType /\ Agree(image, oms) /\ WellFilled(oms.orders)
      /\ request \in [Intents -> {"none", "flying", "landed", "lost"}]
      /\ call \in [Intents -> {"none", "waiting", "over"}]
  BY RowFacts DEF AdapterInv, TypeOK
<1>1. /\ oms.orders[c].status = "NONE"
      /\ c \in Buys \/ qty <= Reducible(oms)
      /\ oms' = Register(oms, c, qty) /\ image' = Register(image, c, qty)
      /\ request' = [request EXCEPT ![c] = "flying"] /\ call' = [call EXCEPT ![c] = "waiting"]
      /\ UNCHANGED <<checks, venue, sent, pass, lookup>>
  BY DEF Submit, venueVars, resolveVars
<1>2. request[c] = "none" /\ call[c] = "none"
  BY <1>0, <1>1 DEF RowOk, VenueRow
<1>3. FillsOf(c) = {} /\ SeenOf(oms.seen, c) = {} /\ venue.orders[c] = Absent
  BY <1>2, NoTrades
<1>4. oms.orders[c].filled = 0
  BY <1>0, <1>3, SizeEmpty DEF RowOk
<1>5. oms' \in OmsType /\ image' \in OmsType /\ Agree(image', oms')
  BY <1>0, <1>1, RegisterBoth
<1>6. /\ OnlyRow(oms, oms', c) /\ oms'.orders[c].status = "SUBMITTED"
      /\ oms'.orders[c].quantity = qty /\ oms'.orders[c].filled = 0
      /\ oms'.position = oms.position /\ oms'.seen = oms.seen
  BY <1>0, <1>1, RegisterRow
<1>7. /\ request'[c] = "flying" /\ call'[c] = "waiting"
      /\ \A d \in Intents : d # c => request'[d] = request[d] /\ call'[d] = call[d]
  BY <1>0, <1>1
<1>8. TypeOK'
  BY <1>0, <1>1, <1>5 DEF TypeOK
<1>9. VenueInv'
  <2>1. \A d \in Intents : (request[d] = "none" <=> call[d] = "none")
    BY <1>0 DEF VenueInv, VenueRow
  <2>2. \A d \in Intents : /\ request'[d] = "landed" <=> request[d] = "landed"
                           /\ request'[d] = "none" <=> call'[d] = "none"
                           /\ call[d] = "over" => call'[d] = "over"
    BY <1>2, <1>7, <2>1
  <2>3. pass \subseteq Intents /\ \A l \in lookup : l.order \in Intents
    BY <1>0 DEF TypeOK
  <2> QED
    BY <1>0, <1>1, <2>2, <2>3, VenueKept
<1>10. OmsPart(image, oms)'
  <2>1. Others(c)
    BY <1>1, <1>7 DEF Others, FillsOf, Asked
  <2>2. \A n \in Nat : <<c, n>> \in oms.seen => n <= venue'.orders[c].fillCount
    BY <1>0, <1>1 DEF OmsPart, SeenMade
  <2>3. RowOk(oms.orders[c], oms.seen, c)'
    <3>1. SeenOf(oms.seen, c)' = {} /\ FillsOf(c)' = {}
      BY <1>1, <1>3, <1>6 DEF SeenOf, FillsOf
    <3>2. c \notin Asked'
      BY <1>0, <1>1, <1>2 DEF Asked, VenueInv
    <3> QED
      BY <1>6, <1>7, <3>1, <3>2, SizeEmpty DEF RowOk, Terminal
  <2> QED
    BY <1>0, <1>4, <1>5, <1>6, <2>1, <2>2, <2>3, RowsStep
<1>11. CoverInv'
  <2>1. CASE c \in Buys
    <3>1. \A d \in Intents : oms.orders[d].filled <= oms'.orders[d].filled
      <4>1. \A d \in Intents : oms.orders[d].filled \in Int
        BY <1>0, MaxQtyAssumption DEF OmsType, OrderType
      <4> QED
        BY <1>4, <1>6, <4>1 DEF OnlyRow
    <3>2. \A d \in Sells : Owes(oms'.orders[d].quantity, request'[d], venue'.orders[d])
                              <= Owes(oms.orders[d].quantity, request[d], venue.orders[d])
      <4> SUFFICES ASSUME NEW d \in Intents, d # c
                   PROVE  Owes(oms'.orders[d].quantity, request'[d], venue'.orders[d])
                              <= Owes(oms.orders[d].quantity, request[d], venue.orders[d])
        BY <2>1 DEF Sells
      <4>1. Owes(oms.orders[d].quantity, request[d], venue.orders[d]) \in 0 .. MaxQty
        BY ClaimType, ClaimIs DEF AdapterInv, ClaimsTyped, ClaimsAre
      <4>2. oms'.orders[d] = oms.orders[d] /\ request'[d] = request[d] /\ venue' = venue
        BY <1>1, <1>6, <1>7 DEF OnlyRow
      <4> QED
        BY <4>1, <4>2, MaxQtyAssumption
    <3> QED
      BY <1>8, <1>9, <3>1, <3>2, CoverStep
  <2>2. CASE c \notin Buys
    <3> SUFFICES ASSUME InOrder PROVE Claims' <= Held + Traded(oms'.orders, Buys)
      BY DEF CoverInv
    <3> DEFINE f == [d \in Intents |-> IF d \in Sells THEN Claim(d) ELSE 0]
               out == Outstanding(oms.orders, Working(oms.orders, Sells))
               sold == Traded(oms.orders, Sells)
               bought == Traded(oms.orders, Buys)
    <3>1. ClaimsTyped /\ ClaimsAre /\ ClaimsTyped' /\ ClaimsAre'
      <4>1. (TypeOK /\ VenueInv)' => ClaimsTyped'
        BY ClaimType, PTL
      <4>2. VenueInv' => ClaimsAre'
        BY ClaimIs, PTL
      <4> QED
        BY <1>0, <1>8, <1>9, <4>1, <4>2, ClaimType, ClaimIs
    <3>2. f \in Counts /\ Claims = Shares(f)
      BY <3>1, MaxQtyAssumption DEF Counts, ClaimsTyped, Claims
    <3>3. Claim(c) = 0 /\ Claim(c)' = qty
      <4>1. Owes(qty, "flying", Absent) = qty
        BY DEF Owes, Absent
      <4> QED
        BY <1>1, <1>2, <1>3, <1>6, <1>7, <3>1, <4>1 DEF ClaimsAre, Owes, Absent, Live
    <3>4. \A d \in Intents : d # c => Claim(d)' = Claim(d)
      BY <1>1, <1>6, <1>7, <3>1 DEF ClaimsAre, OnlyRow
    <3>5. Claims' = Shares([f EXCEPT ![c] = qty]) /\ f[c] = 0
      <4>1. [d \in Intents |-> IF d \in Sells THEN Claim(d)' ELSE 0] = [f EXCEPT ![c] = qty]
        BY <2>2, <3>3, <3>4 DEF Sells
      <4> QED
        BY <2>2, <3>3, <4>1 DEF Claims
    <3> HIDE DEF f
    <3>6. Claims' = Claims + qty /\ Claims \in Nat
      <4>1. Shares([f EXCEPT ![c] = qty]) = Shares(f) - f[c] + qty /\ Shares(f) \in Nat
        BY <3>2, SharesUpdate, MaxQtyAssumption
      <4> QED
        BY <3>2, <3>5, <4>1
    <3>7. qty <= oms.position - out
      BY <1>1, <2>2 DEF Reducible
    <3>8. Claims <= out + sold
      BY ClaimsCounted
    <3>9. oms.position = Held + bought - sold
      BY <1>0 DEF OmsPart
    <3>10. out \in Nat /\ sold \in Nat /\ bought \in Nat
      BY SharesNat DEF Outstanding, Traded
    <3>11. Traded(oms'.orders, Buys) = bought
      <4>1. Traded(oms'.orders, Buys) = bought + IF c \in Buys
                                                 THEN oms'.orders[c].filled - oms.orders[c].filled ELSE 0
        BY <1>0, <1>5, <1>6, TradedStep
      <4> QED
        BY <2>2, <3>10, <4>1
    <3> HIDE DEF out, sold, bought
    <3> QED
      BY <3>6, <3>7, <3>8, <3>9, <3>10, <3>11, OmsAdapterAssumption
  <2> QED
    BY <2>1, <2>2
<1>12. Final
  BY <1>1, <1>6 DEF Final, OnlyRow, Terminal
<1> QED
  BY <1>8, <1>9, <1>10, <1>11, <1>12 DEF AdapterInv

-----------------------------------------------------------------------------
(* The theorems.                                                           *)

LEMMA InitKeeps == Init => AdapterInv
<1> SUFFICES ASSUME Init PROVE AdapterInv
  OBVIOUS
<1>0. /\ oms = Restored /\ image = Restored /\ checks = [c \in Intents |-> 0]
      /\ venue = [orders |-> [c \in Intents |-> Absent], fills |-> {}]
      /\ sent = {} /\ request = [c \in Intents |-> "none"]
      /\ call = [c \in Intents |-> "none"] /\ pass = {} /\ lookup = {}
  BY DEF Init
<1>1. /\ oms = [orders |-> [c \in Intents |-> NoOrder], position |-> Held, seen |-> {}]
      /\ image = oms
  BY <1>0 DEF Restored, EmptyOms
<1>2. oms \in OmsType /\ MaxQty \in Nat
  <2>1. NoOrder \in OrderType /\ MaxQty \in Nat
    BY MaxQtyAssumption DEF NoOrder, OrderType, Status
  <2> QED
    BY <1>1, <2>1, OmsAdapterAssumption DEF OmsType
<1>3. TypeOK
  <2>1. venue \in VenueType
    BY <1>0, <1>2 DEF VenueType, VenueStatus, Absent
  <2> QED
    BY <1>0, <1>1, <1>2, <2>1 DEF TypeOK
<1>4. \A c \in Intents : FillsOf(c) = {} /\ \A s : SeenOf(s, c) = {}
  BY <1>0 DEF FillsOf, SeenOf
<1>5. VenueInv
  <2>1. \A c \in Intents : VenueRow(c)
    BY <1>0, <1>4, SizeEmpty DEF VenueRow, Absent, Live
  <2> QED
    BY <1>0, <2>1, FS_EmptySet DEF VenueInv, Asked
<1>6. \A C : Traded(oms.orders, C) = 0
  <2> SUFFICES ASSUME NEW C PROVE Traded(oms.orders, C) = 0
    OBVIOUS
  <2>1. \A d \in Intents : [c \in Intents |-> IF c \in C THEN oms.orders[c].filled ELSE 0][d] = 0
    BY <1>1 DEF NoOrder
  <2> QED
    BY <2>1, ZeroShares DEF Traded
<1>7. OmsPart(image, oms)
  <2>1. \A c \in Intents : RowOk(oms.orders[c], oms.seen, c)
    <3> SUFFICES ASSUME NEW c \in Intents PROVE RowOk(oms.orders[c], oms.seen, c)
      OBVIOUS
    <3>1. /\ oms.orders[c].status = "NONE" /\ oms.orders[c].filled = 0
          /\ request[c] = "none" /\ c \notin Asked
      BY <1>0, <1>1 DEF NoOrder, Asked
    <3>2. SeenOf(oms.seen, c) = {} /\ Size({}) = 0
      BY <1>4, SizeEmpty
    <3> QED
      BY <3>1, <3>2 DEF RowOk, Terminal
  <2>2. oms.position = Held + Traded(oms.orders, Buys) - Traded(oms.orders, Sells)
    BY <1>1, <1>6, OmsAdapterAssumption
  <2> QED
    BY <1>1, <1>2, <2>1, <2>2 DEF OmsPart, Agree, SeenMade
<1>8. CoverInv
  <2>1. Claims = 0
    <3>1. ClaimsAre
      BY <1>5, ClaimIs
    <3>2. \A d \in Intents : [c \in Intents |-> IF c \in Sells THEN Claim(c) ELSE 0][d] = 0
      BY <1>0, <3>1 DEF ClaimsAre, Owes, Absent, Live
    <3> QED
      BY <3>2, ZeroShares DEF Claims
  <2> QED
    BY <1>6, <2>1, OmsAdapterAssumption DEF CoverInv
<1> QED
  BY <1>3, <1>5, <1>7, <1>8 DEF AdapterInv

LEMMA StepKeeps ==
    ASSUME AdapterInv, [Next]_vars
    PROVE  AdapterInv' /\ (InOrder => Final)
<1>1. ASSUME NEW c \in Intents, NEW qty \in 1 .. MaxQty, Submit(c, qty)
      PROVE  AdapterInv' /\ (InOrder => Final)
  BY <1>1, SubmitKeeps
<1>2. ASSUME UNCHANGED oms
      PROVE  Final
  BY <1>2 DEF Final
<1>3. ASSUME NEW c \in Intents, NEW qty \in 1 .. MaxQty, VenueFills(c, qty)
      PROVE  AdapterInv' /\ (InOrder => Final)
  BY <1>2, <1>3, VenueFillsKeeps DEF VenueFills, VenueStep, omsVars
<1>4. ASSUME NEW c \in Intents, Acked(c) \/ Refused(c) \/ TimesOut(c)
      PROVE  AdapterInv' /\ (InOrder => Final)
  BY <1>4, AckedKeeps, RefusedKeeps, TimesOutKeeps
<1>5. ASSUME NEW c \in Intents, Arrives(c) \/ Lost(c)
      PROVE  AdapterInv' /\ (InOrder => Final)
  <2>1. UNCHANGED oms
    BY <1>5 DEF Arrives, Lost, VenueStep, omsVars
  <2> QED
    BY <1>2, <1>5, <2>1, ArrivesKeeps, LostKeeps
<1>6. ASSUME NEW c \in Intents, VenueTriggers(c)
      PROVE  AdapterInv' /\ (InOrder => Final)
  <2>1. UNCHANGED oms
    BY <1>6 DEF VenueTriggers, VenueStep, omsVars
  <2>2. /\ venue.orders[c].status \in Live /\ Publish(c, "OPEN") /\ VenueStep
        /\ UNCHANGED request
    BY <1>6 DEF VenueTriggers, Live
  <2> QED
    BY <1>2, <2>1, <2>2, PublishKeeps
<1>7. ASSUME NEW c \in Intents, NEW status \in {"CANCELLED", "EXPIRED"}, VenueEnds(c, status)
      PROVE  AdapterInv' /\ (InOrder => Final)
  <2>1. UNCHANGED oms
    BY <1>7 DEF VenueEnds, VenueStep, omsVars
  <2>2. /\ venue.orders[c].status \in Live /\ Publish(c, status) /\ VenueStep
        /\ UNCHANGED request /\ status \in {"OPEN", "CANCELLED", "EXPIRED"}
    BY <1>7 DEF VenueEnds
  <2> QED
    BY <1>2, <2>1, <2>2, PublishKeeps
<1>8. ASSUME NEW c \in Intents, Lookup(c) \/ Found(c)
      PROVE  AdapterInv' /\ (InOrder => Final)
  BY <1>8, LookupKeeps, FoundKeeps
<1>9. ASSUME NEW c \in Intents, NEW timedOut \in BOOLEAN, NotFound(c, timedOut)
      PROVE  AdapterInv' /\ (InOrder => Final)
  BY <1>9, NotFoundKeeps
<1>10. ASSUME NEW u \in sent, DeliverUpdate(u)
       PROVE  AdapterInv' /\ (InOrder => Final)
  BY <1>10, DeliverUpdateKeeps
<1>11. ASSUME NEW f \in venue.fills, DeliverFill(f)
       PROVE  AdapterInv' /\ (InOrder => Final)
  BY <1>11, DeliverFillKeeps
<1>12. ASSUME ResolveStarts \/ Reconcile
       PROVE  AdapterInv' /\ (InOrder => Final)
  BY <1>12, ResolveStartsKeeps, ReconcileKeeps
<1>13. ASSUME UNCHANGED vars
       PROVE  AdapterInv' /\ (InOrder => Final)
  <2>1. UNCHANGED <<oms, checks, image, venue, sent, request, call, pass, lookup>>
    BY <1>13 DEF vars
  <2>2. OmsPart(image', oms') /\ Later(oms, oms')
    BY <2>1, LaterSame DEF AdapterInv, TypeOK
  <2> QED
    BY <2>1, <2>2, LaterKeeps
<1> QED
  BY <1>1, <1>3, <1>4, <1>5, <1>6, <1>7, <1>8, <1>9, <1>10, <1>11, <1>12, <1>13 DEF Next

(* The OMS's rows, memory and image, against the venue's trades, whatever  *)
(* is under way between them (oms.py: _on_update, _on_fill, _adopt_fills,  *)
(* resolve_unknown, restore): the invariant the next three follow from.    *)
THEOREM AdapterInvariant == Spec => []AdapterInv
<1>1. AdapterInv /\ [Next]_vars => AdapterInv'
  BY StepKeeps
<1> QED
  BY <1>1, InitKeeps, PTL DEF Spec

(* However often, however late and in whatever order fills are delivered   *)
(* or adopted, each is booked once, in memory and in the stored events     *)
(* (_on_fill, _adopt_fills, restore).                                      *)
THEOREM EachBookedOnce == Spec => []BookedOnce
<1>1. AdapterInv => BookedOnce
  <2> SUFFICES ASSUME AdapterInv PROVE BookedOnce
    OBVIOUS
  <2>1. OmsPart(image, oms) /\ venue.fills \subseteq FillType /\ IsFiniteSet(venue.fills)
    BY DEF AdapterInv, TypeOK, VenueType, VenueInv
  <2>2. ASSUME NEW c \in Intents
        PROVE  LET seen == {f \in venue.fills : f.order = c /\ FillId(f) \in oms.seen}
               IN  oms.orders[c].filled = MapThenSumSet(LAMBDA f : f.qty, seen)
    <3> DEFINE seen == {f \in venue.fills : f.order = c /\ FillId(f) \in oms.seen}
    <3>1. seen = SeenOf(oms.seen, c)
      BY DEF SeenOf, FillsOf
    <3>2. seen \subseteq FillType /\ IsFiniteSet(seen)
      BY <2>1, FS_Subset
    <3>3. oms.orders[c].filled = Size(seen)
      BY <2>1, <3>1 DEF OmsPart, RowOk
    <3> HIDE DEF seen
    <3>4. MapThenSumSet(LAMBDA f : f.qty, seen) = Size(seen)
      BY <3>2, SizeIsSum
    <3>5. oms.orders[c].filled = MapThenSumSet(LAMBDA f : f.qty, seen)
      BY <3>3, <3>4
    <3> QED
      BY <3>5 DEF seen
  <2> QED
    BY <2>1, <2>2 DEF BookedOnce, OmsPart
<1> QED
  BY <1>1, AdapterInvariant, PTL

(* With a stream that keeps the order of an order's messages, the exits    *)
(* that can still trade never exceed what is held (reducible).             *)
THEOREM ExitsAreCovered ==
    ASSUME InOrder = TRUE
    PROVE  Spec => []ExitsCovered
<1>1. AdapterInv => ExitsCovered
  <2> SUFFICES ASSUME AdapterInv PROVE ExitsCovered
    OBVIOUS
  <2> DEFINE f == [c \in Intents |-> IF c \in Sells THEN Tradable(c) ELSE 0]
             g == [c \in Intents |-> IF c \in Sells THEN venue.orders[c].filled ELSE 0]
             h == [c \in Intents |-> IF c \in Sells THEN Claim(c) ELSE 0]
  <2>1. ClaimsTyped /\ ClaimsAre /\ TypeOK /\ VenueInv /\ OmsPart(image, oms)
    BY ClaimType, ClaimIs DEF AdapterInv
  <2>2. ASSUME NEW c \in Intents
        PROVE  /\ h[c] = f[c] + g[c] /\ f[c] \in 0 .. MaxQty /\ g[c] \in 0 .. MaxQty
               /\ h[c] \in 0 .. MaxQty
    <3> DEFINE v == venue.orders[c]
               q == oms.orders[c].quantity
    <3>1. v.quantity \in 0 .. MaxQty /\ v.filled \in 0 .. MaxQty /\ q \in 0 .. MaxQty
      BY <2>1 DEF TypeOK, VenueType, OmsType, OrderType
    <3>2. v.filled <= v.quantity
      BY <2>1 DEF VenueInv, VenueRow
    <3>3. Tradable(c) = IF request[c] = "flying" THEN q
                        ELSE IF v.status \in Live THEN v.quantity - v.filled ELSE 0
      <4>1. request[c] = "flying" => v.status \notin Live
        BY <2>1 DEF VenueInv, VenueRow, Live
      <4>2. CASE request[c] = "flying"
        BY <4>1, <4>2 DEF Tradable
      <4>3. CASE request[c] # "flying" /\ v.status \in Live
        BY <4>3 DEF Tradable, Remaining
      <4>4. CASE request[c] # "flying" /\ v.status \notin Live
        BY <4>4 DEF Tradable
      <4> QED
        BY <4>2, <4>3, <4>4
    <3>4. Tradable(c) \in 0 .. MaxQty
      <4> HIDE DEF v, q
      <4> QED
        BY <3>1, <3>2, <3>3, MaxQtyAssumption
    <3>5. Claim(c) \in 0 .. MaxQty /\ Claim(c) = Tradable(c) + v.filled
      BY <2>1 DEF ClaimsTyped, Claim
    <3> QED
      BY <3>1, <3>4, <3>5, MaxQtyAssumption
  <2>3. f \in Counts /\ g \in Counts /\ h \in Counts /\ \A c \in Intents : h[c] = f[c] + g[c]
    BY <2>2 DEF Counts
  <2>4. Traded(venue.orders, Sells) = Shares(g) /\ Claims = Shares(h)
    BY DEF Traded, Claims
  <2>5. Traded(oms.orders, Buys) <= Traded(venue.orders, Buys)
    <3>1. \A c \in Intents : /\ oms.orders[c].filled \in 0 .. MaxQty
                             /\ venue.orders[c].filled \in 0 .. MaxQty
      BY <2>1 DEF TypeOK, VenueType, OmsType, OrderType
    <3>2. \A c \in Intents : oms.orders[c].filled <= venue.orders[c].filled
      BY <2>1, Fits
    <3> QED
      BY <3>1, <3>2, TradedMono
  <2>6. Claims <= Held + Traded(oms.orders, Buys)
    BY DEF AdapterInv, CoverInv
  <2>7. Shares(f) <= Held + Traded(venue.orders, Buys) - Traded(venue.orders, Sells)
    <3> HIDE DEF f, g, h
    <3>1. Shares(h) = Shares(f) + Shares(g) /\ Shares(f) \in Nat /\ Shares(g) \in Nat
      BY <2>3, SharesAdd, SharesNat
    <3>2. Traded(oms.orders, Buys) \in Nat /\ Traded(venue.orders, Buys) \in Nat
      BY TradedNat
    <3> QED
      BY <2>4, <2>5, <2>6, <3>1, <3>2, OmsAdapterAssumption
  <2> QED
    BY <2>7 DEF ExitsCovered
<1> QED
  BY <1>1, AdapterInvariant, PTL

(* With such a stream, an order that has ended, and whose call is over,    *)
(* is not revived by any late, repeated or stale answer (_advance).        *)
THEOREM EndIsFinal ==
    ASSUME InOrder = TRUE
    PROVE  Spec => FinalAfterCall
<1>1. AdapterInv /\ [Next]_vars =>
        [\A c \in Intents : call[c] = "over" /\ oms.orders[c].status \in Terminal
                            => oms'.orders[c].status = oms.orders[c].status]_vars
  BY StepKeeps DEF Final
<1> QED
  BY <1>1, AdapterInvariant, PTL DEF Spec, FinalAfterCall

=============================================================================
