----------------------------- MODULE GateProofs -----------------------------
(***************************************************************************)
(* The pre-trade gate implements the budget (GateKeepsBudget), an approved *)
(* entry keeps the heat (HeatIsKept) and the dispositions tell what became *)
(* of the orders (DispositionsAreTrue).  The last two parts are about the  *)
(* models around the engine (Advice): another budget, that of the language *)
(* models (RoleStaysWithinCap), and what the log is good for, a replay     *)
(* (ReplaysAgree) and the announcements (NewsIsAccounted).                 *)
(*                                                                         *)
(* Exposure, heat and capacity are sums.  A sum is a cardinality here, so  *)
(* the first lemmas say, without induction, how it changes with one        *)
(* summand, that zeros do not count, and that summing by instrument and by *)
(* signal is the same (TotalByKey).  The invariant is that an order is     *)
(* live exactly as long as it has shares left, and that polls are whole:   *)
(* then what the checks see is what is held and being bought.  Every step  *)
(* but the submission of an approved entry only releases capacity.         *)
(***************************************************************************)
EXTENDS Gate, Advice, FiniteSetTheorems, SequenceTheorems, TLAPS

-----------------------------------------------------------------------------
(* Sums.                                                                   *)

LEMMA UnitsAre ==
    ASSUME NEW S, NEW f \in [S -> Nat], NEW p
    PROVE  p \in Units(f) <=> p = <<p[1], p[2]>> /\ p[1] \in S /\ p[2] \in 1 .. f[p[1]]
<1>1. DOMAIN f = S
  OBVIOUS
<1>2. p \in Units(f) <=> \E x \in S : p \in {x} \X (1 .. f[x])
  BY <1>1 DEF Units
<1> QED
  BY <1>2

LEMMA UnitsFinite ==
    ASSUME NEW S, IsFiniteSet(S), NEW f \in [S -> Nat]
    PROVE  IsFiniteSet(Units(f)) /\ Total(f) \in Nat
<1> DEFINE g == [x \in S |-> {x} \X (1 .. f[x])]
           T == {g[x] : x \in S}
<1>1. g \in Surjection(S, T)
  BY DEF Surjection
<1>2. ASSUME NEW x \in S PROVE IsFiniteSet({x} \X (1 .. f[x]))
  <2>0. 1 \in Int /\ f[x] \in Int
    OBVIOUS
  <2>1. IsFiniteSet(1 .. f[x]) /\ IsFiniteSet({x})
    BY <2>0, FS_Interval, FS_Singleton, Zenon
  <2> QED
    BY <2>1, FS_Product
<1>3. \A t \in T : IsFiniteSet(t)
  BY <1>2
<1>4. Units(f) = UNION T
  <2>1. DOMAIN f = S
    OBVIOUS
  <2> QED
    BY <2>1 DEF Units
<1> HIDE DEF g, T
<1>5. IsFiniteSet(T)
  BY <1>1, FS_Surjection
<1>6. IsFiniteSet(Units(f))
  BY <1>3, <1>4, <1>5, FS_UNION
<1> QED
  BY <1>6, FS_CardinalityType DEF Total

LEMMA TotalZero ==
    ASSUME NEW S, NEW f \in [S -> Nat], \A x \in S : f[x] = 0
    PROVE  Total(f) = 0
<1>1. \A p : p \notin Units(f)
  BY UnitsAre
<1>2. Units(f) = {}
  BY <1>1
<1> QED
  BY <1>2, FS_EmptySet DEF Total

(* A sum over part of a set is the sum with zeros for the rest.            *)
LEMMA TotalOfPart ==
    ASSUME NEW S, NEW T \in SUBSET S, NEW f \in [S -> Nat], NEW g,
           g = [x \in T |-> f[x]], \A x \in S \ T : f[x] = 0
    PROVE  g \in [T -> Nat] /\ Total(g) = Total(f)
<1>1. g \in [T -> Nat]
  OBVIOUS
<1>2. \A p : p \in Units(g) <=> p \in Units(f)
  <2> SUFFICES ASSUME NEW p PROVE p \in Units(g) <=> p \in Units(f)
    OBVIOUS
  <2>1. p \in Units(g) <=> p = <<p[1], p[2]>> /\ p[1] \in T /\ p[2] \in 1 .. g[p[1]]
    BY <1>1, UnitsAre
  <2>2. p \in Units(f) <=> p = <<p[1], p[2]>> /\ p[1] \in S /\ p[2] \in 1 .. f[p[1]]
    BY UnitsAre
  <2>3. p[1] \in T => g[p[1]] = f[p[1]]
    OBVIOUS
  <2>4. p[1] \in S /\ p[1] \notin T => 1 .. f[p[1]] = {}
    OBVIOUS
  <2> QED
    BY <2>1, <2>2, <2>3, <2>4
<1>3. Units(g) = Units(f)
  BY <1>2
<1> QED
  BY <1>1, <1>3 DEF Total

LEMMA TotalMonotone ==
    ASSUME NEW S, IsFiniteSet(S), NEW f \in [S -> Nat], NEW g \in [S -> Nat],
           \A x \in S : f[x] <= g[x]
    PROVE  Total(f) <= Total(g)
<1>1. \A p : p \in Units(f) => p \in Units(g)
  <2> SUFFICES ASSUME NEW p \in Units(f) PROVE p \in Units(g)
    OBVIOUS
  <2>1. p = <<p[1], p[2]>> /\ p[1] \in S /\ p[2] \in 1 .. f[p[1]]
    BY UnitsAre
  <2>2. f[p[1]] \in Nat /\ g[p[1]] \in Nat /\ f[p[1]] <= g[p[1]]
    BY <2>1
  <2>3. p[2] \in 1 .. g[p[1]]
    BY <2>1, <2>2
  <2> QED
    BY <2>1, <2>3, UnitsAre
<1>2. Units(f) \in SUBSET Units(g)
  BY <1>1
<1> QED
  BY <1>2, UnitsFinite, FS_Subset DEF Total

(* The sum changes by what one summand changes.                            *)
LEMMA TotalOne ==
    ASSUME NEW S, IsFiniteSet(S), NEW f \in [S -> Nat], NEW g \in [S -> Nat], NEW c \in S,
           \A x \in S \ {c} : g[x] = f[x]
    PROVE  /\ Total(g) = Total(f) - f[c] + g[c]
           /\ Total(f) \in Nat /\ Total(g) \in Nat /\ f[c] <= Total(f)
<1> DEFINE Rest == {p \in Units(f) : p[1] # c}
           One(n) == {c} \X (1 .. n)
<1>1. IsFiniteSet(Rest) /\ Cardinality(Rest) \in Nat
  BY UnitsFinite, FS_Subset, FS_CardinalityType
<1>2. ASSUME NEW h \in [S -> Nat], \A x \in S \ {c} : h[x] = f[x]
      PROVE  Total(h) = Cardinality(Rest) + h[c]
  <2>1. \A p : p \in Units(h) <=> p \in Rest \/ p \in One(h[c])
    <3> SUFFICES ASSUME NEW p PROVE p \in Units(h) <=> p \in Rest \/ p \in One(h[c])
      OBVIOUS
    <3>1. p \in Units(h) <=> p = <<p[1], p[2]>> /\ p[1] \in S /\ p[2] \in 1 .. h[p[1]]
      BY UnitsAre
    <3>2. p \in Units(f) <=> p = <<p[1], p[2]>> /\ p[1] \in S /\ p[2] \in 1 .. f[p[1]]
      BY UnitsAre
    <3>3. p \in One(h[c]) <=> p = <<p[1], p[2]>> /\ p[1] = c /\ p[2] \in 1 .. h[c]
      OBVIOUS
    <3> HIDE DEF One
    <3> QED
      BY <1>2, <3>1, <3>2, <3>3
  <2>2. Units(h) = Rest \cup One(h[c])
    BY <2>1
  <2>3. Rest \cap One(h[c]) = {}
    OBVIOUS
  <2>4. h[c] \in Nat
    OBVIOUS
  <2>5. IsFiniteSet(One(h[c])) /\ Cardinality(One(h[c])) = h[c]
    <3>1. IsFiniteSet(1 .. h[c]) /\ Cardinality(1 .. h[c]) = h[c]
      BY <2>4, FS_Interval
    <3>2. IsFiniteSet({c}) /\ Cardinality({c}) = 1
      BY FS_Singleton
    <3>3. IsFiniteSet(One(h[c])) /\ Cardinality(One(h[c])) = 1 * h[c]
      <4> DEFINE A == {c}
                 B == 1 .. h[c]
      <4>1. IsFiniteSet(A) /\ Cardinality(A) = 1 /\ IsFiniteSet(B) /\ Cardinality(B) = h[c]
        BY <3>1, <3>2
      <4>2. One(h[c]) = A \X B
        OBVIOUS
      <4> HIDE DEF A, B, One
      <4>3. IsFiniteSet(A \X B) /\ Cardinality(A \X B) = Cardinality(A) * Cardinality(B)
        BY <4>1, FS_Product
      <4> QED
        BY <4>1, <4>2, <4>3
    <3> QED
      BY <2>4, <3>3
  <2> HIDE DEF Rest, One
  <2>6. Cardinality(Rest \cup One(h[c])) = Cardinality(Rest) + h[c] - 0
    BY <1>1, <2>3, <2>5, FS_Union, FS_EmptySet
  <2> QED
    BY <1>1, <2>2, <2>4, <2>6 DEF Total
<1> HIDE DEF Rest
<1>3. Total(f) = Cardinality(Rest) + f[c] /\ Total(g) = Cardinality(Rest) + g[c]
  BY <1>2
<1>4. f[c] \in Nat /\ g[c] \in Nat
  OBVIOUS
<1> QED
  BY <1>1, <1>3, <1>4

LEMMA TotalPlus ==
    ASSUME NEW S, IsFiniteSet(S), NEW f \in [S -> Nat], NEW g \in [S -> Nat], NEW h \in [S -> Nat],
           \A x \in S : h[x] = f[x] + g[x]
    PROVE  Total(h) = Total(f) + Total(g)
<1> DEFINE m == [p \in Units(g) |-> <<p[1], p[2] + f[p[1]]>>]
           T == {m[p] : p \in Units(g)}
<1>1. \A x \in S : f[x] \in Nat /\ g[x] \in Nat /\ h[x] \in Nat
  OBVIOUS
<1>2. ASSUME NEW p \in Units(g)
      PROVE  /\ p = <<p[1], p[2]>> /\ p[1] \in S /\ p[2] \in 1 .. g[p[1]] /\ p[2] \in Int
             /\ m[p] = <<p[1], p[2] + f[p[1]]>>
             /\ m[p] \in Units(h) /\ m[p] \notin Units(f)
  <2>1. p = <<p[1], p[2]>> /\ p[1] \in S /\ p[2] \in 1 .. g[p[1]]
    BY UnitsAre
  <2>2. m[p] = <<p[1], p[2] + f[p[1]]>>
    OBVIOUS
  <2>3. p[2] + f[p[1]] \in 1 .. h[p[1]] /\ p[2] + f[p[1]] \notin 1 .. f[p[1]] /\ p[2] \in Int
    BY <1>1, <2>1
  <2> HIDE DEF m
  <2>4. m[p][1] = p[1] /\ m[p][2] = p[2] + f[p[1]] /\ m[p] = <<m[p][1], m[p][2]>>
    BY <2>2
  <2> QED
    BY <2>1, <2>2, <2>3, <2>4, UnitsAre
<1>3. ASSUME NEW p \in Units(g), NEW q \in Units(g), m[p] = m[q] PROVE p = q
  <2> HIDE DEF m
  <2>1. p[1] = q[1] /\ p[2] + f[p[1]] = q[2] + f[p[1]]
    BY <1>2, <1>3
  <2>2. p[2] \in Int /\ q[2] \in Int /\ f[p[1]] \in Int
    BY <1>1, <1>2
  <2>3. \A a, b, k \in Int : a + k = b + k => a = b
    OBVIOUS
  <2>4. p[2] = q[2]
    BY <2>1, <2>2, <2>3, ZenonT(40)
  <2> QED
    BY <1>2, <2>1, <2>4
<1>4. m \in Bijection(Units(g), T)
  <2>1. m \in [Units(g) -> T] /\ \A y \in T : \E p \in Units(g) : m[p] = y
    OBVIOUS
  <2>2. \A p, q \in Units(g) : m[p] = m[q] => p = q
    BY <1>3
  <2> HIDE DEF m, T
  <2> QED
    BY <2>1, <2>2 DEF Bijection, Injection, Surjection, IsInjective
<1>5. ASSUME NEW p PROVE p \in Units(h) <=> p \in T \/ p \in Units(f)
  <2>1. p \in T => p \in Units(h)
    BY <1>2
  <2>2. p \in Units(f) => p \in Units(h)
    <3> SUFFICES ASSUME p \in Units(f) PROVE p \in Units(h)
      OBVIOUS
    <3>1. p = <<p[1], p[2]>> /\ p[1] \in S /\ p[2] \in 1 .. f[p[1]]
      BY UnitsAre
    <3>2. p[2] \in 1 .. h[p[1]]
      BY <1>1, <3>1
    <3> QED
      BY <3>1, <3>2, UnitsAre
  <2>3. ASSUME p \in Units(h), p \notin Units(f) PROVE p \in T
    <3>1. p = <<p[1], p[2]>> /\ p[1] \in S /\ p[2] \in 1 .. h[p[1]]
      BY <2>3, UnitsAre
    <3>2. p[2] \notin 1 .. f[p[1]]
      BY <2>3, <3>1, UnitsAre
    <3> DEFINE k == p[2] - f[p[1]]
               q == <<p[1], k>>
    <3>3. k \in 1 .. g[p[1]] /\ k + f[p[1]] = p[2]
      BY <1>1, <3>1, <3>2
    <3> HIDE DEF k
    <3>4. q[1] = p[1] /\ q[2] = k /\ q = <<q[1], q[2]>>
      OBVIOUS
    <3>5. q \in Units(g)
      BY <3>1, <3>3, <3>4, UnitsAre
    <3>6. m[q] = <<q[1], q[2] + f[q[1]]>>
      BY <3>5
    <3>7. m[q] = p
      BY <3>1, <3>3, <3>4, <3>6
    <3> QED
      BY <3>5, <3>7
  <2> QED
    BY <2>1, <2>2, <2>3
<1>6. T \cap Units(f) = {}
  BY <1>2
<1> HIDE DEF m, T
<1>7. Units(h) = T \cup Units(f)
  BY <1>5
<1>8. ExistsBijection(Units(g), T)
  BY <1>4 DEF ExistsBijection
<1>9. IsFiniteSet(T) /\ Cardinality(T) = Cardinality(Units(g))
  BY <1>8, UnitsFinite, FS_Bijection
<1>10. Cardinality(T \cup Units(f)) = Cardinality(T) + Cardinality(Units(f)) - 0
  BY <1>6, <1>9, UnitsFinite, FS_Union, FS_EmptySet
<1>11. Total(f) \in Nat /\ Total(g) \in Nat
  BY UnitsFinite
<1> QED
  BY <1>7, <1>9, <1>10, <1>11 DEF Total

(* A sum by groups: h[j] is the sum of the summands f[s] with key j.       *)
Grouped(S, J, k, f, Group, h) ==
    /\ IsFiniteSet(S) /\ IsFiniteSet(J) /\ f \in [S -> Nat] /\ h \in [J -> Nat]
    /\ \A s \in S : k[s] \notin J => f[s] = 0
    /\ Group \in [J -> [S -> Nat]] /\ \A j \in J : h[j] = Total(Group[j])
    /\ \A j \in J, s \in S : Group[j][s] = IF k[s] = j THEN f[s] ELSE 0

LEMMA TotalByKey ==
    ASSUME NEW S, NEW J, NEW k, NEW f, NEW Group, NEW h, Grouped(S, J, k, f, Group, h)
    PROVE  Total(h) = Total(f)
<1> USE DEF Grouped
<1> DEFINE U(j) == Units(Group[j])
           B == [j \in J |-> CHOOSE b : b \in Bijection(1 .. h[j], U(j))]
           m == [p \in Units(h) |-> B[p[1]][p[2]]]
<1>1. ASSUME NEW j \in J, NEW p
      PROVE  p \in U(j) <=> p \in Units(f) /\ k[p[1]] = j
  <2>1. Group[j] \in [S -> Nat] /\ \A s \in S : Group[j][s] = IF k[s] = j THEN f[s] ELSE 0
    OBVIOUS
  <2>2. p \in U(j) <=> p = <<p[1], p[2]>> /\ p[1] \in S /\ p[2] \in 1 .. Group[j][p[1]]
    BY <2>1, UnitsAre
  <2>3. p \in Units(f) <=> p = <<p[1], p[2]>> /\ p[1] \in S /\ p[2] \in 1 .. f[p[1]]
    BY UnitsAre
  <2>4. p[1] \in S /\ k[p[1]] # j => 1 .. Group[j][p[1]] = {}
    BY <2>1
  <2>5. p[1] \in S /\ k[p[1]] = j => Group[j][p[1]] = f[p[1]]
    BY <2>1
  <2> HIDE DEF U
  <2> QED
    BY <2>2, <2>3, <2>4, <2>5
<1>2. ASSUME NEW p \in Units(f) PROVE k[p[1]] \in J
  <2>1. p[1] \in S /\ p[2] \in 1 .. f[p[1]] /\ f[p[1]] \in Nat
    BY UnitsAre
  <2>2. f[p[1]] # 0
    BY <2>1
  <2> QED
    BY <2>1, <2>2
<1>3. ASSUME NEW j \in J PROVE B[j] \in Bijection(1 .. h[j], U(j))
  <2>1. Group[j] \in [S -> Nat]
    OBVIOUS
  <2>2. h[j] = Total(Group[j]) /\ h[j] \in Nat
    OBVIOUS
  <2>3. IsFiniteSet(U(j)) /\ Cardinality(U(j)) = h[j]
    BY <2>1, <2>2, UnitsFinite DEF Total
  <2> HIDE DEF U
  <2>4. ExistsBijection(1 .. h[j], U(j))
    BY <2>2, <2>3, FS_CardinalityType, Zenon
  <2>5. \E b : b \in Bijection(1 .. h[j], U(j))
    BY <2>4 DEF ExistsBijection
  <2>6. B[j] = CHOOSE b : b \in Bijection(1 .. h[j], U(j))
    OBVIOUS
  <2> HIDE DEF B
  <2> QED
    BY <2>5, <2>6
<1> HIDE DEF B, U
<1>4. ASSUME NEW j \in J
      PROVE  /\ \A n \in 1 .. h[j] : B[j][n] \in U(j)
             /\ \A n, o \in 1 .. h[j] : B[j][n] = B[j][o] => n = o
             /\ \A u \in U(j) : \E n \in 1 .. h[j] : B[j][n] = u
  BY <1>3 DEF Bijection, Injection, Surjection, IsInjective
<1>5. ASSUME NEW p \in Units(h)
      PROVE  /\ p = <<p[1], p[2]>> /\ p[1] \in J /\ p[2] \in 1 .. h[p[1]]
             /\ m[p] = B[p[1]][p[2]] /\ m[p] \in Units(f) /\ k[m[p][1]] = p[1]
  <2>1. p = <<p[1], p[2]>> /\ p[1] \in J /\ p[2] \in 1 .. h[p[1]]
    BY UnitsAre
  <2>2. m[p] = B[p[1]][p[2]]
    OBVIOUS
  <2> HIDE DEF m
  <2> QED
    BY <1>1, <1>4, <2>1, <2>2
<1>6. \A p, q \in Units(h) : m[p] = m[q] => p = q
  <2> SUFFICES ASSUME NEW p \in Units(h), NEW q \in Units(h), m[p] = m[q] PROVE p = q
    OBVIOUS
  <2> HIDE DEF m
  <2>1. p[1] = q[1]
    BY <1>5
  <2>2. B[p[1]][p[2]] = B[p[1]][q[2]] /\ p[1] \in J /\ p[2] \in 1 .. h[p[1]] /\ q[2] \in 1 .. h[p[1]]
    BY <1>5, <2>1
  <2>3. p[2] = q[2]
    BY <1>4, <2>2
  <2> QED
    BY <1>5, <2>1, <2>3
<1>7. \A u \in Units(f) : \E p \in Units(h) : m[p] = u
  <2> SUFFICES ASSUME NEW u \in Units(f) PROVE \E p \in Units(h) : m[p] = u
    OBVIOUS
  <2> DEFINE j == k[u[1]]
  <2>1. j \in J
    BY <1>2
  <2>2. u \in U(j)
    BY <1>1, <2>1
  <2> HIDE DEF j
  <2>3. PICK n \in 1 .. h[j] : B[j][n] = u
    BY <1>4, <2>1, <2>2
  <2> DEFINE p == <<j, n>>
  <2>4. p[1] = j /\ p[2] = n /\ p = <<p[1], p[2]>>
    OBVIOUS
  <2> HIDE DEF p
  <2>5. p \in Units(h)
    BY <2>1, <2>3, <2>4, UnitsAre
  <2>6. m[p] = u
    BY <2>3, <2>4, <2>5
  <2> QED
    BY <2>5, <2>6
<1>8. m \in [Units(h) -> Units(f)]
  BY <1>5
<1> HIDE DEF m
<1>9. m \in Bijection(Units(h), Units(f))
  BY <1>6, <1>7, <1>8 DEF Bijection, Injection, Surjection, IsInjective
<1>10. ExistsBijection(Units(h), Units(f))
  BY <1>9 DEF ExistsBijection
<1> QED
  BY <1>10, UnitsFinite, FS_Bijection DEF Total

-----------------------------------------------------------------------------
(* The invariant.                                                          *)

OrderType == [status : {"none", "placing", "working", "unknown", "filled", "gone"},
              left : Nat, stop : Int, ref : Nat]
HoldType == [qty : Nat, cost : Nat, stop : Int,
             strategy : {"none"} \cup {s.strategy : s \in Signals}]
CycleType == [pc : {"idle", "requote", "next", "review", "place"},
              cur : SUBSET Signals, todo : SUBSET Signals, stop : [Signals -> Int],
              end : {"none", "whole", "raised"}]
DayType == [entered : SUBSET Instruments, exited : SUBSET Instruments, peak : Int]
EnvType == [phase : {"entry", "open", "closed"}, kill : BOOLEAN, file : BOOLEAN]
CountType == [cycles : Nat, restarts : Nat, events : Nat]

BookTyped == order \in [Signals -> OrderType] /\ hold \in [Instruments -> HoldType] /\ cash \in Int
MarketTyped == quote \in [Instruments -> 0 .. MaxPrice] /\ env \in EnvType
CycleTyped == cycle \in CycleType /\ count \in CountType
Typed == BookTyped /\ MarketTyped /\ CycleTyped /\ day \in DayType

(* An order is live as long as it has shares left to buy.                  *)
LeftIsLive == \A s \in Signals : s \in Live <=> order[s].left > 0

(* When polls are whole, everything is quoted or nothing is, since the     *)
(* restart.                                                                *)
Whole ==
    PartialPolls = FALSE =>
        (\A i \in Instruments : quote[i] = 0) \/ (\A i \in Instruments : quote[i] # 0)

GateInv == Typed /\ LeftIsLive /\ Whole

LEMMA AverageCost ==
    ASSUME NEW c \in Nat, NEW n \in Nat \ {0}
    PROVE  c \div n \in Nat
OBVIOUS

LEMMA ProductNat ==
    ASSUME NEW a \in Nat, NEW b \in Nat
    PROVE  a * b \in Nat
OBVIOUS

LEMMA LimitsAreNumbers ==
    /\ Cash \in Nat /\ MaxPrice \in Nat /\ Close \in Nat /\ 1 <= Close /\ Close <= MaxPrice
    /\ StopDistance \in Nat
    /\ MaxPositions \in Nat /\ MaxEntries \in Nat /\ MaxGrossPct \in Nat /\ MaxSectorPct \in Nat
    /\ MaxHeatPct \in Nat /\ RiskPct \in Nat /\ PositionPct \in Nat /\ StrategyPct \in Nat
    /\ AdvShares \in Nat
<1>1. Cash \in Nat /\ MaxPrice \in Nat /\ Close \in 1 .. MaxPrice /\ StopDistance \in Nat
  BY GateAssumption
<1>2. \A x \in {MaxPositions, MaxEntries, MaxGrossPct, MaxSectorPct, MaxHeatPct, RiskPct,
                PositionPct, StrategyPct, AdvShares} : x \in Nat
  BY GateAssumption
<1> QED
  BY <1>1, <1>2

LEMMA SignalInstrument ==
    ASSUME NEW s \in Signals
    PROVE  s.instrument \in Instruments
BY GateAssumption

LEMMA GateInvInit ==
    Init => GateInv
<1> SUFFICES ASSUME Init PROVE GateInv
  OBVIOUS
<1> USE DEF Init
<1>1. BookTyped
  BY LimitsAreNumbers DEF BookTyped, OrderType, HoldType, NoOrder, Ended, Flat
<1>2. MarketTyped
  BY LimitsAreNumbers DEF MarketTyped, EnvType
<1>3. CycleTyped
  BY DEF CycleTyped, CycleType, CountType, Idle, IdleAfter
<1>4. day \in DayType
  BY LimitsAreNumbers DEF DayType
<1>5. LeftIsLive
  BY DEF LeftIsLive, Live, NoOrder, Ended
<1>6. Whole
  BY DEF Whole
<1> QED
  BY <1>1, <1>2, <1>3, <1>4, <1>5, <1>6 DEF GateInv, Typed

(* The steps that leave the book and the market alone.                     *)
LEMMA SameLive ==
    ASSUME LeftIsLive, UNCHANGED order
    PROVE  LeftIsLive'
BY DEF LeftIsLive, Live

LEMMA SameWhole ==
    ASSUME Whole, UNCHANGED quote
    PROVE  Whole'
BY DEF Whole

LEMMA CycleKeeps ==
    ASSUME GateInv, UNCHANGED <<order, hold, cash, day, quote, env>>, CycleTyped'
    PROVE  GateInv'
<1>1. BookTyped' /\ MarketTyped' /\ (day \in DayType)'
  BY DEF GateInv, Typed, BookTyped, MarketTyped
<1>2. LeftIsLive' /\ Whole'
  BY SameLive, SameWhole DEF GateInv
<1> QED
  BY <1>1, <1>2 DEF GateInv, Typed

LEMMA BeginKeeps ==
    ASSUME GateInv, Begin
    PROVE  GateInv'
<1> DEFINE rest == {s \in Signals : s.use \in {"trade", "sell"}}
<1>1. cycle' = IF rest = {} THEN IdleAfter("whole") ELSE [Idle EXCEPT !.pc = "requote", !.todo = rest]
  BY DEF Begin
<1>2. rest \in SUBSET Signals
  OBVIOUS
<1> HIDE DEF rest
<1> DEFINE stops == [s \in Signals |-> 0]
<1>5. stops \in [Signals -> Int]
  OBVIOUS
<1>6. \/ cycle' = [pc |-> "idle", cur |-> {}, todo |-> {}, stop |-> stops, end |-> "whole"]
      \/ cycle' = [pc |-> "requote", cur |-> {}, todo |-> rest, stop |-> stops, end |-> "none"]
  BY <1>1 DEF Idle, IdleAfter
<1> HIDE DEF stops
<1>3. cycle' \in CycleType
  BY <1>2, <1>5, <1>6 DEF CycleType
<1>4. count' \in CountType
  BY DEF Begin, GateInv, Typed, CycleTyped, CountType
<1> QED
  BY <1>3, <1>4, CycleKeeps DEF Begin, CycleTyped, bookVars, marketVars

LEMMA StopForInt ==
    ASSUME GateInv, NEW s \in Signals
    PROVE  StopFor(s) \in Int
BY SignalInstrument, LimitsAreNumbers DEF StopFor, GateInv, Typed, MarketTyped

LEMMA RequotedKeeps ==
    ASSUME GateInv, Requoted
    PROVE  GateInv'
<1> DEFINE skipped == {s \in cycle.todo : s.use = "sell" \/ StopFor(s) <= 0}
           stops == [s \in Signals |-> IF s \in cycle.todo \ skipped THEN StopFor(s) ELSE 0]
<1>1. cycle' = [cycle EXCEPT !.pc = "next", !.todo = @ \ skipped, !.stop = stops]
  BY DEF Requoted
<1>2. stops \in [Signals -> Int]
  BY StopForInt
<1> HIDE DEF skipped, stops
<1>3. cycle' \in CycleType
  BY <1>1, <1>2 DEF CycleType, GateInv, Typed, CycleTyped
<1>4. count' \in CountType
  BY DEF Requoted, GateInv, Typed, CycleTyped
<1> QED
  BY <1>3, <1>4, CycleKeeps DEF Requoted, CycleTyped, bookVars, marketVars

LEMMA DisposeTyped ==
    ASSUME GateInv, NEW s \in Signals, NEW how, Dispose(s, how)
    PROVE  cycle' \in CycleType
<1>1. cycle' = [cycle EXCEPT !.pc = "next", !.cur = {}, !.stop[s] = 0]
  BY DEF Dispose
<1> DEFINE stops == [cycle.stop EXCEPT ![s] = 0]
<1>2. cycle \in CycleType
  BY DEF GateInv, Typed, CycleTyped
<1>3. cycle.stop \in [Signals -> Int]
  BY <1>2 DEF CycleType
<1>4. stops \in [Signals -> Int]
  BY <1>3
<1>5. cycle' = [pc |-> "next", cur |-> {}, todo |-> cycle.todo, stop |-> stops, end |-> cycle.end]
  BY <1>1, <1>2 DEF CycleType
<1> HIDE DEF stops
<1> QED
  BY <1>2, <1>4, <1>5 DEF CycleType

LEMMA CycleStepsKeep ==
    ASSUME GateInv, NEW s \in Signals, Review(s) \/ CycleEnds \/ Vetoed(s) \/ SubmitRaises(s)
    PROVE  GateInv'
<1> USE DEF CycleType, GateInv, Typed, CycleTyped, bookVars, marketVars
<1>1. CASE Review(s)
  BY <1>1, CycleKeeps DEF Review
<1>2. CASE CycleEnds
  BY <1>2, CycleKeeps DEF CycleEnds, IdleAfter
<1>3. CASE Vetoed(s)
  BY <1>3, CycleKeeps, DisposeTyped DEF Vetoed
<1>4. CASE SubmitRaises(s)
  BY <1>4, CycleKeeps DEF SubmitRaises, IdleAfter
<1> QED
  BY <1>1, <1>2, <1>3, <1>4

-----------------------------------------------------------------------------
(* What the gate computes.                                                 *)

LEMMA SharesNat ==
    ASSUME NEW h \in Int, NEW p \in Int
    PROVE  Shares(h, p) \in Nat
<1>1. CASE h <= 0 \/ p <= 0
  BY <1>1 DEF Shares
<1>2. CASE ~(h <= 0 \/ p <= 0)
  <2>1. h \in Nat /\ 100 * p \in Nat \ {0}
    BY <1>2
  <2>2. h \div (100 * p) \in Nat
    BY <2>1, AverageCost
  <2> QED
    BY <1>2, <2>2 DEF Shares
<1> QED
  BY <1>1, <1>2

(* Shares that fit in a room cost no more than the room.                   *)
LEMMA SharesFit ==
    ASSUME NEW h \in Int, NEW p \in Int, NEW q \in Nat \ {0}, q <= Shares(h, p)
    PROVE  p > 0 /\ 100 * (p * q) <= h
<1>1. h > 0 /\ p > 0 /\ q <= h \div (100 * p)
  BY DEF Shares
<1> DEFINE d == 100 * p
           n == h \div d
<1>2. d \in Nat \ {0} /\ n \in Nat /\ d * n <= h
  BY <1>1
<1>3. q <= n
  BY <1>1
<1>4. d * q = 100 * (p * q)
  OBVIOUS
<1> HIDE DEF d, n
<1>5. d * q <= d * n
  BY <1>2, <1>3
<1>6. d * q \in Int /\ d * n \in Int
  BY <1>2
<1> QED
  BY <1>1, <1>2, <1>4, <1>5, <1>6

LEMMA NotionalNat ==
    ASSUME GateInv, NEW i \in Instruments
    PROVE  Notional(i) \in Nat
<1>1. hold[i].qty \in Nat /\ hold[i].cost \in Nat /\ quote[i] \in Nat
  BY LimitsAreNumbers DEF GateInv, Typed, BookTyped, MarketTyped, HoldType
<1>2. hold[i].qty * quote[i] \in Nat
  BY <1>1, ProductNat
<1> QED
  BY <1>1, <1>2 DEF Notional

LEMMA PendingNat ==
    ASSUME GateInv, NEW s \in Signals
    PROVE  Pending(s) \in Nat /\ Price(s) \in Nat /\ order[s].left \in Nat /\ order[s].stop \in Int
           /\ Distance(s) \in Int
<1>1. Price(s) \in Nat
  BY SignalInstrument, LimitsAreNumbers DEF Price, GateInv, Typed, MarketTyped
<1>2. order[s].left \in Nat /\ order[s].stop \in Int
  BY DEF GateInv, Typed, BookTyped, OrderType
<1> QED
  BY <1>1, <1>2, ProductNat DEF Pending, Distance

LEMMA OpenRiskNat ==
    ASSUME GateInv, NEW i \in Instruments
    PROVE  OpenRisk(i) \in Nat
<1>1. Notional(i) \in Nat /\ hold[i].qty \in Nat /\ hold[i].stop \in Int
  BY NotionalNat DEF GateInv, Typed, BookTyped, HoldType
<1>2. hold[i].qty * hold[i].stop \in Int
  BY <1>1
<1> QED
  BY <1>1, <1>2 DEF OpenRisk, MaxOf

LEMMA BookSets ==
    /\ IsFiniteSet(Instruments) /\ IsFiniteSet(Signals)
    /\ Held \in SUBSET Instruments /\ Live \in SUBSET Signals /\ Reserved \in SUBSET Live
    /\ \A T : T \subseteq Instruments \/ T \subseteq Signals => IsFiniteSet(T)
<1>1. IsFiniteSet(Instruments) /\ IsFiniteSet(Signals)
  BY GateAssumption
<1>2. \A T : T \subseteq Instruments \/ T \subseteq Signals => IsFiniteSet(T)
  BY <1>1, FS_Subset
<1> QED
  BY <1>1, <1>2 DEF Held, Live, Reserved

LEMMA PartTotals ==
    ASSUME GateInv, NEW T \in SUBSET Instruments, NEW R \in SUBSET Signals
    PROVE  /\ [i \in T |-> Notional(i)] \in [T -> Nat] /\ Total([i \in T |-> Notional(i)]) \in Nat
           /\ [i \in T |-> OpenRisk(i)] \in [T -> Nat] /\ Total([i \in T |-> OpenRisk(i)]) \in Nat
           /\ [s \in R |-> Pending(s)] \in [R -> Nat] /\ Total([s \in R |-> Pending(s)]) \in Nat
<1>1. IsFiniteSet(T) /\ IsFiniteSet(R)
  BY BookSets
<1>2. /\ [i \in T |-> Notional(i)] \in [T -> Nat] /\ [i \in T |-> OpenRisk(i)] \in [T -> Nat]
      /\ [s \in R |-> Pending(s)] \in [R -> Nat]
  BY NotionalNat, OpenRiskNat, PendingNat
<1> QED
  BY <1>1, <1>2, UnitsFinite

LEMMA SignedInt ==
    ASSUME GateInv, NEW R \in SUBSET Signals
    PROVE  SignedTotal([s \in R |-> Distance(s) * order[s].left]) \in Int
<1> DEFINE f == [s \in R |-> Distance(s) * order[s].left]
           up == [s \in DOMAIN f |-> Above(f[s])]
           down == [s \in DOMAIN f |-> Above(-f[s])]
<1>1. f \in [R -> Int]
  BY PendingNat
<1>2. up \in [R -> Nat] /\ down \in [R -> Nat]
  <2> HIDE DEF f
  <2> QED
    BY <1>1 DEF Above
<1>3. IsFiniteSet(R)
  BY BookSets
<1>4. SignedTotal(f) = Total(up) - Total(down)
  BY DEF SignedTotal
<1> HIDE DEF f, up, down
<1>5. Total(up) \in Nat /\ Total(down) \in Nat
  BY <1>2, <1>3, UnitsFinite
<1>6. SignedTotal(f) \in Int
  BY <1>4, <1>5
<1> QED
  BY <1>6 DEF f

LEMMA EquityInt ==
    ASSUME GateInv
    PROVE  Equity \in Int
<1>1. Total([i \in Held |-> Notional(i)]) \in Nat
  BY BookSets, PartTotals
<1>2. cash \in Int
  BY DEF GateInv, Typed, BookTyped
<1> QED
  BY <1>1, <1>2 DEF Equity

LEMMA ExposureNat ==
    ASSUME GateInv, NEW T \in SUBSET Instruments
    PROVE  Exposure(T) \in Nat
<1> DEFINE A == T \cap Held
           R == {r \in Reserved : r.instrument \in T}
<1>1. A \in SUBSET Instruments /\ R \in SUBSET Signals
  BY BookSets
<1>2. Exposure(T) = Total([i \in A |-> Notional(i)]) + Total([s \in R |-> Pending(s)])
  BY DEF Exposure
<1> HIDE DEF A, R
<1>3. Total([i \in A |-> Notional(i)]) \in Nat /\ Total([s \in R |-> Pending(s)]) \in Nat
  BY <1>1, PartTotals
<1> QED
  BY <1>2, <1>3

LEMMA HeatInt ==
    ASSUME GateInv
    PROVE  Heat \in Int
<1>1. Held \in SUBSET Instruments /\ Reserved \in SUBSET Signals
  BY BookSets
<1>2. Total([i \in Held |-> OpenRisk(i)]) \in Nat
  BY <1>1, PartTotals
<1>3. SignedTotal([s \in Reserved |-> Distance(s) * order[s].left]) \in Int
  BY <1>1, SignedInt
<1> QED
  BY <1>2, <1>3 DEF Heat

LEMMA DeployedNat ==
    ASSUME GateInv, NEW st
    PROVE  Deployed(st) \in Nat
<1> DEFINE A == {j \in Held : hold[j].strategy = st}
           R == {r \in Reserved : r.strategy = st}
<1>1. A \in SUBSET Instruments /\ R \in SUBSET Signals
  BY BookSets
<1>2. Deployed(st) = Total([i \in A |-> Notional(i)]) + Total([s \in R |-> Pending(s)])
  BY DEF Deployed
<1> HIDE DEF A, R
<1>3. Total([i \in A |-> Notional(i)]) \in Nat /\ Total([s \in R |-> Pending(s)]) \in Nat
  BY <1>1, PartTotals
<1> QED
  BY <1>2, <1>3

LEMMA LeastOfMore ==
    ASSUME NEW S \in SUBSET Int, NEW a \in Int, \E x \in S : \A y \in S : x <= y
    PROVE  \E x \in S \cup {a} : \A y \in S \cup {a} : x <= y
<1>1. PICK x \in S : \A y \in S : x <= y
  OBVIOUS
<1>2. x \in Int
  OBVIOUS
<1>3. CASE x <= a
  BY <1>1, <1>3
<1>4. CASE a <= x
  <2>1. \A y \in S : y \in Int /\ a <= y
    BY <1>1, <1>2, <1>4
  <2> QED
    BY <2>1
<1> QED
  BY <1>2, <1>3, <1>4

(* The cap of an entry on a quote is one of its caps and the smallest.     *)
LEMMA CapsHaveLeast ==
    ASSUME GateInv, NEW i \in Instruments, NEW st, NEW stop \in Int, quote[i] # 0
    PROVE  /\ Min(Caps(i, st, stop)) \in Int
           /\ \A x \in Caps(i, st, stop) : Min(Caps(i, st, stop)) <= x
<1> DEFINE a == notional_max(i)
           b == risk_per_trade(i, stop)
           c == gross(i)
           d == sector(i)
           e == heat(i, stop)
           f == capital_alloc(i, st)
           g == cash_room(i)
           Peers == {j \in Instruments : Sector[j] = Sector[i]}
<1>1. quote[i] \in Nat \ {0} /\ quote[i] - stop \in Int
  BY LimitsAreNumbers DEF GateInv, Typed, MarketTyped
<1>2. /\ Equity \in Int /\ Exposure(Instruments) \in Nat /\ Exposure(Peers) \in Nat
      /\ Heat \in Int /\ Deployed(st) \in Nat
  BY EquityInt, ExposureNat, HeatInt, DeployedNat
<1>23. \A h, p \in Int : Shares(h, p) \in Int
  BY SharesNat
<1>24. /\ Equity * PositionPct \in Int /\ Equity * RiskPct \in Int
       /\ Equity * MaxGrossPct - 100 * Exposure(Instruments) \in Int
       /\ Equity * MaxSectorPct - 100 * Exposure(Peers) \in Int
       /\ Equity * MaxHeatPct - 100 * Heat \in Int
       /\ Equity * StrategyPct - 100 * Deployed(st) \in Int
       /\ quote[i] \in Int
  BY <1>1, <1>2, LimitsAreNumbers
<1>3. a \in Int
  BY <1>1, <1>23, <1>24, Zenon DEF notional_max
<1>4. b \in Int
  BY <1>1, <1>23, <1>24, Zenon DEF risk_per_trade
<1>5. c \in Int
  BY <1>1, <1>23, <1>24, Zenon DEF gross
<1>6. d \in Int
  BY <1>1, <1>23, <1>24, Zenon DEF sector
<1>7. e \in Int
  BY <1>1, <1>23, <1>24, Zenon DEF heat
<1>8. f \in Int
  BY <1>1, <1>23, <1>24, Zenon DEF capital_alloc
<1>9. g \in Int
  <2> DEFINE T == Total([s \in Reserved |-> Pending(s)])
  <2>1. T \in Nat
    BY BookSets, PartTotals
  <2>2. cash \in Int
    BY DEF GateInv, Typed, BookTyped
  <2>3. g = (10000 * (cash - T)) \div (10065 * quote[i])
    BY DEF cash_room
  <2> HIDE DEF T
  <2>4. 10000 * (cash - T) \in Int /\ 10065 * quote[i] \in Nat \ {0}
    BY <1>1, <2>1, <2>2
  <2> QED
    BY <2>3, <2>4
<1>10. Caps(i, st, stop) = ((((((({a} \cup {b}) \cup {c}) \cup {d}) \cup {e}) \cup {f}) \cup {g}) \cup {AdvShares})
  BY DEF Caps
<1>11. AdvShares \in Int
  BY LimitsAreNumbers
<1> HIDE DEF a, b, c, d, e, f, g
<1> DEFINE S == Caps(i, st, stop)
           Least(T) == \E x \in T : \A y \in T : x <= y
<1>12. Least({a}) /\ {a} \subseteq Int
  BY <1>3
<1>13. Least({a} \cup {b}) /\ {a} \cup {b} \subseteq Int
  BY <1>4, <1>12, LeastOfMore
<1>14. Least(({a} \cup {b}) \cup {c}) /\ ({a} \cup {b}) \cup {c} \subseteq Int
  BY <1>5, <1>13, LeastOfMore
<1>15. Least((({a} \cup {b}) \cup {c}) \cup {d}) /\ (({a} \cup {b}) \cup {c}) \cup {d} \subseteq Int
  BY <1>6, <1>14, LeastOfMore
<1> DEFINE F == (({a} \cup {b}) \cup {c}) \cup {d}
<1> HIDE DEF F
<1>16. Least(F \cup {e}) /\ F \cup {e} \subseteq Int
  BY <1>7, <1>15, LeastOfMore DEF F
<1>17. Least((F \cup {e}) \cup {f}) /\ (F \cup {e}) \cup {f} \subseteq Int
  BY <1>8, <1>16, LeastOfMore
<1>18. Least(((F \cup {e}) \cup {f}) \cup {g}) /\ ((F \cup {e}) \cup {f}) \cup {g} \subseteq Int
  BY <1>9, <1>17, LeastOfMore
<1> DEFINE G == ((F \cup {e}) \cup {f}) \cup {g}
<1> HIDE DEF G
<1>19. Least(G \cup {AdvShares}) /\ G \cup {AdvShares} \subseteq Int
  BY <1>11, <1>18, LeastOfMore DEF G
<1>20. S = G \cup {AdvShares}
  BY <1>10 DEF F, G
<1>21. Least(S) /\ S \subseteq Int
  BY <1>19, <1>20
<1> HIDE DEF S
<1>22. Min(S) \in S /\ \A y \in S : Min(S) <= y
  BY <1>21 DEF Min
<1> QED
  BY <1>21, <1>22 DEF S

(* What an approved entry has passed.                                      *)
LEMMA ApprovedFits ==
    ASSUME GateInv, NEW s \in Signals, NEW stop \in Int, NEW failing
    PROVE  /\ Approved(s, stop, failing) \in Nat
           /\ Approved(s, stop, failing) # 0 =>
                /\ ~EntryBlocked(s.instrument, stop, failing)
                /\ \A x \in Caps(s.instrument, s.strategy, stop) : Approved(s, stop, failing) <= x
<1> DEFINE i == s.instrument
           C == Caps(i, s.strategy, stop)
<1>1. i \in Instruments
  BY SignalInstrument
<1>2. CASE EntryBlocked(i, stop, failing)
  BY <1>2 DEF Approved
<1>3. CASE ~EntryBlocked(i, stop, failing)
  <2>1. quote[i] # 0
    BY <1>3 DEF EntryBlocked
  <2>2. Min(C) \in Int /\ \A x \in C : Min(C) <= x
    BY <1>1, <2>1, CapsHaveLeast
  <2>3. Approved(s, stop, failing) = IF 0 >= Min(C) THEN 0 ELSE Min(C)
    BY <1>3 DEF Approved, MaxOf
  <2> HIDE DEF C
  <2> QED
    BY <1>3, <2>2, <2>3 DEF C
<1> QED
  BY <1>2, <1>3

-----------------------------------------------------------------------------
(* The invariant is kept.                                                  *)

(* A submission of a new intent that the gate approves.                    *)
Granted(s, failing, qty) ==
    /\ order[s].status = "none" /\ ~env.file
    /\ qty = Approved(s, cycle.stop[s], failing) /\ qty # 0
    /\ order' = [order EXCEPT ![s] = [status |-> "placing", left |-> qty, stop |-> cycle.stop[s],
                                      ref |-> quote[s.instrument]]]
    /\ day' = [day EXCEPT !.entered = @ \cup {s.instrument}]
    /\ env' = env /\ cycle' = [cycle EXCEPT !.pc = "place"] /\ UNCHANGED <<disp, hold, cash, quote, count>>

LEMMA SubmitIs ==
    ASSUME GateInv, NEW s \in Signals, NEW failing, Submit(s, failing)
    PROVE  /\ env' \in EnvType /\ UNCHANGED <<hold, cash, quote, count>>
           /\ \/ Granted(s, failing, Approved(s, cycle.stop[s], failing))
              \/ /\ UNCHANGED <<order, day>>
                 /\ Dispose(s, IF order[s].status # "none" THEN "submitted" ELSE "refused")
<1> DEFINE known == order[s].status # "none"
           qty == IF env.file THEN 0 ELSE Approved(s, cycle.stop[s], failing)
<1>1. env \in EnvType
  BY DEF GateInv, Typed, MarketTyped
<1>2. env' = [env EXCEPT !.kill = @ \/ (env.file /\ ~known)] /\ UNCHANGED <<hold, cash, quote, count>>
  BY DEF Submit
<1>3. env' \in EnvType
  <2> DEFINE k == env.kill \/ (env.file /\ ~known)
  <2>1. k \in BOOLEAN
    OBVIOUS
  <2>2. env' = [env EXCEPT !.kill = k]
    BY <1>2
  <2> HIDE DEF k
  <2> QED
    BY <1>1, <2>1, <2>2 DEF EnvType
<1>4. CASE known \/ qty = 0
  BY <1>2, <1>3, <1>4 DEF Submit
<1>5. CASE ~(known \/ qty = 0)
  <2>1. /\ order' = [order EXCEPT ![s] = [status |-> "placing", left |-> qty,
                                         stop |-> cycle.stop[s], ref |-> quote[s.instrument]]]
        /\ day' = RecordOrder(s) /\ cycle' = [cycle EXCEPT !.pc = "place"] /\ UNCHANGED disp
    BY <1>5 DEF Submit
  <2>2. ~env.file /\ qty = Approved(s, cycle.stop[s], failing)
    BY <1>5
  <2>3. env' = env
    <3>1. (env.kill \/ (env.file /\ ~known)) = env.kill
      BY <1>1, <2>2 DEF EnvType
    <3>2. env' = [env EXCEPT !.kill = env.kill]
      BY <1>2, <3>1
    <3> QED
      BY <1>1, <3>2 DEF EnvType
  <2> QED
    BY <1>2, <1>3, <1>5, <2>1, <2>2, <2>3 DEF Granted, RecordOrder
<1> QED
  BY <1>4, <1>5

LEMMA StopOf ==
    ASSUME GateInv, NEW s \in Signals
    PROVE  cycle.stop[s] \in Int
<1>1. cycle.stop \in [Signals -> Int]
  BY DEF GateInv, Typed, CycleTyped, CycleType
<1> QED
  BY <1>1

LEMMA SubmitKeeps ==
    ASSUME GateInv, NEW s \in Signals, NEW failing, Submit(s, failing)
    PROVE  GateInv'
<1>1. env' \in EnvType /\ UNCHANGED <<hold, cash, quote, count>>
  BY SubmitIs
<1>2. CASE UNCHANGED <<order, day>>
           /\ Dispose(s, IF order[s].status # "none" THEN "submitted" ELSE "refused")
  <2>1. cycle' \in CycleType
    BY <1>2, DisposeTyped
  <2> QED
    BY <1>1, <1>2, <2>1, SameLive, SameWhole
       DEF GateInv, Typed, BookTyped, MarketTyped, CycleTyped
<1>3. CASE Granted(s, failing, Approved(s, cycle.stop[s], failing))
  <2> DEFINE qty == Approved(s, cycle.stop[s], failing)
             stop == cycle.stop[s]
  <2>1. qty \in Nat /\ qty > 0 /\ stop \in Int
    BY <1>3, StopOf, ApprovedFits DEF Granted
  <2>2. s.instrument \in Instruments /\ quote[s.instrument] \in Nat
    BY SignalInstrument, LimitsAreNumbers DEF GateInv, Typed, MarketTyped
  <2> DEFINE o == [status |-> "placing", left |-> qty, stop |-> stop, ref |-> quote[s.instrument]]
  <2>3. order' = [order EXCEPT ![s] = o] /\ day' = [day EXCEPT !.entered = @ \cup {s.instrument}]
        /\ cycle' = [cycle EXCEPT !.pc = "place"]
    BY <1>3 DEF Granted
  <2> HIDE DEF qty, stop
  <2>4. o \in OrderType /\ o.status = "placing" /\ o.left > 0
    BY <2>1, <2>2 DEF OrderType
  <2> HIDE DEF o
  <2>5. BookTyped'
    BY <1>1, <2>3, <2>4 DEF GateInv, Typed, BookTyped
  <2>6. Typed'
    BY <1>1, <2>2, <2>3, <2>5 DEF GateInv, Typed, MarketTyped, CycleTyped, CycleType, DayType
  <2>7. LeftIsLive'
    BY <2>3, <2>4 DEF GateInv, Typed, BookTyped, LeftIsLive, Live
  <2> QED
    BY <1>1, <2>6, <2>7, SameWhole DEF GateInv
<1> QED
  BY <1>2, <1>3, SubmitIs

(* The order of s becomes o, live as long as something is left.            *)
LEMMA OrderKeeps ==
    ASSUME GateInv, NEW s \in Signals, NEW o \in OrderType,
           o.status \in {"placing", "working", "unknown"} <=> o.left > 0,
           order' = [order EXCEPT ![s] = o]
    PROVE  order' \in [Signals -> OrderType] /\ LeftIsLive'
BY DEF GateInv, Typed, BookTyped, LeftIsLive, Live

LEMMA PlacedKeeps ==
    ASSUME GateInv, NEW s \in Signals, NEW status \in {"working", "gone", "unknown"},
           Placed(s, status)
    PROVE  GateInv'
<1> DEFINE o == IF order[s].status # "placing" THEN order[s]
                ELSE IF status = "gone" THEN Ended("gone")
                ELSE [order[s] EXCEPT !.status = status]
<1>1. order' = [order EXCEPT ![s] = o] /\ UNCHANGED <<quote, env, hold, cash, day, count>>
  BY DEF Placed, marketVars
<1>2. order[s] \in OrderType
      /\ (order[s].status \in {"placing", "working", "unknown"} <=> order[s].left > 0)
  BY DEF GateInv, Typed, BookTyped, LeftIsLive, Live
<1>3. o \in OrderType /\ (o.status \in {"placing", "working", "unknown"} <=> o.left > 0)
  BY <1>2 DEF OrderType, Ended
<1>4. cycle' \in CycleType
  BY DisposeTyped DEF Placed
<1> HIDE DEF o
<1>5. order' \in [Signals -> OrderType] /\ LeftIsLive'
  BY <1>1, <1>3, OrderKeeps
<1> QED
  BY <1>1, <1>4, <1>5, SameWhole DEF GateInv, Typed, BookTyped, MarketTyped, CycleTyped

LEMMA OrderEndsKeeps ==
    ASSUME GateInv, NEW s \in Signals, OrderEnds(s)
    PROVE  GateInv'
<1> DEFINE o == Ended("gone")
<1>1. o \in OrderType /\ (o.status \in {"placing", "working", "unknown"} <=> o.left > 0)
  BY DEF OrderType, Ended
<1>2. order' = [order EXCEPT ![s] = o] /\ UNCHANGED <<quote, env, hold, cash, day, cycle>>
  BY DEF OrderEnds, marketVars
<1> HIDE DEF o
<1>3. order' \in [Signals -> OrderType] /\ LeftIsLive'
  BY <1>1, <1>2, OrderKeeps
<1>4. count' \in CountType
  BY DEF OrderEnds, Happens, GateInv, Typed, CycleTyped, CountType
<1> QED
  BY <1>2, <1>3, <1>4, SameWhole DEF GateInv, Typed, BookTyped, MarketTyped, CycleTyped

(* The position in i becomes h.                                            *)
LEMMA HoldKeeps ==
    ASSUME GateInv, NEW i \in Instruments, NEW h \in HoldType, hold' = [hold EXCEPT ![i] = h]
    PROVE  hold' \in [Instruments -> HoldType]
BY DEF GateInv, Typed, BookTyped

LEMMA FillIs ==
    ASSUME GateInv, NEW s \in Signals, Fill(s)
    PROVE  \E o \in OrderType, h \in HoldType :
              /\ order' = [order EXCEPT ![s] = o] /\ hold' = [hold EXCEPT ![s.instrument] = h]
              /\ o.left = order[s].left - 1 /\ h.qty = hold[s.instrument].qty + 1
              /\ o.status \in {"placing", "working", "unknown"} <=> o.left > 0
              /\ o.status \in {"working", "unknown", "filled"}
<1> DEFINE i == s.instrument
           o == IF order[s].left = 1 THEN Ended("filled")
                ELSE [order[s] EXCEPT !.left = @ - 1,
                                      !.status = IF @ = "unknown" THEN @ ELSE "working"]
           h == [hold[i] EXCEPT !.qty = @ + 1, !.cost = @ + quote[i],
                                !.strategy = IF hold[i].qty = 0 THEN s.strategy ELSE @]
<1>1. order' = [order EXCEPT ![s] = o] /\ hold' = [hold EXCEPT ![i] = h]
  BY Zenon DEF Fill
<1>2. i \in Instruments /\ quote[i] \in Nat
  BY SignalInstrument, LimitsAreNumbers DEF GateInv, Typed, MarketTyped
<1>3. order[s] \in OrderType /\ order[s].left > 0
      /\ order[s].status \in {"placing", "working", "unknown"}
  BY DEF Fill, GateInv, Typed, BookTyped, LeftIsLive, Live
<1>4. o \in OrderType /\ o.left = order[s].left - 1
      /\ (o.status \in {"placing", "working", "unknown"} <=> o.left > 0)
      /\ o.status \in {"working", "unknown", "filled"}
  <2>1. CASE order[s].left = 1
    BY <1>3, <2>1 DEF OrderType, Ended
  <2>2. CASE order[s].left # 1
    <3> DEFINE n == order[s].left - 1
               st == IF order[s].status = "unknown" THEN order[s].status ELSE "working"
    <3>1. n \in Nat /\ n > 0 /\ st \in {"working", "unknown"}
      BY <1>3, <2>2 DEF OrderType
    <3>2. o = [order[s] EXCEPT !.left = n, !.status = st]
      BY <2>2, Zenon
    <3>3. n = order[s].left - 1
      OBVIOUS
    <3> HIDE DEF o, n, st
    <3>4. o \in OrderType /\ o.left = n /\ o.status = st
      BY <1>3, <3>1, <3>2 DEF OrderType
    <3> QED
      BY <3>1, <3>3, <3>4
  <2> QED
    BY <2>1, <2>2
<1>5. h \in HoldType /\ h.qty = hold[i].qty + 1
  <2>1. hold[i] \in HoldType
    BY <1>2 DEF GateInv, Typed, BookTyped
  <2> DEFINE st == IF hold[i].qty = 0 THEN s.strategy ELSE hold[i].strategy
             c == hold[i].cost + quote[i]
             q == hold[i].qty + 1
  <2>2. st \in {"none"} \cup {r.strategy : r \in Signals} /\ c \in Nat /\ q \in Nat
    BY <1>2, <2>1 DEF HoldType
  <2>3. h = [hold[i] EXCEPT !.qty = q, !.cost = c, !.strategy = st]
    BY Zenon
  <2> HIDE DEF st, c, h, q
  <2>5. h \in HoldType /\ h.qty = q
    BY <2>1, <2>2, <2>3 DEF HoldType
  <2> QED
    BY <2>5 DEF q
<1> HIDE DEF o, h
<1> QED
  BY <1>1, <1>4, <1>5

LEMMA FillKeeps ==
    ASSUME GateInv, NEW s \in Signals, Fill(s)
    PROVE  GateInv'
<1>1. PICK o \in OrderType, h \in HoldType :
              /\ order' = [order EXCEPT ![s] = o] /\ hold' = [hold EXCEPT ![s.instrument] = h]
              /\ o.status \in {"placing", "working", "unknown"} <=> o.left > 0
  BY FillIs
<1>2. order' \in [Signals -> OrderType] /\ LeftIsLive'
  BY <1>1, OrderKeeps
<1>3. hold' \in [Instruments -> HoldType]
  BY <1>1, HoldKeeps, SignalInstrument
<1>4. cash' \in Int
  BY SignalInstrument, LimitsAreNumbers DEF Fill, GateInv, Typed, BookTyped, MarketTyped
<1>5. UNCHANGED <<quote, env, cycle, day, count>>
  BY DEF Fill, marketVars
<1> QED
  BY <1>2, <1>3, <1>4, <1>5, SameWhole DEF GateInv, Typed, BookTyped, MarketTyped, CycleTyped

LEMMA StopRestsKeeps ==
    ASSUME GateInv, NEW i \in Instruments, StopRests(i)
    PROVE  /\ GateInv' /\ UNCHANGED <<order, quote, day, env>>
           /\ \A j \in Instruments : hold'[j].qty = hold[j].qty /\ hold'[j].cost = hold[j].cost
<1> DEFINE at == (hold[i].cost \div hold[i].qty) - StopDistance
           h == [hold[i] EXCEPT !.stop = at]
<1>1. hold[i] \in HoldType /\ hold[i].qty > 0
  BY DEF GateInv, Typed, BookTyped, StopRests, Held
<1>2. at \in Int
  <2>1. hold[i].cost \in Nat /\ hold[i].qty \in Nat \ {0}
    BY <1>1 DEF HoldType
  <2>2. hold[i].cost \div hold[i].qty \in Nat
    BY <2>1, AverageCost
  <2> QED
    BY <2>2, LimitsAreNumbers
<1>3. hold' = [hold EXCEPT ![i].stop = at] /\ UNCHANGED <<quote, env, cycle, order, cash, day, count>>
  BY DEF StopRests, marketVars
<1> HIDE DEF at
<1>4. h \in HoldType /\ h.qty = hold[i].qty /\ h.cost = hold[i].cost
  BY <1>1, <1>2 DEF HoldType
<1>5. hold' = [hold EXCEPT ![i] = h]
  BY <1>3
<1> HIDE DEF h
<1>6. hold' \in [Instruments -> HoldType]
  BY <1>4, <1>5, HoldKeeps
<1>7. GateInv'
  BY <1>3, <1>6, SameLive, SameWhole DEF GateInv, Typed, BookTyped, MarketTyped, CycleTyped
<1>8. hold \in [Instruments -> HoldType]
  BY DEF GateInv, Typed, BookTyped
<1>9. \A j \in Instruments : hold'[j].qty = hold[j].qty /\ hold'[j].cost = hold[j].cost
  BY <1>4, <1>5, <1>8
<1> QED
  BY <1>3, <1>7, <1>9

LEMMA ExitKeeps ==
    ASSUME GateInv, NEW i \in Instruments, NEW asked \in 1 .. hold[i].qty, Exit(i, asked)
    PROVE  /\ GateInv' /\ UNCHANGED <<order, quote, env>> /\ day'.entered = day.entered
           /\ \A j \in Instruments : hold'[j].qty <= hold[j].qty
<1> DEFINE q == Reduction(i, asked)
           left == hold[i].qty - q
           c == (hold[i].cost * left) \div hold[i].qty
           h == IF left = 0 THEN Flat ELSE [hold[i] EXCEPT !.qty = left, !.cost = c]
<1>1. hold[i] \in HoldType /\ hold[i].qty > 0
  BY DEF GateInv, Typed, BookTyped, Exit, Held
<1>2. q \in Nat /\ q > 0 /\ q <= hold[i].qty
  BY <1>1 DEF Exit, Reduction, MinOf, HoldType
<1>3. hold' = [hold EXCEPT ![i] = h] /\ cash' = cash + q * quote[i]
      /\ day' = [day EXCEPT !.exited = @ \cup {i}] /\ UNCHANGED <<quote, env, cycle, order>>
  BY Zenon DEF Exit, marketVars
<1> HIDE DEF q
<1>4. left \in Nat /\ left <= hold[i].qty
  BY <1>1, <1>2 DEF HoldType
<1> HIDE DEF left
<1>5. c \in Nat
  <2>1. hold[i].cost * left \in Nat /\ hold[i].qty \in Nat \ {0}
    BY <1>1, <1>4, ProductNat DEF HoldType
  <2> QED
    BY <2>1, AverageCost
<1> HIDE DEF c
<1>6. h \in HoldType /\ h.qty = left
  <2>1. CASE left = 0
    BY <2>1 DEF HoldType, Flat
  <2>2. CASE left # 0
    <3>1. h = [hold[i] EXCEPT !.qty = left, !.cost = c]
      BY <2>2, Zenon
    <3> HIDE DEF h
    <3> QED
      BY <1>1, <1>4, <1>5, <3>1 DEF HoldType
  <2> QED
    BY <2>1, <2>2
<1> HIDE DEF h
<1>7. hold' \in [Instruments -> HoldType]
  BY <1>3, <1>6, HoldKeeps
<1>8. cash' \in Int
  <2>1. cash \in Int /\ quote[i] \in Nat
    BY LimitsAreNumbers DEF GateInv, Typed, BookTyped, MarketTyped
  <2>2. q * quote[i] \in Nat
    BY <1>2, <2>1, ProductNat
  <2> QED
    BY <1>3, <2>1, <2>2
<1>9. count' \in CountType
  BY DEF Exit, Happens, GateInv, Typed, CycleTyped, CountType
<1>10. day' \in DayType /\ day'.entered = day.entered
  BY <1>3 DEF GateInv, Typed, DayType
<1>11. GateInv'
  BY <1>3, <1>7, <1>8, <1>9, <1>10, SameLive, SameWhole
     DEF GateInv, Typed, BookTyped, MarketTyped, CycleTyped
<1>12. hold \in [Instruments -> HoldType] /\ \A j \in Instruments : hold[j].qty \in Nat
  BY DEF GateInv, Typed, BookTyped, HoldType
<1>13. \A j \in Instruments : hold'[j].qty <= hold[j].qty
  BY <1>3, <1>4, <1>6, <1>12
<1> QED
  BY <1>3, <1>10, <1>11, <1>13

LEMMA PollKeeps ==
    ASSUME GateInv, NEW i \in Instruments, NEW p \in Prices, Poll(i, p)
    PROVE  GateInv' /\ UNCHANGED <<order, hold, day, env>>
<1>1. quote' = [quote EXCEPT ![i] = p] /\ UNCHANGED <<cycle, order, hold, cash, day, env>>
  BY DEF Poll, bookVars
<1>2. quote \in [Instruments -> 0 .. MaxPrice] /\ quote[i] # 0 /\ p \in 1 .. MaxPrice
  BY DEF Poll, Prices, GateInv, Typed, MarketTyped
<1>3. quote' \in [Instruments -> 0 .. MaxPrice] /\ p # 0
  BY <1>1, <1>2, LimitsAreNumbers
<1>4. PartialPolls = FALSE => \A j \in Instruments : quote[j] # 0
  BY <1>2 DEF GateInv, Whole
<1>5. Whole'
  BY <1>1, <1>2, <1>3, <1>4 DEF Whole
<1>6. count' \in CountType
  BY DEF Poll, Happens, GateInv, Typed, CycleTyped, CountType
<1> QED
  BY <1>1, <1>3, <1>5, <1>6, SameLive DEF GateInv, Typed, BookTyped, MarketTyped, CycleTyped

LEMMA FirstPollKeeps ==
    ASSUME GateInv, NEW S \in SUBSET Instruments, FirstPoll(S)
    PROVE  GateInv' /\ UNCHANGED <<order, hold, day, env>>
<1>1. UNCHANGED <<cycle, order, hold, cash, day, env, count>>
      /\ quote' = [i \in Instruments |-> IF i \in S THEN Close ELSE quote[i]]
      /\ (PartialPolls = FALSE => S = {i \in Instruments : quote[i] = 0})
  BY DEF FirstPoll, bookVars
<1>2. quote' \in [Instruments -> 0 .. MaxPrice]
      /\ (PartialPolls = FALSE => \A i \in Instruments : quote'[i] # 0)
  BY <1>1, LimitsAreNumbers DEF GateInv, Typed, MarketTyped
<1>3. Whole'
  BY <1>2 DEF Whole
<1> QED
  BY <1>1, <1>2, <1>3, SameLive DEF GateInv, Typed, BookTyped, MarketTyped, CycleTyped

LEMMA TickKeeps ==
    ASSUME GateInv, Tick
    PROVE  GateInv' /\ UNCHANGED <<order, hold>> /\ day'.entered = day.entered
<1> DEFINE k == env.kill \/ TooMuchLost \/ env.file
           peak == MaxOf(day.peak, Equity)
<1>1. env' = [env EXCEPT !.kill = k] /\ day' = [day EXCEPT !.peak = peak]
      /\ UNCHANGED <<cycle, order, hold, cash, quote, count>>
  BY DEF Tick
<1>2. k \in BOOLEAN /\ peak \in Int
  BY EquityInt DEF GateInv, Typed, DayType, MaxOf
<1> HIDE DEF k, peak
<1>3. env' \in EnvType
  BY <1>1, <1>2 DEF GateInv, Typed, MarketTyped, EnvType
<1>4. day' \in DayType /\ day'.entered = day.entered
  BY <1>1, <1>2 DEF GateInv, Typed, DayType
<1> QED
  BY <1>1, <1>3, <1>4, SameLive, SameWhole DEF GateInv, Typed, BookTyped, MarketTyped, CycleTyped

LEMMA OperatorKeeps ==
    ASSUME GateInv, Operator
    PROVE  GateInv' /\ UNCHANGED <<order, hold, day>>
<1>1. PICK kill \in BOOLEAN, file \in BOOLEAN : env' = [env EXCEPT !.kill = kill, !.file = file]
  BY DEF Operator
<1>2. env' \in EnvType
  BY <1>1 DEF GateInv, Typed, MarketTyped, EnvType
<1>3. count' \in CountType
  BY DEF Operator, Happens, GateInv, Typed, CycleTyped, CountType
<1>4. UNCHANGED <<cycle, order, hold, cash, day, quote>>
  BY DEF Operator, bookVars
<1> QED
  BY <1>2, <1>3, <1>4, SameLive, SameWhole DEF GateInv, Typed, BookTyped, MarketTyped, CycleTyped

LEMMA PassesKeeps ==
    ASSUME GateInv, Passes
    PROVE  GateInv' /\ UNCHANGED <<order, hold, day>>
<1> DEFINE ph == IF env.phase = "entry" THEN "open" ELSE "closed"
<1>1. env' = [env EXCEPT !.phase = ph] /\ UNCHANGED <<cycle, order, hold, cash, day, quote>>
  BY DEF Passes, bookVars
<1>2. ph \in {"open", "closed"}
  OBVIOUS
<1> HIDE DEF ph
<1>3. env' \in EnvType
  BY <1>1, <1>2 DEF GateInv, Typed, MarketTyped, EnvType
<1>4. count' \in CountType
  BY DEF Passes, Happens, GateInv, Typed, CycleTyped, CountType
<1> QED
  BY <1>1, <1>3, <1>4, SameLive, SameWhole DEF GateInv, Typed, BookTyped, MarketTyped, CycleTyped

LEMMA RestartKeeps ==
    ASSUME GateInv, NEW st \in {"working", "gone"}, Restart(st)
    PROVE  /\ GateInv' /\ UNCHANGED <<hold, day, env>>
           /\ \A s \in Signals : order'[s].left <= order[s].left
                                 /\ (order[s].status = "none" <=> order'[s].status = "none")
                                 /\ order'[s].status # "placing"
<1> DEFINE o(s) == IF order[s].status # "placing" THEN order[s]
                   ELSE IF st = "gone" THEN Ended(st) ELSE [order[s] EXCEPT !.status = st]
<1>1. order' = [s \in Signals |-> o(s)] /\ UNCHANGED <<hold, cash, day, env>> /\ cycle' = Idle
      /\ quote' = [i \in Instruments |-> 0]
  BY DEF Restart
<1>2. ASSUME NEW s \in Signals
      PROVE  /\ o(s) \in OrderType /\ o(s).left <= order[s].left
             /\ o(s).status \in {"placing", "working", "unknown"} <=> o(s).left > 0
             /\ order[s].status = "none" <=> o(s).status = "none"
             /\ o(s).status # "placing"
  <2>1. order[s] \in OrderType
        /\ (order[s].status \in {"placing", "working", "unknown"} <=> order[s].left > 0)
    BY DEF GateInv, Typed, BookTyped, LeftIsLive, Live
  <2>2. CASE order[s].status # "placing"
    BY <2>1, <2>2 DEF OrderType
  <2>3. CASE order[s].status = "placing" /\ st = "gone"
    BY <2>1, <2>3 DEF OrderType, Ended
  <2>4. CASE order[s].status = "placing" /\ st # "gone"
    <3>1. o(s) = [order[s] EXCEPT !.status = st] /\ st = "working"
      BY <2>4
    <3> HIDE DEF o
    <3> QED
      BY <2>1, <2>4, <3>1 DEF OrderType
  <2> QED
    BY <2>2, <2>3, <2>4
<1>3. \A s \in Signals : order'[s] = o(s)
  BY <1>1
<1>4. order' \in [Signals -> OrderType]
  BY <1>1, <1>2
<1> HIDE DEF o
<1>5. LeftIsLive'
  BY <1>2, <1>3 DEF LeftIsLive, Live
<1>6. quote' \in [Instruments -> 0 .. MaxPrice] /\ Whole'
  BY <1>1, LimitsAreNumbers DEF Whole
<1>7. count' \in CountType
  <2>1. count' = [count EXCEPT !.restarts = @ + 1, !.events = @ + 1] /\ count \in CountType
    BY DEF Restart, GateInv, Typed, CycleTyped
  <2> DEFINE r == count.restarts + 1
             e == count.events + 1
  <2>2. r \in Nat /\ e \in Nat /\ count.cycles \in Nat
    BY <2>1 DEF CountType
  <2>3. count' = [count EXCEPT !.restarts = r, !.events = e]
    BY <2>1
  <2> HIDE DEF r, e
  <2> QED
    BY <2>1, <2>2, <2>3 DEF CountType
<1>8. cycle' \in CycleType
  BY <1>1 DEF CycleType, Idle, IdleAfter
<1> QED
  BY <1>1, <1>2, <1>3, <1>4, <1>5, <1>6, <1>7, <1>8
     DEF GateInv, Typed, BookTyped, MarketTyped, CycleTyped

LEMMA GateInvNext ==
    ASSUME GateInv, [Next]_vars
    PROVE  GateInv'
<1>1. CASE Begin
  BY <1>1, BeginKeeps
<1>2. CASE Requoted
  BY <1>2, RequotedKeeps
<1>3. CASE CycleEnds
  <2>1. CycleTyped'
    BY <1>3 DEF CycleEnds, CycleTyped, CycleType, IdleAfter, GateInv, Typed
  <2> QED
    BY <1>3, <2>1, CycleKeeps DEF CycleEnds, bookVars, marketVars
<1>4. CASE Tick \/ Operator \/ Passes
  BY <1>4, TickKeeps, OperatorKeeps, PassesKeeps
<1>5. ASSUME NEW s \in Signals, Review(s) \/ Vetoed(s) \/ SubmitRaises(s) PROVE GateInv'
  BY <1>5, CycleStepsKeep
<1>6. ASSUME NEW s \in Signals, NEW failing \in {{}, DataChecks}, Submit(s, failing) PROVE GateInv'
  BY <1>6, SubmitKeeps
<1>7. ASSUME NEW s \in Signals, NEW status \in {"working", "gone", "unknown"}, Placed(s, status)
      PROVE  GateInv'
  BY <1>7, PlacedKeeps
<1>8. ASSUME NEW s \in Signals, Fill(s) \/ OrderEnds(s) PROVE GateInv'
  BY <1>8, FillKeeps, OrderEndsKeeps
<1>9. ASSUME NEW i \in Instruments, StopRests(i) PROVE GateInv'
  BY <1>9, StopRestsKeeps
<1>10. ASSUME NEW i \in Instruments, NEW q \in 1 .. hold[i].qty, Exit(i, q) PROVE GateInv'
  BY <1>10, ExitKeeps
<1>11. ASSUME NEW i \in Instruments, NEW p \in Prices, Poll(i, p) PROVE GateInv'
  BY <1>11, PollKeeps
<1>12. ASSUME NEW S \in SUBSET Instruments, FirstPoll(S) PROVE GateInv'
  BY <1>12, FirstPollKeeps
<1>13. ASSUME NEW st \in {"working", "gone"}, Restart(st) PROVE GateInv'
  BY <1>13, RestartKeeps
<1>14. CASE UNCHANGED vars
  <2>1. CycleTyped'
    BY <1>14 DEF vars, CycleTyped, GateInv, Typed
  <2> QED
    BY <1>14, <2>1, CycleKeeps DEF vars
<1> QED
  BY <1>1, <1>2, <1>3, <1>4, <1>5, <1>6, <1>7, <1>8, <1>9, <1>10, <1>11, <1>12, <1>13, <1>14
     DEF Next

-----------------------------------------------------------------------------
(* What is held and being bought, as sums over all signals.                *)

LeftOf(i) == [s \in Signals |-> IF s.instrument = i THEN order[s].left ELSE 0]
ValueOf(i) == [s \in Signals |-> IF s.instrument = i THEN LastPrice(s) * order[s].left ELSE 0]
Kept(i) ==
    /\ hold[i].qty \in Nat /\ Notional(i) \in Nat
    /\ LeftOf(i) \in [Signals -> Nat] /\ ValueOf(i) \in [Signals -> Nat]
    /\ Total(LeftOf(i)) \in Nat /\ Total(ValueOf(i)) \in Nat
    /\ Committed(i) = hold[i].qty + Total(LeftOf(i)) /\ Committed(i) \in Nat
    /\ WorthOf(i) = Notional(i) + Total(ValueOf(i)) /\ WorthOf(i) \in Nat

BookKept == \A i \in Instruments : Kept(i)

LEMMA SumsOfBook ==
    GateInv => BookKept
<1> SUFFICES ASSUME GateInv, NEW i \in Instruments PROVE Kept(i)
  BY DEF BookKept
<1> DEFINE T == {r \in Live : r.instrument = i}
           f == [s \in T |-> order[s].left]
           g == [s \in T |-> LastPrice(s) * order[s].left]
<1>1. IsFiniteSet(Signals) /\ T \in SUBSET Signals
  BY BookSets
<1>2. ASSUME NEW s \in Signals
      PROVE  /\ order[s].left \in Nat /\ LastPrice(s) * order[s].left \in Nat
             /\ s \notin Live => order[s].left = 0 /\ LastPrice(s) * order[s].left = 0
  <2>1. order[s].left \in Nat /\ order[s].ref \in Nat /\ Price(s) \in Nat
    BY PendingNat DEF GateInv, Typed, BookTyped, OrderType
  <2>2. LastPrice(s) \in Nat
    BY <2>1 DEF LastPrice
  <2>3. s \notin Live => order[s].left = 0
    BY <2>1 DEF GateInv, LeftIsLive
  <2> QED
    BY <2>1, <2>2, <2>3, ProductNat
<1>3. LeftOf(i) \in [Signals -> Nat] /\ \A s \in Signals \ T : LeftOf(i)[s] = 0
  BY <1>2 DEF LeftOf
<1>4. ValueOf(i) \in [Signals -> Nat] /\ \A s \in Signals \ T : ValueOf(i)[s] = 0
  BY <1>2 DEF ValueOf
<1>5. f = [s \in T |-> LeftOf(i)[s]]
  BY <1>1 DEF LeftOf
<1>6. g = [s \in T |-> ValueOf(i)[s]]
  BY <1>1 DEF ValueOf
<1>7. Committed(i) = hold[i].qty + Total(f) /\ WorthOf(i) = Notional(i) + Total(g)
  BY DEF Committed, WorthOf
<1> HIDE DEF f, g, T
<1>8. Total(f) = Total(LeftOf(i))
  BY <1>1, <1>3, <1>5, TotalOfPart
<1>9. Total(g) = Total(ValueOf(i))
  BY <1>1, <1>4, <1>6, TotalOfPart
<1>10. Total(LeftOf(i)) \in Nat /\ Total(ValueOf(i)) \in Nat
  BY <1>1, <1>3, <1>4, UnitsFinite
<1>11. hold[i].qty \in Nat /\ Notional(i) \in Nat
  BY NotionalNat DEF GateInv, Typed, BookTyped, HoldType
<1> QED
  BY <1>3, <1>4, <1>7, <1>8, <1>9, <1>10, <1>11 DEF Kept

LEMMA SumsNext ==
    GateInv' => BookKept'
BY SumsOfBook, PTL

-----------------------------------------------------------------------------
(* Steps that grant nothing.                                               *)

Released == (\A i \in Instruments : Committed(i)' <= Committed(i)) /\ day'.entered = day.entered

(* Nothing is left that was not, and no position has grown.                *)
LEMMA FallsReleased ==
    ASSUME GateInv, GateInv', day'.entered = day.entered,
           \A s \in Signals : order'[s].left <= order[s].left,
           \A i \in Instruments : hold'[i].qty <= hold[i].qty
    PROVE  Released
<1> SUFFICES ASSUME NEW i \in Instruments PROVE Committed(i)' <= Committed(i)
  BY DEF Released
<1>1. Kept(i) /\ Kept(i)'
  BY SumsOfBook, SumsNext DEF BookKept
<1> DEFINE f == LeftOf(i)'
           g == LeftOf(i)
<1>2. f \in [Signals -> Nat] /\ g \in [Signals -> Nat]
  BY <1>1 DEF Kept
<1>3. \A s \in Signals : f[s] <= g[s]
  BY DEF LeftOf
<1>4. IsFiniteSet(Signals)
  BY BookSets
<1> HIDE DEF f, g
<1>5. Total(f) <= Total(g)
  BY <1>2, <1>3, <1>4, TotalMonotone
<1>6. Total(LeftOf(i))' <= Total(LeftOf(i))
  BY <1>5 DEF f, g
<1>7. hold'[i].qty <= hold[i].qty
  OBVIOUS
<1> QED
  BY <1>1, <1>6, <1>7 DEF Kept

LEMMA SameReleased ==
    ASSUME GateInv, GateInv', UNCHANGED <<order, hold>>, day'.entered = day.entered
    PROVE  Released
<1>1. \A s \in Signals : order[s].left \in Nat
  BY DEF GateInv, Typed, BookTyped, OrderType
<1>2. \A i \in Instruments : hold[i].qty \in Nat
  BY DEF GateInv, Typed, BookTyped, HoldType
<1>3. \A s \in Signals : order'[s].left <= order[s].left
  BY <1>1
<1>4. \A i \in Instruments : hold'[i].qty <= hold[i].qty
  BY <1>2
<1> QED
  BY <1>3, <1>4, FallsReleased

(* The order of s ends or keeps what is left.                              *)
LEMMA OrderReleased ==
    ASSUME GateInv, GateInv', NEW s \in Signals, NEW o, order' = [order EXCEPT ![s] = o],
           o.left <= order[s].left, UNCHANGED <<hold, day>>
    PROVE  Released
<1>1. order \in [Signals -> OrderType] /\ \A r \in Signals : order[r].left \in Nat
  BY DEF GateInv, Typed, BookTyped, OrderType
<1>2. \A i \in Instruments : hold[i].qty \in Nat
  BY DEF GateInv, Typed, BookTyped, HoldType
<1>3. \A r \in Signals : order'[r].left <= order[r].left
  BY <1>1
<1>4. \A i \in Instruments : hold'[i].qty <= hold[i].qty
  BY <1>2
<1> QED
  BY <1>3, <1>4, FallsReleased

(* A share that is bought is no longer left to buy.                        *)
LEMMA FillReleased ==
    ASSUME GateInv, GateInv', NEW s \in Signals, Fill(s)
    PROVE  Released
<1> DEFINE c == s.instrument
<1>1. PICK o \in OrderType, h \in HoldType :
              /\ order' = [order EXCEPT ![s] = o] /\ hold' = [hold EXCEPT ![c] = h]
              /\ o.left = order[s].left - 1 /\ h.qty = hold[c].qty + 1
  BY FillIs
<1>2. order \in [Signals -> OrderType] /\ hold \in [Instruments -> HoldType] /\ c \in Instruments
      /\ day' = day /\ \A r \in Signals : order[r].left \in Nat
  BY SignalInstrument DEF GateInv, Typed, BookTyped, Fill, OrderType
<1> SUFFICES ASSUME NEW i \in Instruments PROVE Committed(i)' <= Committed(i)
  BY <1>2 DEF Released
<1>3. Kept(i) /\ Kept(i)'
  BY SumsOfBook, SumsNext DEF BookKept
<1> DEFINE f == LeftOf(i)'
           g == LeftOf(i)
<1>4. f \in [Signals -> Nat] /\ g \in [Signals -> Nat] /\ IsFiniteSet(Signals)
  BY <1>3, BookSets DEF Kept
<1>5. \A r \in Signals : f[r] = IF r.instrument = i THEN order'[r].left ELSE 0
  BY DEF LeftOf
<1>6. \A r \in Signals : g[r] = IF r.instrument = i THEN order[r].left ELSE 0
  BY DEF LeftOf
<1>7. \A r \in Signals \ {s} : f[r] = g[r]
  BY <1>1, <1>2, <1>5, <1>6
<1>8. order'[s] = o
  BY <1>1, <1>2
<1>9. f[s] = IF c = i THEN order[s].left - 1 ELSE 0
  BY <1>1, <1>5, <1>8
<1>10. g[s] = IF c = i THEN order[s].left ELSE 0
  BY <1>6
<1> HIDE DEF f, g
<1>11. Total(f) = Total(g) - g[s] + f[s] /\ Total(g) \in Nat /\ Total(f) \in Nat
  BY <1>4, <1>7, TotalOne
<1>12. hold'[i].qty = IF c = i THEN hold[i].qty + 1 ELSE hold[i].qty
  BY <1>1, <1>2
<1>13. Committed(i)' = hold'[i].qty + Total(f) /\ Committed(i) = hold[i].qty + Total(g)
       /\ hold[i].qty \in Nat
  BY <1>3 DEF Kept, f, g
<1>14. order[s].left \in Nat
  BY <1>2
<1>15. CASE c = i
  BY <1>9, <1>10, <1>11, <1>12, <1>13, <1>14, <1>15
<1>16. CASE c # i
  BY <1>9, <1>10, <1>11, <1>12, <1>13, <1>14, <1>16
<1> QED
  BY <1>15, <1>16

LEMMA PlacedReleased ==
    ASSUME GateInv, GateInv', NEW s \in Signals, NEW status \in {"working", "gone", "unknown"},
           Placed(s, status)
    PROVE  Released
<1> DEFINE o == IF order[s].status # "placing" THEN order[s]
                ELSE IF status = "gone" THEN Ended("gone")
                ELSE [order[s] EXCEPT !.status = status]
<1>1. order' = [order EXCEPT ![s] = o] /\ UNCHANGED <<hold, day>>
  BY DEF Placed
<1>2. order[s] \in OrderType
  BY DEF GateInv, Typed, BookTyped
<1>3. o.left <= order[s].left
  BY <1>2 DEF OrderType, Ended
<1> HIDE DEF o
<1> QED
  BY <1>1, <1>3, OrderReleased

LEMMA OrderEndsReleased ==
    ASSUME GateInv, GateInv', NEW s \in Signals, OrderEnds(s)
    PROVE  Released
<1> DEFINE o == Ended("gone")
<1>1. order' = [order EXCEPT ![s] = o] /\ UNCHANGED <<hold, day>>
  BY DEF OrderEnds
<1>2. order[s].left \in Nat
  BY DEF GateInv, Typed, BookTyped, OrderType
<1>3. o.left <= order[s].left
  BY <1>2 DEF Ended
<1> HIDE DEF o
<1> QED
  BY <1>1, <1>3, OrderReleased

(* Every step but the submission of an approved entry only releases.       *)
LEMMA StepReleases ==
    ASSUME GateInv, GateInv', [Next]_vars
    PROVE  \/ Released
           \/ \E s \in Signals, failing \in {{}, DataChecks} :
                  Granted(s, failing, Approved(s, cycle.stop[s], failing))
<1>1. CASE Begin \/ Requoted \/ CycleEnds \/ UNCHANGED vars
  BY <1>1, SameReleased DEF Begin, Requoted, CycleEnds, bookVars, vars
<1>4. CASE Tick \/ Operator \/ Passes
  BY <1>4, TickKeeps, OperatorKeeps, PassesKeeps, SameReleased
<1>5. ASSUME NEW s \in Signals, Review(s) \/ Vetoed(s) \/ SubmitRaises(s) PROVE Released
  BY <1>5, SameReleased DEF Review, Vetoed, SubmitRaises, bookVars
<1>6. ASSUME NEW s \in Signals, NEW failing \in {{}, DataChecks}, Submit(s, failing)
      PROVE  Released \/ Granted(s, failing, Approved(s, cycle.stop[s], failing))
  BY <1>6, SubmitIs, SameReleased
<1>7. ASSUME NEW s \in Signals, NEW status \in {"working", "gone", "unknown"}, Placed(s, status)
      PROVE  Released
  BY <1>7, PlacedReleased
<1>8. ASSUME NEW s \in Signals, Fill(s) \/ OrderEnds(s) PROVE Released
  BY <1>8, FillReleased, OrderEndsReleased
<1>9. ASSUME NEW i \in Instruments, StopRests(i) PROVE Released
  <2>1. UNCHANGED <<order, day>> /\ \A j \in Instruments : hold'[j].qty = hold[j].qty
    BY <1>9, StopRestsKeeps
  <2>2. \A j \in Instruments : hold[j].qty \in Nat
    BY DEF GateInv, Typed, BookTyped, HoldType
  <2>3. \A r \in Signals : order[r].left \in Nat
    BY DEF GateInv, Typed, BookTyped, OrderType
  <2>4. \A r \in Signals : order'[r].left <= order[r].left
    BY <2>1, <2>3
  <2>5. \A j \in Instruments : hold'[j].qty <= hold[j].qty
    BY <2>1, <2>2
  <2> QED
    BY <2>1, <2>4, <2>5, FallsReleased
<1>10. ASSUME NEW i \in Instruments, NEW q \in 1 .. hold[i].qty, Exit(i, q) PROVE Released
  <2>1. UNCHANGED order /\ day'.entered = day.entered
        /\ \A j \in Instruments : hold'[j].qty <= hold[j].qty
    BY <1>10, ExitKeeps
  <2>2. \A r \in Signals : order[r].left \in Nat
    BY DEF GateInv, Typed, BookTyped, OrderType
  <2>3. \A r \in Signals : order'[r].left <= order[r].left
    BY <2>1, <2>2
  <2> QED
    BY <2>1, <2>3, FallsReleased
<1>11. ASSUME NEW i \in Instruments, NEW p \in Prices, Poll(i, p) PROVE Released
  BY <1>11, PollKeeps, SameReleased
<1>12. ASSUME NEW S \in SUBSET Instruments, FirstPoll(S) PROVE Released
  BY <1>12, FirstPollKeeps, SameReleased
<1>13. ASSUME NEW st \in {"working", "gone"}, Restart(st) PROVE Released
  <2>1. UNCHANGED <<hold, day>> /\ \A s \in Signals : order'[s].left <= order[s].left
    BY <1>13, RestartKeeps
  <2>2. \A j \in Instruments : hold[j].qty \in Nat
    BY DEF GateInv, Typed, BookTyped, HoldType
  <2>3. \A j \in Instruments : hold'[j].qty <= hold[j].qty
    BY <2>1, <2>2
  <2> QED
    BY <2>1, <2>3, FallsReleased
<1> QED
  BY <1>1, <1>4, <1>5, <1>6, <1>7, <1>8, <1>9, <1>10, <1>11, <1>12, <1>13 DEF Next

-----------------------------------------------------------------------------
(* The grant.                                                              *)

(* With every instrument quoted, the exposure that the capacity checks see *)
(* is what is held and being bought, at the last prices.                   *)
LEMMA ExposureIs ==
    ASSUME GateInv, \A i \in Instruments : quote[i] # 0, NEW T \in SUBSET Instruments
    PROVE  /\ Exposure(T) = Total([j \in T |-> WorthOf(j)])
           /\ [j \in T |-> WorthOf(j)] \in [T -> Nat]
<1> DEFINE w == [j \in T |-> WorthOf(j)]
           n == [j \in T |-> Notional(j)]
           v == [j \in T |-> Total(ValueOf(j))]
           G == [j \in T |-> ValueOf(j)]
           k == [s \in Signals |-> s.instrument]
           f == [s \in Signals |-> IF s.instrument \in T THEN Pending(s) ELSE 0]
           A == T \cap Held
           R == {r \in Reserved : r.instrument \in T}
           a == [j \in A |-> Notional(j)]
           b == [s \in R |-> Pending(s)]
<1>1. IsFiniteSet(T) /\ IsFiniteSet(Signals) /\ A \in SUBSET T /\ R \in SUBSET Signals
  BY BookSets
<1>2. \A j \in T : Kept(j)
  BY SumsOfBook DEF BookKept
<1>3. w \in [T -> Nat] /\ n \in [T -> Nat] /\ v \in [T -> Nat]
      /\ \A j \in T : w[j] = n[j] + v[j]
  BY <1>2 DEF Kept
<1>4. ASSUME NEW s \in Signals
      PROVE  /\ Pending(s) \in Nat /\ LastPrice(s) * order[s].left = Pending(s)
             /\ s \in Live <=> s \in Reserved
             /\ s \notin Live => Pending(s) = 0
             /\ s.instrument \in Instruments
  <2>1. s.instrument \in Instruments /\ Price(s) # 0
    BY SignalInstrument DEF Price
  <2>2. Pending(s) \in Nat /\ Price(s) \in Nat /\ order[s].left \in Nat
    BY PendingNat
  <2>3. s \notin Live => order[s].left = 0
    BY <2>2 DEF GateInv, LeftIsLive
  <2>4. s \in Live <=> s \in Reserved
    BY <2>1 DEF Reserved
  <2> QED
    BY <2>1, <2>2, <2>3, <2>4 DEF Pending, LastPrice
<1>5. f \in [Signals -> Nat] /\ \A s \in Signals : k[s] = s.instrument
  BY <1>4
<1>6. \A s \in Signals : k[s] \notin T => f[s] = 0
  OBVIOUS
<1>7. \A j \in T : v[j] = Total(G[j])
  OBVIOUS
<1>17. G \in [T -> [Signals -> Nat]]
  BY <1>2 DEF Kept
<1>18. \A j \in T, s \in Signals : G[j][s] = IF k[s] = j THEN f[s] ELSE 0
  <2> SUFFICES ASSUME NEW j \in T, NEW s \in Signals
               PROVE  G[j][s] = IF k[s] = j THEN f[s] ELSE 0
    OBVIOUS
  <2>1. G[j][s] = IF s.instrument = j THEN LastPrice(s) * order[s].left ELSE 0
    BY DEF ValueOf
  <2> QED
    BY <1>4, <2>1
<1>8. a = [j \in A |-> n[j]]
  BY <1>1
<1>9. \A j \in T \ A : n[j] = 0
  <2> SUFFICES ASSUME NEW j \in T, j \notin Held PROVE Notional(j) = 0
    OBVIOUS
  <2>1. hold[j].qty \in Nat /\ quote[j] \in Nat /\ quote[j] # 0
    BY <1>2, LimitsAreNumbers DEF Kept, GateInv, Typed, MarketTyped
  <2>2. hold[j].qty = 0
    BY <2>1 DEF Held
  <2> QED
    BY <2>1, <2>2 DEF Notional
<1>10. b = [s \in R |-> f[s]] /\ \A s \in Signals \ R : f[s] = 0
  <2>1. \A s \in R : f[s] = Pending(s)
    BY <1>1
  <2>2. \A s \in Signals \ R : f[s] = 0
    <3> SUFFICES ASSUME NEW s \in Signals, s \notin R, s.instrument \in T PROVE Pending(s) = 0
      OBVIOUS
    <3>1. s \notin Reserved
      OBVIOUS
    <3> QED
      BY <1>4, <3>1
  <2> HIDE DEF R, f
  <2> QED
    BY <2>1, <2>2
<1>11. Exposure(T) = Total(a) + Total(b)
  BY DEF Exposure
<1> HIDE DEF w, n, v, G, k, f, A, R, a, b
<1>12. Total(w) = Total(n) + Total(v)
  BY <1>1, <1>3, TotalPlus
<1>13. Total(v) = Total(f)
  <2>1. IsFiniteSet(T) /\ IsFiniteSet(Signals) /\ v \in [T -> Nat] /\ f \in [Signals -> Nat]
    BY <1>1, <1>3, <1>5
  <2> QED
    <3>1. Grouped(Signals, T, k, f, G, v)
      BY <1>6, <1>7, <1>17, <1>18, <2>1 DEF Grouped
    <3> QED
      BY <3>1, TotalByKey
<1>14. Total(a) = Total(n)
  BY <1>1, <1>3, <1>8, <1>9, TotalOfPart
<1>15. Total(b) = Total(f)
  BY <1>1, <1>5, <1>10, TotalOfPart
<1>16. Exposure(T) = Total(w)
  BY <1>11, <1>12, <1>13, <1>14, <1>15
<1> QED
  BY <1>3, <1>16 DEF w

(* How the sums change with a grant of q shares to s.                      *)
LEMMA GrantSums ==
    ASSUME GateInv, GateInv', \A i \in Instruments : quote[i] # 0,
           NEW s \in Signals, NEW q \in Nat \ {0}, NEW st \in Int,
           order' = [order EXCEPT ![s] = [status |-> "placing", left |-> q, stop |-> st,
                                          ref |-> quote[s.instrument]]],
           UNCHANGED <<hold, quote>>, NewSymbol(s.instrument)
    PROVE  /\ Committed(s.instrument) = 0 /\ Committed(s.instrument)' = q
           /\ WorthOf(s.instrument) = 0 /\ WorthOf(s.instrument)' = quote[s.instrument] * q
           /\ \A j \in Instruments \ {s.instrument} :
                  Committed(j)' = Committed(j) /\ WorthOf(j)' = WorthOf(j)
<1> DEFINE i == s.instrument
           o == [status |-> "placing", left |-> q, stop |-> st, ref |-> quote[i]]
<1>1. i \in Instruments /\ quote[i] \in Nat \ {0}
  BY SignalInstrument, LimitsAreNumbers DEF GateInv, Typed, MarketTyped
<1>2. order \in [Signals -> OrderType] /\ IsFiniteSet(Signals)
  BY BookSets DEF GateInv, Typed, BookTyped
<1>3. order'[s].left = q /\ \A r \in Signals \ {s} : order'[r] = order[r]
  BY <1>2
<1>4. ASSUME NEW r \in Signals, r.instrument = i PROVE order[r].left = 0
  <2>1. order[r].left \in Nat /\ quote[r.instrument] # 0
    BY <1>1, <1>2, <1>4 DEF OrderType
  <2>2. r \notin Live
    BY <1>4, <2>1 DEF NewSymbol, Reserved
  <2> QED
    BY <2>1, <2>2 DEF GateInv, LeftIsLive
<1>5. hold[i].qty = 0 /\ Notional(i) = 0
  <2>1. hold[i].qty \in Nat
    BY <1>1 DEF GateInv, Typed, BookTyped, HoldType
  <2>2. hold[i].qty = 0
    BY <1>1, <2>1 DEF NewSymbol, Held
  <2> QED
    BY <1>1, <2>2 DEF Notional
<1>6. \A j \in Instruments : Notional(j)' = Notional(j)
  BY DEF Notional
<1>7. ASSUME NEW j \in Instruments PROVE Kept(j) /\ Kept(j)'
  BY SumsOfBook, SumsNext DEF BookKept
<1>8. ASSUME NEW j \in Instruments, j # i
      PROVE  Committed(j)' = Committed(j) /\ WorthOf(j)' = WorthOf(j)
  <2>1. \A r \in Signals : r.instrument = j => order'[r] = order[r] /\ LastPrice(r)' = LastPrice(r)
    BY <1>3, <1>8 DEF LastPrice, Price
  <2>2. LeftOf(j)' = LeftOf(j) /\ ValueOf(j)' = ValueOf(j)
    BY <2>1 DEF LeftOf, ValueOf
  <2> QED
    BY <1>6, <1>7, <2>2 DEF Kept
<1>9. Committed(i) = 0 /\ WorthOf(i) = 0
  <2>1. \A r \in Signals : LeftOf(i)[r] = 0
    BY <1>4 DEF LeftOf
  <2>2. \A r \in Signals : ValueOf(i)[r] = 0
    <3> SUFFICES ASSUME NEW r \in Signals, r.instrument = i PROVE LastPrice(r) * order[r].left = 0
      BY DEF ValueOf
    <3>1. LastPrice(r) \in Nat
      BY PendingNat DEF LastPrice, GateInv, Typed, BookTyped, OrderType
    <3> QED
      BY <1>4, <3>1
  <2>3. Total(LeftOf(i)) = 0 /\ Total(ValueOf(i)) = 0
    BY <1>1, <1>7, <2>1, <2>2, TotalZero DEF Kept
  <2> QED
    BY <1>1, <1>5, <1>7, <2>3 DEF Kept
<1>10. Committed(i)' = q /\ WorthOf(i)' = quote[i] * q
  <2> DEFINE f == LeftOf(i)'
             g == ValueOf(i)'
             z == [r \in Signals |-> 0]
  <2>1. f \in [Signals -> Nat] /\ g \in [Signals -> Nat]
    BY <1>1, <1>7 DEF Kept
  <2>2. z \in [Signals -> Nat] /\ \A r \in Signals : z[r] = 0
    OBVIOUS
  <2>3. f[s] = q /\ \A r \in Signals \ {s} : f[r] = z[r]
    BY <1>3, <1>4 DEF LeftOf
  <2>4. g[s] = quote[i] * q /\ \A r \in Signals \ {s} : g[r] = z[r]
    <3>1. LastPrice(s)' = quote[i]
      BY <1>1 DEF LastPrice, Price
    <3>2. g[s] = quote[i] * q
      BY <1>3, <3>1 DEF ValueOf
    <3>3. ASSUME NEW r \in Signals \ {s} PROVE g[r] = 0
      <4>1. CASE r.instrument # i
        BY <4>1 DEF ValueOf
      <4>2. CASE r.instrument = i
        <5>1. LastPrice(r)' = LastPrice(r) /\ LastPrice(r) \in Nat
          BY <1>3, PendingNat DEF LastPrice, Price, GateInv, Typed, BookTyped, OrderType
        <5>2. g[r] = LastPrice(r) * order[r].left
          BY <1>3, <4>2, <5>1 DEF ValueOf
        <5> QED
          BY <1>4, <4>2, <5>1, <5>2
      <4> QED
        BY <4>1, <4>2
    <3> QED
      BY <3>2, <3>3
  <2>5. Committed(i)' = 0 + Total(f) /\ WorthOf(i)' = 0 + Total(g)
    BY <1>1, <1>5, <1>6, <1>7 DEF Kept
  <2> HIDE DEF f, g, z
  <2>6. Total(z) = 0
    BY <2>2, TotalZero
  <2>7. Total(f) = Total(z) - z[s] + f[s] /\ Total(f) \in Nat
    BY <1>2, <2>1, <2>2, <2>3, TotalOne
  <2>8. Total(g) = Total(z) - z[s] + g[s] /\ Total(g) \in Nat
    <3>1. \A r \in Signals \ {s} : g[r] = z[r]
      BY <2>4
    <3> QED
      BY <1>2, <2>1, <2>2, <3>1, TotalOne
  <2>9. quote[i] * q \in Nat
    BY <1>1, ProductNat
  <2> QED
    BY <2>2, <2>3, <2>4, <2>5, <2>6, <2>7, <2>8, <2>9
<1> QED
  BY <1>8, <1>9, <1>10

LEMMA GrantFits ==
    ASSUME GateInv, GateInv', PartialPolls = FALSE, NEW s \in Signals, NEW failing, NEW q,
           q = Approved(s, cycle.stop[s], failing), Granted(s, failing, q)
    PROVE  /\ q \in Nat \ {0} /\ ~env.kill /\ env' = env /\ Equity' = Equity
           /\ \A i \in Instruments : quote[i] # 0
           /\ s.instrument \in Instruments
           /\ NewSymbol(s.instrument) /\ ~Full(s.instrument)
           /\ s.instrument \notin day.entered
           /\ Cardinality(day.entered) < MaxEntries
           /\ q <= gross(s.instrument) /\ q <= sector(s.instrument)
           /\ q <= heat(s.instrument, cycle.stop[s])
           /\ quote[s.instrument] - cycle.stop[s] > 0 /\ cycle.stop[s] \in Int
<1> DEFINE i == s.instrument
           stop == cycle.stop[s]
<1>1. stop \in Int /\ i \in Instruments
  BY StopOf, SignalInstrument
<1>2. q \in Nat \ {0} /\ ~EntryBlocked(i, stop, failing)
      /\ \A x \in Caps(i, s.strategy, stop) : q <= x
  BY <1>1, ApprovedFits DEF Granted
<1>3. q <= gross(i) /\ q <= sector(i) /\ q <= heat(i, stop)
  BY <1>2 DEF Caps
<1>4. /\ ~env.kill /\ quote[i] # 0 /\ NewSymbol(i) /\ ~Full(i) /\ i \notin day.entered
      /\ ~(Cardinality(day.entered) >= MaxEntries) /\ ~(quote[i] - stop <= 0)
  BY <1>2 DEF EntryBlocked, Traded
<1>5. \A j \in Instruments : quote[j] # 0
  BY <1>1, <1>4 DEF GateInv, Whole
<1>6. env' = env /\ UNCHANGED <<hold, cash, quote>>
  BY DEF Granted
<1>7. Equity' = Equity
  BY <1>6 DEF Equity, Held, Notional
<1>8. Cardinality(day.entered) \in Nat /\ MaxEntries \in Nat
  <2>1. day.entered \subseteq Instruments
    BY DEF GateInv, Typed, DayType
  <2> QED
    BY <2>1, BookSets, FS_CardinalityType, LimitsAreNumbers
<1>9. quote[i] - stop \in Int
  BY <1>1, LimitsAreNumbers DEF GateInv, Typed, MarketTyped
<1> QED
  BY <1>1, <1>2, <1>3, <1>4, <1>5, <1>6, <1>7, <1>8, <1>9

(* The exposure of a set of instruments after a grant to one of them,      *)
(* within the room that the check found.                                   *)
LEMMA GrantWithin ==
    ASSUME GateInv, GateInv', NEW T \in SUBSET Instruments, NEW i \in T, NEW q \in Nat \ {0},
           NEW pct \in Nat, \A j \in Instruments : quote[j] # 0,
           WorthOf(i) = 0, WorthOf(i)' = quote[i] * q,
           \A j \in T \ {i} : WorthOf(j)' = WorthOf(j),
           q <= Shares(Equity * pct - 100 * Exposure(T), quote[i])
    PROVE  100 * Total([j \in T |-> WorthOf(j)']) <= pct * Equity
<1> DEFINE w == [j \in T |-> WorthOf(j)]
           x == [j \in T |-> WorthOf(j)']
           e == Exposure(T)
           b == Equity * pct
<1>1. w \in [T -> Nat] /\ e = Total(w) /\ IsFiniteSet(T)
  BY ExposureIs, BookSets
<1>2. x \in [T -> Nat]
  <2>1. \A j \in T : WorthOf(j)' \in Nat
    BY SumsNext DEF BookKept, Kept
  <2> QED
    BY <2>1
<1>3. w[i] = 0 /\ x[i] = quote[i] * q /\ \A j \in T \ {i} : x[j] = w[j]
  OBVIOUS
<1>4. e \in Nat /\ b \in Int /\ Equity \in Int /\ b = pct * Equity
  BY EquityInt, ExposureNat
<1>5. quote[i] \in Nat
  BY LimitsAreNumbers DEF GateInv, Typed, MarketTyped
<1> DEFINE r == quote[i] * q
           h == b - 100 * e
<1>6. r \in Nat
  BY <1>5, ProductNat
<1>7. h \in Int /\ q <= Shares(h, quote[i])
  BY <1>4
<1>8. x[i] = r
  BY <1>3
<1> HIDE DEF w, x, e, b, h
<1>9. 100 * r <= h
  BY <1>5, <1>7, SharesFit
<1> HIDE DEF r
<1>10. Total(x) = Total(w) - w[i] + x[i] /\ Total(x) \in Nat /\ Total(w) \in Nat
  BY <1>1, <1>2, <1>3, TotalOne
<1>11. Total(x) = e + r
  BY <1>1, <1>3, <1>6, <1>8, <1>10
<1>12. 100 * Total(x) <= b
  BY <1>4, <1>6, <1>9, <1>11 DEF h
<1> QED
  BY <1>4, <1>12 DEF x

(* The symbols that hold capacity after a grant to a new one.              *)
LEMMA GrantPositions ==
    ASSUME GateInv, GateInv', NEW i \in Instruments, \A j \in Instruments : quote[j] # 0,
           \A j \in Instruments \ {i} : Committed(j)' = Committed(j),
           NewSymbol(i), ~Full(i)
    PROVE  Cardinality({j \in Instruments : Committed(j)' > 0}) <= MaxPositions
<1> DEFINE After == {j \in Instruments : Committed(j)' > 0}
<1>1. ASSUME NEW j \in After, j # i PROVE j \in Symbols
  <2>1. j \in Instruments /\ Committed(j) > 0 /\ Kept(j)
    BY <1>1, SumsOfBook DEF BookKept
  <2>2. CASE hold[j].qty > 0
    BY <2>1, <2>2 DEF Symbols, Held
  <2>3. CASE ~(hold[j].qty > 0)
    <3>1. Total(LeftOf(j)) # 0 /\ LeftOf(j) \in [Signals -> Nat]
      BY <2>1, <2>3 DEF Kept
    <3>2. PICK s \in Signals : LeftOf(j)[s] # 0
      BY <3>1, TotalZero
    <3>3. s.instrument = j /\ order[s].left # 0 /\ order[s].left \in Nat
      BY <3>2 DEF LeftOf, GateInv, Typed, BookTyped, OrderType
    <3>4. s \in Reserved
      BY <2>1, <3>3 DEF Reserved, GateInv, LeftIsLive
    <3> QED
      BY <3>3, <3>4 DEF Symbols
  <2> QED
    BY <2>2, <2>3
<1>2. Symbols \in SUBSET Instruments /\ IsFiniteSet(Symbols)
  <2>1. Symbols \subseteq Instruments
    BY BookSets, SignalInstrument DEF Symbols
  <2> QED
    BY <2>1, BookSets
<1>3. Cardinality(Symbols) \in Nat /\ Cardinality(Symbols) < MaxPositions /\ MaxPositions \in Nat
  BY <1>2, FS_CardinalityType, LimitsAreNumbers DEF Full
<1>4. After \in SUBSET (Symbols \cup {i})
  BY <1>1
<1>5. IsFiniteSet(Symbols \cup {i}) /\ Cardinality(Symbols \cup {i}) <= Cardinality(Symbols) + 1
      /\ Cardinality(Symbols \cup {i}) \in Nat
  <2> DEFINE S == Symbols
             U == S \cup {i}
  <2>1. IsFiniteSet(S) /\ Cardinality(S) \in Nat
    BY <1>2, <1>3
  <2> HIDE DEF S
  <2>2. IsFiniteSet(U) /\ (Cardinality(U) = Cardinality(S) \/ Cardinality(U) = Cardinality(S) + 1)
    BY <2>1, FS_AddElement
  <2>3. Cardinality(U) <= Cardinality(S) + 1 /\ Cardinality(U) \in Nat
    BY <2>1, <2>2
  <2> QED
    BY <2>2, <2>3 DEF S
<1> HIDE DEF After
<1>6. IsFiniteSet(After) /\ Cardinality(After) <= Cardinality(Symbols \cup {i})
      /\ Cardinality(After) \in Nat
  BY <1>4, <1>5, FS_Subset, FS_CardinalityType
<1>7. Cardinality(After) <= MaxPositions
  BY <1>3, <1>5, <1>6
<1> QED
  BY <1>7 DEF After

-----------------------------------------------------------------------------
(* The refinement.                                                         *)

(* The budget counts as this module does.                                  *)
LEMMA BudgetCounts ==
    \A S : Budget!Cardinality(S) = Cardinality(S)
BY DEF Budget!Cardinality, Cardinality

LEMMA BudgetWorth ==
    ASSUME NEW T \in SUBSET Instruments
    PROVE  Budget!Worth([i \in Instruments |-> WorthOf(i)]', T) = Total([j \in T |-> WorthOf(j)'])
<1> DEFINE v == [i \in Instruments |-> WorthOf(i)]'
           x == [j \in T |-> WorthOf(j)']
<1>1. [j \in T |-> v[j]] = x
  OBVIOUS
<1> HIDE DEF v
<1>2. Budget!Worth(v, T) = Budget!Cardinality(Units([j \in T |-> v[j]]))
  BY DEF Budget!Worth, Budget!Total, Budget!Units, Units
<1>3. Budget!Worth(v, T) = Total(x)
  BY <1>1, <1>2, BudgetCounts DEF Total
<1> QED
  BY <1>3 DEF v

LEMMA BudgetInit ==
    Init => Budget!Init
<1> SUFFICES ASSUME Init PROVE Budget!Init
  OBVIOUS
<1>1. GateInv
  BY GateInvInit
<1>2. ASSUME NEW i \in Instruments PROVE Committed(i) = 0 /\ WorthOf(i) = 0
  <2>1. Kept(i)
    BY <1>1, SumsOfBook DEF BookKept
  <2>2. hold[i].qty = 0 /\ Notional(i) = 0
    BY DEF Init, Flat, Notional
  <2>3. \A s \in Signals : order[s].left = 0 /\ LastPrice(s) = 0
    BY SignalInstrument DEF Init, NoOrder, Ended, LastPrice, Price
  <2>4. \A s \in Signals : LeftOf(i)[s] = 0 /\ ValueOf(i)[s] = 0
    BY <2>3 DEF LeftOf, ValueOf
  <2>5. Total(LeftOf(i)) = 0 /\ Total(ValueOf(i)) = 0
    BY <2>1, <2>4, TotalZero DEF Kept
  <2> QED
    BY <2>1, <2>2, <2>5 DEF Kept
<1>3. Equity \in Nat
  <2>1. Held = {} /\ cash = Cash
    BY DEF Init, Held, Flat
  <2> DEFINE n == [i \in Held |-> Notional(i)]
  <2>2. n \in [Held -> Nat] /\ \A i \in Held : n[i] = 0
    BY <2>1
  <2>3. Equity = cash + Total(n)
    BY DEF Equity
  <2> HIDE DEF n
  <2>4. Total(n) = 0
    BY <2>2, TotalZero
  <2> QED
    BY <2>1, <2>3, <2>4, LimitsAreNumbers
<1>4. day.entered = {} /\ env.kill = FALSE
  BY DEF Init
<1> QED
  BY <1>2, <1>3, <1>4 DEF Budget!Init

LEMMA GrantIsGrant ==
    ASSUME GateInv, GateInv', PartialPolls = FALSE, NEW s \in Signals, NEW failing,
           Granted(s, failing, Approved(s, cycle.stop[s], failing))
    PROVE  Budget!Grant(s.instrument)
<1> DEFINE i == s.instrument
           q == Approved(s, cycle.stop[s], failing)
           Peers == {j \in Instruments : Sector[j] = Sector[i]}
<1>1. /\ q \in Nat \ {0} /\ ~env.kill /\ env' = env /\ Equity' = Equity
      /\ \A j \in Instruments : quote[j] # 0
      /\ i \in Instruments /\ NewSymbol(i) /\ ~Full(i) /\ i \notin day.entered
      /\ Cardinality(day.entered) < MaxEntries /\ q <= gross(i) /\ q <= sector(i)
      /\ cycle.stop[s] \in Int
  BY GrantFits
<1>2. /\ order' = [order EXCEPT ![s] = [status |-> "placing", left |-> q, stop |-> cycle.stop[s],
                                        ref |-> quote[i]]]
      /\ UNCHANGED <<hold, quote>> /\ day' = [day EXCEPT !.entered = @ \cup {i}]
  BY DEF Granted
<1> HIDE DEF q
<1>3. /\ Committed(i) = 0 /\ Committed(i)' = q /\ WorthOf(i) = 0 /\ WorthOf(i)' = quote[i] * q
      /\ \A j \in Instruments \ {i} : Committed(j)' = Committed(j) /\ WorthOf(j)' = WorthOf(j)
  BY <1>1, <1>2, GrantSums
<1>4. (day.entered)' = day.entered \cup {i}
  BY <1>2 DEF GateInv, Typed, DayType
<1>5. Cardinality((day.entered)') <= MaxEntries
  <2>1. day.entered \subseteq Instruments
    BY DEF GateInv, Typed, DayType
  <2>2. IsFiniteSet(day.entered) /\ Cardinality(day.entered) \in Nat /\ MaxEntries \in Nat
    BY <2>1, BookSets, FS_CardinalityType, LimitsAreNumbers
  <2>3. Cardinality(day.entered \cup {i}) = Cardinality(day.entered) + 1
    BY <1>1, <2>2, FS_AddElement
  <2> QED
    BY <1>1, <1>4, <2>2, <2>3
<1>6. Cardinality({j \in Instruments : Committed(j)' > 0}) <= MaxPositions
  BY <1>1, <1>3, GrantPositions
<1>7. 100 * Total([j \in Instruments |-> WorthOf(j)']) <= MaxGrossPct * Equity
  <2>1. q <= Shares(Equity * MaxGrossPct - 100 * Exposure(Instruments), quote[i])
    BY <1>1 DEF gross
  <2> QED
    BY <1>1, <1>3, <2>1, LimitsAreNumbers, GrantWithin
<1>8. 100 * Total([j \in Peers |-> WorthOf(j)']) <= MaxSectorPct * Equity
  <2>1. q <= Shares(Equity * MaxSectorPct - 100 * Exposure(Peers), quote[i])
    BY <1>1 DEF sector
  <2>2. Peers \in SUBSET Instruments /\ i \in Peers
    BY <1>1
  <2> HIDE DEF Peers
  <2> QED
    BY <1>1, <1>3, <2>1, <2>2, LimitsAreNumbers, GrantWithin
<1>9. Budget!Peers(i) = Peers /\ Peers \in SUBSET Instruments
  BY DEF Budget!Peers
<1>10. Budget!Taken' = {j \in Instruments : Committed(j)' > 0}
  BY DEF Budget!Taken
<1>11. /\ 100 * Budget!Worth([j \in Instruments |-> WorthOf(j)]', Instruments) <= MaxGrossPct * Equity
       /\ 100 * Budget!Worth([j \in Instruments |-> WorthOf(j)]', Budget!Peers(i)) <= MaxSectorPct * Equity
  BY <1>7, <1>8, <1>9, BudgetWorth
<1>12. /\ Budget!Cardinality((day.entered)') <= MaxEntries
       /\ Budget!Cardinality(Budget!Taken') <= MaxPositions
  BY <1>5, <1>6, <1>10, BudgetCounts
<1>13. q > 0
  BY <1>1
<1> HIDE DEF Peers
<1> QED
  BY <1>1, <1>3, <1>4, <1>11, <1>12, <1>13 DEF Budget!Grant

LEMMA BudgetNext ==
    ASSUME GateInv, GateInv', PartialPolls = FALSE, [Next]_vars
    PROVE  [Budget!Next]_(Budget!vars)
<1>1. ASSUME Released PROVE Budget!Release
  BY <1>1 DEF Released, Budget!Release
<1>2. ASSUME NEW s \in Signals, NEW failing,
             Granted(s, failing, Approved(s, cycle.stop[s], failing))
      PROVE  \E i \in Instruments : Budget!Grant(i)
  BY <1>2, GrantIsGrant, SignalInstrument
<1> QED
  BY <1>1, <1>2, StepReleases DEF Budget!Next

(* The gate implements the budget, for any instruments, signals, prices    *)
(* and limits: as long as polls are whole, no interleaving of fills,       *)
(* quotes, trips, exits and restarts with the cycle's awaits lets an entry *)
(* be granted that takes the book over a limit (RiskGate, RiskEngine and   *)
(* Reservations against DecisionEngine.run_cycle).                         *)
THEOREM GateKeepsBudget ==
    ASSUME PartialPolls = FALSE
    PROVE  Spec => KeepsBudget
<1>1. Init => GateInv /\ Budget!Init
  BY GateInvInit, BudgetInit
<1>2. GateInv /\ [Next]_vars => GateInv'
  BY GateInvNext
<1>3. GateInv /\ GateInv' /\ [Next]_vars => [Budget!Next]_(Budget!vars)
  BY BudgetNext
<1> QED
  BY <1>1, <1>2, <1>3, PTL DEF Spec, KeepsBudget, Budget!Spec

-----------------------------------------------------------------------------
(* The heat.                                                               *)

RiskOf == [s \in Signals |-> Above(Distance(s)) * order[s].left]
HeldRisk == [i \in Held |-> IF hold[i].stop = 0 THEN Notional(i)
                            ELSE Above(hold[i].qty * (quote[i] - hold[i].stop))]

(* The loss to the stops as two sums of natural numbers.                   *)
LossSums ==
    /\ RiskOf \in [Signals -> Nat] /\ Total(RiskOf) \in Nat
    /\ HeldRisk \in [Held -> Nat] /\ Total(HeldRisk) \in Nat
    /\ LossToStops = Total(HeldRisk) + Total(RiskOf)

LEMMA AboveNat ==
    ASSUME NEW n \in Int
    PROVE  Above(n) \in Nat /\ (n >= 0 => Above(n) = n) /\ (n <= 0 => Above(n) = 0)
BY DEF Above

LEMMA LossIs ==
    GateInv => LossSums
<1> SUFFICES ASSUME GateInv PROVE LossSums
  OBVIOUS
<1> DEFINE g == [s \in Live |-> Above(Distance(s)) * order[s].left]
<1>1. ASSUME NEW s \in Signals
      PROVE  /\ Above(Distance(s)) * order[s].left \in Nat
             /\ s \notin Live => Above(Distance(s)) * order[s].left = 0
  <2>1. Above(Distance(s)) \in Nat /\ order[s].left \in Nat
    BY PendingNat, AboveNat
  <2>2. s \notin Live => order[s].left = 0
    BY <2>1 DEF GateInv, LeftIsLive
  <2> QED
    BY <2>1, <2>2, ProductNat
<1>2. RiskOf \in [Signals -> Nat] /\ \A s \in Signals \ Live : RiskOf[s] = 0
  BY <1>1 DEF RiskOf
<1>3. g = [s \in Live |-> RiskOf[s]] /\ Live \in SUBSET Signals
  BY BookSets DEF RiskOf
<1>4. HeldRisk \in [Held -> Nat]
  <2> SUFFICES ASSUME NEW i \in Held
               PROVE  Notional(i) \in Nat /\ Above(hold[i].qty * (quote[i] - hold[i].stop)) \in Nat
    BY DEF HeldRisk
  <2>1. i \in Instruments
    BY BookSets
  <2>2. hold[i].qty \in Int /\ quote[i] \in Int /\ hold[i].stop \in Int
    BY <2>1, LimitsAreNumbers DEF GateInv, Typed, BookTyped, MarketTyped, HoldType
  <2>3. hold[i].qty * (quote[i] - hold[i].stop) \in Int
    BY <2>2
  <2> QED
    BY <2>1, <2>3, NotionalNat, AboveNat
<1>5. LossToStops = Total(HeldRisk) + Total(g)
  BY DEF LossToStops, HeldRisk
<1> HIDE DEF g
<1>6. Total(g) = Total(RiskOf)
  BY <1>2, <1>3, TotalOfPart
<1>7. Total(RiskOf) \in Nat /\ Total(HeldRisk) \in Nat
  BY <1>2, <1>4, BookSets, UnitsFinite
<1> QED
  BY <1>2, <1>4, <1>5, <1>6, <1>7 DEF LossSums

LEMMA LossNext ==
    GateInv' => LossSums'
BY LossIs, PTL

(* With every instrument quoted and no working order below its stop, the   *)
(* heat that the check sees is the loss to the stops.                      *)
LEMMA HeatIsLoss ==
    ASSUME GateInv, \A i \in Instruments : quote[i] # 0, ~Underwater
    PROVE  Heat = LossToStops
<1> DEFINE d == [s \in Reserved |-> Distance(s) * order[s].left]
           up == [s \in DOMAIN d |-> Above(d[s])]
           down == [s \in DOMAIN d |-> Above(-d[s])]
<1>1. Reserved \in SUBSET Signals /\ IsFiniteSet(Signals)
  BY BookSets
<1>2. ASSUME NEW s \in Signals
      PROVE  /\ s \notin Reserved => RiskOf[s] = 0
             /\ s \in Reserved => /\ d[s] \in Int /\ Above(d[s]) = RiskOf[s] /\ Above(-d[s]) = 0
                                  /\ RiskOf[s] \in Nat
  <2>1. Distance(s) \in Int /\ order[s].left \in Nat
    BY PendingNat
  <2>2. RiskOf[s] = Above(Distance(s)) * order[s].left /\ Above(Distance(s)) \in Nat
    BY <2>1, AboveNat DEF RiskOf
  <2>3. CASE s \notin Reserved
    <3>1. quote[s.instrument] # 0
      BY SignalInstrument
    <3>2. order[s].left = 0
      BY <2>1, <2>3, <3>1 DEF Reserved, GateInv, LeftIsLive
    <3> QED
      BY <2>2, <2>3, <3>2
  <2>4. CASE s \in Reserved
    <3>1. Distance(s) >= 0
      BY <2>1, <2>4 DEF Underwater
    <3>2. Above(Distance(s)) = Distance(s) /\ Distance(s) \in Nat
      BY <2>1, <3>1, AboveNat
    <3>3. d[s] = Distance(s) * order[s].left
      BY <2>4
    <3>4. d[s] \in Nat /\ d[s] = RiskOf[s]
      BY <2>1, <2>2, <3>2, <3>3, ProductNat
    <3> HIDE DEF d
    <3>5. d[s] >= 0 /\ -d[s] <= 0 /\ d[s] \in Int /\ -d[s] \in Int
      BY <3>4
    <3> QED
      BY <2>4, <3>4, <3>5, AboveNat
  <2> QED
    BY <2>3, <2>4
<1>3. DOMAIN d = Reserved
  OBVIOUS
<1>4. SignedTotal(d) = Total(up) - Total(down)
  BY DEF SignedTotal
<1>5. up = [s \in Reserved |-> RiskOf[s]] /\ down \in [Reserved -> Nat]
      /\ \A s \in Reserved : down[s] = 0
  <2> HIDE DEF d
  <2> QED
    BY <1>1, <1>2, <1>3
<1>6. Heat = Total([i \in Held |-> OpenRisk(i)]) + SignedTotal(d)
  BY DEF Heat
<1>7. [i \in Held |-> OpenRisk(i)] = HeldRisk
  <2> SUFFICES ASSUME NEW i \in Held, hold[i].stop # 0
               PROVE  OpenRisk(i) = Above(hold[i].qty * (quote[i] - hold[i].stop))
    BY DEF HeldRisk, OpenRisk
  <2>1. i \in Instruments /\ quote[i] # 0
    BY BookSets
  <2> DEFINE a == hold[i].qty
             b == quote[i]
             c == hold[i].stop
  <2>2. a \in Int /\ b \in Int /\ c \in Int
    BY <2>1, LimitsAreNumbers DEF GateInv, Typed, BookTyped, MarketTyped, HoldType
  <2>3. OpenRisk(i) = MaxOf(0, a * b - a * c)
    BY <2>1 DEF OpenRisk, Notional
  <2> HIDE DEF a, b, c
  <2>4. a * (b - c) = a * b - a * c
    BY <2>2
  <2> DEFINE n == a * b - a * c
  <2>5. n \in Int
    BY <2>2
  <2>6. OpenRisk(i) = MaxOf(0, n) /\ a * (b - c) = n
    BY <2>3, <2>4
  <2> HIDE DEF n
  <2>7. MaxOf(0, n) = Above(n)
    BY <2>5 DEF MaxOf, Above
  <2>8. OpenRisk(i) = Above(a * (b - c))
    BY <2>6, <2>7
  <2> QED
    BY <2>8 DEF a, b, c
<1>8. LossSums
  BY LossIs
<1>9. \A s \in Signals \ Reserved : RiskOf[s] = 0
  BY <1>2
<1> HIDE DEF d, up, down
<1>10. Total(up) = Total(RiskOf)
  BY <1>1, <1>5, <1>8, <1>9, TotalOfPart DEF LossSums
<1>11. Total(down) = 0
  BY <1>5, TotalZero
<1>12. SignedTotal(d) = Total(RiskOf)
  BY <1>4, <1>8, <1>10, <1>11 DEF LossSums
<1> QED
  BY <1>6, <1>7, <1>8, <1>12 DEF LossSums

(* Only a grant makes an order that is being sent.                         *)
LEMMA OnlyGrantsPlace ==
    ASSUME GateInv, [Next]_vars
    PROVE  \/ \A s \in Signals : order'[s].status = "placing" => order[s].status = "placing"
           \/ \E s \in Signals, failing \in {{}, DataChecks} :
                  Granted(s, failing, Approved(s, cycle.stop[s], failing))
<1> DEFINE P == \A s \in Signals : order'[s].status = "placing" => order[s].status = "placing"
<1>0. order \in [Signals -> OrderType]
  BY DEF GateInv, Typed, BookTyped
<1>1. ASSUME NEW s \in Signals, NEW o, order' = [order EXCEPT ![s] = o],
             o.status = "placing" => order[s].status = "placing"
      PROVE  P
  BY <1>0, <1>1
<1>2. ASSUME UNCHANGED order PROVE P
  BY <1>2
<1>3. ASSUME NEW s \in Signals, NEW failing \in {{}, DataChecks}, Submit(s, failing)
      PROVE  P \/ Granted(s, failing, Approved(s, cycle.stop[s], failing))
  BY <1>2, <1>3, SubmitIs
<1>4. ASSUME NEW s \in Signals, NEW status \in {"working", "gone", "unknown"}, Placed(s, status)
      PROVE  P
  <2> DEFINE o == IF order[s].status # "placing" THEN order[s]
                  ELSE IF status = "gone" THEN Ended("gone")
                  ELSE [order[s] EXCEPT !.status = status]
  <2>1. order' = [order EXCEPT ![s] = o]
    BY <1>4 DEF Placed
  <2>2. o.status # "placing"
    BY <1>0 DEF OrderType, Ended
  <2> HIDE DEF o
  <2> QED
    BY <1>1, <2>1, <2>2
<1>5. ASSUME NEW s \in Signals, Fill(s) PROVE P
  <2>1. PICK o \in OrderType : order' = [order EXCEPT ![s] = o]
                               /\ o.status \in {"working", "unknown", "filled"}
    BY <1>5, FillIs
  <2> QED
    BY <1>1, <2>1
<1>6. ASSUME NEW s \in Signals, OrderEnds(s) PROVE P
  <2> DEFINE o == Ended("gone")
  <2>1. order' = [order EXCEPT ![s] = o] /\ o.status # "placing"
    BY <1>6 DEF OrderEnds, Ended
  <2> HIDE DEF o
  <2> QED
    BY <1>1, <2>1
<1>7. ASSUME NEW st \in {"working", "gone"}, Restart(st) PROVE P
  BY <1>7, RestartKeeps
<1>8. ASSUME NEW s \in Signals, Review(s) \/ Vetoed(s) \/ SubmitRaises(s) PROVE UNCHANGED order
  BY <1>8 DEF Review, Vetoed, SubmitRaises, bookVars
<1>9. ASSUME Begin \/ Requoted \/ CycleEnds \/ Tick \/ Operator \/ Passes \/ UNCHANGED vars
      PROVE  P
  <2>1. UNCHANGED order
    BY <1>9 DEF Begin, Requoted, CycleEnds, Tick, Operator, Passes, bookVars, vars
  <2> QED
    BY <1>2, <2>1
<1>10. ASSUME NEW i \in Instruments,
              \/ StopRests(i) \/ \E q \in 1 .. hold[i].qty : Exit(i, q)
              \/ \E p \in Prices : Poll(i, p)
       PROVE  UNCHANGED order
  BY <1>10 DEF StopRests, Exit, Poll, bookVars
<1>11. ASSUME NEW S \in SUBSET Instruments, FirstPoll(S) PROVE UNCHANGED order
  BY <1>11 DEF FirstPoll, bookVars
<1> HIDE DEF P
<1>12. P \/ \E s \in Signals, failing \in {{}, DataChecks} :
                  Granted(s, failing, Approved(s, cycle.stop[s], failing))
  BY <1>2, <1>3, <1>4, <1>5, <1>6, <1>7, <1>8, <1>9, <1>10, <1>11 DEF Next
<1> QED
  BY <1>12 DEF P

LEMMA GrantKeepsHeat ==
    ASSUME GateInv, GateInv', PartialPolls = FALSE, NEW s \in Signals, NEW failing,
           Granted(s, failing, Approved(s, cycle.stop[s], failing)), ~Underwater
    PROVE  100 * LossToStops' <= MaxHeatPct * Equity
<1> DEFINE i == s.instrument
           q == Approved(s, cycle.stop[s], failing)
           p == quote[i] - cycle.stop[s]
           f == RiskOf
           g == RiskOf'
           e == LossToStops
           b == Equity * MaxHeatPct
<1>1. /\ q \in Nat \ {0} /\ \A j \in Instruments : quote[j] # 0
      /\ i \in Instruments /\ q <= heat(i, cycle.stop[s]) /\ p > 0 /\ cycle.stop[s] \in Int
  BY GrantFits
<1>2. /\ order' = [order EXCEPT ![s] = [status |-> "placing", left |-> q, stop |-> cycle.stop[s],
                                        ref |-> quote[i]]]
      /\ UNCHANGED <<hold, quote>> /\ order[s].status = "none"
  BY DEF Granted
<1> HIDE DEF q
<1>3. LossSums /\ LossSums' /\ Heat = e
  BY <1>1, LossIs, LossNext, HeatIsLoss
<1>4. quote[i] \in Nat /\ p \in Nat
  BY <1>1, LimitsAreNumbers DEF GateInv, Typed, MarketTyped
<1>5. HeldRisk' = HeldRisk
  BY <1>2 DEF HeldRisk, Held, Notional
<1>6. order \in [Signals -> OrderType] /\ IsFiniteSet(Signals)
  BY BookSets DEF GateInv, Typed, BookTyped
<1>7. \A r \in Signals \ {s} : g[r] = f[r]
  <2>1. \A r \in Signals \ {s} : order'[r] = order[r] /\ Distance(r)' = Distance(r)
    BY <1>2, <1>6 DEF Distance, Price
  <2> QED
    BY <2>1 DEF RiskOf
<1>8. f[s] = 0
  <2>1. order[s].left = 0
    BY <1>2, <1>6 DEF OrderType, GateInv, LeftIsLive, Live
  <2>2. Above(Distance(s)) \in Nat
    BY PendingNat, AboveNat
  <2> QED
    BY <2>1, <2>2 DEF RiskOf
<1>9. g[s] = p * q
  <2>1. order'[s].left = q /\ Distance(s)' = p
    BY <1>2, <1>6 DEF Distance, Price
  <2>2. Above(p) = p
    BY <1>4, AboveNat
  <2>3. g[s] = Above(Distance(s)') * order'[s].left
    BY DEF RiskOf
  <2> HIDE DEF p
  <2> QED
    BY <2>1, <2>2, <2>3
<1>10. e \in Nat /\ b \in Int /\ b = MaxHeatPct * Equity
  BY <1>3, EquityInt, LimitsAreNumbers DEF LossSums
<1> DEFINE h == b - 100 * e
<1>11. h \in Int /\ q <= Shares(h, p)
  BY <1>1, <1>3, <1>10 DEF heat
<1>12. f \in [Signals -> Nat] /\ g \in [Signals -> Nat]
  BY <1>3 DEF LossSums
<1>13. e = Total(HeldRisk) + Total(f) /\ LossToStops' = Total(HeldRisk) + Total(g)
       /\ Total(HeldRisk) \in Nat
  BY <1>3, <1>5 DEF LossSums
<1> DEFINE r == p * q
<1>14. r \in Nat /\ g[s] = r
  BY <1>1, <1>4, <1>9, ProductNat
<1> HIDE DEF f, g, e, b, h, p
<1>15. 100 * r <= h
  BY <1>1, <1>4, <1>11, SharesFit
<1> HIDE DEF r
<1>16. Total(g) = Total(f) - f[s] + g[s] /\ Total(f) \in Nat /\ Total(g) \in Nat
  BY <1>6, <1>7, <1>12, TotalOne
<1>17. LossToStops' = e + r
  BY <1>8, <1>13, <1>14, <1>16
<1>18. 100 * LossToStops' <= b
  BY <1>10, <1>14, <1>15, <1>17 DEF h
<1> QED
  BY <1>10, <1>18

(* An approved entry keeps the loss to all stops within max_heat_pct, for  *)
(* any book, as long as polls are whole (portfolio.heat, Reservations).    *)
THEOREM HeatIsKept ==
    ASSUME PartialPolls = FALSE
    PROVE  Spec => HeatKept
<1> DEFINE H == \A s \in Signals :
                    (order[s].status = "none" /\ order'[s].status = "placing" /\ ~Underwater)
                    => 100 * LossToStops' <= MaxHeatPct * Equity
<1>1. Init => GateInv
  BY GateInvInit
<1>2. GateInv /\ [Next]_vars => GateInv'
  BY GateInvNext
<1>3. GateInv /\ GateInv' /\ [Next]_vars => H
  <2> SUFFICES ASSUME GateInv, GateInv', [Next]_vars, NEW s \in Signals,
                      order[s].status = "none", order'[s].status = "placing", ~Underwater
               PROVE  100 * LossToStops' <= MaxHeatPct * Equity
    OBVIOUS
  <2>1. PICK r \in Signals, failing \in {{}, DataChecks} :
            Granted(r, failing, Approved(r, cycle.stop[r], failing))
    BY OnlyGrantsPlace
  <2> QED
    BY <2>1, GrantKeepsHeat
<1> HIDE DEF H
<1>4. Spec => [][H]_vars
  BY <1>1, <1>2, <1>3, PTL DEF Spec
<1> QED
  BY <1>4 DEF HeatKept, H

-----------------------------------------------------------------------------
(* The dispositions.                                                       *)

Hows == {"shadow", "gated", "refused", "submitted", "broker_rejected", "unknown"}
DispTyped == disp \in [Signals -> {<<>>} \cup {<<how>> : how \in Hows}]

(* The signal under review is not waiting, and is one at a time.           *)
OneAtATime ==
    /\ cycle.pc \notin {"review", "place"} => cycle.cur = {}
    /\ cycle.cur \cap cycle.todo = {}
    /\ \A s, r \in cycle.cur : s = r

(* Before a restart, what has not been reviewed has not been sent.         *)
Fresh ==
    count.restarts = 0 =>
        /\ count.cycles = 0 => cycle.pc = "idle" /\ \A s \in Signals : order[s].status = "none"
        /\ \A s \in cycle.todo : order[s].status = "none"
        /\ cycle.pc = "review" => \A s \in cycle.cur : order[s].status = "none"

(* What is being placed has been recorded.                                 *)
Sent == cycle.pc = "place" => \A s \in cycle.cur : order[s].status # "none"

DispInv == DispTyped /\ OneAtATime /\ Fresh /\ Sent /\ Truthful /\ NoneMissing

LEMMA DispInvInit ==
    Init => DispInv
<1> SUFFICES ASSUME Init PROVE DispInv
  OBVIOUS
<1>1. DispTyped /\ OneAtATime
  BY DEF Init, DispTyped, OneAtATime, Idle, IdleAfter
<1>2. Fresh /\ Sent
  BY DEF Init, Fresh, Sent, Idle, IdleAfter, NoOrder, Ended
<1>3. Truthful
  BY DEF Init, Truthful, Live, NoOrder, Ended
<1>4. NoneMissing
  BY DEF Init, NoneMissing, Idle, IdleAfter
<1> QED
  BY <1>1, <1>2, <1>3, <1>4 DEF DispInv

(* Around the cycle an order moves only while it is live.                  *)
Moves ==
    \A s \in Signals :
        \/ order'[s].status = order[s].status
        \/ /\ order[s].status \in {"placing", "working", "unknown"}
           /\ order'[s].status \in {"working", "unknown", "filled", "gone"}

LEMMA DispKept ==
    ASSUME GateInv, DispInv, UNCHANGED <<cycle, disp>>, Moves,
           count'.restarts = count.restarts, count'.cycles = count.cycles
    PROVE  DispInv'
<1>1. \A s \in Signals : order'[s].status = "none" <=> order[s].status = "none"
  BY DEF Moves
<1>2. cycle.todo \subseteq Signals /\ cycle.cur \subseteq Signals
  BY DEF GateInv, Typed, CycleTyped, CycleType
<1>3. DispTyped' /\ OneAtATime'
  BY DEF DispInv, DispTyped, OneAtATime
<1>4. Fresh' /\ Sent'
  BY <1>1, <1>2 DEF DispInv, Fresh, Sent
<1>5. Truthful'
  BY <1>1 DEF DispInv, Truthful, Live, Moves
<1>6. NoneMissing'
  BY DEF DispInv, NoneMissing
<1> QED
  BY <1>3, <1>4, <1>5, <1>6 DEF DispInv

LEMMA SameMoves ==
    ASSUME UNCHANGED order
    PROVE  Moves
BY DEF Moves

LEMMA OneMoves ==
    ASSUME GateInv, NEW s \in Signals, NEW o, order' = [order EXCEPT ![s] = o],
           order[s].status \in {"placing", "working", "unknown"},
           o.status \in {"working", "unknown", "filled", "gone"}
    PROVE  Moves
<1>1. order \in [Signals -> OrderType]
  BY DEF GateInv, Typed, BookTyped
<1> QED
  BY <1>1 DEF Moves

LEMMA HappensCounts ==
    ASSUME GateInv, count' = count \/ Happens
    PROVE  count'.restarts = count.restarts /\ count'.cycles = count.cycles
BY DEF Happens, GateInv, Typed, CycleTyped, CountType

(* Everything but the cycle's own steps and restarts.                      *)
LEMMA AroundKeepsDisp ==
    ASSUME GateInv, DispInv,
           \/ Tick \/ Operator \/ Passes \/ UNCHANGED vars
           \/ \E s \in Signals : Fill(s) \/ OrderEnds(s)
           \/ \E i \in Instruments : \/ StopRests(i) \/ \E q \in 1 .. hold[i].qty : Exit(i, q)
                                     \/ \E p \in Prices : Poll(i, p)
           \/ \E S \in SUBSET Instruments : FirstPoll(S)
    PROVE  DispInv'
<1>1. ASSUME UNCHANGED <<cycle, disp, order>>, count' = count \/ Happens PROVE DispInv'
  BY <1>1, SameMoves, HappensCounts, DispKept
<1>2. CASE Tick \/ Operator \/ Passes \/ UNCHANGED vars
  BY <1>1, <1>2 DEF Tick, Operator, Passes, vars, bookVars
<1>3. ASSUME NEW s \in Signals, Fill(s) PROVE DispInv'
  <2>1. PICK o \in OrderType : order' = [order EXCEPT ![s] = o]
                               /\ o.status \in {"working", "unknown", "filled"}
    BY <1>3, FillIs
  <2>2. order[s].status \in {"placing", "working", "unknown"} /\ UNCHANGED <<cycle, disp, count>>
    BY <1>3 DEF Fill, Live
  <2> QED
    BY <2>1, <2>2, OneMoves, HappensCounts, DispKept
<1>4. ASSUME NEW s \in Signals, OrderEnds(s) PROVE DispInv'
  <2> DEFINE o == Ended("gone")
  <2>1. order' = [order EXCEPT ![s] = o] /\ o.status = "gone"
    BY <1>4 DEF OrderEnds, Ended
  <2>2. order[s].status \in {"working", "unknown"} /\ UNCHANGED <<cycle, disp>> /\ Happens
    BY <1>4 DEF OrderEnds
  <2> HIDE DEF o
  <2> QED
    BY <2>1, <2>2, OneMoves, HappensCounts, DispKept
<1>5. ASSUME NEW i \in Instruments,
             \/ StopRests(i) \/ \E q \in 1 .. hold[i].qty : Exit(i, q)
             \/ \E p \in Prices : Poll(i, p)
      PROVE  DispInv'
  BY <1>1, <1>5 DEF StopRests, Exit, Poll, bookVars
<1>6. ASSUME NEW S \in SUBSET Instruments, FirstPoll(S) PROVE DispInv'
  BY <1>1, <1>6 DEF FirstPoll, bookVars
<1> QED
  BY <1>2, <1>3, <1>4, <1>5, <1>6

(* A cycle that begins or ends leaves nothing under review.                *)
LEMMA RestKeepsDisp ==
    ASSUME GateInv, DispInv, UNCHANGED <<disp, order>>, UNCHANGED count,
           cycle'.cur = {}, cycle'.todo = {}, cycle'.pc = "idle", NoneMissing'
    PROVE  DispInv'
<1>1. DispTyped' /\ OneAtATime' /\ Sent'
  BY DEF DispInv, DispTyped, OneAtATime, Sent
<1>2. Fresh'
  BY DEF DispInv, Fresh
<1>3. Truthful'
  BY DEF DispInv, Truthful, Live
<1> QED
  BY <1>1, <1>2, <1>3 DEF DispInv

LEMMA BeginKeepsDisp ==
    ASSUME GateInv, DispInv, Begin
    PROVE  DispInv'
<1> DEFINE rest == {s \in Signals : s.use \in {"trade", "sell"}}
<1>1. /\ cycle' = IF rest = {} THEN IdleAfter("whole") ELSE [Idle EXCEPT !.pc = "requote", !.todo = rest]
      /\ UNCHANGED order
      /\ disp' = [s \in Signals |-> IF s \in rest THEN <<>> ELSE <<s.use>>]
      /\ count' = [count EXCEPT !.cycles = @ + 1] /\ cycle.pc = "idle"
      /\ count.cycles <= count.restarts
  BY DEF Begin, bookVars
<1>2. \A s \in Signals : s \notin rest => s.use \in {"shadow", "gated"}
  BY GateAssumption
<1>3. rest \in SUBSET Signals
  OBVIOUS
<1> HIDE DEF rest
<1>4. cycle'.pc \in {"idle", "requote"} /\ cycle'.todo = rest /\ cycle'.cur = {}
  BY <1>1 DEF Idle, IdleAfter
<1>5. \A s \in Signals : \/ s \in rest /\ disp'[s] = <<>>
                         \/ s \notin rest /\ disp'[s] \in {<<"shadow">>, <<"gated">>}
  BY <1>1, <1>2
<1>6. DispTyped'
  <2>1. \A s \in Signals : (IF s \in rest THEN <<>> ELSE <<s.use>>)
                               \in {<<>>} \cup {<<how>> : how \in Hows}
    BY <1>2 DEF Hows
  <2> QED
    BY <1>1, <2>1 DEF DispTyped
<1>7. OneAtATime' /\ Sent'
  BY <1>3, <1>4 DEF OneAtATime, Sent
<1>8. count \in CountType
  BY DEF GateInv, Typed, CycleTyped
<1>9. count'.restarts = count.restarts /\ count'.cycles = count.cycles + 1
      /\ count.restarts \in Nat /\ count.cycles \in Nat
  BY <1>1, <1>8 DEF CountType
<1>10. Fresh'
  BY <1>1, <1>3, <1>4, <1>9 DEF DispInv, Fresh
<1>11. \A s \in Signals : s \in cycle'.todo \cup cycle'.cur => disp'[s] = <<>>
  BY <1>4, <1>5
<1>12. \A s \in Signals :
           disp'[s] \notin {<<"refused">>, <<"broker_rejected">>, <<"submitted">>, <<"unknown">>}
  BY <1>5
<1>13. Truthful'
  BY <1>11, <1>12 DEF Truthful
<1>14. NoneMissing'
  <2>1. \A s \in Signals : s \notin rest => Len(disp'[s]) = 1
    BY <1>5
  <2> QED
    BY <1>4, <2>1 DEF NoneMissing
<1> QED
  BY <1>6, <1>7, <1>10, <1>13, <1>14 DEF DispInv

LEMMA RequotedKeepsDisp ==
    ASSUME GateInv, DispInv, Requoted
    PROVE  DispInv'
<1> DEFINE skipped == {s \in cycle.todo : s.use = "sell" \/ StopFor(s) <= 0}
           stops == [s \in Signals |-> IF s \in cycle.todo \ skipped THEN StopFor(s) ELSE 0]
<1>1. /\ cycle' = [cycle EXCEPT !.pc = "next", !.todo = @ \ skipped, !.stop = stops]
      /\ disp' = [s \in Signals |-> IF s \in skipped THEN <<"refused">> ELSE disp[s]]
      /\ UNCHANGED <<order, count>> /\ cycle.pc = "requote"
  BY DEF Requoted, bookVars
<1>2. skipped \subseteq cycle.todo
  OBVIOUS
<1> HIDE DEF skipped, stops
<1>3. cycle \in CycleType
  BY DEF GateInv, Typed, CycleTyped
<1>4. cycle'.pc = "next" /\ cycle'.todo = cycle.todo \ skipped /\ cycle'.cur = cycle.cur
      /\ cycle.todo \subseteq Signals
  BY <1>1, <1>3 DEF CycleType
<1>5. cycle.cur = {}
  BY <1>1 DEF DispInv, OneAtATime
<1>6. \A s \in Signals : disp'[s] = IF s \in skipped THEN <<"refused">> ELSE disp[s]
  BY <1>1
<1>7. DispTyped'
  <2>1. \A s \in Signals : disp[s] \in {<<>>} \cup {<<how>> : how \in Hows}
    BY DEF DispInv, DispTyped
  <2>2. <<"refused">> \in {<<how>> : how \in Hows}
    BY DEF Hows
  <2> QED
    BY <1>1, <2>1, <2>2 DEF DispTyped
<1>8. OneAtATime' /\ Sent'
  BY <1>4, <1>5 DEF OneAtATime, Sent
<1>9. Fresh'
  BY <1>1, <1>4 DEF DispInv, Fresh
<1>10. Truthful'
  <2> SUFFICES ASSUME NEW s \in Signals
               PROVE  /\ disp'[s] = <<"refused">> /\ count'.restarts = 0 => order'[s].status = "none"
                      /\ disp'[s] = <<"broker_rejected">> => s \notin Live' /\ order'[s].status # "filled"
                      /\ disp'[s] \in {<<"submitted">>, <<"unknown">>} => order'[s].status # "none"
                      /\ s \in cycle'.todo \cup cycle'.cur => disp'[s] = <<>>
    BY DEF Truthful
  <2>1. CASE s \in skipped
    <3>1. count.restarts = 0 => order[s].status = "none"
      BY <1>2, <2>1 DEF DispInv, Fresh
    <3> QED
      BY <1>1, <1>4, <1>5, <1>6, <2>1, <3>1
  <2>2. CASE s \notin skipped
    <3>1. disp'[s] = disp[s] /\ Live' = Live
      BY <1>1, <1>6, <2>2 DEF Live
    <3> QED
      BY <1>1, <1>4, <1>5, <3>1 DEF DispInv, Truthful
  <2> QED
    BY <2>1, <2>2
<1>11. NoneMissing'
  <2> SUFFICES ASSUME NEW s \in Signals, s \notin cycle'.todo \cup cycle'.cur
               PROVE  Len(disp'[s]) = 1
    BY DEF NoneMissing
  <2>1. CASE s \in skipped
    BY <1>6, <2>1
  <2>2. CASE s \notin skipped
    <3>1. s \notin cycle.todo \cup cycle.cur
      BY <1>4, <2>2
    <3>2. Len(disp[s]) = 1
      BY <1>1, <3>1 DEF DispInv, NoneMissing
    <3> QED
      BY <1>6, <2>2, <3>2
  <2> QED
    BY <2>1, <2>2
<1> QED
  BY <1>7, <1>8, <1>9, <1>10, <1>11 DEF DispInv

LEMMA ReviewKeepsDisp ==
    ASSUME GateInv, DispInv, NEW s \in Signals, Review(s)
    PROVE  DispInv'
<1>1. /\ cycle' = [cycle EXCEPT !.pc = "review", !.cur = {s}, !.todo = @ \ {s}]
      /\ UNCHANGED <<order, count, disp>> /\ cycle.pc = "next" /\ s \in cycle.todo
  BY DEF Review, bookVars
<1>2. cycle \in CycleType
  BY DEF GateInv, Typed, CycleTyped
<1>3. cycle'.pc = "review" /\ cycle'.todo = cycle.todo \ {s} /\ cycle'.cur = {s}
  BY <1>1, <1>2 DEF CycleType
<1>4. DispTyped' /\ OneAtATime' /\ Sent'
  BY <1>1, <1>3 DEF DispInv, DispTyped, OneAtATime, Sent
<1>5. Fresh'
  BY <1>1, <1>3 DEF DispInv, Fresh
<1>6. Truthful'
  BY <1>1, <1>3 DEF DispInv, Truthful, Live
<1>7. NoneMissing'
  <2>1. \A r \in Signals \ (cycle.todo \cup cycle.cur) : Len(disp[r]) = 1
    BY <1>1 DEF DispInv, NoneMissing
  <2>2. cycle.cur = {}
    BY <1>1 DEF DispInv, OneAtATime
  <2> QED
    BY <1>1, <1>3, <2>1, <2>2 DEF NoneMissing
<1> QED
  BY <1>4, <1>5, <1>6, <1>7 DEF DispInv

(* A disposition that tells what became of the order.                      *)
Tells(s, how) ==
    /\ how = "refused" /\ count.restarts = 0 => order'[s].status = "none"
    /\ how = "broker_rejected" => order'[s].status \notin {"placing", "working", "unknown", "filled"}
    /\ how \in {"submitted", "unknown"} => order'[s].status # "none"

LEMMA DisposeKeepsDisp ==
    ASSUME GateInv, DispInv, NEW s \in Signals, NEW how \in Hows, Dispose(s, how), Tells(s, how),
           cycle.cur = {s}, cycle.pc \in {"review", "place"}, UNCHANGED count,
           NEW o, order' = [order EXCEPT ![s] = o]
    PROVE  DispInv'
<1>1. cycle \in CycleType /\ order \in [Signals -> OrderType]
  BY DEF GateInv, Typed, CycleTyped, BookTyped
<1>2. cycle'.pc = "next" /\ cycle'.todo = cycle.todo /\ cycle'.cur = {}
      /\ cycle.todo \subseteq Signals /\ s \notin cycle.todo
  <2>1. cycle' = [cycle EXCEPT !.pc = "next", !.cur = {}, !.stop = [@ EXCEPT ![s] = 0]]
    BY DEF Dispose
  <2> QED
    BY <1>1, <2>1 DEF CycleType, DispInv, OneAtATime
<1>3. disp[s] = <<>> /\ disp \in [Signals -> {<<>>} \cup {<<x>> : x \in Hows}]
  BY DEF DispInv, Truthful, DispTyped
<1>4. disp' = [disp EXCEPT ![s] = <<how>>]
  <2>1. disp' = [disp EXCEPT ![s] = Append(disp[s], how)]
    BY DEF Dispose
  <2>2. Append(disp[s], how) = <<how>>
    BY <1>3
  <2> QED
    BY <2>1, <2>2
<1>5. disp'[s] = <<how>> /\ \A r \in Signals \ {s} : disp'[r] = disp[r] /\ order'[r] = order[r]
  BY <1>1, <1>3, <1>4
<1>6. DispTyped'
  BY <1>3, <1>4 DEF DispTyped
<1>7. OneAtATime' /\ Sent'
  BY <1>2 DEF OneAtATime, Sent
<1>8. Fresh'
  BY <1>2, <1>5 DEF DispInv, Fresh
<1>9. Truthful'
  <2> SUFFICES ASSUME NEW r \in Signals
               PROVE  /\ disp'[r] = <<"refused">> /\ count'.restarts = 0 => order'[r].status = "none"
                      /\ disp'[r] = <<"broker_rejected">> => r \notin Live' /\ order'[r].status # "filled"
                      /\ disp'[r] \in {<<"submitted">>, <<"unknown">>} => order'[r].status # "none"
                      /\ r \in cycle'.todo \cup cycle'.cur => disp'[r] = <<>>
    BY DEF Truthful
  <2>1. CASE r = s
    BY <1>2, <1>5, <2>1 DEF Tells, Live
  <2>2. CASE r # s
    <3>1. disp'[r] = disp[r] /\ order'[r] = order[r]
      BY <1>5, <2>2
    <3> QED
      BY <1>2, <3>1 DEF DispInv, Truthful, Live
  <2> QED
    BY <2>1, <2>2
<1>10. NoneMissing'
  <2> SUFFICES ASSUME NEW r \in Signals, r \notin cycle'.todo \cup cycle'.cur
               PROVE  Len(disp'[r]) = 1
    BY DEF NoneMissing
  <2>1. CASE r = s
    BY <1>5, <2>1
  <2>2. CASE r # s
    <3>1. r \notin cycle.todo \cup cycle.cur /\ cycle.pc # "idle"
      BY <1>2, <2>2
    <3> QED
      BY <1>5, <2>2, <3>1 DEF DispInv, NoneMissing
  <2> QED
    BY <2>1, <2>2
<1> QED
  BY <1>6, <1>7, <1>8, <1>9, <1>10 DEF DispInv

LEMMA SubmitKeepsDisp ==
    ASSUME GateInv, DispInv, NEW s \in Signals, NEW failing, Submit(s, failing)
    PROVE  DispInv'
<1>1. cycle.pc = "review" /\ cycle.cur = {s} /\ UNCHANGED count
  BY DEF Submit
<1>2. order \in [Signals -> OrderType] /\ cycle \in CycleType
  BY DEF GateInv, Typed, BookTyped, CycleTyped
<1>3. CASE /\ UNCHANGED <<order, day>>
           /\ Dispose(s, IF order[s].status # "none" THEN "submitted" ELSE "refused")
  <2> DEFINE how == IF order[s].status # "none" THEN "submitted" ELSE "refused"
             o == order[s]
  <2>1. how \in Hows /\ Tells(s, how)
    BY <1>3 DEF Hows, Tells
  <2>2. order' = [order EXCEPT ![s] = o]
    BY <1>2, <1>3
  <2>3. Dispose(s, how)
    BY <1>3
  <2> HIDE DEF how, o
  <2> QED
    BY <1>1, <2>1, <2>2, <2>3, DisposeKeepsDisp
<1>4. CASE Granted(s, failing, Approved(s, cycle.stop[s], failing))
  <2>1. /\ order'[s].status = "placing" /\ \A r \in Signals \ {s} : order'[r] = order[r]
        /\ UNCHANGED disp /\ cycle' = [cycle EXCEPT !.pc = "place"]
    BY <1>2, <1>4 DEF Granted
  <2>2. cycle'.pc = "place" /\ cycle'.cur = {s} /\ cycle'.todo = cycle.todo
        /\ cycle.todo \subseteq Signals /\ s \notin cycle.todo
    BY <1>1, <1>2, <2>1 DEF CycleType, DispInv, OneAtATime
  <2>3. DispTyped' /\ OneAtATime' /\ Sent'
    BY <2>1, <2>2 DEF DispInv, DispTyped, OneAtATime, Sent
  <2>4. Fresh'
    BY <1>1, <2>1, <2>2 DEF DispInv, Fresh
  <2>5. disp[s] = <<>>
    BY <1>1 DEF DispInv, Truthful
  <2>6. Truthful'
    <3> SUFFICES ASSUME NEW r \in Signals
                 PROVE  /\ disp'[r] = <<"refused">> /\ count'.restarts = 0 => order'[r].status = "none"
                        /\ disp'[r] = <<"broker_rejected">> => r \notin Live' /\ order'[r].status # "filled"
                        /\ disp'[r] \in {<<"submitted">>, <<"unknown">>} => order'[r].status # "none"
                        /\ r \in cycle'.todo \cup cycle'.cur => disp'[r] = <<>>
      BY DEF Truthful
    <3>1. CASE r = s
      BY <2>1, <2>5, <3>1
    <3>2. CASE r # s
      <4>1. disp'[r] = disp[r] /\ order'[r] = order[r]
        BY <2>1, <3>2
      <4> QED
        BY <1>1, <2>2, <3>2, <4>1 DEF DispInv, Truthful, Live
    <3> QED
      BY <3>1, <3>2
  <2>7. NoneMissing'
    <3>1. \A r \in Signals \ (cycle.todo \cup cycle.cur) : Len(disp[r]) = 1
      BY <1>1 DEF DispInv, NoneMissing
    <3> QED
      BY <1>1, <2>1, <2>2, <3>1 DEF NoneMissing
  <2> QED
    BY <2>3, <2>4, <2>6, <2>7 DEF DispInv
<1> QED
  BY <1>3, <1>4, SubmitIs

LEMMA PlacedKeepsDisp ==
    ASSUME GateInv, DispInv, NEW s \in Signals, NEW status \in {"working", "gone", "unknown"},
           Placed(s, status)
    PROVE  DispInv'
<1> DEFINE o == IF order[s].status # "placing" THEN order[s]
                ELSE IF status = "gone" THEN Ended("gone")
                ELSE [order[s] EXCEPT !.status = status]
           how == Dispositions[status]
<1>1. /\ order' = [order EXCEPT ![s] = o] /\ Dispose(s, how) /\ UNCHANGED count
      /\ cycle.pc = "place" /\ cycle.cur = {s}
      /\ order[s].status # "placing" => status = "working"
  BY DEF Placed
<1>2. order \in [Signals -> OrderType] /\ order[s].status # "none"
  BY <1>1 DEF GateInv, Typed, BookTyped, DispInv, Sent
<1>3. /\ order[s].status # "placing" => o.status = order[s].status
      /\ order[s].status = "placing" => o.status = status
  BY <1>2 DEF OrderType, Ended
<1>4. /\ status = "working" => how = "submitted"
      /\ status = "gone" => how = "broker_rejected"
      /\ status = "unknown" => how = "unknown"
  BY DEF Dispositions
<1> HIDE DEF o, how
<1>5. order'[s] = o
  BY <1>1, <1>2
<1>6. how \in Hows
  BY <1>4 DEF Hows
<1>7. Tells(s, how)
  BY <1>1, <1>2, <1>3, <1>4, <1>5 DEF Tells
<1> QED
  BY <1>1, <1>6, <1>7, DisposeKeepsDisp

LEMMA VetoedKeepsDisp ==
    ASSUME GateInv, DispInv, NEW s \in Signals, Vetoed(s)
    PROVE  DispInv'
<1> DEFINE o == order[s]
<1>1. cycle.pc = "review" /\ cycle.cur = {s} /\ Dispose(s, "refused") /\ UNCHANGED <<order, count>>
  BY DEF Vetoed, bookVars
<1>2. order \in [Signals -> OrderType]
  BY DEF GateInv, Typed, BookTyped
<1>3. order' = [order EXCEPT ![s] = o]
  BY <1>1, <1>2
<1>4. "refused" \in Hows /\ Tells(s, "refused")
  BY <1>1 DEF Hows, Tells, DispInv, Fresh
<1> HIDE DEF o
<1> QED
  BY <1>1, <1>3, <1>4, DisposeKeepsDisp

LEMMA RestartKeepsDisp ==
    ASSUME GateInv, DispInv, NEW st \in {"working", "gone"}, Restart(st)
    PROVE  DispInv'
<1>1. cycle' = Idle /\ disp' = [s \in Signals |-> <<>>]
      /\ count' = [count EXCEPT !.restarts = @ + 1, !.events = @ + 1]
  BY DEF Restart
<1>2. count \in CountType
  BY DEF GateInv, Typed, CycleTyped
<1>3. count'.restarts # 0
  <2>1. count'.restarts = count.restarts + 1 /\ count.restarts \in Nat
    BY <1>1, <1>2 DEF CountType
  <2> QED
    BY <2>1
<1>4. cycle'.pc = "idle" /\ cycle'.cur = {} /\ cycle'.todo = {} /\ cycle'.end = "none"
  BY <1>1 DEF Idle, IdleAfter
<1>5. DispTyped' /\ OneAtATime' /\ Sent'
  BY <1>1, <1>4 DEF DispTyped, OneAtATime, Sent
<1>6. Fresh'
  BY <1>3 DEF Fresh
<1>7. \A s \in Signals : disp'[s] = <<>>
  BY <1>1
<1>8. Truthful'
  BY <1>7 DEF Truthful
<1>9. NoneMissing'
  BY <1>4 DEF NoneMissing
<1> QED
  BY <1>5, <1>6, <1>8, <1>9 DEF DispInv

LEMMA DispInvNext ==
    ASSUME GateInv, DispInv, [Next]_vars
    PROVE  DispInv'
<1>1. CASE Begin \/ Requoted
  BY <1>1, BeginKeepsDisp, RequotedKeepsDisp
<1>2. ASSUME CycleEnds \/ \E s \in Signals : SubmitRaises(s) PROVE DispInv'
  <2>1. /\ UNCHANGED <<disp, order, count>>
        /\ \/ cycle' = IdleAfter("whole") /\ cycle.pc = "next" /\ cycle.todo = {}
           \/ cycle' = IdleAfter("raised")
    BY <1>2 DEF CycleEnds, SubmitRaises, bookVars
  <2>2. cycle'.cur = {} /\ cycle'.todo = {} /\ cycle'.pc = "idle"
    BY <2>1 DEF IdleAfter
  <2>3. NoneMissing'
    <3>1. CASE cycle' = IdleAfter("whole") /\ cycle.pc = "next" /\ cycle.todo = {}
      <4>1. cycle.cur = {}
        BY <3>1 DEF DispInv, OneAtATime
      <4>2. \A s \in Signals : Len(disp[s]) = 1
        BY <3>1, <4>1 DEF DispInv, NoneMissing
      <4> QED
        BY <2>1, <4>2 DEF NoneMissing
    <3>2. CASE cycle' = IdleAfter("raised")
      BY <3>2 DEF NoneMissing, IdleAfter
    <3> QED
      BY <2>1, <3>1, <3>2
  <2> QED
    BY <2>1, <2>2, <2>3, RestKeepsDisp
<1>3. ASSUME NEW s \in Signals, Review(s) \/ Vetoed(s) PROVE DispInv'
  BY <1>3, ReviewKeepsDisp, VetoedKeepsDisp
<1>4. ASSUME NEW s \in Signals, NEW failing \in {{}, DataChecks}, Submit(s, failing) PROVE DispInv'
  BY <1>4, SubmitKeepsDisp
<1>5. ASSUME NEW s \in Signals, NEW status \in {"working", "gone", "unknown"}, Placed(s, status)
      PROVE  DispInv'
  BY <1>5, PlacedKeepsDisp
<1>6. ASSUME NEW st \in {"working", "gone"}, Restart(st) PROVE DispInv'
  BY <1>6, RestartKeepsDisp
<1> QED
  BY <1>1, <1>2, <1>3, <1>4, <1>5, <1>6, AroundKeepsDisp DEF Next

(* Every signal of a cycle gets exactly one disposition, and it tells what *)
(* became of the order, in any interleaving of the cycle with fills, ends  *)
(* of orders, exits and restarts, with whole polls or not; only a cycle    *)
(* cut off by a failing store or a restart leaves signals without one      *)
(* (DecisionEngine._dispose, _DISPOSITIONS).                               *)
THEOREM DispositionsAreTrue ==
    Spec => []DispositionsTell
<1>1. Init => GateInv /\ DispInv
  BY GateInvInit, DispInvInit
<1>2. GateInv /\ DispInv /\ [Next]_vars => GateInv' /\ DispInv'
  BY GateInvNext, DispInvNext
<1>3. DispInv => DispositionsTell
  BY DEF DispInv, DispositionsTell
<1> QED
  BY <1>1, <1>2, <1>3, PTL DEF Spec

-----------------------------------------------------------------------------
(* The router's budget.                                                    *)

(* A finite set of numbers has a greatest one.                             *)
LEMMA GreatestExists ==
    ASSUME NEW S \in SUBSET Int, IsFiniteSet(S), S # {}
    PROVE  \E x \in S : \A y \in S : x >= y
<1> DEFINE Beyond(x) == {y \in S : y > x}
           T == {Beyond(x) : x \in S}
<1>1. T \subseteq FiniteSubsetsOf(S)
  <2> SUFFICES ASSUME NEW x \in S PROVE Beyond(x) \in FiniteSubsetsOf(S)
    OBVIOUS
  <2>1. IsFiniteSet(Beyond(x))
    BY FS_Subset
  <2> QED
    BY <2>1 DEF FiniteSubsetsOf
<1>2. T # {}
  OBVIOUS
<1>3. \E t \in T : \A u \in T : ~(<<u, t>> \in StrictSubsetOrdering(S))
  <2> HIDE DEF T
  <2> QED
    BY <1>1, <1>2, FS_StrictSubsetOrderingWellFounded, WFMin
<1>4. PICK x \in S : \A u \in T : ~(<<u, Beyond(x)>> \in StrictSubsetOrdering(S))
  BY <1>3
<1>5. ASSUME NEW y \in S PROVE x >= y
  <2> SUFFICES ASSUME y > x PROVE FALSE
    OBVIOUS
  <2>1. x \in Int /\ y \in Int /\ \A z \in S : z \in Int
    OBVIOUS
  <2>2. \A z \in S : z > y => z > x
    BY <2>1
  <2>3. Beyond(y) \subseteq Beyond(x) /\ y \in Beyond(x) /\ y \notin Beyond(y)
    <3>1. ~(y > y)
      BY <2>1
    <3>2. y \notin Beyond(y)
      BY <3>1
    <3>3. y \in Beyond(x)
      OBVIOUS
    <3>4. Beyond(y) \subseteq Beyond(x)
      BY <2>2, Zenon
    <3> QED
      BY <3>2, <3>3, <3>4
  <2>4. <<Beyond(y), Beyond(x)>> \in StrictSubsetOrdering(S)
    BY <2>3 DEF StrictSubsetOrdering
  <2> QED
    BY <1>4, <2>4
<1> QED
  BY <1>5

LEMMA CostsAre ==
    /\ MaxCost \in Nat
    /\ \A m \in Models : CostOf(m) \in Nat /\ CostOf(m) <= MaxCost
<1> DEFINE Costs == {CostOf(m) : m \in Models}
<1>1. \A m \in Models : CostOf(m) \in Nat
  BY RouterAssumption DEF CostOf, Unpriced
<1>2. Costs \in SUBSET Int /\ Costs # {}
  BY <1>1, RouterAssumption
<1>3. IsFiniteSet(Costs)
  <2> DEFINE f == [m \in Models |-> CostOf(m)]
  <2>1. f \in Surjection(Models, Costs)
    BY DEF Surjection
  <2> QED
    BY <2>1, RouterAssumption, FS_Surjection
<1>4. MaxCost \in Costs /\ \A x \in Costs : MaxCost >= x
  <2> HIDE DEF Costs
  <2>1. \E x \in Costs : \A y \in Costs : x >= y
    BY <1>2, <1>3, GreatestExists
  <2> QED
    BY <2>1 DEF MaxCost, Max, Costs
<1> QED
  BY <1>1, <1>4

(* What a ledger says of a role.                                           *)
LEMMA RoleSums ==
    ASSUME NEW l \in [Prompts -> Nat], NEW r
    PROVE  /\ [p \in OfRole(r) |-> l[p]] \in [OfRole(r) -> Nat]
           /\ IsFiniteSet(OfRole(r)) /\ Sum(l, OfRole(r)) \in Nat
<1>1. OfRole(r) \subseteq Prompts /\ IsFiniteSet(OfRole(r))
  BY RouterAssumption, FS_Subset DEF OfRole
<1>2. [p \in OfRole(r) |-> l[p]] \in [OfRole(r) -> Nat]
  BY <1>1
<1> QED
  BY <1>1, <1>2, UnitsFinite DEF Sum

LEMMA NoSums ==
    ASSUME NEW r
    PROVE  NoSpend \in [Prompts -> Nat] /\ Sum(NoSpend, OfRole(r)) = 0
<1>1. NoSpend \in [Prompts -> Nat] /\ \A p \in OfRole(r) : NoSpend[p] = 0
  BY DEF NoSpend, OfRole
<1> QED
  BY <1>1, RoleSums, TotalZero DEF Sum

LEMMA SumAdds ==
    ASSUME NEW l \in [Prompts -> Nat], NEW r, NEW p \in Prompts, NEW c \in Nat,
           NEW m, m = [l EXCEPT ![p] = @ + c]
    PROVE  /\ m \in [Prompts -> Nat]
           /\ p \in OfRole(r) => Sum(m, OfRole(r)) = Sum(l, OfRole(r)) + c
           /\ p \notin OfRole(r) => Sum(m, OfRole(r)) = Sum(l, OfRole(r))
<1> DEFINE f == [x \in OfRole(r) |-> l[x]]
           g == [x \in OfRole(r) |-> m[x]]
<1>1. m \in [Prompts -> Nat] /\ m[p] = l[p] + c /\ \A x \in Prompts \ {p} : m[x] = l[x]
  OBVIOUS
<1>2. OfRole(r) \subseteq Prompts
  BY DEF OfRole
<1>3. /\ f \in [OfRole(r) -> Nat] /\ g \in [OfRole(r) -> Nat] /\ IsFiniteSet(OfRole(r))
      /\ Sum(l, OfRole(r)) = Total(f) /\ Sum(m, OfRole(r)) = Total(g)
  BY <1>1, RoleSums DEF Sum
<1>4. CASE p \in OfRole(r)
  <2>1. /\ \A x \in OfRole(r) \ {p} : g[x] = f[x]
        /\ f[p] \in Nat /\ g[p] = f[p] + c
    BY <1>1, <1>2, <1>4
  <2> HIDE DEF f, g
  <2>2. Total(g) = Total(f) - f[p] + g[p] /\ Total(f) \in Nat
    BY <1>3, <1>4, <2>1, TotalOne
  <2> QED
    BY <1>1, <1>3, <1>4, <2>1, <2>2
<1>5. CASE p \notin OfRole(r)
  <2>1. \A x \in OfRole(r) : g[x] = f[x]
    BY <1>1, <1>2, <1>5
  <2>2. f = g
    BY <2>1
  <2> QED
    BY <1>1, <1>3, <1>5, <2>2
<1> QED
  BY <1>4, <1>5

LEMMA LeastExists ==
    ASSUME NEW S \in SUBSET Nat, S # {}
    PROVE  Min(S) \in S /\ \A x \in S : Min(S) <= x
<1>1. PICK n \in S : TRUE
  OBVIOUS
<1> DEFINE Low == {y \in S : y <= n}
           T == {0 - x : x \in Low}
<1>2. T \in SUBSET Int /\ T # {}
  <2>1. n \in Low /\ \A x \in Low : 0 - x \in Int
    BY <1>1
  <2> QED
    BY <2>1
<1>3. IsFiniteSet(T)
  <2>1. 0 - n \in Int /\ \A x \in Low : 0 - x \in 0 - n .. 0
    BY <1>1
  <2>2. IsFiniteSet(0 - n .. 0)
    BY <2>1, FS_Interval
  <2>3. T \subseteq 0 - n .. 0
    BY <2>1
  <2> QED
    BY <2>2, <2>3, FS_Subset
<1>4. PICK z \in T : \A y \in T : z >= y
  <2> HIDE DEF T
  <2> QED
    BY <1>2, <1>3, GreatestExists
<1>5. PICK x \in S : x <= n /\ z = 0 - x
  BY <1>4
<1>6. \A y \in S : x <= y
  <2> SUFFICES ASSUME NEW y \in S PROVE x <= y
    OBVIOUS
  <2>1. CASE y <= n
    <3>1. 0 - y \in T
      BY <2>1
    <3> QED
      BY <1>4, <1>5, <3>1
  <2>2. CASE ~(y <= n)
    BY <1>1, <1>5, <2>2
  <2> QED
    BY <2>1, <2>2
<1> QED
  BY <1>6 DEF Min

(* The invariant: the log has no more of a day than the ledger of that     *)
(* day and a call that began the day before (Known); a paid call is begun  *)
(* below the cap (Begun); nothing is spent ahead of time (Ahead).          *)
RouterType ==
    [up : BOOLEAN, day : Days, ledger : [Prompts -> Nat], fails : [Models -> Int],
     until : [Models -> Int], paused : [Providers -> Int]]
CallType == [on : BOOLEAN, prompt : Prompts \cup {0}, k : Nat, since : Nat]
RoleSpend(s, d, r) == Sum(s[d], OfRole(r))
Slack(d) == IF d = 0 THEN 0 ELSE MaxCost

CallOk(c, rt, r) ==
    c.on => /\ c.prompt \in OfRole(r) /\ c.k \in DOMAIN Chain[r] /\ rt.up
            /\ RoleCap > 0 /\ CostOf(Chain[r][c.k]) > 0 => Sum(rt.ledger, OfRole(r)) <= RoleCap - 1

KnownOk(c, rt, r, s, today) ==
    rt.up => IF rt.day = today THEN RoleSpend(s, today, r) <= Sum(rt.ledger, OfRole(r)) + Slack(today)
             ELSE RoleSpend(s, today, r) <= IF c.on THEN 0 ELSE MaxCost

RoutersOk(rts, cs, s, today) ==
    \A r \in Routers : /\ rts[r].day <= today /\ CallOk(cs[r], rts[r], r)
                       /\ KnownOk(cs[r], rts[r], r, s, today)

CapsOk(s) ==
    RoleCap > 0 => \A d \in Days, r \in Routers : RoleSpend(s, d, r) <= RoleCap - 1 + MaxCost + Slack(d)

Ahead(s, today) == \A d \in Days : d > today => s[d] = NoSpend

CapInv ==
    /\ now \in 0 .. MaxTime /\ spent \in [Days -> [Prompts -> Nat]]
    /\ router \in [Routers -> RouterType] /\ call \in [Routers -> CallType]
    /\ ing = [up |-> ing.up, tag |-> ing.tag, seen |-> ing.seen, newest |-> ing.newest]
    /\ ing.up <=> router["engine"].up
    /\ RoutersOk(router, call, spent, Today) /\ Ahead(spent, Today) /\ CapsOk(spent)

LEMMA CapsAre == RoleWithinCap <=> CapsOk(spent)
BY DEF RoleWithinCap, CapsOk, RoleSpend, Slack

LEMMA DayOf ==
    ASSUME NEW n \in 0 .. MaxTime
    PROVE  n \div DayLength \in Days /\ n \div DayLength \in Nat /\ (n = 0 => n \div DayLength = 0)
<1>1. MaxTime \in Nat /\ DayLength \in Nat /\ DayLength > 0 /\ n \in Nat /\ n <= MaxTime
  BY RouterAssumption
<1> QED
  BY <1>1 DEF Days

LEMMA NextDay ==
    ASSUME NEW n \in Nat
    PROVE  n \div DayLength \in Nat /\ n \div DayLength <= (n + 1) \div DayLength
<1>1. DayLength \in Nat /\ DayLength > 0
  BY RouterAssumption
<1> QED
  BY <1>1

LEMMA DaysAre == Days \subseteq Nat
<1>1. MaxTime \in Nat /\ DayLength \in Nat /\ DayLength > 0
  BY RouterAssumption
<1>2. MaxTime \div DayLength \in Nat
  BY <1>1
<1> QED
  BY <1>2 DEF Days

LEMMA TodayIs ==
    ASSUME CapInv
    PROVE  Today \in Days /\ Today \in Nat
BY DayOf DEF CapInv, Today

LEMMA NewTyped ==
    ASSUME CapInv
    PROVE  /\ NewRouter \in RouterType /\ NewRouter.up /\ NewRouter.day = Today
           /\ NewRouter.ledger = spent[Today]
<1>1. spent[Today] \in [Prompts -> Nat]
  BY TodayIs DEF CapInv
<1> QED
  BY <1>1, TodayIs DEF NewRouter, FromEvents, RouterType

LEMMA RollTyped ==
    ASSUME CapInv, NEW r \in Routers
    PROVE  /\ RollDay(router[r]) \in RouterType /\ RollDay(router[r]).up = router[r].up
           /\ RollDay(router[r]).day = Today
           /\ RollDay(router[r]).ledger = IF router[r].day = Today THEN router[r].ledger ELSE NoSpend
<1>1. router[r] \in RouterType /\ NoSpend \in [Prompts -> Nat]
  BY NoSums DEF CapInv
<1> DEFINE rt == router[r]
<1>2. RollDay(rt) = IF rt.day = Today THEN rt ELSE [rt EXCEPT !.day = Today, !.ledger = NoSpend]
  BY DEF RollDay
<1> HIDE DEF rt
<1>3. /\ RollDay(rt) \in RouterType /\ RollDay(rt).up = rt.up /\ RollDay(rt).day = Today
      /\ RollDay(rt).ledger = IF rt.day = Today THEN rt.ledger ELSE NoSpend
  BY <1>1, <1>2, TodayIs DEF RouterType, rt
<1> QED
  BY <1>3 DEF rt

LEMMA FailedTyped ==
    ASSUME NEW rt \in RouterType, NEW m \in Models, NEW since \in Nat
    PROVE  /\ Failed(rt, m, since) \in RouterType /\ Failed(rt, m, since).up = rt.up
           /\ Failed(rt, m, since).day = rt.day /\ Failed(rt, m, since).ledger = rt.ledger
<1>1. rt.fails \in [Models -> Int] /\ rt.until \in [Models -> Int] /\ Cooldown \in Nat
  BY RouterAssumption DEF RouterType
<1> DEFINE f == [rt.fails EXCEPT ![m] = 0]
           u == [rt.until EXCEPT ![m] = since + Cooldown]
           g == [rt.fails EXCEPT ![m] = @ + 1]
<1>2. f \in [Models -> Int] /\ u \in [Models -> Int] /\ g \in [Models -> Int]
  BY <1>1
<1>3. \/ Failed(rt, m, since) = [rt EXCEPT !.fails = f, !.until = u]
      \/ Failed(rt, m, since) = [rt EXCEPT !.fails = g]
  BY DEF Failed
<1> HIDE DEF f, u, g
<1> QED
  BY <1>2, <1>3 DEF RouterType

LEMMA PauseTyped ==
    ASSUME NEW rt \in RouterType, NEW m \in Models, NEW since \in Nat
    PROVE  /\ Pause(rt, m, since) \in RouterType /\ Pause(rt, m, since).up = rt.up
           /\ Pause(rt, m, since).day = rt.day /\ Pause(rt, m, since).ledger = rt.ledger
<1> DEFINE v == ProviderOf[m]
           S == {rt.paused[v], since + PauseFor}
           q == [rt.paused EXCEPT ![v] = Max(S)]
<1>1. v \in Providers /\ rt.paused \in [Providers -> Int] /\ PauseFor \in Nat
  BY RouterAssumption DEF RouterType
<1>2. S \in SUBSET Int /\ S # {} /\ IsFiniteSet(S)
  <2>1. IsFiniteSet({rt.paused[v]})
    BY FS_Singleton
  <2>2. S = {rt.paused[v]} \cup {since + PauseFor}
    OBVIOUS
  <2>3. IsFiniteSet(S)
    BY <2>1, <2>2, FS_AddElement
  <2>4. rt.paused[v] \in Int /\ since + PauseFor \in Int
    BY <1>1
  <2> QED
    BY <2>3, <2>4
<1>3. Max(S) \in Int
  <2> HIDE DEF S
  <2>1. \E x \in S : \A y \in S : x >= y
    BY <1>2, GreatestExists
  <2> QED
    BY <1>2, <2>1 DEF Max
<1>4. q \in [Providers -> Int]
  <2> HIDE DEF S
  <2> QED
    BY <1>1, <1>3
<1>5. Pause(rt, m, since) = [rt EXCEPT !.paused = q]
  BY DEF Pause
<1> HIDE DEF q
<1> QED
  BY <1>4, <1>5 DEF RouterType

(* Walk leaves the call off, or on at a model that may be asked.           *)
LEMMA WalkIs ==
    ASSUME NEW r \in Routers, NEW rt, NEW p, NEW k \in Nat, k >= 1, Walk(r, rt, p, k)
    PROVE  /\ router' = [router EXCEPT ![r] = rt]
           /\ \/ call' = [call EXCEPT ![r] = NoCall]
              \/ \E i \in DOMAIN Chain[r] :
                    /\ call' = [call EXCEPT ![r] = [on |-> TRUE, prompt |-> p, k |-> i, since |-> now]]
                    /\ Admits(rt, Chain[r][i], p)
<1> DEFINE stops == {i \in k..Len(Chain[r]) : cache[Chain[r][i]][p] # Nothing \/ Admits(rt, Chain[r][i], p)}
<1>1. Chain[r] \in Seq(Models) /\ Len(Chain[r]) \in Nat
  BY RouterAssumption
<1>2. /\ router' = [router EXCEPT ![r] = rt]
      /\ \/ call' = [call EXCEPT ![r] = NoCall]
         \/ /\ stops # {} /\ ~(cache[Chain[r][Min(stops)]][p] # Nothing)
            /\ call' = [call EXCEPT ![r] = [on |-> TRUE, prompt |-> p, k |-> Min(stops), since |-> now]]
  BY DEF Walk
<1>3. ASSUME stops # {} PROVE Min(stops) \in stops
  <2>1. stops \in SUBSET Nat
    BY <1>1
  <2> HIDE DEF stops
  <2> QED
    BY <1>3, <2>1, LeastExists
<1>4. stops \subseteq DOMAIN Chain[r]
  BY <1>1
<1>5. CASE stops # {} /\ ~(cache[Chain[r][Min(stops)]][p] # Nothing)
           /\ call' = [call EXCEPT ![r] = [on |-> TRUE, prompt |-> p, k |-> Min(stops), since |-> now]]
  <2> DEFINE i == Min(stops)
  <2>1. i \in stops
    BY <1>3, <1>5
  <2>2. i \in DOMAIN Chain[r]
    BY <1>4, <2>1
  <2>3. Admits(rt, Chain[r][i], p)
    BY <1>5, <2>1
  <2> HIDE DEF i
  <2>4. call' = [call EXCEPT ![r] = [on |-> TRUE, prompt |-> p, k |-> i, since |-> now]]
    BY <1>5 DEF i
  <2> QED
    BY <1>2, <2>2, <2>3, <2>4
<1> HIDE DEF stops
<1> QED
  BY <1>2, <1>5

(* A paid model is asked only below the cap.                               *)
LEMMA AdmitsBelow ==
    ASSUME NEW r \in Routers, NEW rt \in RouterType, NEW m, NEW p \in OfRole(r), Admits(rt, m, p),
           RoleCap > 0, CostOf(m) > 0
    PROVE  Sum(rt.ledger, OfRole(r)) <= RoleCap - 1
<1>1. RoleOf[p] = r /\ RoleCap \in Nat
  BY RouterAssumption DEF OfRole
<1>2. ~IsFree(m)
  BY DEF IsFree, CostOf, Unpriced
<1>3. ~(Sum(rt.ledger, OfRole(r)) >= RoleCap)
  BY <1>1, <1>2 DEF Admits, Exceeded
<1>4. Sum(rt.ledger, OfRole(r)) \in Nat
  BY RoleSums DEF RouterType
<1> QED
  BY <1>1, <1>3, <1>4

LEMMA SpendNat ==
    ASSUME CapInv, NEW d \in Days, NEW r
    PROVE  RoleSpend(spent, d, r) \in Nat
BY RoleSums DEF CapInv, RoleSpend

(* A walk keeps the invariant: a call begins on a rolled ledger, or goes   *)
(* on with the one it had.                                                 *)
LEMMA WalkKeeps ==
    ASSUME CapInv, NEW r \in Routers, NEW rt \in RouterType, NEW p \in OfRole(r), NEW k \in Nat, k >= 1,
           Walk(r, rt, p, k), UNCHANGED <<now, spent, ing>>, router[r].up, rt.up = router[r].up,
           \/ call[r].on /\ rt.day = router[r].day /\ rt.ledger = router[r].ledger
           \/ ~call[r].on /\ rt = RollDay(router[r])
    PROVE  CapInv'
<1>1. router' = [router EXCEPT ![r] = rt]
  BY WalkIs
<1>2. /\ router' \in [Routers -> RouterType] /\ router'[r] = rt
      /\ \A q \in Routers \ {r} : router'[q] = router[q] /\ call'[q] = call[q]
      /\ "engine" \in Routers => router'["engine"].up = router["engine"].up
  BY <1>1, WalkIs DEF CapInv
<1>3. /\ call' \in [Routers -> CallType] /\ CallOk(call'[r], rt, r)
  <2>1. now \in Nat /\ r \in Routers /\ p \in Prompts /\ call \in [Routers -> CallType]
    BY RouterAssumption DEF CapInv, OfRole
  <2>2. CASE call' = [call EXCEPT ![r] = NoCall]
    BY <2>1, <2>2 DEF NoCall, CallType, CallOk
  <2>3. ASSUME NEW i \in DOMAIN Chain[r], Admits(rt, Chain[r][i], p),
               call' = [call EXCEPT ![r] = [on |-> TRUE, prompt |-> p, k |-> i, since |-> now]]
        PROVE  /\ call' \in [Routers -> CallType] /\ CallOk(call'[r], rt, r)
    <3>1. i \in Nat
      BY RouterAssumption
    <3>2. call' \in [Routers -> CallType] /\ call'[r] = [on |-> TRUE, prompt |-> p, k |-> i, since |-> now]
      BY <2>1, <2>3, <3>1 DEF CallType
    <3>3. RoleCap > 0 /\ CostOf(Chain[r][i]) > 0 => Sum(rt.ledger, OfRole(r)) <= RoleCap - 1
      BY <2>3, AdmitsBelow
    <3> QED
      BY <3>2, <3>3 DEF CallOk
  <2> QED
    BY <2>2, <2>3, WalkIs
<1>4. Today' = Today /\ Today \in Days /\ Today \in Nat
  BY TodayIs DEF Today
<1>5. rt.day <= Today /\ KnownOk(call'[r], rt, r, spent, Today)
  <2> DEFINE s == RoleSpend(spent, Today, r)
  <2>1. router[r] \in RouterType /\ router[r].day <= Today /\ KnownOk(call[r], router[r], r, spent, Today)
    BY DEF CapInv, RoutersOk
  <2>2. s \in Nat /\ MaxCost \in Nat
    BY <1>4, SpendNat, CostsAre
  <2>3. CASE call[r].on /\ rt.day = router[r].day /\ rt.ledger = router[r].ledger
    <3>1. CASE rt.day = Today
      BY <2>1, <2>3, <3>1 DEF KnownOk
    <3>2. CASE rt.day # Today
      <4>1. s <= 0
        BY <2>1, <2>3, <3>2 DEF KnownOk
      <4>2. s <= 0 /\ s <= MaxCost
        BY <2>2, <4>1
      <4> QED
        BY <2>1, <2>3, <3>2, <4>2 DEF KnownOk
    <3> QED
      BY <3>1, <3>2
  <2>4. CASE ~call[r].on /\ rt = RollDay(router[r])
    <3>1. rt.day = Today /\ rt.ledger = IF router[r].day = Today THEN router[r].ledger ELSE NoSpend
      BY <2>4, RollTyped
    <3>2. CASE router[r].day = Today
      BY <1>4, <2>1, <3>1, <3>2 DEF KnownOk
    <3>3. CASE router[r].day # Today
      <4>1. s <= MaxCost
        BY <2>1, <2>4, <3>3 DEF KnownOk
      <4>2. Today # 0
        <5>1. router[r].day \in Nat
          <6>1. router[r].day \in Days
            BY <2>1 DEF RouterType
          <6> QED
            BY <6>1, DaysAre
        <5> QED
          BY <1>4, <2>1, <3>3, <5>1
      <4>3. s <= Sum(NoSpend, OfRole(r)) + Slack(Today)
        BY <2>2, <4>1, <4>2, NoSums DEF Slack
      <4> QED
        BY <1>4, <3>1, <3>3, <4>3 DEF KnownOk
    <3> QED
      BY <3>2, <3>3
  <2> QED
    BY <2>3, <2>4
<1>6. RoutersOk(router', call', spent, Today)
  BY <1>2, <1>3, <1>5 DEF CapInv, RoutersOk
<1> QED
  BY <1>2, <1>3, <1>4, <1>6, AdviceAssumption DEF CapInv

LEMMA CompleteKeeps ==
    ASSUME CapInv, NEW r \in Routers, NEW p, Complete(r, p), ing' = ing
    PROVE  CapInv'
<1> DEFINE rt == RollDay(router[r])
<1>1. /\ router[r].up /\ ~call[r].on /\ p \in OfRole(r)
      /\ Walk(r, rt, p, 1) /\ UNCHANGED <<now, spent, ing>>
  BY DEF Complete
<1>2. rt \in RouterType /\ rt.up = router[r].up
  BY RollTyped
<1>3. rt = RollDay(router[r]) /\ 1 \in Nat /\ 1 >= 1
  OBVIOUS
<1> HIDE DEF rt
<1> QED
  BY <1>1, <1>2, <1>3, WalkKeeps

LEMMA NoReplyKeeps ==
    ASSUME CapInv, NEW r \in Routers, NEW why, NoReply(r, why), ing' = ing
    PROVE  CapInv'
<1> DEFINE m == Chain[r][call[r].k]
           rt == CASE why = "rate_limited"            -> Pause(router[r], m, call[r].since)
                   [] why \in {"timeout", "error"}    -> Failed(router[r], m, call[r].since)
                   [] OTHER                           -> router[r]
<1>1. call[r].on /\ Walk(r, rt, call[r].prompt, call[r].k + 1) /\ UNCHANGED <<now, spent, ing>>
  BY DEF NoReply
<1>2. /\ call[r] \in CallType /\ router[r] \in RouterType /\ CallOk(call[r], router[r], r)
      /\ Chain[r] \in Seq(Models)
  BY RouterAssumption DEF CapInv, RoutersOk
<1>3. /\ call[r].prompt \in OfRole(r) /\ call[r].k \in DOMAIN Chain[r] /\ router[r].up
      /\ call[r].k \in Nat /\ call[r].since \in Nat
  BY <1>1, <1>2 DEF CallOk, CallType
<1>4. m \in Models /\ call[r].k + 1 \in Nat /\ call[r].k + 1 >= 1
  <2>1. m \in Models
    BY <1>2, <1>3
  <2>2. call[r].k \in Nat
    BY <1>3
  <2> QED
    BY <2>1, <2>2
<1> HIDE DEF m
<1>5. /\ rt \in RouterType /\ rt.up = router[r].up
      /\ rt.day = router[r].day /\ rt.ledger = router[r].ledger
  <2>1. CASE why = "rate_limited"
    <3>1. rt = Pause(router[r], m, call[r].since)
      BY <2>1
    <3> HIDE DEF rt
    <3> QED
      BY <1>2, <1>3, <1>4, <3>1, PauseTyped
  <2>2. CASE why \in {"timeout", "error"}
    <3>1. rt = Failed(router[r], m, call[r].since)
      BY <2>2
    <3> HIDE DEF rt
    <3> QED
      BY <1>2, <1>3, <1>4, <3>1, FailedTyped
  <2>3. CASE why \notin {"rate_limited", "timeout", "error"}
    BY <1>2, <2>3
  <2> QED
    BY <2>1, <2>2, <2>3
<1> HIDE DEF rt
<1> QED
  BY <1>1, <1>3, <1>4, <1>5, WalkKeeps

(* The reply of a paid call adds what it costs to the ledger of the day    *)
(* the call began in, and to the log of today.                             *)
LEMMA ReplyKeeps ==
    ASSUME CapInv, NEW r \in Routers, NEW answer, NEW drained, Reply(r, answer, drained), ing' = ing
    PROVE  CapInv'
<1> DEFINE p  == call[r].prompt
           m  == Chain[r][call[r].k]
           c  == CostOf(m)
           l  == [router[r].ledger EXCEPT ![p] = @ + c]
           f  == [router[r].fails EXCEPT ![m] = 0]
           u  == [router[r].until EXCEPT ![m] = 0]
           ok == [router[r] EXCEPT !.fails = f, !.until = u, !.ledger = l]
           rt == IF drained THEN Pause(ok, m, call[r].since) ELSE ok
           d  == [spent[Today] EXCEPT ![p] = @ + c]
<1>1. /\ call[r] \in CallType /\ router[r] \in RouterType /\ CallOk(call[r], router[r], r)
      /\ Chain[r] \in Seq(Models) /\ KnownOk(call[r], router[r], r, spent, Today) /\ router[r].day <= Today
  BY RouterAssumption DEF CapInv, RoutersOk
<1>2. Today' = Today /\ Today \in Days /\ Today \in Nat /\ call[r].on
  BY TodayIs DEF Today, Reply
<1>3. /\ p \in OfRole(r) /\ p \in Prompts /\ call[r].k \in DOMAIN Chain[r] /\ router[r].up
      /\ call[r].since \in Nat
  BY <1>1, <1>2 DEF CallOk, CallType, OfRole
<1>4. m \in Models /\ c \in Nat /\ c <= MaxCost /\ MaxCost \in Nat /\ c = CostOf(Chain[r][call[r].k])
  BY <1>1, <1>3, CostsAre
<1>5. /\ router' = [router EXCEPT ![r] = rt] /\ spent' = [spent EXCEPT ![Today] = d]
      /\ call' = [call EXCEPT ![r] = NoCall] /\ now' = now
  <2>1. spent[Today] \in [Prompts -> Nat] /\ spent \in [Days -> [Prompts -> Nat]]
    BY <1>2 DEF CapInv
  <2>2. spent' = [spent EXCEPT ![Today] = d]
    BY <2>1 DEF Reply
  <2>3. ok = [router[r] EXCEPT !.fails[m] = 0, !.until[m] = 0, !.ledger = LedgerAdd(@, p, CostOf(m))]
    BY <1>1 DEF LedgerAdd, RouterType
  <2> HIDE DEF ok
  <2>4. router' = [router EXCEPT ![r] = rt] /\ call' = [call EXCEPT ![r] = NoCall] /\ now' = now
    BY <2>3 DEF Reply
  <2> QED
    BY <2>2, <2>4
<1> HIDE DEF p, m, c
<1>6. /\ l \in [Prompts -> Nat] /\ d \in [Prompts -> Nat]
      /\ Sum(l, OfRole(r)) = Sum(router[r].ledger, OfRole(r)) + c
      /\ Sum(d, OfRole(r)) = RoleSpend(spent, Today, r) + c
      /\ \A q \in Routers \ {r} : Sum(d, OfRole(q)) = RoleSpend(spent, Today, q)
  <2>1. router[r].ledger \in [Prompts -> Nat] /\ spent[Today] \in [Prompts -> Nat]
    BY <1>1, <1>2 DEF CapInv, RouterType
  <2>2. /\ l \in [Prompts -> Nat] /\ Sum(l, OfRole(r)) = Sum(router[r].ledger, OfRole(r)) + c
    BY <1>3, <1>4, <2>1, SumAdds
  <2>3. /\ d \in [Prompts -> Nat] /\ Sum(d, OfRole(r)) = Sum(spent[Today], OfRole(r)) + c
    BY <1>3, <1>4, <2>1, SumAdds
  <2>4. ASSUME NEW q \in Routers \ {r} PROVE Sum(d, OfRole(q)) = Sum(spent[Today], OfRole(q))
    <3>1. p \notin OfRole(q)
      BY <1>3 DEF OfRole
    <3> QED
      BY <1>3, <1>4, <2>1, <3>1, SumAdds
  <2> QED
    BY <2>2, <2>3, <2>4 DEF RoleSpend
<1> HIDE DEF l, d
<1>7. ok \in RouterType /\ ok.up = router[r].up /\ ok.day = router[r].day /\ ok.ledger = l
  <2>1. router[r].fails \in [Models -> Int] /\ router[r].until \in [Models -> Int]
    BY <1>1 DEF RouterType
  <2>2. f \in [Models -> Int] /\ u \in [Models -> Int]
    BY <1>4, <2>1
  <2> HIDE DEF f, u
  <2>3. router[r] \in RouterType /\ l \in [Prompts -> Nat]
    BY <1>1, <1>6
  <2> QED
    BY <2>2, <2>3 DEF RouterType
<1> HIDE DEF ok
<1>8. rt \in RouterType /\ rt.up = router[r].up /\ rt.day = router[r].day /\ rt.ledger = l
  BY <1>3, <1>4, <1>7, PauseTyped
<1> HIDE DEF rt
<1>9. /\ router' \in [Routers -> RouterType] /\ router'[r] = rt
      /\ \A q \in Routers \ {r} : router'[q] = router[q] /\ call'[q] = call[q]
      /\ call' \in [Routers -> CallType] /\ ~call'[r].on
      /\ "engine" \in Routers => router'["engine"].up = router["engine"].up
  BY <1>5, <1>8 DEF CapInv, NoCall, CallType
<1>10. /\ spent' \in [Days -> [Prompts -> Nat]] /\ spent'[Today] = d
       /\ \A e \in Days \ {Today} : spent'[e] = spent[e]
  BY <1>2, <1>5, <1>6 DEF CapInv
<1>11. /\ RoleSpend(spent', Today, r) = RoleSpend(spent, Today, r) + c
       /\ \A q \in Routers \ {r} : RoleSpend(spent', Today, q) = RoleSpend(spent, Today, q)
       /\ \A e \in Days \ {Today}, q \in Routers : RoleSpend(spent', e, q) = RoleSpend(spent, e, q)
  BY <1>6, <1>10 DEF RoleSpend
<1> DEFINE s == RoleSpend(spent, Today, r)
           t == Sum(router[r].ledger, OfRole(r))
<1>12. s \in Nat /\ t \in Nat /\ Slack(Today) \in Nat
  BY <1>1, <1>2, <1>4, SpendNat, RoleSums DEF RouterType, Slack
<1>13. /\ router[r].day = Today => s <= t + Slack(Today)
       /\ router[r].day # Today => s <= 0
       /\ RoleCap > 0 /\ c > 0 => t <= RoleCap - 1
  BY <1>1, <1>2, <1>3, <1>4 DEF KnownOk, CallOk
<1> HIDE DEF s, t
<1>14. KnownOk(call'[r], rt, r, spent', Today)
  <2>1. CASE router[r].day = Today
    <3>1. s + c <= (t + c) + Slack(Today)
      BY <1>4, <1>12, <1>13, <2>1
    <3> QED
      BY <1>6, <1>8, <1>11, <2>1, <3>1 DEF KnownOk, s, t
  <2>2. CASE router[r].day # Today
    <3>1. s + c <= MaxCost
      BY <1>4, <1>12, <1>13, <2>2
    <3> QED
      BY <1>8, <1>9, <1>11, <2>2, <3>1 DEF KnownOk, s
  <2> QED
    BY <2>1, <2>2
<1>15. RoutersOk(router', call', spent', Today)
  <2>1. ASSUME NEW q \in Routers \ {r}
        PROVE  /\ router'[q].day <= Today /\ CallOk(call'[q], router'[q], q)
               /\ KnownOk(call'[q], router'[q], q, spent', Today)
    BY <1>9, <1>11 DEF CapInv, RoutersOk, KnownOk
  <2>2. router'[r].day <= Today /\ CallOk(call'[r], router'[r], r)
    BY <1>1, <1>8, <1>9 DEF CallOk
  <2> QED
    BY <1>9, <1>14, <2>1, <2>2 DEF RoutersOk
<1>16. Ahead(spent', Today)
  BY <1>2, <1>10 DEF CapInv, Ahead
<1>17. CapsOk(spent')
  <2> SUFFICES ASSUME RoleCap > 0, NEW e \in Days, NEW q \in Routers
               PROVE  RoleSpend(spent', e, q) <= RoleCap - 1 + MaxCost + Slack(e)
    BY DEF CapsOk
  <2>1. RoleSpend(spent, e, q) <= RoleCap - 1 + MaxCost + Slack(e)
    BY DEF CapInv, CapsOk
  <2>2. CASE e = Today /\ q = r /\ c > 0
    <3>1. s + c <= RoleCap - 1 + MaxCost + Slack(Today)
      <4>1. RoleCap \in Nat
        BY RouterAssumption
      <4>2. c <= MaxCost /\ t <= RoleCap - 1
        BY <1>4, <1>13, <2>2
      <4>3. s <= t + Slack(Today)
        BY <1>12, <1>13
      <4> QED
        BY <1>4, <1>12, <4>1, <4>2, <4>3
    <3> QED
      BY <1>11, <2>2, <3>1 DEF s
  <2>3. CASE ~(e = Today /\ q = r /\ c > 0)
    <3>1. e = Today /\ q = r => c = 0
      BY <1>4, <2>3
    <3>2. RoleSpend(spent', e, q) = RoleSpend(spent, e, q)
      BY <1>11, <1>12, <3>1 DEF s
    <3> QED
      BY <2>1, <3>2
  <2> QED
    BY <2>2, <2>3
<1> QED
  BY <1>2, <1>5, <1>9, <1>10, <1>15, <1>16, <1>17, AdviceAssumption DEF CapInv

(* Midnight empties nothing that is on record: what is spent in the new    *)
(* day is nothing yet.                                                     *)
LEMMA TickPassesKeeps ==
    ASSUME CapInv, RouterTick, ing' = ing
    PROVE  CapInv'
<1>1. /\ now < MaxTime /\ now' = now + 1 /\ UNCHANGED <<router, call, spent, ing>>
      /\ now \in Nat /\ MaxTime \in Nat
  BY RouterAssumption DEF RouterTick, CapInv
<1>2. now' \in 0 .. MaxTime
  BY <1>1
<1>3. /\ Today \in Nat /\ Today' \in Nat /\ Today <= Today' /\ Today' \in Days
  BY <1>1, <1>2, NextDay, DayOf DEF Today
<1>4. Ahead(spent, Today')
  <2> SUFFICES ASSUME NEW d \in Days, d > Today' PROVE spent[d] = NoSpend
    BY DEF Ahead
  <2>1. d \in Nat
    BY DaysAre
  <2>2. d > Today
    BY <1>3, <2>1
  <2> QED
    BY <2>2 DEF CapInv, Ahead
<1>5. ASSUME NEW r \in Routers
      PROVE  router[r].day <= Today' /\ KnownOk(call[r], router[r], r, spent, Today')
  <2>1. /\ router[r].day \in Days /\ router[r].day <= Today /\ KnownOk(call[r], router[r], r, spent, Today)
    BY DEF CapInv, RoutersOk, RouterType
  <2>2. router[r].day \in Nat /\ MaxCost \in Nat
    BY <2>1, DaysAre, CostsAre
  <2>3. CASE Today' = Today
    BY <2>1, <2>3
  <2>4. CASE Today' # Today
    <3>1. Today' > Today /\ router[r].day # Today' /\ router[r].day <= Today'
      BY <1>3, <2>1, <2>2, <2>4
    <3>2. RoleSpend(spent, Today', r) = 0
      BY <1>3, <3>1, NoSums DEF CapInv, Ahead, RoleSpend
    <3> QED
      BY <2>2, <3>1, <3>2 DEF KnownOk
  <2> QED
    BY <2>3, <2>4
<1>6. RoutersOk(router, call, spent, Today')
  BY <1>5 DEF CapInv, RoutersOk
<1> QED
  BY <1>1, <1>2, <1>4, <1>6 DEF CapInv

(* A router that is built anew has today's spend from the log.             *)
LEMMA NewKnows ==
    ASSUME CapInv, NEW r \in Routers
    PROVE  KnownOk(NoCall, NewRouter, r, spent, Today) /\ CallOk(NoCall, NewRouter, r)
<1> DEFINE s == Sum(spent[Today], OfRole(r))
<1>1. s \in Nat /\ Slack(Today) \in Nat
  BY TodayIs, SpendNat, CostsAre DEF RoleSpend, Slack
<1>2. NewRouter.ledger = spent[Today] /\ NewRouter.day = Today
  BY NewTyped
<1>3. s <= s + Slack(Today)
  BY <1>1
<1> QED
  BY <1>2, <1>3 DEF KnownOk, CallOk, NoCall, RoleSpend

LEMMA RestartsKeep ==
    ASSUME CapInv, UNCHANGED <<now, spent>>, NEW r \in Routers,
           \/ /\ router' = [router EXCEPT ![r] = NewRouter]
              /\ call' = [call EXCEPT ![r] = NoCall] \/ (call' = call /\ ~call[r].on)
           \/ /\ router' = [router EXCEPT ![r].up = FALSE]
              /\ call' = [call EXCEPT ![r] = NoCall],
           ing' = [up |-> ing'.up, tag |-> ing'.tag, seen |-> ing'.seen, newest |-> ing'.newest],
           ing'.up <=> router'["engine"].up
    PROVE  CapInv'
<1>1. Today' = Today /\ Today \in Nat
  BY TodayIs DEF Today
<1>2. NoCall \in CallType /\ ~NoCall.on /\ call \in [Routers -> CallType] /\ router \in [Routers -> RouterType]
  BY DEF NoCall, CallType, CapInv
<1>3. /\ router' \in [Routers -> RouterType] /\ call' \in [Routers -> CallType] /\ ~call'[r].on
      /\ \A q \in Routers \ {r} : router'[q] = router[q] /\ call'[q] = call[q]
      /\ \/ router'[r] = NewRouter
         \/ ~router'[r].up /\ router'[r].day = router[r].day
  <2> DEFINE old    == router[r]
             downed == [old EXCEPT !.up = FALSE]
  <2>1. old \in RouterType
    BY <1>2
  <2> HIDE DEF old
  <2>2. downed \in RouterType /\ ~downed.up /\ downed.day = old.day
    BY <2>1 DEF RouterType
  <2> HIDE DEF downed
  <2>3. \/ router' = [router EXCEPT ![r] = NewRouter]
        \/ router' = [router EXCEPT ![r] = downed]
    BY DEF downed, old
  <2>4. call' = [call EXCEPT ![r] = NoCall] \/ (call' = call /\ ~call[r].on)
    OBVIOUS
  <2>5. NewRouter \in RouterType
    BY NewTyped
  <2>6. /\ router' \in [Routers -> RouterType] /\ \A q \in Routers \ {r} : router'[q] = router[q]
        /\ router'[r] = NewRouter \/ router'[r] = downed
    BY <1>2, <2>2, <2>3, <2>5
  <2>7. /\ call' \in [Routers -> CallType] /\ \A q \in Routers \ {r} : call'[q] = call[q]
        /\ ~call'[r].on
    BY <1>2, <2>4
  <2> QED
    BY <2>2, <2>6, <2>7 DEF old
<1>4. /\ router'[r].day <= Today /\ CallOk(call'[r], router'[r], r)
      /\ KnownOk(call'[r], router'[r], r, spent, Today)
  <2>1. CASE router'[r] = NewRouter
    <3>1. KnownOk(NoCall, NewRouter, r, spent, Today) /\ NewRouter.day = Today /\ Today <= Today
      BY <1>1, NewTyped, NewKnows
    <3>2. KnownOk(call'[r], NewRouter, r, spent, Today)
      BY <3>1 DEF KnownOk
    <3>3. CallOk(call'[r], NewRouter, r)
      BY <1>3 DEF CallOk
    <3> QED
      BY <2>1, <3>1, <3>2, <3>3
  <2>2. CASE ~router'[r].up /\ router'[r].day = router[r].day
    <3>1. router[r].day <= Today
      BY DEF CapInv, RoutersOk
    <3>2. KnownOk(call'[r], router'[r], r, spent, Today)
      BY <2>2 DEF KnownOk
    <3>3. CallOk(call'[r], router'[r], r)
      BY <1>3 DEF CallOk
    <3> QED
      BY <2>2, <3>1, <3>2, <3>3
  <2> QED
    BY <1>3, <2>1, <2>2
<1>5. RoutersOk(router', call', spent, Today)
  BY <1>3, <1>4 DEF CapInv, RoutersOk
<1> QED
  BY <1>1, <1>3, <1>5 DEF CapInv

IngKept == ing' = [up |-> ing.up, tag |-> ing'.tag, seen |-> ing'.seen, newest |-> ing'.newest]

LEMMA OthersKeep ==
    ASSUME CapInv, UNCHANGED routerVars, IngKept
    PROVE  CapInv'
<1>1. UNCHANGED <<now, router, call, spent>> /\ Today' = Today
  BY DEF routerVars, Today
<1>2. ing'.up = ing.up
  BY DEF IngKept
<1>3. ing' = [up |-> ing'.up, tag |-> ing'.tag, seen |-> ing'.seen, newest |-> ing'.newest]
  BY <1>2 DEF IngKept
<1> QED
  BY <1>1, <1>2, <1>3 DEF CapInv

LEMMA NewsKeeps ==
    ASSUME CapInv, NewsStep
    PROVE  IngKept
<1>1. ing = [up |-> ing.up, tag |-> ing.tag, seen |-> ing.seen, newest |-> ing.newest]
  BY DEF CapInv
<1>2. ing' = ing => IngKept
  BY <1>1 DEF IngKept
<1>3. ASSUME NEW n, NEW how \in {"done", "fails"}, Fetched(n, how) PROVE IngKept
  <2>1. CASE how = "done"
    <3> DEFINE s == ing.seen \cup Range(Accepted(Page))
               w == Max(Page \cup {ing.newest})
    <3>1. ing' = [ing EXCEPT !.tag = published, !.seen = s, !.newest = w]
      BY <1>3, <2>1 DEF Fetched
    <3> HIDE DEF s, w
    <3>2. ing' = [up |-> ing.up, tag |-> published, seen |-> s, newest |-> w]
      BY <1>1, <3>1
    <3> QED
      BY <3>2 DEF IngKept
  <2>2. CASE how = "fails"
    <3> DEFINE gap    == Coverage(Page)
               new    == Accepted(Page)
               got    == SubSeq(new, 1, Max({0, n - Len(gap)}))
               failed == IF how = "fails" /\ n >= Len(gap) THEN {new[n - Len(gap) + 1]} ELSE {}
               s      == ing.seen \cup Range(got) \cup failed
    <3>1. ing' = [ing EXCEPT !.tag = published, !.seen = s]
      BY <1>3, <2>2 DEF Fetched
    <3> HIDE DEF s
    <3>2. ing' = [up |-> ing.up, tag |-> published, seen |-> s, newest |-> ing.newest]
      BY <1>1, <3>1
    <3> QED
      BY <3>2 DEF IngKept
  <2> QED
    BY <2>1, <2>2
<1>4. ASSUME NEW reply, NEW stored, Classify(reply, stored) PROVE ing' = ing
  BY <1>4 DEF Classify
<1>5. Publish \/ Polls \/ NothingNew => ing' = ing
  BY DEF Publish, Polls, NothingNew
<1> QED
  BY <1>2, <1>3, <1>4, <1>5 DEF NewsStep

LEMMA CapInvInit == AdviceInit => CapInv
<1> SUFFICES ASSUME AdviceInit PROVE CapInv
  OBVIOUS
<1>1. /\ now = 0 /\ spent = [d \in Days |-> NoSpend] /\ router = [r \in Routers |-> NewRouter]
      /\ call = [r \in Routers |-> NoCall] /\ ing = [up |-> TRUE, tag |-> -1, seen |-> {}, newest |-> 0]
  BY DEF AdviceInit, RouterInit, NewsInit
<1>2. now \in 0 .. MaxTime
  BY <1>1, RouterAssumption
<1>3. Today \in Days /\ Today \in Nat
  BY <1>2, DayOf DEF Today
<1>4. /\ \A d \in Days : spent[d] = NoSpend
      /\ spent \in [Days -> [Prompts -> Nat]]
  BY <1>1, NoSums
<1>5. /\ NewRouter \in RouterType /\ NewRouter.up /\ NewRouter.day = Today /\ NewRouter.ledger = NoSpend
  BY <1>3, <1>4, NoSums DEF NewRouter, FromEvents, RouterType
<1>6. /\ router \in [Routers -> RouterType] /\ call \in [Routers -> CallType]
      /\ \A r \in Routers : router[r] = NewRouter /\ call[r] = NoCall /\ ~call[r].on
  BY <1>1, <1>5 DEF NoCall, CallType
<1>7. RoutersOk(router, call, spent, Today)
  <2> SUFFICES ASSUME NEW r \in Routers
               PROVE  /\ router[r].day <= Today /\ CallOk(call[r], router[r], r)
                      /\ KnownOk(call[r], router[r], r, spent, Today)
    BY DEF RoutersOk
  <2>1. Slack(Today) \in Nat /\ Sum(NoSpend, OfRole(r)) = 0
    BY CostsAre, NoSums DEF Slack
  <2>2. RoleSpend(spent, Today, r) <= Sum(NoSpend, OfRole(r)) + Slack(Today)
    BY <1>3, <1>4, <2>1 DEF RoleSpend
  <2>3. KnownOk(call[r], NewRouter, r, spent, Today)
    BY <1>5, <2>2 DEF KnownOk
  <2>4. CallOk(call[r], NewRouter, r)
    BY <1>6 DEF CallOk
  <2> QED
    BY <1>3, <1>5, <1>6, <2>3, <2>4
<1>8. Ahead(spent, Today)
  BY <1>4 DEF Ahead
<1>9. CapsOk(spent)
  <2> SUFFICES ASSUME RoleCap > 0, NEW d \in Days, NEW r \in Routers
               PROVE  RoleSpend(spent, d, r) <= RoleCap - 1 + MaxCost + Slack(d)
    BY DEF CapsOk
  <2>1. RoleSpend(spent, d, r) = 0
    BY <1>4, NoSums DEF RoleSpend
  <2>2. Slack(d) \in Nat /\ MaxCost \in Nat /\ RoleCap \in Nat
    BY CostsAre, RouterAssumption DEF Slack
  <2> QED
    BY <2>1, <2>2
<1>10. ing = [up |-> ing.up, tag |-> ing.tag, seen |-> ing.seen, newest |-> ing.newest] /\ ing.up
  BY <1>1
<1> QED
  BY <1>2, <1>4, <1>5, <1>6, <1>7, <1>8, <1>9, <1>10, AdviceAssumption DEF CapInv

LEMMA CapInvNext == CapInv /\ [AdviceNext]_adviceVars => CapInv'
<1> SUFFICES ASSUME CapInv, [AdviceNext]_adviceVars PROVE CapInv'
  OBVIOUS
<1>0. /\ "engine" \in Routers /\ "labels" \in Routers
      /\ ing' = ing => IngKept
      /\ ing = [up |-> ing.up, tag |-> ing.tag, seen |-> ing.seen, newest |-> ing.newest]
  BY AdviceAssumption DEF CapInv, IngKept
<1>1. ASSUME UNCHANGED newsVars, UNCHANGED routerVars PROVE CapInv'
  BY <1>0, <1>1, OthersKeep DEF newsVars
<1>2. CASE RunCycle \/ ReviewAbsent \/ ReviewTyped
  BY <1>1, <1>2 DEF RunCycle, ReviewAbsent, ReviewTyped
<1>3. CASE ReviewLLM
  BY <1>0, <1>3, CompleteKeeps DEF ReviewLLM, LLMStep, newsVars
<1>4. CASE HearReply
  BY <1>0, <1>4, ReplyKeeps DEF HearReply, LLMStep, newsVars
<1>5. CASE HearFailure
  BY <1>0, <1>5, NoReplyKeeps DEF HearFailure, LLMStep, newsVars
<1>6. ASSUME NEW reply, HearTyped(reply) PROVE CapInv'
  <2>1. UNCHANGED routerVars /\ ing' = ing
    BY <1>6 DEF HearTyped
  <2> QED
    BY <1>0, <2>1, OthersKeep
<1>7. CASE Label
  <2>1. ing' = ing
    BY <1>7 DEF Label, newsVars
  <2>2. ASSUME NEW p, Complete("labels", p) PROVE CapInv'
    BY <1>0, <2>1, <2>2, CompleteKeeps
  <2>3. ASSUME Reply("labels", "APPROVE", FALSE) PROVE CapInv'
    BY <1>0, <2>1, <2>3, ReplyKeeps
  <2>4. ASSUME NEW why, NoReply("labels", why) PROVE CapInv'
    BY <1>0, <2>1, <2>4, NoReplyKeeps
  <2> QED
    BY <1>7, <2>2, <2>3, <2>4 DEF Label
<1>8. CASE LabelsRestart
  <2>1. /\ router' = [router EXCEPT !["labels"] = NewRouter] /\ call' = [call EXCEPT !["labels"] = NoCall]
        /\ UNCHANGED <<now, spent>> /\ ing' = ing /\ router["labels"].up
    BY <1>8 DEF LabelsRestart, newsVars
  <2>2. router'["engine"].up <=> router["engine"].up
    <3>1. router \in [Routers -> RouterType] /\ NewRouter.up
      BY NewTyped DEF CapInv
    <3>2. CASE "engine" = "labels"
      BY <1>0, <2>1, <3>1, <3>2
    <3>3. CASE "engine" # "labels"
      BY <1>0, <2>1, <3>1, <3>3
    <3> QED
      BY <3>2, <3>3
  <2>3. ing'.up <=> router'["engine"].up
    BY <2>1, <2>2 DEF CapInv
  <2> QED
    BY <1>0, <2>1, <2>3, RestartsKeep
<1>9. CASE NewsStep
  <2>1. UNCHANGED routerVars /\ IngKept
    BY <1>9, NewsKeeps DEF NewsStep
  <2> QED
    BY <2>1, OthersKeep
<1>10. CASE Dies
  <2>1. /\ router' = [router EXCEPT !["engine"].up = FALSE] /\ call' = [call EXCEPT !["engine"] = NoCall]
        /\ UNCHANGED <<now, spent>> /\ ing' = [ing EXCEPT !.up = FALSE]
    BY <1>10 DEF Dies, NewsEnds, Fetched, RouterEnds
  <2>2. ing' = [up |-> FALSE, tag |-> ing.tag, seen |-> ing.seen, newest |-> ing.newest]
    BY <1>0, <2>1
  <2>3. ~router'["engine"].up
    <3>1. router \in [Routers -> RouterType]
      BY DEF CapInv
    <3> QED
      BY <1>0, <2>1, <3>1 DEF RouterType
  <2> QED
    BY <1>0, <2>1, <2>2, <2>3, RestartsKeep
<1>11. CASE Starts
  <2>1. /\ router' = [router EXCEPT !["engine"] = NewRouter] /\ call' = call
        /\ UNCHANGED <<now, spent>> /\ ~ing.up
        /\ ing' = [up |-> TRUE, tag |-> -1, seen |-> Watermark.seen, newest |-> Watermark.newest]
    BY <1>11 DEF Starts, NewsStarts, RouterStarts
  <2>2. ~call["engine"].on
    <3>1. ~router["engine"].up
      BY <2>1 DEF CapInv
    <3>2. CallOk(call["engine"], router["engine"], "engine")
      BY <1>0 DEF CapInv, RoutersOk
    <3> QED
      BY <3>1, <3>2 DEF CallOk
  <2>3. router'["engine"].up
    <3>1. router \in [Routers -> RouterType] /\ NewRouter.up
      BY NewTyped DEF CapInv
    <3> QED
      BY <1>0, <2>1, <3>1
  <2> QED
    BY <1>0, <2>1, <2>2, <2>3, RestartsKeep
<1>12. CASE TimePasses
  BY <1>12, TickPassesKeeps DEF TimePasses, newsVars
<1>13. CASE UNCHANGED adviceVars
  BY <1>1, <1>13 DEF adviceVars
<1> QED
  BY <1>2, <1>3, <1>4, <1>5, <1>6, <1>7, <1>8, <1>9, <1>10, <1>11, <1>12, <1>13 DEF AdviceNext

(* What a role of the language models spends in a day stays within its     *)
(* budget and one call (two on a day that began with a call in flight).    *)
THEOREM RoleStaysWithinCap == AdviceSpec => []RoleWithinCap
<1>1. AdviceInit => CapInv
  BY CapInvInit
<1>2. CapInv /\ [AdviceNext]_adviceVars => CapInv'
  BY CapInvNext
<1>3. CapInv => RoleWithinCap
  BY CapsAre DEF CapInv
<1> QED
  BY <1>1, <1>2, <1>3, PTL DEF AdviceSpec

-----------------------------------------------------------------------------
(* Replays and announcements.  Two records are kept for a replay: the      *)
(* decision models' answers (answers) and the language models' replies     *)
(* (cache).  The invariant is that a conversation or a call under way goes *)
(* with what is on record about its subject (ConvOk, CallFits), that an    *)
(* event or a verdict is what the record gives (TypedOnce, VerdictsOk),    *)
(* that what is received and not classified is queued once (QueueOk,       *)
(* Waiting), and that nothing between the first page and what has been     *)
(* read, or received, is unaccounted for (FirstOk, CoverOk).               *)

Known == {None, "yes", "no", "band"}
ConvType == [at : {"idle", "laya", "jev", "shadow", "said"}, on : Subjects \cup {0}, tries : Int,
             said : {None, "yes", "no", "abstained"}]

AnswersOk(a) == a \in [DecisionModels -> [Subjects -> Known]] /\ \A x \in Subjects : a["jev"][x] # "band"

(* Whom a conversation waits for goes with what is on record.              *)
ConvOk(c, a) ==
    /\ c \in ConvType
    /\ \/ c = Quiet
       \/ /\ c.at \in {"laya", "jev", "shadow"} /\ c.on \in Subjects
          /\ c.at = "jev" => Calibrated("laya", c.on, a["laya"][c.on]) \in {None, "band"}
          /\ c.at = "shadow" =>
                Calibrated("laya", c.on, a["laya"][c.on]) = c.said /\ c.said \in {"yes", "no"}

(* A classified item has its one event, which the record gives.            *)
EventOf(i) == [relevant |-> Relevant(i, Decided(i)), said |-> Decided(i)]
TypedOnce == \A i \in Items : typed[i] = <<>> \/ (typed[i] = <<EventOf(i)>> /\ received[i] = 1)

(* The items to be classified are in the queue of the poll or left over    *)
(* from the last process, each once.                                       *)
Once(s) == \A j, k \in DOMAIN s : s[j] = s[k] => j = k
Queued(s) == Once(s) /\ \A i \in Range(s) : received[i] = 1 /\ typed[i] = <<>>
QueueOk ==
    /\ Queued(task.todo) /\ Queued(backlog)
    /\ IF task.todo = <<>> THEN task.conv = Quiet
       ELSE /\ task.conv # Quiet /\ task.conv.on = Head(task.todo)
            /\ backlog = <<>> /\ ~task.polling
    /\ ~ing.up => task = Resting /\ backlog = <<>>

(* What waits to be classified is somewhere.                               *)
Waiting ==
    ing.up => \A i \in Items : received[i] = 1 /\ typed[i] = <<>> =>
        i \in Range(task.todo) \cup Range(backlog) \cup lapses.left

(* The dedupe set is what is on record, and what a failed append lost.     *)
SeenOk ==
    /\ \A i \in Items : received[i] = 1 => i \in Ours /\ i <= published /\ (ing.up => i \in ing.seen)
    /\ ing.up => \A i \in ing.seen : received[i] = 1 \/ i \in lapses.lost

(* The first page ever read is not ahead of the one on display.            *)
FirstOk ==
    IF lapses.first = 0 THEN (ing.up => ing.newest = 0) /\ \A i \in Items : received[i] = 0
    ELSE lapses.first <= published /\ \A i \in Page : lapses.first <= i

(* What lies between the first page read and the last is received, lost to *)
(* a failed append, or in a gap on record.                                 *)
Covered(i) ==
    \/ received[i] = 1 \/ i \in lapses.lost
    \/ \E g \in gaps : g.from < i /\ i < g.to
Behind(i) == (ing.up /\ i <= ing.newest) \/ \E j \in Items : received[j] = 1 /\ i <= j
CoverOk == lapses.first > 0 => \A i \in Ours : lapses.first <= i /\ Behind(i) => Covered(i)

NewsTyped ==
    /\ published \in Nat /\ 1 .. published \subseteq Items
    /\ ing \in [up : BOOLEAN, tag : Int, seen : SUBSET Ours, newest : Nat]
    /\ task \in [polling : BOOLEAN, todo : Seq(Items), conv : ConvType] /\ ConvOk(task.conv, answers)
    /\ backlog \in Seq(Items) /\ received \in [Items -> {0, 1}] /\ typed = [i \in Items |-> typed[i]]
    /\ gaps \subseteq [from : Nat, to : Nat]
    /\ lapses \in [first : Nat, lost : SUBSET Items, left : SUBSET Items]

NewsInv == NewsTyped /\ TypedOnce /\ QueueOk /\ Waiting /\ SeenOk /\ FirstOk /\ CoverOk

Verdicts == {None, "VETO", "APPROVE", "ABSTAIN"}
(* The verdict a replay gives.                                             *)
Agreed(b, p) ==
    CASE AdvisorOf[b] = "llm_veto"   -> LLMVerdict(ReplayedReply(p))
      [] AdvisorOf[b] = "typed_veto" -> TypedVerdict(Decided(p))
      [] OTHER                       -> "ABSTAIN"

(* The typed veto's conversation and the LLM veto's call are about the     *)
(* first of the entries, which has no verdict meanwhile.                   *)
ReviewOk ==
    /\ review \in [todo : Seq(Range(Books) \X Range(Proposals)), conv : ConvType]
    /\ ConvOk(review.conv, answers)
    /\ review.conv # Quiet =>
        /\ Reviewing("typed_veto") /\ review.conv.on = Head(review.todo)[2]
        /\ verdict[Head(review.todo)] = None
CallFits ==
    LET c == call["engine"]
    IN  c.on => /\ Reviewing("llm_veto") /\ c.prompt = Head(review.todo)[2]
                /\ verdict[Head(review.todo)] = None
                /\ \A j \in 1 .. c.k : cache[Chain["engine"][j]][c.prompt] = Nothing
VerdictsOk ==
    /\ verdict \in [Range(Books) \X Range(Proposals) -> Verdicts]
    /\ \A b \in Range(Books), p \in Range(Proposals) :
        verdict[<<b, p>>] # None => verdict[<<b, p>>] = Agreed(b, p)
ReviewInv ==
    /\ cache \in [Models -> [Prompts -> Answers \cup {Nothing}]] /\ DOMAIN result = Prompts
    /\ ReviewOk /\ CallFits /\ VerdictsOk

(* What becomes of a reply before it is used, and of nothing.              *)
LEMMA CalibratedIs ==
    ASSUME NEW x \in Subjects, NEW r
    PROVE  /\ r \notin Given => Calibrated("laya", x, r) = r /\ Calibrated("jev", x, r) = r
           /\ r \in Given => Calibrated("laya", x, r) \in Given
           /\ r \in {"yes", "no"} => Calibrated("jev", x, r) \in {"yes", "no"}
BY CascadeAssumption DEF Calibrated, Given

LEMMA RecordedIs ==
    ASSUME AnswersOk(answers), NEW m \in DecisionModels, NEW x \in Subjects, NEW reply,
           m = "jev" => reply # "band", answers' = Recorded(m, x, reply)
    PROVE  /\ AnswersOk(answers')
           /\ \A k \in DecisionModels, y \in Subjects : k # m \/ y # x => answers'[k][y] = answers[k][y]
           /\ answers'[m][x] = IF reply \in Given THEN reply ELSE answers[m][x]
<1>1. answers \in [DecisionModels -> [Subjects -> Known]]
  BY DEF AnswersOk
<1>2. CASE reply \in Given
  <2>1. answers' = [answers EXCEPT ![m][x] = reply] /\ reply \in Known
    BY <1>2 DEF Recorded, Given, Known
  <2>2. /\ answers' \in [DecisionModels -> [Subjects -> Known]] /\ answers'[m][x] = reply
        /\ \A k \in DecisionModels, y \in Subjects : k # m \/ y # x => answers'[k][y] = answers[k][y]
    BY <1>1, <2>1
  <2> QED
    BY <1>2, <2>2 DEF AnswersOk, DecisionModels
<1>3. CASE reply \notin Given
  BY <1>1, <1>3 DEF Recorded
<1> QED
  BY <1>2, <1>3

(* One reply.  An answer that ends the conversation is what the record,    *)
(* calibrated, gives; one that does not leaves the conversation going with *)
(* the record.                                                             *)
LEMMA Hears ==
    ASSUME AnswersOk(answers), NEW c, ConvOk(c, answers), NEW reply, MayReply(c, reply),
           answers' = Keeps(c, reply)
    PROVE  /\ c # Quiet /\ c.on \in Subjects /\ Heard(c, reply) \in ConvType /\ Heard(c, reply).on = c.on
           /\ AnswersOk(answers')
           /\ \A m \in DecisionModels, x \in Subjects \ {c.on} : answers'[m][x] = answers[m][x]
           /\ Heard(c, reply).at = "said" => Heard(c, reply).said = Decided(c.on)'
           /\ Heard(c, reply).at # "said" => ConvOk(Heard(c, reply), answers') /\ Heard(c, reply) # Quiet
<1> DEFINE d == Heard(c, reply)
           x == c.on
           laya == Calibrated("laya", x, answers'["laya"][x])
           jev == Calibrated("jev", x, answers'["jev"][x])
<1>1. /\ c \in ConvType /\ c # Quiet /\ c.at \in {"laya", "jev", "shadow"} /\ x \in Subjects
      /\ c.at = "jev" => Calibrated("laya", x, answers["laya"][x]) \in {None, "band"}
      /\ c.at = "shadow" => Calibrated("laya", x, answers["laya"][x]) = c.said /\ c.said \in {"yes", "no"}
  BY DEF ConvOk, MayReply, Quiet
<1>2. /\ answers \in [DecisionModels -> [Subjects -> Known]]
      /\ "laya" \in DecisionModels /\ "jev" \in DecisionModels
      /\ answers["laya"][x] \in Known /\ answers["jev"][x] \in {None, "yes", "no"}
  BY <1>1 DEF AnswersOk, DecisionModels, Known
<1>3. /\ c = [at |-> c.at, on |-> x, tries |-> c.tries, said |-> c.said]
      /\ c.tries \in Int /\ c.said \in {None, "yes", "no", "abstained"}
  BY <1>1 DEF ConvType
<1>4. Decided(x)' = Outcome(laya, jev)
  BY DEF Decided, Read
<1>5. CASE c.at = "laya"
  <2> DEFINE q == Calibrated("laya", x, reply)
  <2>1. reply \in LayaReplies /\ (answers["laya"][x] # None => reply = answers["laya"][x])
    BY <1>2, <1>5 DEF MayReply, Replies, LayaReplies, Known
  <2>2. d = AfterLaya(c, q) /\ answers' = Recorded("laya", x, reply)
    BY <1>5 DEF Heard, Keeps
  <2>3. /\ AnswersOk(answers')
        /\ \A m \in DecisionModels, y \in Subjects \ {x} : answers'[m][y] = answers[m][y]
        /\ answers'["laya"][x] = IF reply \in Given THEN reply ELSE answers["laya"][x]
    BY <1>1, <1>2, <2>2, RecordedIs
  <2>4. reply \in Given => q \in Given /\ laya = q
    BY <1>1, <2>3, CalibratedIs
  <2>5. reply = "error" => q = "error" /\ laya = None
    <3>1. reply = "error" => answers'["laya"][x] = None
      BY <1>2, <2>1, <2>3 DEF Given, Known
    <3>2. "error" \notin Given /\ None \notin Given
      BY DEF Given, None
    <3> QED
      BY <1>1, <3>1, <3>2, CalibratedIs
  <2> HIDE DEF q, laya, jev, d
  <2>6. CASE q \in {"band", "error"}
    <3>1. d = [at |-> "jev", on |-> x, tries |-> c.tries, said |-> c.said]
      BY <1>3, <2>2, <2>6 DEF AfterLaya, Escalates
    <3>2. laya \in {None, "band"}
      BY <2>1, <2>4, <2>5, <2>6 DEF Given, LayaReplies
    <3> QED
      BY <1>1, <1>3, <2>3, <3>1, <3>2 DEF ConvOk, ConvType, Quiet, d, laya
  <2>7. CASE q \in {"yes", "no"} /\ x \in Sampled
    <3>1. d = [at |-> "shadow", on |-> x, tries |-> c.tries, said |-> q]
      BY <1>3, <2>2, <2>7 DEF AfterLaya, Escalates
    <3>2. laya = q
      BY <2>1, <2>4, <2>5, <2>7 DEF Given, LayaReplies
    <3> QED
      BY <1>1, <1>3, <2>3, <2>7, <3>1, <3>2 DEF ConvOk, ConvType, Quiet, d, laya
  <2>8. CASE q \in {"yes", "no"} /\ x \notin Sampled
    <3>1. d = [at |-> "said", on |-> x, tries |-> c.tries, said |-> q]
      BY <1>3, <2>2, <2>8 DEF AfterLaya, Escalates, Over
    <3>2. Outcome(laya, jev) = q
      BY <2>1, <2>4, <2>5, <2>8 DEF Given, LayaReplies, Outcome, None
    <3> QED
      BY <1>1, <1>3, <1>4, <2>3, <2>8, <3>1, <3>2 DEF ConvType, d
  <2>9. q \in {"yes", "no", "band", "error"}
    BY <2>1, <2>4, <2>5 DEF Given, LayaReplies
  <2> QED
    BY <2>6, <2>7, <2>8, <2>9
<1>6. CASE c.at \in {"jev", "shadow"}
  <2> DEFINE q == Calibrated("jev", x, reply)
  <2>1. reply \in JevReplies /\ (answers["jev"][x] # None => reply = answers["jev"][x])
    BY <1>2, <1>6 DEF MayReply, Replies, JevReplies
  <2>2. d = AfterJev(c, q) /\ answers' = Recorded("jev", x, reply)
    BY <1>6 DEF Heard, Keeps
  <2>3. reply # "band"
    BY <2>1 DEF JevReplies
  <2>4. /\ AnswersOk(answers')
        /\ \A m \in DecisionModels, y \in Subjects \ {x} : answers'[m][y] = answers[m][y]
        /\ answers'["laya"][x] = answers["laya"][x]
        /\ answers'["jev"][x] = IF reply \in Given THEN reply ELSE answers["jev"][x]
    BY <1>1, <1>2, <2>2, <2>3, RecordedIs DEF DecisionModels
  <2>5. laya = Calibrated("laya", x, answers["laya"][x])
    BY <2>4
  <2>6. reply \in {"yes", "no"} => q \in {"yes", "no"} /\ jev = q
    BY <1>1, <2>4, CalibratedIs DEF Given
  <2>7. reply \in {"busy", "error"} => q = reply /\ jev = None
    <3>1. reply \in {"busy", "error"} => answers'["jev"][x] = None
      BY <1>2, <2>1, <2>4 DEF Given
    <3>2. "error" \notin Given /\ "busy" \notin Given /\ None \notin Given
      BY DEF Given, None
    <3> QED
      BY <1>1, <3>1, <3>2, CalibratedIs
  <2> HIDE DEF q, laya, jev, d
  <2>8. CASE c.at = "jev"
    <3>1. laya \in {None, "band"}
      BY <1>1, <2>5, <2>8
    <3>2. CASE q \in {"yes", "no"}
      <4>1. d = [at |-> "said", on |-> x, tries |-> c.tries, said |-> q]
        BY <1>3, <2>2, <2>8, <3>2 DEF AfterJev, Over
      <4>2. Outcome(laya, jev) = q
        BY <2>1, <2>6, <2>7, <3>1, <3>2 DEF JevReplies, Outcome, None
      <4> QED
        BY <1>1, <1>3, <1>4, <2>4, <3>2, <4>1, <4>2 DEF ConvType, d
    <3>3. CASE q \in {"busy", "error"}
      <4>1. \/ d = [at |-> "jev", on |-> x, tries |-> c.tries + 1, said |-> c.said]
            \/ d = [at |-> "said", on |-> x, tries |-> c.tries, said |-> "abstained"]
        BY <1>3, <2>2, <2>8, <3>3 DEF AfterJev, Over
      <4>2. Outcome(laya, jev) = "abstained"
        BY <2>1, <2>6, <2>7, <3>1, <3>3 DEF JevReplies, Outcome, None
      <4> QED
        BY <1>1, <1>3, <1>4, <2>4, <3>1, <4>1, <4>2 DEF ConvOk, ConvType, Quiet, d, laya
    <3> QED
      BY <2>1, <2>6, <2>7, <3>2, <3>3 DEF JevReplies
  <2>9. CASE c.at = "shadow"
    <3>1. laya = c.said /\ c.said \in {"yes", "no"} /\ Outcome(laya, jev) = c.said
      BY <1>1, <2>5, <2>9 DEF Outcome, None
    <3>2. \/ d = [at |-> "shadow", on |-> x, tries |-> c.tries + 1, said |-> c.said]
          \/ d = [at |-> "said", on |-> x, tries |-> c.tries, said |-> c.said]
      BY <1>3, <2>2, <2>9 DEF AfterJev, Over
    <3> QED
      BY <1>1, <1>3, <1>4, <2>4, <3>1, <3>2 DEF ConvOk, ConvType, Quiet, d, laya
  <2> QED
    BY <1>6, <2>8, <2>9
<1> QED
  BY <1>1, <1>5, <1>6

(* A conversation about another subject is not disturbed.                  *)
LEMMA Apart ==
    ASSUME NEW c, ConvOk(c, answers), NEW x, c = Quiet \/ c.on # x,
           \A m \in DecisionModels, y \in Subjects \ {x} : answers'[m][y] = answers[m][y]
    PROVE  ConvOk(c, answers')
BY DEF ConvOk, DecisionModels

LEMMA ReplaysSame ==
    ASSUME NEW x, \A m \in DecisionModels : answers'[m][x] = answers[m][x]
    PROVE  Decided(x)' = Decided(x)
BY DEF Decided, Read, DecisionModels

LEMMA BeginsOk ==
    ASSUME NEW x \in Subjects, NEW a
    PROVE  ConvOk(BeginWith(x), a) /\ BeginWith(x) # Quiet /\ BeginWith(x).on = x
<1>1. BeginWith(x) = [[Quiet EXCEPT !.at = "laya"] EXCEPT !.on = x]
  BY DEF BeginWith
<1>2. [Quiet EXCEPT !.at = "laya"] = [at |-> "laya", on |-> 0, tries |-> 0, said |-> None]
  BY DEF Quiet
<1>3. BeginWith(x) = [at |-> "laya", on |-> x, tries |-> 0, said |-> None]
  BY <1>1, <1>2
<1> QED
  BY <1>3 DEF ConvOk, ConvType, Quiet

(* A finite set of numbers in order.                                       *)
Ascends(s) == \A j, k \in DOMAIN s : j < k => s[j] < s[k]

LEMMA OneMoreAscends ==
    ASSUME NEW S \in SUBSET Nat, IsFiniteSet(S), NEW m \in S, \A x \in S : m >= x,
           NEW s \in [1 .. Cardinality(S \ {m}) -> S \ {m}], Ascends(s)
    PROVE  \E t \in [1 .. Cardinality(S) -> S] : Ascends(t)
<1> DEFINE n == Cardinality(S \ {m})
           t == [k \in 1 .. n + 1 |-> IF k <= n THEN s[k] ELSE m]
<1>1. n \in Nat /\ Cardinality(S) = n + 1
  <2>1. Cardinality(S) \in Nat /\ IsFiniteSet(S \ {m})
    BY FS_CardinalityType, FS_RemoveElement
  <2>2. n \in Nat /\ n = Cardinality(S) - 1
    BY <2>1, FS_CardinalityType, FS_RemoveElement
  <2> QED
    BY <2>1, <2>2
<1> HIDE DEF n
<1>2. \A k \in 1 .. n : s[k] \in S /\ s[k] # m /\ s[k] \in Nat /\ s[k] <= m
  BY DEF n
<1>3. t \in [1 .. n + 1 -> S]
  <2> SUFFICES ASSUME NEW k \in 1 .. n + 1 PROVE (IF k <= n THEN s[k] ELSE m) \in S
    OBVIOUS
  <2>1. k <= n => k \in 1 .. n
    BY <1>1
  <2> QED
    BY <1>2, <2>1
<1>4. ASSUME NEW j \in 1 .. n + 1, NEW k \in 1 .. n + 1, j < k PROVE t[j] < t[k]
  <2>1. CASE k <= n
    <3>1. j \in 1 .. n /\ k \in 1 .. n /\ j <= n
      BY <1>1, <1>4, <2>1
    <3>2. t[j] = s[j] /\ t[k] = s[k]
      BY <2>1, <3>1
    <3>3. DOMAIN s = 1 .. n
      BY DEF n
    <3> HIDE DEF t
    <3> QED
      BY <1>4, <3>1, <3>2, <3>3 DEF Ascends
  <2>2. CASE ~(k <= n)
    <3>1. j <= n /\ j \in 1 .. n
      BY <1>1, <1>4, <2>2
    <3>2. t[j] = s[j] /\ t[k] = m
      BY <2>2, <3>1
    <3>3. s[j] \in S \ {m}
      BY <3>1 DEF n
    <3>4. m \in Nat /\ s[j] \in Nat /\ m >= s[j] /\ s[j] # m
      BY <3>3
    <3> HIDE DEF t
    <3> QED
      BY <3>2, <3>4
  <2> QED
    BY <2>1, <2>2
<1> HIDE DEF t
<1>5. Ascends(t)
  BY <1>3, <1>4 DEF Ascends
<1> QED
  BY <1>1, <1>3, <1>5

LEMMA AscentExists ==
    ASSUME NEW S \in SUBSET Nat, IsFiniteSet(S)
    PROVE  \E s \in [1 .. Cardinality(S) -> S] : Ascends(s)
<1> DEFINE Has(A) == \E s \in [1 .. Cardinality(A) -> A] : Ascends(s)
           T == {A \in SUBSET S : ~Has(A)}
<1> SUFFICES ASSUME T # {} PROVE FALSE
  OBVIOUS
<1>1. T \subseteq FiniteSubsetsOf(S)
  BY FS_Subset DEF FiniteSubsetsOf
<1>2. \E t \in T : \A u \in T : ~(<<u, t>> \in StrictSubsetOrdering(S))
  <2> HIDE DEF T
  <2> QED
    BY <1>1, FS_StrictSubsetOrderingWellFounded, WFMin
<1>3. PICK A \in T : \A u \in T : ~(<<u, A>> \in StrictSubsetOrdering(S))
  BY <1>2
<1>4. A \subseteq S /\ ~Has(A) /\ IsFiniteSet(A) /\ A \in SUBSET Nat /\ A \in SUBSET Int
  <2>1. A \in SUBSET S /\ ~Has(A)
    OBVIOUS
  <2>2. IsFiniteSet(A)
    BY <2>1, FS_Subset
  <2> HIDE DEF Has
  <2>3. A \in SUBSET Nat /\ A \in SUBSET Int
    BY <2>1
  <2> QED
    BY <2>1, <2>2, <2>3
<1>5. A # {}
  <2> SUFFICES ASSUME A = {} PROVE FALSE
    OBVIOUS
  <2> DEFINE s == [k \in 1 .. 0 |-> k]
  <2>1. Cardinality(A) = 0
    BY FS_EmptySet
  <2>2. s \in [1 .. 0 -> A] /\ Ascends(s)
    BY DEF Ascends
  <2> QED
    BY <1>4, <2>1, <2>2
<1>6. PICK m \in A : \A x \in A : m >= x
  BY <1>4, <1>5, GreatestExists
<1>7. A \ {m} \notin T
  <2>1. <<A \ {m}, A>> \in StrictSubsetOrdering(S)
    BY <1>4, <1>6 DEF StrictSubsetOrdering
  <2> QED
    BY <1>3, <2>1
<1>8. PICK s \in [1 .. Cardinality(A \ {m}) -> A \ {m}] : Ascends(s)
  BY <1>4, <1>7
<1>9. Has(A)
  BY <1>4, <1>6, <1>8, OneMoreAscends
<1> QED
  BY <1>4, <1>9

LEMMA OldestFirstIs ==
    ASSUME NEW S \in SUBSET Nat, IsFiniteSet(S)
    PROVE  /\ OldestFirst(S) \in Seq(S) /\ Ascends(OldestFirst(S)) /\ Range(OldestFirst(S)) = S
           /\ Once(OldestFirst(S))
<1> DEFINE s == OldestFirst(S)
           n == Cardinality(S)
<1>1. n \in Nat
  BY FS_CardinalityType
<1>2. s \in [1 .. n -> S] /\ Ascends(s)
  BY AscentExists DEF OldestFirst, Ascends
<1> HIDE DEF s
<1>3. ASSUME NEW j \in 1 .. n, NEW k \in 1 .. n, s[j] = s[k] PROVE j = k
  <2>1. j < k => s[j] < s[k]
    BY <1>2 DEF Ascends
  <2>2. k < j => s[k] < s[j]
    BY <1>2 DEF Ascends
  <2>3. j \in Nat /\ k \in Nat /\ s[j] \in S /\ s[k] \in S
    BY <1>1, <1>2
  <2>4. s[j] \in Nat /\ s[k] \in Nat
    BY <2>3
  <2> QED
    BY <1>3, <2>1, <2>2, <2>3, <2>4
<1>4. s \in Injection(1 .. n, S)
  BY <1>2, <1>3 DEF Injection, IsInjective
<1>5. IsFiniteSet(1 .. n) /\ Cardinality(1 .. n) = n
  BY <1>1, FS_Interval
<1>6. s \in Surjection(1 .. n, S)
  BY <1>4, <1>5, FS_Injection
<1>7. Range(s) = S
  BY <1>2, <1>6 DEF Surjection, Range
<1>8. s \in Seq(S)
  BY <1>1, <1>2
<1> QED
  BY <1>2, <1>3, <1>7, <1>8 DEF s, Once

(* The page is the end of what has been published.                         *)
LEMMA ItemsAre ==
    /\ Items \subseteq Nat \ {0} /\ Ours \subseteq Items /\ Items \subseteq Subjects
    /\ Window \in Nat \ {0}
BY NewsAssumption, AdviceAssumption

LEMMA PageIs ==
    ASSUME NewsInv
    PROVE  /\ Page \in SUBSET Nat /\ IsFiniteSet(Page) /\ Page \subseteq Items
           /\ \A i \in Page : i >= 1 /\ i <= published
           /\ Page # {} => /\ Min(Page) \in Page /\ \A i \in Page : Min(Page) <= i
                           /\ \A i \in Nat \ {0} : Min(Page) <= i /\ i <= published => i \in Page
           /\ published > 0 => published \in Page
<1>1. published \in Nat /\ 1 .. published \subseteq Items
  BY DEF NewsInv, NewsTyped
<1>2. Page \in SUBSET Nat /\ Page \subseteq Items /\ \A i \in Page : i >= 1 /\ i <= published
  <2>1. Page \subseteq Items /\ \A i \in Page : i <= published
    BY DEF Page
  <2>2. \A i \in Items : i \in Nat /\ i >= 1
    BY ItemsAre
  <2> QED
    BY <2>1, <2>2
<1>3. IsFiniteSet(Page)
  BY <1>1, <1>2, FS_BoundedSetOfNaturals
<1>4. ASSUME Page # {}
      PROVE  /\ Min(Page) \in Page /\ \A i \in Page : Min(Page) <= i
             /\ \A i \in Nat \ {0} : Min(Page) <= i /\ i <= published => i \in Page
  <2>1. Min(Page) \in Page /\ \A i \in Page : Min(Page) <= i
    BY <1>2, <1>4, LeastExists
  <2>2. Min(Page) \in Nat /\ Min(Page) > published - Window
    BY <1>2, <2>1 DEF Page
  <2> DEFINE a == Min(Page)
  <2> HIDE DEF a
  <2>3. ASSUME NEW i \in Nat \ {0}, a <= i, i <= published PROVE i \in Page
    <3>1. i \in Items
      BY <1>1, <2>3
    <3>2. i > published - Window
      BY <1>1, <2>2, <2>3, ItemsAre DEF a
    <3> QED
      BY <2>3, <3>1, <3>2 DEF Page
  <2> QED
    BY <2>1, <2>3 DEF a
<1>5. published > 0 => published \in Page
  BY <1>1, ItemsAre DEF Page
<1> QED
  BY <1>2, <1>3, <1>4, <1>5

LEMMA GreatestIs ==
    ASSUME NEW S \in SUBSET Nat, IsFiniteSet(S), S # {}
    PROVE  Max(S) \in S /\ \A x \in S : x <= Max(S)
<1>1. S \in SUBSET Int
  OBVIOUS
<1>2. \E x \in S : \A y \in S : x >= y
  BY <1>1, GreatestExists
<1>3. Max(S) \in S /\ \A y \in S : Max(S) >= y
  BY <1>2 DEF Max
<1> QED
  BY <1>3

NewOnes == (Page \cap Ours) \ ing.seen

LEMMA AcceptedIs ==
    ASSUME NewsInv
    PROVE  /\ NewOnes \in SUBSET Nat /\ NewOnes \subseteq Items
           /\ Accepted(Page) \in Seq(NewOnes) /\ Accepted(Page) \in Seq(Items) /\ Ascends(Accepted(Page))
           /\ Range(Accepted(Page)) = NewOnes
           /\ Once(Accepted(Page))
<1>1. NewOnes \in SUBSET Nat /\ IsFiniteSet(NewOnes) /\ NewOnes \subseteq Items
  BY PageIs, FS_Subset DEF NewOnes
<1>2. Accepted(Page) = OldestFirst(NewOnes)
  BY DEF Accepted, NewOnes
<1>3. Accepted(Page) \in Seq(NewOnes)
  BY <1>1, <1>2, OldestFirstIs
<1>4. Accepted(Page) \in Seq(Items)
  BY <1>1, <1>3, SeqMonotonic
<1> QED
  BY <1>1, <1>2, <1>3, <1>4, OldestFirstIs

(* What is appended before a process dies or an append fails: the oldest.  *)
LEMMA PrefixIs ==
    ASSUME NEW S \in SUBSET Nat, NEW s \in Seq(S), Ascends(s), Range(s) = S, NEW q \in Nat, q <= Len(s)
    PROVE  /\ Range(SubSeq(s, 1, q)) \subseteq S
           /\ \A i \in S, j \in Range(SubSeq(s, 1, q)) : i <= j => i \in Range(SubSeq(s, 1, q))
           /\ q = Len(s) => Range(SubSeq(s, 1, q)) = S
           /\ q = 0 => Range(SubSeq(s, 1, q)) = {}
<1> DEFINE g == SubSeq(s, 1, q)
<1>1. Len(s) \in Nat /\ DOMAIN s = 1 .. Len(s) /\ \A k \in 1 .. Len(s) : s[k] \in S
  BY LenProperties
<1>2. /\ g \in Seq(S) /\ Len(g) = q /\ \A k \in 1 .. q : g[k] = s[k]
  <2>1. \A k \in 1 .. q : s[k] \in S
    BY <1>1
  <2>2. /\ g \in Seq(S) /\ Len(g) = IF 1 <= q THEN q - 1 + 1 ELSE 0
        /\ \A k \in 1 .. q - 1 + 1 : g[k] = s[1 + k - 1]
    BY <2>1, SubSeqProperties
  <2>3. q - 1 + 1 = q /\ \A k \in 1 .. q : 1 + k - 1 = k
    OBVIOUS
  <2> QED
    BY <2>2, <2>3
<1> HIDE DEF g
<1>3. Range(g) = {s[k] : k \in 1 .. q}
  <2>1. DOMAIN g = 1 .. q
    BY <1>2, LenProperties
  <2> QED
    BY <1>2, <2>1 DEF Range
<1>4. S = {s[k] : k \in 1 .. Len(s)}
  BY <1>1 DEF Range
<1>5. Range(g) \subseteq S
  BY <1>1, <1>3
<1>6. ASSUME NEW i \in S, NEW j \in Range(g), i <= j PROVE i \in Range(g)
  <2>1. PICK k \in 1 .. q : j = s[k]
    BY <1>3
  <2>2. PICK h \in 1 .. Len(s) : i = s[h]
    BY <1>4
  <2>3. h <= k
    <3> SUFFICES ASSUME k < h PROVE FALSE
      BY <1>1, <2>1, <2>2
    <3>1. k \in DOMAIN s /\ h \in DOMAIN s
      BY <1>1, <2>1, <2>2
    <3>2. s[k] < s[h]
      BY <3>1 DEF Ascends
    <3>3. i \in Nat /\ j \in Nat
      BY <1>5
    <3> QED
      BY <1>6, <2>1, <2>2, <3>2, <3>3
  <2>4. h \in 1 .. q
    BY <2>2, <2>3
  <2> QED
    BY <1>3, <2>2, <2>4
<1>7. q = Len(s) => Range(g) = S
  BY <1>3, <1>4
<1>8. q = 0 => Range(g) = {}
  BY <1>3
<1> QED
  BY <1>5, <1>6, <1>7, <1>8 DEF g

(* What the window has moved past is in a gap on record, or was read.      *)
GapKept(g) ==
    ing.newest # 0 /\ Page # {} /\ Min(Page) > ing.newest => [from |-> ing.newest, to |-> Min(Page)] \in g

FirstRead == IF ing.newest = 0 /\ Page # {} THEN Min(Page) ELSE lapses.first

(* A page of which G was stored and the rest of seen or lost.              *)
LEMMA CoverKept ==
    ASSUME NewsInv, ing.up, NEW G \in SUBSET NewOnes, \A i \in NewOnes, j \in G : i <= j => i \in G,
           received' = [i \in Items |-> IF i \in G THEN 1 ELSE received[i]], published' = published,
           gaps \subseteq gaps', lapses.lost \subseteq lapses'.lost, lapses'.first = FirstRead,
           G # {} => GapKept(gaps'),
           \/ ~ing'.up
           \/ ing'.up /\ ing'.newest = ing.newest
           \/ G = NewOnes /\ GapKept(gaps') /\ ing'.newest = Max(Page \cup {ing.newest})
    PROVE  FirstOk' /\ CoverOk'
<1> DEFINE N == ing.newest
           F == lapses.first
           E == lapses'.first
<1>1. /\ N \in Nat /\ published \in Nat /\ F \in Nat /\ Page' = Page
      /\ received \in [Items -> {0, 1}] /\ ing.seen \subseteq Ours
  BY DEF NewsInv, NewsTyped, Page
<1>2. /\ \A i \in G : received'[i] = 1 /\ i \in Page
      /\ \A i \in Items : received[i] = 1 => received'[i] = 1
      /\ \A i \in Items : received'[i] = 1 => received[i] = 1 \/ i \in G
      /\ \A i \in Items : received'[i] \in {0, 1}
  <2>1. G \subseteq Items
    BY AcceptedIs
  <2> QED
    BY <1>1, <2>1 DEF NewOnes
<1>3. \A i \in Items : Covered(i) => Covered(i)'
  BY <1>2 DEF Covered
<1>4. N = 0 \/ F > 0
  BY <1>1 DEF NewsInv, FirstOk
<1>5. /\ N = 0 /\ Page # {} => E = Min(Page) /\ E \in Page /\ E > 0 /\ F <= E /\ E <= published
                               /\ \A i \in Page : E <= i
      /\ ~(N = 0 /\ Page # {}) => E = F
  <2>1. ~(N = 0 /\ Page # {}) => E = F
    BY DEF FirstRead
  <2>2. ASSUME N = 0, Page # {}
        PROVE  E = Min(Page) /\ E \in Page /\ E > 0 /\ F <= E /\ E <= published /\ \A i \in Page : E <= i
    <3>1. E = Min(Page) /\ E \in Page /\ E >= 1 /\ E <= published /\ E \in Nat /\ \A i \in Page : E <= i
      BY <2>2, PageIs DEF FirstRead
    <3>2. F # 0 => F <= E
      BY <3>1 DEF NewsInv, FirstOk
    <3>3. F = 0 => F <= E
      BY <3>1
    <3> QED
      BY <3>1, <3>2, <3>3
  <2> QED
    BY <2>1, <2>2
<1>6. ASSUME E > 0, NEW i \in Ours, E <= i, i <= N PROVE Covered(i)
  <2>1. i \in Nat \ {0} /\ i \in Items
    BY ItemsAre
  <2>2. N # 0
    BY <1>1, <1>6, <2>1
  <2>3. E = F
    BY <1>5, <2>2
  <2> QED
    BY <1>6, <2>1, <2>3 DEF NewsInv, CoverOk, Behind
<1>7. ASSUME E > 0, NEW i \in Ours, E <= i, i <= published, GapKept(gaps'), i \in NewOnes => i \in G
      PROVE  Covered(i)'
  <2>1. i \in Nat \ {0} /\ i \in Items
    BY ItemsAre
  <2>2. Page # {}
    BY <1>1, <1>7, <2>1, PageIs
  <2>3. CASE Min(Page) <= i
    <3>1. i \in Page
      BY <1>7, <2>1, <2>2, <2>3, PageIs
    <3>2. CASE i \in ing.seen
      <4>1. Covered(i)
        BY <3>2 DEF NewsInv, SeenOk, Covered
      <4> QED
        BY <1>3, <2>1, <4>1
    <3>3. CASE i \notin ing.seen
      <4>1. i \in G
        BY <1>7, <3>1, <3>3 DEF NewOnes
      <4> QED
        BY <1>2, <4>1 DEF Covered
    <3> QED
      BY <3>2, <3>3
  <2>4. CASE ~(Min(Page) <= i)
    <3>1. Min(Page) \in Nat /\ i < Min(Page)
      BY <2>1, <2>2, <2>4, PageIs
    <3>2. N # 0
      BY <1>5, <1>7, <2>2, <2>4
    <3>3. CASE i <= N
      BY <1>3, <1>6, <1>7, <2>1, <3>3
    <3>4. CASE ~(i <= N)
      <4>1. N < i /\ Min(Page) > N
        BY <1>1, <2>1, <3>1, <3>4
      <4>2. [from |-> N, to |-> Min(Page)] \in gaps'
        BY <1>7, <2>2, <3>2, <4>1 DEF GapKept
      <4> QED
        BY <3>1, <4>1, <4>2 DEF Covered
    <3> QED
      BY <3>3, <3>4
  <2> QED
    BY <2>3, <2>4
<1>8. FirstOk'
  <2>1. CASE E = 0
    <3>1. F = 0 /\ N = 0 /\ Page = {}
      BY <1>4, <1>5, <2>1
    <3>2. G = {}
      BY <1>2, <3>1
    <3>3. \A i \in Items : received'[i] = 0
      BY <1>1, <1>2, <3>1, <3>2 DEF NewsInv, FirstOk
    <3>4. ing'.newest = Max(Page \cup {N}) => ing'.newest = 0
      <4>1. Page \cup {N} = {0}
        BY <3>1
      <4>2. IsFiniteSet({0}) /\ {0} \in SUBSET Nat
        <5>1. IsFiniteSet({0})
          BY FS_Singleton
        <5>2. {0} \in SUBSET Nat
          OBVIOUS
        <5> QED
          BY <5>1, <5>2
      <4>3. Max({0}) \in {0}
        BY <4>2, GreatestIs
      <4> QED
        BY <4>1, <4>3
    <3> QED
      BY <2>1, <3>1, <3>3, <3>4 DEF FirstOk
  <2>2. CASE E # 0
    <3>1. E <= published /\ \A i \in Page : E <= i
      BY <1>1, <1>5, <2>2 DEF NewsInv, FirstOk
    <3> QED
      BY <1>1, <2>2, <3>1 DEF FirstOk
  <2> QED
    BY <2>1, <2>2
<1>9. CoverOk'
  <2> SUFFICES ASSUME E > 0, NEW i \in Ours, E <= i, Behind(i)' PROVE Covered(i)'
    BY DEF CoverOk
  <2>1. i \in Nat \ {0} /\ i \in Items
    BY ItemsAre
  <2>2. ASSUME NEW j \in Items, received'[j] = 1, i <= j PROVE Covered(i)'
    <3>1. CASE received[j] = 1
      <4>1. F > 0 /\ F <= i
        <5>1. F # 0
          BY <3>1 DEF NewsInv, FirstOk
        <5>2. F <= E
          BY <1>1, <1>5
        <5>3. E \in Nat
          BY <1>1, <1>5, PageIs
        <5> QED
          BY <1>1, <2>1, <5>1, <5>2, <5>3
      <4>2. Covered(i)
        BY <2>1, <2>2, <3>1, <4>1 DEF NewsInv, CoverOk, Behind
      <4> QED
        BY <1>3, <2>1, <4>2
    <3>2. CASE received[j] # 1
      <4>1. j \in G
        BY <1>2, <2>2, <3>2
      <4>2. j \in Nat /\ j <= published
        BY <1>2, <4>1, PageIs
      <4>3. i <= published
        BY <1>1, <2>1, <2>2, <4>2
      <4>4. GapKept(gaps')
        BY <4>1
      <4> QED
        BY <1>7, <2>2, <4>1, <4>3, <4>4
    <3> QED
      BY <3>1, <3>2
  <2>3. ASSUME ing'.up, i <= ing'.newest PROVE Covered(i)'
    <3>1. CASE ing'.newest = N
      BY <1>3, <1>6, <2>1, <2>3, <3>1
    <3>2. CASE G = NewOnes /\ GapKept(gaps') /\ ing'.newest = Max(Page \cup {N})
      <4>1. Page \cup {N} \in SUBSET Nat /\ IsFiniteSet(Page \cup {N}) /\ Page \cup {N} # {}
        BY <1>1, PageIs, FS_AddElement
      <4>2. ing'.newest \in Page \cup {N}
        BY <3>2, <4>1, GreatestIs
      <4>3. CASE ing'.newest = N
        BY <3>1, <4>3
      <4>4. CASE ing'.newest \in Page
        <5>1. i <= published
          BY <1>1, <2>1, <2>3, <4>4, PageIs
        <5> QED
          BY <1>7, <3>2, <5>1
      <4> QED
        BY <4>2, <4>3, <4>4
    <3> QED
      BY <2>3, <3>1, <3>2
  <2> QED
    BY <2>2, <2>3 DEF Behind
<1> QED
  BY <1>8, <1>9

(* The queue of items to be classified.                                    *)
LEMMA OntoIs ==
    ASSUME NEW s \in Seq(Items), NEW a
    PROVE  /\ Onto(s) \in [polling : BOOLEAN, todo : Seq(Items), conv : ConvType]
           /\ ConvOk(Onto(s).conv, a) /\ Onto(s).todo = s /\ ~Onto(s).polling
           /\ IF s = <<>> THEN Onto(s).conv = Quiet ELSE Onto(s).conv # Quiet /\ Onto(s).conv.on = Head(s)
<1> DEFINE c == IF s = <<>> THEN Quiet ELSE BeginWith(Head(s))
<1>1. Onto(s) = [polling |-> FALSE, todo |-> s, conv |-> c]
  BY DEF Onto
<1>2. s # <<>> => Head(s) \in Subjects
  BY ItemsAre, HeadTailProperties
<1>3. ConvOk(Quiet, a)
  BY DEF ConvOk, ConvType, Quiet
<1>4. /\ ConvOk(c, a)
      /\ IF s = <<>> THEN c = Quiet ELSE c # Quiet /\ c.on = Head(s)
  BY <1>2, <1>3, BeginsOk
<1>5. c \in ConvType
  BY <1>4 DEF ConvOk
<1> HIDE DEF c
<1> QED
  BY <1>1, <1>4, <1>5

LEMMA JoinIs ==
    ASSUME NEW s \in Seq(Items), NEW t \in Seq(Items), Once(s), Once(t),
           \A i \in Range(s) : i \notin Range(t)
    PROVE  s \o t \in Seq(Items) /\ Once(s \o t) /\ Range(s \o t) = Range(s) \cup Range(t)
<1> DEFINE u == s \o t
<1>1. /\ u \in Seq(Items) /\ Len(u) = Len(s) + Len(t)
      /\ \A i \in 1 .. Len(s) + Len(t) : u[i] = IF i <= Len(s) THEN s[i] ELSE t[i - Len(s)]
  BY ConcatProperties
<1>2. Range(u) = Range(s) \cup Range(t)
  BY RangeConcatenation
<1>3. Len(s) \in Nat /\ Len(t) \in Nat /\ DOMAIN s = 1 .. Len(s) /\ DOMAIN t = 1 .. Len(t)
  BY LenProperties
<1>4. DOMAIN u = 1 .. Len(s) + Len(t)
  BY <1>1, LenProperties
<1> HIDE DEF u
<1>5. ASSUME NEW j \in 1 .. Len(s) + Len(t), NEW k \in 1 .. Len(s) + Len(t), u[j] = u[k] PROVE j = k
  <2>1. CASE j <= Len(s) /\ k <= Len(s)
    <3>1. j \in DOMAIN s /\ k \in DOMAIN s /\ s[j] = s[k]
      BY <1>1, <1>3, <1>5, <2>1
    <3> QED
      BY <3>1 DEF Once
  <2>2. CASE ~(j <= Len(s)) /\ ~(k <= Len(s))
    <3>1. j - Len(s) \in DOMAIN t /\ k - Len(s) \in DOMAIN t /\ t[j - Len(s)] = t[k - Len(s)]
      BY <1>1, <1>3, <1>5, <2>2
    <3>2. j - Len(s) = k - Len(s)
      BY <3>1 DEF Once
    <3> QED
      BY <1>3, <3>2
  <2>3. CASE j <= Len(s) /\ ~(k <= Len(s))
    <3>1. j \in DOMAIN s /\ k - Len(s) \in DOMAIN t /\ s[j] = t[k - Len(s)]
      BY <1>1, <1>3, <1>5, <2>3
    <3> QED
      BY <3>1 DEF Range
  <2>4. CASE ~(j <= Len(s)) /\ k <= Len(s)
    <3>1. k \in DOMAIN s /\ j - Len(s) \in DOMAIN t /\ s[k] = t[j - Len(s)]
      BY <1>1, <1>3, <1>5, <2>4
    <3> QED
      BY <3>1 DEF Range
  <2> QED
    BY <2>1, <2>2, <2>3, <2>4
<1>6. Once(u)
  BY <1>4, <1>5 DEF Once
<1> QED
  BY <1>1, <1>2, <1>6 DEF u

LEMMA TailOnce ==
    ASSUME NEW s \in Seq(Items), Once(s), s # <<>>
    PROVE  /\ Tail(s) \in Seq(Items) /\ Once(Tail(s)) /\ Head(s) \in Items
           /\ Range(s) = Range(Tail(s)) \cup {Head(s)} /\ Head(s) \notin Range(Tail(s))
<1>1. /\ Len(s) \in Nat \ {0} /\ DOMAIN s = 1 .. Len(s) /\ Head(s) = s[1]
  BY LenProperties, EmptySeq
<1>2. /\ Tail(s) \in Seq(Items) /\ Head(s) \in Items /\ Len(Tail(s)) = Len(s) - 1
      /\ \A i \in 1 .. Len(Tail(s)) : Tail(s)[i] = s[i + 1]
  BY HeadTailProperties
<1>3. DOMAIN Tail(s) = 1 .. Len(s) - 1
  BY <1>2, LenProperties
<1> DEFINE t == Tail(s)
<1>4. \A i \in 1 .. Len(s) - 1 : t[i] = s[i + 1] /\ i + 1 \in DOMAIN s /\ i + 1 # 1
  BY <1>1, <1>2
<1> HIDE DEF t
<1>5. DOMAIN t = 1 .. Len(s) - 1
  BY <1>3 DEF t
<1>6. Once(t)
  <2> SUFFICES ASSUME NEW j \in DOMAIN t, NEW k \in DOMAIN t, t[j] = t[k] PROVE j = k
    BY DEF Once
  <2>1. j + 1 = k + 1
    BY <1>4, <1>5 DEF Once
  <2> QED
    BY <1>1, <1>5, <2>1
<1>7. s[1] \notin Range(t)
  <2> SUFFICES ASSUME NEW j \in DOMAIN t, t[j] = s[1] PROVE FALSE
    BY DEF Range
  <2>1. 1 \in DOMAIN s
    BY <1>1
  <2>2. j + 1 = 1
    BY <1>4, <1>5, <2>1 DEF Once
  <2> QED
    BY <1>4, <1>5, <2>2
<1>8. ASSUME NEW j \in DOMAIN s, j # 1 PROVE s[j] \in Range(t)
  <2>1. j - 1 \in 1 .. Len(s) - 1 /\ (j - 1) + 1 = j
    BY <1>1, <1>8
  <2>2. t[j - 1] = s[j]
    BY <1>4, <2>1
  <2> QED
    BY <1>5, <2>1, <2>2 DEF Range
<1>9. Range(s) = Range(t) \cup {s[1]}
  <2>1. \A x \in Range(t) : x \in Range(s)
    BY <1>4, <1>5 DEF Range
  <2>2. \A x \in Range(s) : x \in Range(t) \/ x = s[1]
    BY <1>8 DEF Range
  <2>3. s[1] \in Range(s)
    BY <1>1 DEF Range
  <2> QED
    BY <2>1, <2>2, <2>3
<1> QED
  BY <1>1, <1>2, <1>6, <1>7, <1>9 DEF t

LEMMA NotNegative ==
    ASSUME NEW x \in Int
    PROVE  Max({0, x}) = IF x >= 0 THEN x ELSE 0
<1> DEFINE S == {0, x}
<1>1. S \in SUBSET Int /\ 0 \in S /\ x \in S /\ \A y \in S : y = 0 \/ y = x
  OBVIOUS
<1>2. \E y \in S : \A z \in S : y >= z
  BY <1>1
<1> HIDE DEF S
<1>3. Max(S) \in S /\ \A z \in S : Max(S) >= z
  BY <1>2 DEF Max
<1> QED
  BY <1>1, <1>3 DEF S

(* A page, as far as it was stored.                                        *)
PageTaken(G) ==
    /\ G \in SUBSET NewOnes /\ \A i \in NewOnes, j \in G : i <= j => i \in G
    /\ received' = [i \in Items |-> IF i \in G THEN 1 ELSE received[i]]
    /\ gaps \subseteq gaps' /\ gaps' \subseteq [from : Nat, to : Nat] /\ (G # {} => GapKept(gaps'))
    /\ UNCHANGED <<published, typed, answers>>

PageDone ==
    /\ PageTaken(NewOnes) /\ GapKept(gaps')
    /\ ing' = [ing EXCEPT !.tag = published, !.seen = ing.seen \cup NewOnes,
                          !.newest = Max(Page \cup {ing.newest})]
    /\ task' = Onto(backlog \o Accepted(Page)) /\ backlog' = <<>>
    /\ lapses' = [lapses EXCEPT !.first = FirstRead]

PageFails(G, X) ==
    /\ PageTaken(G) /\ X \in SUBSET NewOnes
    /\ ing' = [ing EXCEPT !.tag = published, !.seen = ing.seen \cup G \cup X]
    /\ task' = Resting /\ backlog' = backlog
    /\ lapses' = [first |-> FirstRead, lost |-> lapses.lost \cup X, left |-> lapses.left \cup G]

PageDies(G) ==
    /\ PageTaken(G)
    /\ ing' = [ing EXCEPT !.up = FALSE] /\ task' = Resting /\ backlog' = <<>>
    /\ lapses' = [lapses EXCEPT !.first = FirstRead]

LEMMA FetchedIs ==
    ASSUME NewsInv, NEW n \in Nat, NEW how \in {"done", "fails", "dies"}, Fetched(n, how)
    PROVE  \/ how = "done" /\ PageDone
           \/ how = "fails" /\ \E G, X \in SUBSET NewOnes : PageFails(G, X)
           \/ how = "dies" /\ \E G \in SUBSET NewOnes : PageDies(G)
<1> DEFINE gap    == Coverage(Page)
           new    == Accepted(Page)
           q      == Max({0, n - Len(gap)})
           got    == SubSeq(new, 1, q)
           G      == Range(got)
           failed == IF how = "fails" /\ n >= Len(gap) THEN {new[n - Len(gap) + 1]} ELSE {}
           N      == ing.newest
<1>1. /\ published \in Nat /\ N \in Nat /\ received \in [Items -> {0, 1}]
      /\ gaps \subseteq [from : Nat, to : Nat] /\ ing.up
  BY DEF NewsInv, NewsTyped, Fetched
<1>2. /\ Len(gap) \in Nat /\ Range(gap) \subseteq [from : Nat, to : Nat]
      /\ N # 0 /\ Page # {} /\ Min(Page) > N =>
            Len(gap) = 1 /\ Range(gap) = {[from |-> N, to |-> Min(Page)]}
      /\ ~(N # 0 /\ Page # {} /\ Min(Page) > N) => Len(gap) = 0
  <2>1. CASE N # 0 /\ Page # {} /\ Min(Page) > N
    <3>1. Min(Page) \in Nat
      BY <2>1, PageIs
    <3>2. gap = <<[from |-> N, to |-> Min(Page)]>>
      BY <1>1, <2>1, <3>1 DEF Coverage
    <3> DEFINE e == [from |-> N, to |-> Min(Page)]
    <3>3. e \in [from : Nat, to : Nat]
      BY <1>1, <3>1
    <3> HIDE DEF e
    <3>4. Len(<<e>>) = 1 /\ Range(<<e>>) = {e}
      BY DEF Range
    <3> QED
      BY <2>1, <3>2, <3>3, <3>4 DEF e
  <2>2. CASE ~(N # 0 /\ Page # {} /\ Min(Page) > N)
    <3>1. Page # {} => Min(Page) \in Nat
      BY PageIs
    <3>2. gap = <<>>
      BY <1>1, <2>2, <3>1 DEF Coverage
    <3>3. Len(<<>>) = 0 /\ Range(<<>>) = {}
      BY DEF Range
    <3> QED
      BY <2>2, <3>2, <3>3
  <2> QED
    BY <2>1, <2>2
<1>3. /\ new \in Seq(NewOnes) /\ Len(new) \in Nat /\ Ascends(new) /\ Range(new) = NewOnes
      /\ NewOnes \in SUBSET Nat
      /\ \A k \in 1 .. Len(new) : new[k] \in NewOnes
  BY AcceptedIs, LenProperties
<1>4. IF how = "done" THEN n = Len(gap) + Len(new) ELSE n < Len(gap) + Len(new)
  BY DEF Fetched
<1>5. /\ received' = [i \in Items |-> received[i] + IF i \in G THEN 1 ELSE 0]
      /\ gaps' = gaps \cup (IF n = 0 THEN {} ELSE Range(gap))
      /\ UNCHANGED <<published, typed, answers>>
  BY DEF Fetched
<1>6. /\ how = "done" =>
            /\ ing' = [ing EXCEPT !.tag = published, !.seen = ing.seen \cup Range(new),
                                  !.newest = Max(Page \cup {N})]
            /\ task' = Onto(backlog \o new) /\ backlog' = <<>>
            /\ lapses' = [lapses EXCEPT !.first = FirstRead]
      /\ how = "fails" =>
            /\ ing' = [ing EXCEPT !.tag = published, !.seen = ing.seen \cup G \cup failed]
            /\ task' = Resting /\ backlog' = backlog
            /\ lapses' = [first |-> FirstRead, lost |-> lapses.lost \cup failed, left |-> lapses.left \cup G]
      /\ how = "dies" =>
            /\ ing' = [ing EXCEPT !.up = FALSE] /\ task' = Resting /\ backlog' = <<>>
            /\ lapses' = [lapses EXCEPT !.first = FirstRead]
  BY DEF Fetched, FirstRead
<1> HIDE DEF gap, new
<1>7. /\ q \in Nat /\ q <= Len(new) /\ (how = "done" => q = Len(new))
      /\ q # 0 => n >= Len(gap) + 1
  <2>1. q = IF n - Len(gap) >= 0 THEN n - Len(gap) ELSE 0
    BY <1>2, NotNegative
  <2> QED
    BY <1>2, <1>3, <1>4, <2>1
<1> HIDE DEF q
<1>8. /\ G \subseteq NewOnes /\ \A i \in NewOnes, j \in G : i <= j => i \in G
      /\ how = "done" => G = NewOnes
      /\ G # {} => q # 0
  BY <1>3, <1>7, PrefixIs
<1>9. how = "done" \/ G # {} => GapKept(gaps')
  <2> SUFFICES ASSUME how = "done" \/ G # {}, N # 0, Page # {}, Min(Page) > N
               PROVE  [from |-> N, to |-> Min(Page)] \in gaps'
    BY DEF GapKept
  <2>1. n # 0
    BY <1>2, <1>3, <1>4, <1>7, <1>8
  <2> QED
    BY <1>2, <1>5, <2>1
<1>10. received' = [i \in Items |-> IF i \in G THEN 1 ELSE received[i]]
  <2> SUFFICES ASSUME NEW i \in Items
               PROVE  (received[i] + IF i \in G THEN 1 ELSE 0) = IF i \in G THEN 1 ELSE received[i]
    BY <1>5
  <2>1. i \in G => received[i] = 0
    <3>1. i \in G => i \notin ing.seen
      BY <1>8 DEF NewOnes
    <3>2. received[i] = 1 => i \in ing.seen
      BY <1>1 DEF NewsInv, SeenOk
    <3> QED
      BY <1>1, <3>1, <3>2
  <2> QED
    BY <1>1, <2>1
<1>11. PageTaken(G)
  BY <1>1, <1>2, <1>5, <1>8, <1>9, <1>10 DEF PageTaken
<1>12. failed \subseteq NewOnes
  <2>1. how = "fails" /\ n >= Len(gap) => n - Len(gap) + 1 \in 1 .. Len(new)
    BY <1>2, <1>3, <1>4
  <2> QED
    BY <1>3, <2>1
<1> HIDE DEF failed, G
<1>13. CASE how = "done"
  BY <1>3, <1>6, <1>8, <1>9, <1>11, <1>13 DEF PageDone, new
<1>14. CASE how = "fails"
  <2>1. PageFails(G, failed)
    BY <1>6, <1>11, <1>12, <1>14 DEF PageFails
  <2> QED
    BY <1>8, <1>12, <1>14, <2>1
<1>15. CASE how = "dies"
  <2>1. PageDies(G)
    BY <1>6, <1>11, <1>15 DEF PageDies
  <2> QED
    BY <1>8, <1>15, <2>1
<1> QED
  BY <1>13, <1>14, <1>15

(* Steps of the others leave the announcements as they are, and ask about  *)
(* other subjects.                                                         *)
LEMMA EventsSame ==
    ASSUME NEW i, \A m \in DecisionModels : answers'[m][i] = answers[m][i]
    PROVE  EventOf(i)' = EventOf(i)
<1>1. Decided(i)' = Decided(i)
  BY ReplaysSame
<1> QED
  BY <1>1 DEF EventOf, Relevant

LEMMA NewsSame ==
    ASSUME NewsInv, UNCHANGED <<published, ing, task, backlog, received, gaps, typed, lapses>>,
           \A m \in DecisionModels, i \in Items : answers'[m][i] = answers[m][i]
    PROVE  NewsInv'
<1>1. ConvOk(task.conv, answers)'
  <2>1. CASE task.todo = <<>>
    <3>1. task'.conv = Quiet
      BY <2>1 DEF NewsInv, QueueOk
    <3> QED
      BY <3>1 DEF ConvOk, ConvType, Quiet
  <2>2. CASE task.todo # <<>>
    <3>1. task.conv.on \in Items
      BY <2>2, HeadTailProperties DEF NewsInv, QueueOk, NewsTyped
    <3>2. ConvOk(task.conv, answers)
      BY DEF NewsInv, NewsTyped
    <3>3. ConvOk(task.conv, answers')
      BY <3>1, <3>2 DEF ConvOk, DecisionModels
    <3> QED
      BY <3>3
  <2> QED
    BY <2>1, <2>2
<1>2. NewsTyped'
  BY <1>1 DEF NewsInv, NewsTyped
<1>3. TypedOnce'
  BY EventsSame DEF NewsInv, TypedOnce
<1>4. QueueOk'
  BY DEF NewsInv, QueueOk, Queued, Once
<1>5. Waiting' /\ SeenOk'
  BY DEF NewsInv, Waiting, SeenOk
<1>6. FirstOk' /\ CoverOk'
  BY DEF NewsInv, FirstOk, CoverOk, Page, Behind, Covered
<1> QED
  BY <1>2, <1>3, <1>4, <1>5, <1>6 DEF NewsInv

LEMMA PublishKeeps ==
    ASSUME NewsInv, Publish
    PROVE  NewsInv'
<1>1. /\ published + 1 \in Items /\ published' = published + 1 /\ published \in Nat
      /\ 1 .. published \subseteq Items
      /\ UNCHANGED <<ing, task, backlog, received, gaps, typed, lapses, answers>>
  BY DEF Publish, NewsInv, NewsTyped
<1>2. NewsTyped'
  <2>1. 1 .. published' \subseteq Items /\ published' \in Nat
    BY <1>1
  <2> QED
    BY <1>1, <2>1 DEF NewsInv, NewsTyped
<1>3. TypedOnce'
  BY <1>1, EventsSame DEF NewsInv, TypedOnce
<1>4. QueueOk'
  BY <1>1 DEF NewsInv, QueueOk, Queued, Once
<1>5. Waiting'
  BY <1>1 DEF NewsInv, Waiting
<1>6. SeenOk'
  BY <1>1, ItemsAre DEF NewsInv, SeenOk
<1>7. FirstOk'
  <2>1. CASE lapses.first = 0
    BY <1>1, <2>1 DEF NewsInv, FirstOk
  <2>2. CASE lapses.first # 0
    <3>1. lapses.first <= published /\ lapses.first \in Nat /\ \A i \in Page : lapses.first <= i
      BY <2>2 DEF NewsInv, FirstOk, NewsTyped
    <3>2. ASSUME NEW i \in Page' PROVE lapses.first <= i
      <4>1. i \in Items /\ i \in Nat /\ i <= published + 1 /\ i > published + 1 - Window /\ Window \in Nat
        BY <1>1, ItemsAre DEF Page
      <4>2. i = published + 1 \/ i \in Page
        BY <1>1, <4>1 DEF Page
      <4> QED
        BY <1>1, <3>1, <4>2
    <3> QED
      BY <1>1, <2>2, <3>1, <3>2 DEF FirstOk
  <2> QED
    BY <2>1, <2>2
<1>8. CoverOk'
  BY <1>1 DEF NewsInv, CoverOk, Behind, Covered
<1> QED
  BY <1>2, <1>3, <1>4, <1>5, <1>6, <1>7, <1>8 DEF NewsInv

(* What a step that moves the queue on leaves alone.                       *)
LEMMA QueueMoves ==
    ASSUME NewsInv, UNCHANGED <<published, ing, received, gaps, typed, lapses, answers>>
    PROVE  TypedOnce' /\ SeenOk' /\ FirstOk' /\ CoverOk'
<1>1. TypedOnce'
  BY EventsSame DEF NewsInv, TypedOnce
<1>2. SeenOk'
  BY DEF NewsInv, SeenOk
<1>3. FirstOk' /\ CoverOk'
  BY DEF NewsInv, FirstOk, CoverOk, Page, Behind, Covered
<1> QED
  BY <1>1, <1>2, <1>3

LEMMA PollsKeeps ==
    ASSUME NewsInv, Polls
    PROVE  NewsInv'
<1>1. task' = [polling |-> TRUE, todo |-> <<>>, conv |-> Quiet] /\ task.todo = <<>>
  BY DEF Polls, Resting
<1>2. UNCHANGED <<published, ing, backlog, received, gaps, typed, lapses, answers>> /\ ing.up
  BY DEF Polls
<1>3. ConvOk(Quiet, answers) /\ Quiet \in ConvType
  BY DEF ConvOk, ConvType, Quiet
<1>4. NewsTyped'
  BY <1>1, <1>2, <1>3 DEF NewsInv, NewsTyped
<1>5. QueueOk'
  BY <1>1, <1>2 DEF NewsInv, QueueOk, Queued, Once
<1>6. Waiting'
  BY <1>1, <1>2 DEF NewsInv, Waiting
<1> QED
  BY <1>2, <1>4, <1>5, <1>6, QueueMoves DEF NewsInv

LEMMA EmptyQueue == Queued(<<>>) /\ Range(<<>>) = {}
BY DEF Queued, Once, Range

LEMMA NothingNewKeeps ==
    ASSUME NewsInv, NothingNew
    PROVE  NewsInv'
<1>1. /\ task' = Onto(backlog) /\ backlog' = <<>> /\ backlog \in Seq(Items) /\ task.todo = <<>>
      /\ UNCHANGED <<published, ing, received, gaps, typed, lapses, answers>> /\ ing.up
  BY DEF NothingNew, NewsInv, NewsTyped, QueueOk
<1>2. /\ task' \in [polling : BOOLEAN, todo : Seq(Items), conv : ConvType]
      /\ ConvOk(task'.conv, answers') /\ task'.todo = backlog /\ ~task'.polling
      /\ IF backlog = <<>> THEN task'.conv = Quiet ELSE task'.conv # Quiet /\ task'.conv.on = Head(backlog)
  BY <1>1, OntoIs
<1>3. NewsTyped'
  BY <1>1, <1>2 DEF NewsInv, NewsTyped
<1>4. QueueOk'
  <2>1. Queued(backlog)' /\ Queued(task.todo)'
    BY <1>1, <1>2, EmptyQueue DEF NewsInv, QueueOk, Queued, Once
  <2> QED
    BY <1>1, <1>2, <2>1 DEF QueueOk
<1>5. Waiting'
  BY <1>1, <1>2, EmptyQueue DEF NewsInv, Waiting
<1> QED
  BY <1>1, <1>3, <1>4, <1>5, QueueMoves DEF NewsInv

LEMMA PageDoneKeeps ==
    ASSUME NewsInv, PageDone, ing.up, task.polling
    PROVE  NewsInv'
<1> DEFINE new == Accepted(Page)
<1>1. /\ new \in Seq(Items) /\ Once(new) /\ Range(new) = NewOnes /\ NewOnes \subseteq Items
      /\ NewOnes \subseteq Ours /\ \A i \in NewOnes : i <= published /\ i \notin ing.seen
  BY AcceptedIs, PageIs DEF NewOnes
<1>2. /\ published \in Nat /\ ing \in [up : BOOLEAN, tag : Int, seen : SUBSET Ours, newest : Nat]
      /\ backlog \in Seq(Items) /\ received \in [Items -> {0, 1}] /\ task.todo = <<>>
      /\ lapses \in [first : Nat, lost : SUBSET Items, left : SUBSET Items]
  BY DEF NewsInv, NewsTyped, QueueOk
<1>3. /\ received' = [i \in Items |-> IF i \in NewOnes THEN 1 ELSE received[i]]
      /\ gaps \subseteq gaps' /\ gaps' \subseteq [from : Nat, to : Nat] /\ GapKept(gaps')
      /\ UNCHANGED <<published, typed, answers>>
      /\ task' = Onto(backlog \o new) /\ backlog' = <<>>
  BY DEF PageDone, PageTaken
<1> HIDE DEF new
<1> DEFINE top == Max(Page \cup {ing.newest})
           bot == FirstRead
<1>4. top \in Nat
  <2>1. Page \cup {ing.newest} \in SUBSET Nat /\ IsFiniteSet(Page \cup {ing.newest})
    BY <1>2, PageIs, FS_AddElement
  <2> QED
    BY <2>1, GreatestIs
<1>5. bot \in Nat
  BY <1>2, PageIs DEF FirstRead
<1>6. ing' = [ing EXCEPT !.tag = published, !.seen = ing.seen \cup NewOnes, !.newest = top]
  BY DEF PageDone
<1>7. lapses' = [lapses EXCEPT !.first = bot]
  BY DEF PageDone
<1> HIDE DEF top, bot
<1>8. /\ ing' \in [up : BOOLEAN, tag : Int, seen : SUBSET Ours, newest : Nat]
      /\ ing'.up /\ ing'.seen = ing.seen \cup NewOnes /\ ing'.newest = top
  <2>1. ing = [up |-> ing.up, tag |-> ing.tag, seen |-> ing.seen, newest |-> ing.newest]
    BY <1>2
  <2>2. ing' = [up |-> ing.up, tag |-> published, seen |-> ing.seen \cup NewOnes, newest |-> top]
    BY <1>6, <2>1
  <2>3. ing.seen \cup NewOnes \subseteq Ours /\ ing.up \in BOOLEAN /\ published \in Int
    BY <1>1, <1>2
  <2> QED
    BY <1>4, <2>2, <2>3
<1>9. /\ lapses' \in [first : Nat, lost : SUBSET Items, left : SUBSET Items]
      /\ lapses'.first = bot /\ lapses'.lost = lapses.lost /\ lapses'.left = lapses.left
  BY <1>2, <1>5, <1>7
<1>10. ASSUME NEW i \in NewOnes PROVE received[i] = 0 /\ received'[i] = 1 /\ typed[i] = <<>>
  <2>1. i \in Items /\ i \notin ing.seen
    BY <1>1
  <2>2. received[i] # 1
    BY <2>1 DEF NewsInv, SeenOk
  <2> QED
    BY <1>2, <1>3, <2>1, <2>2 DEF NewsInv, TypedOnce
<1>11. \A i \in Items \ NewOnes : received'[i] = received[i]
  BY <1>3
<1>12. \A i \in Range(backlog) : i \in Items /\ i \notin NewOnes /\ received[i] = 1 /\ typed[i] = <<>>
  <2>1. \A i \in Range(backlog) : received[i] = 1 /\ typed[i] = <<>>
    BY DEF NewsInv, QueueOk, Queued
  <2>2. Range(backlog) \subseteq Items
    BY <1>2, RangeOfSeq
  <2> QED
    BY <1>10, <2>1, <2>2
<1> DEFINE all == backlog \o new
<1>13. all \in Seq(Items) /\ Once(all) /\ Range(all) = Range(backlog) \cup NewOnes
  <2>1. Once(backlog)
    BY DEF NewsInv, QueueOk, Queued
  <2> QED
    BY <1>1, <1>2, <1>12, <2>1, JoinIs
<1>14. task' = Onto(all)
  BY <1>3
<1> HIDE DEF all
<1>15. /\ task' \in [polling : BOOLEAN, todo : Seq(Items), conv : ConvType]
       /\ ConvOk(task'.conv, answers') /\ task'.todo = all /\ ~task'.polling
       /\ IF all = <<>> THEN task'.conv = Quiet ELSE task'.conv # Quiet /\ task'.conv.on = Head(all)
  BY <1>13, <1>14, OntoIs
<1>16. received' \in [Items -> {0, 1}]
  BY <1>2, <1>3
<1>17. NewsTyped'
  BY <1>3, <1>8, <1>9, <1>15, <1>16 DEF NewsInv, NewsTyped
<1>18. TypedOnce'
  <2> SUFFICES ASSUME NEW i \in Items, typed[i] # <<>>
               PROVE  typed[i] = <<EventOf(i)'>> /\ received'[i] = 1
    BY <1>3 DEF TypedOnce
  <2>1. typed[i] = <<EventOf(i)>> /\ received[i] = 1
    BY DEF NewsInv, TypedOnce
  <2>2. EventOf(i)' = EventOf(i)
    BY <1>3, EventsSame
  <2> QED
    BY <1>3, <2>1, <2>2
<1>19. QueueOk'
  <2>1. Queued(backlog)'
    BY <1>3, EmptyQueue DEF Queued
  <2>2. \A i \in Range(all) : received'[i] = 1 /\ typed[i] = <<>>
    BY <1>10, <1>11, <1>12, <1>13
  <2>3. Queued(task.todo)'
    BY <1>3, <1>13, <1>15, <2>2 DEF Queued, Once
  <2> QED
    BY <1>3, <1>8, <1>15, <2>1, <2>3 DEF QueueOk
<1>20. Waiting'
  <2> SUFFICES ASSUME NEW i \in Items, received'[i] = 1, typed[i] = <<>>
               PROVE  i \in Range(all) \cup lapses.left
    BY <1>3, <1>9, <1>15 DEF Waiting
  <2>1. CASE i \in NewOnes
    BY <1>13, <2>1
  <2>2. CASE i \notin NewOnes
    <3>1. received[i] = 1
      BY <1>11, <2>2
    <3>2. i \in Range(task.todo) \cup Range(backlog) \cup lapses.left
      BY <3>1 DEF NewsInv, Waiting
    <3> QED
      BY <1>2, <1>13, <3>2, EmptyQueue
  <2> QED
    BY <2>1, <2>2
<1>21. SeenOk'
  <2>1. ASSUME NEW i \in Items, received'[i] = 1 PROVE i \in Ours /\ i <= published' /\ i \in ing'.seen
    <3>1. CASE i \in NewOnes
      BY <1>1, <1>3, <1>8, <3>1
    <3>2. CASE i \notin NewOnes
      BY <1>3, <1>8, <1>11, <2>1, <3>2 DEF NewsInv, SeenOk
    <3> QED
      BY <3>1, <3>2
  <2>2. ASSUME NEW i \in ing'.seen PROVE received'[i] = 1 \/ i \in lapses'.lost
    <3>1. CASE i \in NewOnes
      BY <1>10, <3>1
    <3>2. CASE i \notin NewOnes
      BY <1>2, <1>8, <1>9, <1>11, <2>2, <3>2, ItemsAre DEF NewsInv, SeenOk
    <3> QED
      BY <3>1, <3>2
  <2> QED
    BY <2>1, <2>2 DEF SeenOk
<1>22. FirstOk' /\ CoverOk'
  <2>1. NewOnes \in SUBSET NewOnes /\ lapses'.first = FirstRead /\ lapses.lost \subseteq lapses'.lost
    BY <1>9 DEF bot
  <2>2. ing'.newest = Max(Page \cup {ing.newest})
    BY <1>8 DEF top
  <2> QED
    BY <1>3, <1>8, <2>1, <2>2, CoverKept
<1> QED
  BY <1>17, <1>18, <1>19, <1>20, <1>21, <1>22 DEF NewsInv

LEMMA PageFailsKeeps ==
    ASSUME NewsInv, NEW G, NEW X, PageFails(G, X), ing.up, task.polling
    PROVE  NewsInv'
<1>1. /\ G \subseteq NewOnes /\ X \subseteq NewOnes /\ NewOnes \subseteq Items /\ NewOnes \subseteq Ours
      /\ \A i \in NewOnes : i <= published /\ i \notin ing.seen
  BY PageIs DEF NewOnes, PageFails, PageTaken
<1>2. /\ published \in Nat /\ ing \in [up : BOOLEAN, tag : Int, seen : SUBSET Ours, newest : Nat]
      /\ backlog \in Seq(Items) /\ received \in [Items -> {0, 1}] /\ task.todo = <<>>
      /\ lapses \in [first : Nat, lost : SUBSET Items, left : SUBSET Items]
  BY DEF NewsInv, NewsTyped, QueueOk
<1>3. /\ received' = [i \in Items |-> IF i \in G THEN 1 ELSE received[i]]
      /\ gaps \subseteq gaps' /\ gaps' \subseteq [from : Nat, to : Nat] /\ (G # {} => GapKept(gaps'))
      /\ \A i \in NewOnes, j \in G : i <= j => i \in G
      /\ UNCHANGED <<published, typed, answers>> /\ task' = Resting /\ backlog' = backlog
  BY DEF PageFails, PageTaken
<1> DEFINE bot == FirstRead
<1>4. bot \in Nat
  BY <1>2, PageIs DEF FirstRead
<1>5. ing' = [ing EXCEPT !.tag = published, !.seen = ing.seen \cup G \cup X]
  BY DEF PageFails
<1>6. lapses' = [first |-> bot, lost |-> lapses.lost \cup X, left |-> lapses.left \cup G]
  BY DEF PageFails
<1> HIDE DEF bot
<1>7. /\ ing' \in [up : BOOLEAN, tag : Int, seen : SUBSET Ours, newest : Nat]
      /\ ing'.up /\ ing'.seen = ing.seen \cup G \cup X /\ ing'.newest = ing.newest
  <2>1. ing = [up |-> ing.up, tag |-> ing.tag, seen |-> ing.seen, newest |-> ing.newest]
    BY <1>2
  <2>2. ing' = [up |-> ing.up, tag |-> published, seen |-> ing.seen \cup G \cup X, newest |-> ing.newest]
    BY <1>5, <2>1
  <2>3. ing.seen \cup G \cup X \subseteq Ours /\ ing.up \in BOOLEAN /\ published \in Int
    BY <1>1, <1>2
  <2> QED
    BY <1>2, <2>2, <2>3
<1>8. /\ lapses' \in [first : Nat, lost : SUBSET Items, left : SUBSET Items]
      /\ lapses'.first = bot /\ lapses'.lost = lapses.lost \cup X /\ lapses'.left = lapses.left \cup G
  <2>1. lapses.lost \cup X \subseteq Items /\ lapses.left \cup G \subseteq Items
    BY <1>1, <1>2
  <2> QED
    BY <1>4, <1>6, <2>1
<1>9. /\ \A i \in G : received'[i] = 1 /\ i \in Items
      /\ \A i \in Items : received[i] = 1 => received'[i] = 1
      /\ \A i \in Items : received'[i] = 1 => received[i] = 1 \/ i \in G
      /\ received' \in [Items -> {0, 1}]
  BY <1>1, <1>2, <1>3
<1>10. /\ task' = [polling |-> FALSE, todo |-> <<>>, conv |-> Quiet]
       /\ ConvOk(Quiet, answers') /\ Quiet \in ConvType
  BY <1>3 DEF Resting, ConvOk, ConvType, Quiet
<1>11. NewsTyped'
  BY <1>3, <1>7, <1>8, <1>9, <1>10 DEF NewsInv, NewsTyped
<1>12. TypedOnce'
  <2> SUFFICES ASSUME NEW i \in Items, typed[i] # <<>>
               PROVE  typed[i] = <<EventOf(i)'>> /\ received'[i] = 1
    BY <1>3 DEF TypedOnce
  <2>1. typed[i] = <<EventOf(i)>> /\ received[i] = 1
    BY DEF NewsInv, TypedOnce
  <2>2. EventOf(i)' = EventOf(i)
    BY <1>3, EventsSame
  <2> QED
    BY <1>9, <2>1, <2>2
<1>13. QueueOk'
  <2>1. Queued(task.todo)'
    BY <1>10, EmptyQueue DEF Queued
  <2>2. \A i \in Range(backlog) : received'[i] = 1 /\ typed[i] = <<>>
    <3>1. \A i \in Range(backlog) : received[i] = 1 /\ typed[i] = <<>>
      BY DEF NewsInv, QueueOk, Queued
    <3>2. Range(backlog) \subseteq Items
      BY <1>2, RangeOfSeq
    <3> QED
      BY <1>9, <3>1, <3>2
  <2>3. Queued(backlog)'
    BY <1>3, <2>2 DEF NewsInv, QueueOk, Queued, Once
  <2> QED
    BY <1>7, <1>10, <2>1, <2>3 DEF QueueOk
<1>14. Waiting'
  <2> SUFFICES ASSUME NEW i \in Items, received'[i] = 1, typed[i] = <<>>
               PROVE  i \in Range(backlog) \cup lapses'.left
    BY <1>3 DEF Waiting
  <2>1. CASE received[i] = 1
    <3>1. i \in Range(task.todo) \cup Range(backlog) \cup lapses.left
      BY <1>7, <2>1 DEF NewsInv, Waiting
    <3> QED
      BY <1>2, <1>8, <3>1, EmptyQueue
  <2>2. CASE received[i] # 1
    BY <1>8, <1>9, <2>2
  <2> QED
    BY <2>1, <2>2
<1>15. SeenOk'
  <2>1. ASSUME NEW i \in Items, received'[i] = 1 PROVE i \in Ours /\ i <= published' /\ i \in ing'.seen
    <3>1. CASE i \in G
      BY <1>1, <1>3, <1>7, <3>1
    <3>2. CASE i \notin G
      BY <1>3, <1>7, <1>9, <2>1, <3>2 DEF NewsInv, SeenOk
    <3> QED
      BY <3>1, <3>2
  <2>2. ASSUME NEW i \in ing'.seen PROVE received'[i] = 1 \/ i \in lapses'.lost
    <3>1. CASE i \in G \cup X
      BY <1>8, <1>9, <3>1
    <3>2. CASE i \notin G \cup X
      <4>1. i \in ing.seen /\ i \in Items
        BY <1>2, <1>7, <2>2, <3>2, ItemsAre
      <4>2. received[i] = 1 \/ i \in lapses.lost
        BY <1>7, <4>1 DEF NewsInv, SeenOk
      <4> QED
        BY <1>8, <1>9, <4>1, <4>2
    <3> QED
      BY <3>1, <3>2
  <2> QED
    BY <2>1, <2>2 DEF SeenOk
<1>16. FirstOk' /\ CoverOk'
  <2>1. G \in SUBSET NewOnes /\ lapses'.first = FirstRead /\ lapses.lost \subseteq lapses'.lost
    BY <1>1, <1>8 DEF bot
  <2> QED
    BY <1>3, <1>7, <2>1, CoverKept
<1> QED
  BY <1>11, <1>12, <1>13, <1>14, <1>15, <1>16 DEF NewsInv

LEMMA PageDiesKeeps ==
    ASSUME NewsInv, NEW G, PageDies(G), ing.up, task.polling
    PROVE  NewsInv'
<1>1. /\ G \subseteq NewOnes /\ NewOnes \subseteq Items /\ NewOnes \subseteq Ours
      /\ \A i \in NewOnes : i <= published /\ i \notin ing.seen
  BY PageIs DEF NewOnes, PageDies, PageTaken
<1>2. /\ published \in Nat /\ ing \in [up : BOOLEAN, tag : Int, seen : SUBSET Ours, newest : Nat]
      /\ received \in [Items -> {0, 1}]
      /\ lapses \in [first : Nat, lost : SUBSET Items, left : SUBSET Items]
  BY DEF NewsInv, NewsTyped
<1>3. /\ received' = [i \in Items |-> IF i \in G THEN 1 ELSE received[i]]
      /\ gaps \subseteq gaps' /\ gaps' \subseteq [from : Nat, to : Nat] /\ (G # {} => GapKept(gaps'))
      /\ \A i \in NewOnes, j \in G : i <= j => i \in G
      /\ UNCHANGED <<published, typed, answers>> /\ task' = Resting /\ backlog' = <<>>
  BY DEF PageDies, PageTaken
<1> DEFINE bot == FirstRead
<1>4. bot \in Nat
  BY <1>2, PageIs DEF FirstRead
<1>5. ing' = [ing EXCEPT !.up = FALSE]
  BY DEF PageDies
<1>6. lapses' = [lapses EXCEPT !.first = bot]
  BY DEF PageDies
<1> HIDE DEF bot
<1>7. ing' \in [up : BOOLEAN, tag : Int, seen : SUBSET Ours, newest : Nat] /\ ~ing'.up
  BY <1>2, <1>5
<1>8. /\ lapses' \in [first : Nat, lost : SUBSET Items, left : SUBSET Items]
      /\ lapses'.first = bot /\ lapses'.lost = lapses.lost
  BY <1>2, <1>4, <1>6
<1>9. /\ \A i \in G : received'[i] = 1 /\ i \in Items
      /\ \A i \in Items : received[i] = 1 => received'[i] = 1
      /\ \A i \in Items : received'[i] = 1 => received[i] = 1 \/ i \in G
      /\ received' \in [Items -> {0, 1}]
  BY <1>1, <1>2, <1>3
<1>10. /\ task' = [polling |-> FALSE, todo |-> <<>>, conv |-> Quiet]
       /\ ConvOk(Quiet, answers') /\ Quiet \in ConvType
  BY <1>3 DEF Resting, ConvOk, ConvType, Quiet
<1>11. NewsTyped'
  BY <1>3, <1>7, <1>8, <1>9, <1>10 DEF NewsInv, NewsTyped
<1>12. TypedOnce'
  <2> SUFFICES ASSUME NEW i \in Items, typed[i] # <<>>
               PROVE  typed[i] = <<EventOf(i)'>> /\ received'[i] = 1
    BY <1>3 DEF TypedOnce
  <2>1. typed[i] = <<EventOf(i)>> /\ received[i] = 1
    BY DEF NewsInv, TypedOnce
  <2>2. EventOf(i)' = EventOf(i)
    BY <1>3, EventsSame
  <2> QED
    BY <1>9, <2>1, <2>2
<1>13. QueueOk'
  <2>1. Queued(task.todo)' /\ Queued(backlog)'
    BY <1>3, <1>10, EmptyQueue DEF Queued
  <2> QED
    BY <1>3, <1>10, <2>1 DEF QueueOk
<1>14. Waiting'
  BY <1>7 DEF Waiting
<1>15. SeenOk'
  <2>1. ASSUME NEW i \in Items, received'[i] = 1 PROVE i \in Ours /\ i <= published'
    <3>1. CASE i \in G
      BY <1>1, <1>3, <3>1
    <3>2. CASE i \notin G
      BY <1>3, <1>9, <2>1, <3>2 DEF NewsInv, SeenOk
    <3> QED
      BY <3>1, <3>2
  <2> QED
    BY <1>7, <2>1 DEF SeenOk
<1>16. FirstOk' /\ CoverOk'
  <2>1. G \in SUBSET NewOnes /\ lapses'.first = FirstRead /\ lapses.lost \subseteq lapses'.lost
    BY <1>1, <1>8 DEF bot
  <2> QED
    BY <1>3, <1>7, <2>1, CoverKept
<1> QED
  BY <1>11, <1>12, <1>13, <1>14, <1>15, <1>16 DEF NewsInv

LEMMA FetchedKeeps ==
    ASSUME NewsInv, NEW n \in Nat, NEW how \in {"done", "fails", "dies"}, Fetched(n, how)
    PROVE  NewsInv'
<1>1. ing.up /\ task.polling
  BY DEF Fetched
<1>2. CASE PageDone
  BY <1>1, <1>2, PageDoneKeeps
<1>3. CASE \E G, X \in SUBSET NewOnes : PageFails(G, X)
  BY <1>1, <1>3, PageFailsKeeps
<1>4. CASE \E G \in SUBSET NewOnes : PageDies(G)
  BY <1>1, <1>4, PageDiesKeeps
<1> QED
  BY <1>2, <1>3, <1>4, FetchedIs

(* One announcement's conversation goes on, or ends in its one event.      *)
LEMMA ClassifyKeeps ==
    ASSUME AnswersOk(answers), NewsInv, NEW reply, NEW stored \in BOOLEAN, Classify(reply, stored)
    PROVE  NewsInv' /\ AnswersOk(answers')
<1>0. PICK c, x : c = task.conv /\ x = c.on
  OBVIOUS
<1> DEFINE d == Heard(c, reply)
<1>1. /\ ing.up /\ MayReply(c, reply) /\ answers' = Keeps(c, reply)
      /\ UNCHANGED <<published, ing, backlog, received, gaps>>
      /\ d.at # "said" => task' = [task EXCEPT !.conv = d] /\ UNCHANGED <<typed, lapses>>
      /\ d.at = "said" =>
            /\ task' = Onto(Tail(task.todo))
            /\ typed' = IF stored THEN [typed EXCEPT ![x] = Append(@,
                            [relevant |-> Relevant(x, d.said), said |-> d.said])] ELSE typed
            /\ lapses' = IF stored THEN lapses ELSE [lapses EXCEPT !.left = @ \cup {x}]
  BY <1>0 DEF Classify
<1>2. ConvOk(c, answers)
  BY <1>0 DEF NewsInv, NewsTyped
<1>3. /\ c # Quiet /\ d \in ConvType /\ d.on = x /\ AnswersOk(answers')
      /\ \A m \in DecisionModels, y \in Subjects \ {x} : answers'[m][y] = answers[m][y]
      /\ d.at = "said" => d.said = Decided(x)'
      /\ d.at # "said" => ConvOk(d, answers') /\ d # Quiet
  BY <1>0, <1>1, <1>2, Hears
<1>4. /\ task.todo # <<>> /\ x = Head(task.todo) /\ backlog = <<>> /\ ~task.polling
      /\ Queued(task.todo)
  BY <1>0, <1>3 DEF NewsInv, QueueOk
<1>5. /\ task \in [polling : BOOLEAN, todo : Seq(Items), conv : ConvType]
      /\ lapses \in [first : Nat, lost : SUBSET Items, left : SUBSET Items]
      /\ typed = [i \in Items |-> typed[i]]
  BY DEF NewsInv, NewsTyped
<1>6. /\ Tail(task.todo) \in Seq(Items) /\ Once(Tail(task.todo)) /\ x \in Items
      /\ Range(task.todo) = Range(Tail(task.todo)) \cup {x} /\ x \notin Range(Tail(task.todo))
  BY <1>4, <1>5, TailOnce DEF Queued
<1>7. received[x] = 1 /\ typed[x] = <<>>
  BY <1>4, <1>6 DEF Queued
<1>8. \A i \in Items \ {x} : EventOf(i)' = EventOf(i)
  BY <1>3, EventsSame, ItemsAre
<1>9. FirstOk' /\ SeenOk' /\ CoverOk'
  <2>1. lapses'.first = lapses.first /\ lapses'.lost = lapses.lost
    BY <1>1, <1>5
  <2>2. UNCHANGED <<published, ing, received, gaps>>
    BY <1>1
  <2> QED
    BY <2>1, <2>2 DEF NewsInv, FirstOk, SeenOk, CoverOk, Page, Covered, Behind
<1> HIDE DEF d
<1>10. CASE d.at # "said"
  <2>1. task' = [task EXCEPT !.conv = d] /\ UNCHANGED <<typed, lapses>>
    BY <1>1, <1>10
  <2>2. task'.todo = task.todo /\ task'.conv = d /\ task'.polling = task.polling
    BY <1>5, <2>1
  <2>3. task' \in [polling : BOOLEAN, todo : Seq(Items), conv : ConvType]
    BY <1>3, <1>5, <2>1
  <2>4. NewsTyped'
    BY <1>1, <1>3, <1>10, <2>1, <2>2, <2>3 DEF NewsInv, NewsTyped
  <2>5. TypedOnce'
    <3> SUFFICES ASSUME NEW i \in Items, typed[i] # <<>>
                 PROVE  typed[i] = <<EventOf(i)'>> /\ received[i] = 1
      BY <1>1, <2>1 DEF TypedOnce
    <3>1. i # x
      BY <1>7
    <3> QED
      BY <1>8, <3>1 DEF NewsInv, TypedOnce
  <2>6. QueueOk'
    <3>1. Queued(task.todo)' /\ Queued(backlog)'
      BY <1>1, <1>4, <2>1, <2>2, EmptyQueue DEF Queued, Once
    <3> QED
      BY <1>1, <1>3, <1>4, <1>10, <2>2, <3>1 DEF QueueOk
  <2>7. Waiting'
    BY <1>1, <2>1, <2>2 DEF NewsInv, Waiting
  <2> QED
    BY <1>3, <1>9, <2>4, <2>5, <2>6, <2>7 DEF NewsInv
<1>11. CASE d.at = "said"
  <2> DEFINE e == [relevant |-> Relevant(x, d.said), said |-> d.said]
             rest == Tail(task.todo)
  <2>1. /\ task' = Onto(rest)
        /\ typed' = IF stored THEN [typed EXCEPT ![x] = Append(@, e)] ELSE typed
        /\ lapses' = IF stored THEN lapses ELSE [lapses EXCEPT !.left = @ \cup {x}]
    BY <1>1, <1>11
  <2>2. e = EventOf(x)'
    BY <1>3, <1>11 DEF EventOf, Relevant
  <2> HIDE DEF e, rest
  <2>3. /\ rest \in Seq(Items) /\ Once(rest) /\ Range(task.todo) = Range(rest) \cup {x} /\ x \notin Range(rest)
    BY <1>6 DEF rest
  <2>4. /\ task' \in [polling : BOOLEAN, todo : Seq(Items), conv : ConvType]
        /\ ConvOk(task'.conv, answers') /\ task'.todo = rest /\ ~task'.polling
        /\ IF rest = <<>> THEN task'.conv = Quiet ELSE task'.conv # Quiet /\ task'.conv.on = Head(rest)
    BY <2>1, <2>3, OntoIs
  <2>5. /\ typed' = [i \in Items |-> typed'[i]]
        /\ \A i \in Items \ {x} : typed'[i] = typed[i]
        /\ typed'[x] = IF stored THEN <<e>> ELSE <<>>
    <3>1. CASE stored
      <4>1. typed' = [typed EXCEPT ![x] = Append(typed[x], e)]
        BY <2>1, <3>1
      <4>2. Append(typed[x], e) = <<e>>
        BY <1>7
      <4>3. typed' = [i \in Items |-> IF i = x THEN <<e>> ELSE typed[i]]
        BY <1>5, <4>1, <4>2
      <4> QED
        BY <1>6, <3>1, <4>3
    <3>2. CASE ~stored
      BY <1>5, <1>7, <2>1, <3>2
    <3> QED
      BY <3>1, <3>2
  <2>6. /\ lapses' \in [first : Nat, lost : SUBSET Items, left : SUBSET Items]
        /\ lapses'.left = IF stored THEN lapses.left ELSE lapses.left \cup {x}
    BY <1>5, <1>6, <2>1
  <2>7. NewsTyped'
    BY <1>1, <2>4, <2>5, <2>6 DEF NewsInv, NewsTyped
  <2>8. TypedOnce'
    <3> SUFFICES ASSUME NEW i \in Items, typed'[i] # <<>>
                 PROVE  typed'[i] = <<EventOf(i)'>> /\ received[i] = 1
      BY <1>1 DEF TypedOnce
    <3>1. CASE i = x
      BY <1>7, <2>2, <2>5, <3>1
    <3>2. CASE i # x
      BY <1>8, <2>5, <3>2 DEF NewsInv, TypedOnce
    <3> QED
      BY <3>1, <3>2
  <2>9. QueueOk'
    <3>1. \A i \in Range(rest) : received[i] = 1 /\ typed'[i] = <<>>
      <4>1. \A i \in Range(rest) : received[i] = 1 /\ typed[i] = <<>> /\ i # x
        BY <1>4, <2>3 DEF Queued
      <4>2. Range(rest) \subseteq Items
        BY <2>3, RangeOfSeq
      <4> QED
        BY <2>5, <4>1, <4>2
    <3>2. Queued(task.todo)' /\ Queued(backlog)'
      BY <1>1, <1>4, <2>3, <2>4, <3>1, EmptyQueue DEF Queued, Once
    <3> QED
      BY <1>1, <1>4, <2>4, <3>2 DEF QueueOk
  <2>10. Waiting'
    <3> SUFFICES ASSUME NEW i \in Items, received[i] = 1, typed'[i] = <<>>
                 PROVE  i \in Range(rest) \cup lapses'.left
      BY <1>1, <2>4 DEF Waiting
    <3>1. CASE i = x
      BY <2>5, <2>6, <3>1
    <3>2. CASE i # x
      <4>1. i \in Range(task.todo) \cup Range(backlog) \cup lapses.left
        BY <1>1, <2>5, <3>2 DEF NewsInv, Waiting
      <4> QED
        BY <1>4, <2>3, <2>6, <3>2, <4>1, EmptyQueue
    <3> QED
      BY <3>1, <3>2
  <2> QED
    BY <1>3, <1>9, <2>7, <2>8, <2>9, <2>10 DEF NewsInv
<1> QED
  BY <1>10, <1>11

(* The process ends with what it had in memory; the next one reads the log.*)
LEMMA NewsEndsKeeps ==
    ASSUME NewsInv, NewsEnds
    PROVE  NewsInv'
<1>1. /\ ing' = [ing EXCEPT !.up = FALSE] /\ task' = Resting /\ backlog' = <<>>
      /\ UNCHANGED <<published, received, gaps, typed, lapses, answers>>
  BY DEF NewsEnds
<1>2. ing' \in [up : BOOLEAN, tag : Int, seen : SUBSET Ours, newest : Nat] /\ ~ing'.up
  BY <1>1 DEF NewsInv, NewsTyped
<1>3. /\ task' = [polling |-> FALSE, todo |-> <<>>, conv |-> Quiet]
      /\ ConvOk(Quiet, answers') /\ Quiet \in ConvType
  BY <1>1 DEF Resting, ConvOk, ConvType, Quiet
<1>4. NewsTyped'
  <2>1. task' \in [polling : BOOLEAN, todo : Seq(Items), conv : ConvType] /\ ConvOk(task'.conv, answers')
    BY <1>3
  <2>2. UNCHANGED <<published, received, gaps, typed, lapses, answers>> /\ backlog' \in Seq(Items)
    BY <1>1
  <2> QED
    BY <1>2, <2>1, <2>2 DEF NewsInv, NewsTyped
<1>5. TypedOnce'
  BY <1>1, EventsSame DEF NewsInv, TypedOnce
<1>6. QueueOk'
  <2>1. Queued(task.todo)' /\ Queued(backlog)'
    BY <1>1, <1>3, EmptyQueue DEF Queued
  <2> QED
    BY <1>1, <1>3, <2>1 DEF QueueOk
<1>7. Waiting' /\ SeenOk'
  BY <1>1, <1>2 DEF NewsInv, Waiting, SeenOk
<1>8. FirstOk' /\ CoverOk'
  BY <1>1, <1>2 DEF NewsInv, FirstOk, CoverOk, Page, Behind, Covered
<1> QED
  BY <1>4, <1>5, <1>6, <1>7, <1>8 DEF NewsInv

LEMMA NewsStartsKeeps ==
    ASSUME NewsInv, ~ing.up, NewsStarts
    PROVE  NewsInv'
<1> DEFINE known == {i \in Items : OnRecord(i)}
           top   == Max(known \cup {0})
           left  == Unclassified
<1>1. /\ ing' = [up |-> TRUE, tag |-> -1, seen |-> known, newest |-> top]
      /\ backlog' = OldestFirst(left) /\ lapses' = [lapses EXCEPT !.left = {}]
      /\ UNCHANGED <<published, task, received, gaps, typed, answers>>
  BY DEF NewsStarts, Watermark
<1>2. /\ received \in [Items -> {0, 1}] /\ published \in Nat /\ task = Resting
      /\ lapses \in [first : Nat, lost : SUBSET Items, left : SUBSET Items]
  BY DEF NewsInv, NewsTyped, QueueOk
<1>3. known = {i \in Items : received[i] = 1} /\ left = {i \in Items : received[i] = 1 /\ typed[i] = <<>>}
  BY <1>2 DEF OnRecord, Unclassified
<1>4. IsFiniteSet(known \cup {0}) /\ IsFiniteSet(left) /\ known \cup {0} \in SUBSET Nat /\ left \in SUBSET Nat
  <2>1. known \subseteq Items /\ left \subseteq Items /\ IsFiniteSet(Items) /\ Items \subseteq Nat
    BY <1>3, NewsAssumption
  <2>2. IsFiniteSet(known) /\ IsFiniteSet(left)
    BY <2>1, FS_Subset
  <2>3. IsFiniteSet(known \cup {0})
    BY <2>2, FS_AddElement
  <2>4. known \subseteq Nat /\ left \subseteq Nat
    BY <2>1
  <2> HIDE DEF known, left
  <2> QED
    BY <2>2, <2>3, <2>4
<1>5. top \in known \cup {0} /\ top \in Nat
  BY <1>4, GreatestIs
<1>6. known \subseteq Ours
  BY <1>3 DEF NewsInv, SeenOk
<1> HIDE DEF known, top, left
<1>7. /\ ing' \in [up : BOOLEAN, tag : Int, seen : SUBSET Ours, newest : Nat]
      /\ ing'.up /\ ing'.seen = known /\ ing'.newest = top
  BY <1>1, <1>5, <1>6
<1>8. /\ lapses' \in [first : Nat, lost : SUBSET Items, left : SUBSET Items]
      /\ lapses'.first = lapses.first /\ lapses'.lost = lapses.lost /\ lapses'.left = {}
  BY <1>1, <1>2
<1>9. /\ backlog' \in Seq(Items) /\ Once(backlog') /\ Range(backlog') = left
  <2>1. OldestFirst(left) \in Seq(left) /\ Range(OldestFirst(left)) = left /\ Once(OldestFirst(left))
    BY <1>4, OldestFirstIs
  <2>2. OldestFirst(left) \in Seq(Items)
    BY <1>3, <2>1, SeqMonotonic
  <2> QED
    BY <1>1, <2>1, <2>2
<1>10. NewsTyped'
  BY <1>1, <1>7, <1>8, <1>9 DEF NewsInv, NewsTyped
<1>11. TypedOnce'
  BY <1>1, EventsSame DEF NewsInv, TypedOnce
<1>12. QueueOk'
  <2>1. Queued(backlog)'
    BY <1>1, <1>3, <1>9 DEF Queued, Once
  <2>2. task = [polling |-> FALSE, todo |-> <<>>, conv |-> Quiet]
    BY <1>2 DEF Resting
  <2>3. Queued(task.todo)'
    BY <1>1, <2>2, EmptyQueue DEF Queued
  <2> QED
    BY <1>1, <1>7, <2>1, <2>2, <2>3 DEF QueueOk
<1>13. Waiting'
  BY <1>1, <1>3, <1>9 DEF Waiting
<1>14. SeenOk'
  BY <1>1, <1>3, <1>7 DEF NewsInv, SeenOk
<1>15. FirstOk'
  <2>1. CASE lapses.first = 0
    <3>1. \A i \in Items : received[i] = 0
      BY <2>1 DEF NewsInv, FirstOk
    <3>2. top = 0
      BY <1>3, <1>5, <3>1
    <3> QED
      BY <1>1, <1>7, <1>8, <2>1, <3>1, <3>2 DEF FirstOk
  <2>2. CASE lapses.first # 0
    BY <1>1, <1>8, <2>2 DEF NewsInv, FirstOk, Page
  <2> QED
    BY <2>1, <2>2
<1>16. CoverOk'
  <2> SUFFICES ASSUME lapses.first > 0, NEW i \in Ours, lapses.first <= i, Behind(i)' PROVE Covered(i)'
    BY <1>8 DEF CoverOk
  <2>1. i \in Nat \ {0}
    BY ItemsAre
  <2>2. Behind(i)
    <3>1. \/ i <= top
          \/ \E j \in Items : received[j] = 1 /\ i <= j
      BY <1>1, <1>7 DEF Behind
    <3>2. i <= top => top \in Items /\ received[top] = 1
      BY <1>3, <1>5, <2>1
    <3> QED
      BY <3>1, <3>2 DEF Behind
  <2>3. Covered(i)
    BY <2>2 DEF NewsInv, CoverOk
  <2> QED
    BY <1>1, <1>8, <2>3 DEF Covered
<1> QED
  BY <1>10, <1>11, <1>12, <1>13, <1>14, <1>15, <1>16 DEF NewsInv

LEMMA NewsInvInit ==
    ASSUME NewsInit
    PROVE  NewsInv /\ AnswersOk(answers)
<1>1. /\ published = 0 /\ backlog = <<>>
      /\ ing = [up |-> TRUE, tag |-> -1, seen |-> {}, newest |-> 0]
      /\ received = [i \in Items |-> 0] /\ gaps = {} /\ typed = [i \in Items |-> <<>>]
      /\ lapses = [lost |-> {}, left |-> {}, first |-> 0]
      /\ answers = [m \in DecisionModels |-> [x \in Subjects |-> None]]
  BY DEF NewsInit, NoLapses, CascadeInit
<1>2. task = [polling |-> FALSE, todo |-> <<>>, conv |-> Quiet] /\ ConvOk(Quiet, answers) /\ Quiet \in ConvType
  BY DEF NewsInit, Resting, ConvOk, ConvType, Quiet
<1>3. AnswersOk(answers)
  BY <1>1 DEF AnswersOk, DecisionModels, Known, None
<1>4. NewsTyped
  <2>1. 1 .. 0 \subseteq Items /\ 0 \in Nat /\ -1 \in Int
    OBVIOUS
  <2> QED
    BY <1>1, <1>2, <2>1 DEF NewsTyped
<1>5. TypedOnce /\ Waiting /\ SeenOk
  BY <1>1 DEF TypedOnce, Waiting, SeenOk
<1>6. QueueOk
  BY <1>1, <1>2, EmptyQueue DEF QueueOk
<1>7. FirstOk /\ CoverOk
  BY <1>1 DEF FirstOk, CoverOk
<1> QED
  BY <1>3, <1>4, <1>5, <1>6, <1>7 DEF NewsInv

LEMMA AccountedIs ==
    ASSUME NewsInv
    PROVE  Accounted
<1>1. /\ received \in [Items -> {0, 1}] /\ published \in Nat
      /\ lapses \in [first : Nat, lost : SUBSET Items, left : SUBSET Items] /\ ing.newest \in Nat
  BY DEF NewsInv, NewsTyped
<1>2. ASSUME ing.up, lapses.first > 0, NEW i \in Ours, i \in lapses.first .. ing.newest
      PROVE  \/ received[i] > 0 \/ i \in lapses.lost
             \/ \E g \in gaps : g.from < i /\ i < g.to
  <2>1. lapses.first <= i /\ Behind(i)
    BY <1>1, <1>2 DEF Behind
  <2>2. Covered(i)
    BY <1>2, <2>1 DEF NewsInv, CoverOk
  <2> QED
    BY <2>2 DEF Covered
<1>3. ASSUME NEW i \in Items
      PROVE  /\ received[i] <= 1 /\ Len(typed[i]) <= 1
             /\ received[i] = 1 /\ typed[i] = <<>> /\ ing.up =>
                  i \in Range(backlog) \cup Range(task.todo) \cup lapses.left
             /\ \A e \in Range(typed[i]) : ~e.relevant =>
                  /\ i \notin Results
                  /\ \/ Read("laya", i) = "no"
                     \/ Read("laya", i) \in {None, "band"} /\ Read("jev", i) = "no"
  <2>1. received[i] <= 1
    BY <1>1
  <2>2. received[i] = 1 /\ typed[i] = <<>> /\ ing.up =>
            i \in Range(backlog) \cup Range(task.todo) \cup lapses.left
    BY DEF NewsInv, Waiting
  <2>3. typed[i] = <<>> \/ typed[i] = <<EventOf(i)>>
    BY DEF NewsInv, TypedOnce
  <2>4. Len(typed[i]) <= 1
    <3>1. Len(<<>>) = 0 /\ \A e : Len(<<e>>) = 1
      OBVIOUS
    <3>2. Len(typed[i]) \in {0, 1}
      BY <2>3, <3>1
    <3>3. \A n \in {0, 1} : n <= 1
      OBVIOUS
    <3> QED
      BY <3>2, <3>3
  <2>5. ASSUME NEW e \in Range(typed[i]), ~e.relevant
        PROVE  /\ i \notin Results
               /\ \/ Read("laya", i) = "no"
                  \/ Read("laya", i) \in {None, "band"} /\ Read("jev", i) = "no"
    <3>1. e = EventOf(i)
      <4>1. typed[i] = <<EventOf(i)>>
        BY <2>3, <2>5, EmptyQueue
      <4>2. Range(<<EventOf(i)>>) = {EventOf(i)}
        BY DEF Range
      <4> QED
        BY <2>5, <4>1, <4>2
    <3>2. ~Relevant(i, Decided(i))
      BY <2>5, <3>1 DEF EventOf
    <3>3. i \notin Results /\ Decided(i) = "no"
      BY <3>2 DEF Relevant
    <3>4. \/ Read("laya", i) = "no"
          \/ Read("laya", i) \in {None, "band"} /\ Read("jev", i) = "no"
      BY <3>3 DEF Decided, Outcome
    <3> QED
      BY <3>3, <3>4
  <2> QED
    BY <2>1, <2>2, <2>4, <2>5
<1> QED
  BY <1>2, <1>3 DEF Accounted

(* The reviews of the cycle.  What a replay of a prompt comes to: the      *)
(* answer of the first model of the chain that has one.                    *)
LEMMA EngineChain ==
    /\ "engine" \in Routers /\ "labels" \in Routers /\ Chain["engine"] \in Seq(Models)
    /\ Len(Chain["engine"]) \in Nat /\ DOMAIN Chain["engine"] = 1 .. Len(Chain["engine"])
    /\ \A k \in DOMAIN Chain["engine"] : Chain["engine"][k] \in Models
<1>1. "engine" \in Routers /\ "labels" \in Routers /\ Chain["engine"] \in Seq(Models)
  BY AdviceAssumption, RouterAssumption
<1> QED
  BY <1>1, LenProperties

LEMMA RepliesSame ==
    ASSUME NEW p, \A m \in Models : cache'[m][p] = cache[m][p]
    PROVE  ReplayedReply(p)' = ReplayedReply(p)
<1> DEFINE chain == Chain["engine"]
           hits  == {k \in DOMAIN chain : cache[chain[k]][p] # Nothing}
           after == {k \in DOMAIN chain : cache'[chain[k]][p] # Nothing}
<1>1. after = hits /\ \A k \in DOMAIN chain : cache'[chain[k]][p] = cache[chain[k]][p]
  BY EngineChain
<1>2. /\ ReplayedReply(p) = IF hits = {} THEN "failed" ELSE cache[chain[Min(hits)]][p]
      /\ ReplayedReply(p)' = IF after = {} THEN "failed" ELSE cache'[chain[Min(after)]][p]
  BY DEF ReplayedReply
<1>3. hits # {} => Min(hits) \in DOMAIN chain
  <2>1. hits \in SUBSET Nat /\ hits \subseteq DOMAIN chain
    BY EngineChain
  <2> HIDE DEF hits
  <2> QED
    BY <2>1, LeastExists
<1> HIDE DEF hits, after, chain
<1> QED
  BY <1>1, <1>2, <1>3

LEMMA FirstReply ==
    ASSUME NEW p, NEW v, v # Nothing, NEW i \in DOMAIN Chain["engine"], cache'[Chain["engine"][i]][p] = v,
           \A j \in 1 .. i : cache'[Chain["engine"][j]][p] \in {Nothing, v}
    PROVE  ReplayedReply(p)' = v
<1> DEFINE chain == Chain["engine"]
           hits  == {k \in DOMAIN chain : cache'[chain[k]][p] # Nothing}
<1>1. hits \in SUBSET Nat /\ i \in hits
  BY EngineChain
<1>2. ReplayedReply(p)' = IF hits = {} THEN "failed" ELSE cache'[chain[Min(hits)]][p]
  BY DEF ReplayedReply
<1>3. Min(hits) \in hits /\ Min(hits) <= i
  <2> HIDE DEF hits
  <2> QED
    BY <1>1, LeastExists
<1> DEFINE f == Min(hits)
<1>4. f \in 1 .. i /\ cache'[chain[f]][p] # Nothing
  <2> HIDE DEF f
  <2>1. f \in hits /\ f <= i
    BY <1>3 DEF f
  <2> QED
    BY <2>1, EngineChain
<1> HIDE DEF f, hits
<1>5. ReplayedReply(p)' = cache'[chain[f]][p]
  BY <1>1, <1>2 DEF f
<1> QED
  BY <1>4, <1>5

LEMMA NoReplies ==
    ASSUME NEW p, \A j \in DOMAIN Chain["engine"] : cache'[Chain["engine"][j]][p] = Nothing
    PROVE  ReplayedReply(p)' = "failed"
<1> DEFINE hits == {k \in DOMAIN Chain["engine"] : cache'[Chain["engine"][k]][p] # Nothing}
<1>1. hits = {}
  OBVIOUS
<1>2. ReplayedReply(p)' = IF hits = {} THEN "failed" ELSE cache'[Chain["engine"][Min(hits)]][p]
  BY DEF ReplayedReply
<1> QED
  BY <1>1, <1>2

(* Where a walk down the chain leads when no model above has an answer.    *)
ClearTo(p, k) == \A j \in 1 .. k : cache[Chain["engine"][j]][p] = Nothing

LEMMA WalkSays ==
    ASSUME CapInv, NEW rt, NEW p \in DOMAIN result, NEW k \in Nat, ClearTo(p, k),
           Walk("engine", rt, p, k + 1), cache' = cache
    PROVE  /\ DOMAIN result' = DOMAIN result
           /\ \/ /\ call'["engine"].on /\ call'["engine"].prompt = p
                 /\ ClearTo(p, call'["engine"].k)
              \/ ~call'["engine"].on /\ result'[p] = ReplayedReply(p)'
<1> DEFINE chain == Chain["engine"]
           stops == {i \in k + 1 .. Len(chain) :
                        cache[chain[i]][p] # Nothing \/ Admits(rt, chain[i], p)}
           i     == Min(stops)
<1>1. /\ IF stops = {}
         THEN call' = [call EXCEPT !["engine"] = NoCall] /\ result' = [result EXCEPT ![p] = "failed"]
         ELSE IF cache[chain[i]][p] # Nothing
         THEN /\ call' = [call EXCEPT !["engine"] = NoCall]
              /\ result' = [result EXCEPT ![p] = cache[chain[i]][p]]
         ELSE /\ call' = [call EXCEPT !["engine"] = [on |-> TRUE, prompt |-> p, k |-> i, since |-> now]]
              /\ UNCHANGED result
  BY Zenon DEF Walk
<1>2. "engine" \in DOMAIN call
  BY EngineChain DEF CapInv
<1>3. stops # {} => i \in stops /\ \A j \in stops : i <= j
  <2>1. stops \in SUBSET Nat
    BY EngineChain
  <2> HIDE DEF stops
  <2> QED
    BY <2>1, LeastExists
<1>4. \A j \in k + 1 .. Len(chain) : j \notin stops => cache[chain[j]][p] = Nothing
  OBVIOUS
<1>5. stops \subseteq k + 1 .. Len(chain)
  OBVIOUS
<1> HIDE DEF stops, i
<1>6. CASE stops = {}
  <2>1. \A j \in DOMAIN chain : cache'[chain[j]][p] = Nothing
    <3> SUFFICES ASSUME NEW j \in 1 .. Len(chain) PROVE cache[chain[j]][p] = Nothing
      BY EngineChain
    <3> QED
      BY <1>4, <1>6, EngineChain DEF ClearTo
  <2>2. ReplayedReply(p)' = "failed"
    BY <2>1, NoReplies
  <2> QED
    BY <1>1, <1>2, <1>6, <2>2 DEF NoCall
<1>7. CASE stops # {}
  <2>1. i \in k + 1 .. Len(chain) /\ i \in Nat /\ i \in DOMAIN chain
    <3>1. i \in k + 1 .. Len(chain)
      BY <1>3, <1>5, <1>7
    <3>2. Len(chain) \in Nat /\ DOMAIN chain = 1 .. Len(chain)
      BY EngineChain
    <3> HIDE DEF chain
    <3> QED
      BY <3>1, <3>2
  <2>2. \A j \in 1 .. i : j # i => cache[chain[j]][p] = Nothing
    <3> SUFFICES ASSUME NEW j \in 1 .. i, j # i PROVE cache[chain[j]][p] = Nothing
      OBVIOUS
    <3>1. CASE j <= k
      BY <2>1, <3>1 DEF ClearTo
    <3>2. CASE ~(j <= k)
      <4>1. j \in k + 1 .. Len(chain) /\ ~(i <= j)
        BY <2>1, <3>2, EngineChain
      <4> QED
        BY <1>3, <1>4, <1>7, <4>1
    <3> QED
      BY <3>1, <3>2
  <2>3. CASE cache[chain[i]][p] # Nothing
    <3>1. \A j \in 1 .. i : cache'[chain[j]][p] \in {Nothing, cache[chain[i]][p]}
      BY <2>2
    <3>2. ReplayedReply(p)' = cache[chain[i]][p]
      BY <2>1, <2>3, <3>1, FirstReply
    <3> QED
      BY <1>1, <1>2, <1>7, <2>3, <3>2 DEF NoCall
  <2>4. CASE cache[chain[i]][p] = Nothing
    <3>1. /\ call' = [call EXCEPT !["engine"] = [on |-> TRUE, prompt |-> p, k |-> i, since |-> now]]
          /\ UNCHANGED result
      BY <1>1, <1>7, <2>4
    <3>2. ClearTo(p, i)
      BY <2>1, <2>2, <2>4 DEF ClearTo
    <3> QED
      BY <1>2, <3>1, <3>2
  <2> QED
    BY <2>3, <2>4
<1> QED
  BY <1>6, <1>7

(* What a step that leaves the cycle alone does to its verdicts: nothing.  *)
Entries == Range(Books) \X Range(Proposals)

LEMMA ProposalsAre ==
    /\ Range(Proposals) \subseteq Subjects /\ Range(Proposals) \subseteq Prompts
    /\ \A p \in Range(Proposals) : RoleOf[p] = "engine" /\ p \notin Items
    /\ Proposals \in Seq(Range(Proposals)) /\ Books \in Seq(Range(Books))
<1>1. Proposals \in Seq((Subjects \cap Prompts) \ Items) /\ Books \in Seq(DOMAIN AdvisorOf)
      /\ \A p \in Range(Proposals) : RoleOf[p] = "engine"
  BY AdviceAssumption
<1>2. Range(Proposals) \subseteq (Subjects \cap Prompts) \ Items
  BY <1>1, RangeOfSeq
<1>3. Proposals \in Seq(Range(Proposals)) /\ Books \in Seq(Range(Books))
  BY <1>1, SeqOfRange
<1> QED
  BY <1>1, <1>2, <1>3

LEMMA AgreedSame ==
    ASSUME NEW b, NEW p, AdvisorOf[b] = "llm_veto" => ReplayedReply(p)' = ReplayedReply(p),
           AdvisorOf[b] = "typed_veto" => Decided(p)' = Decided(p)
    PROVE  Agreed(b, p)' = Agreed(b, p)
BY DEF Agreed, LLMVerdict, TypedVerdict

LEMMA VerdictGiven == \A v : /\ LLMVerdict(v) \in Verdicts /\ LLMVerdict(v) # None
                             /\ TypedVerdict(v) \in Verdicts /\ TypedVerdict(v) # None
BY DEF LLMVerdict, TypedVerdict, Verdicts, None

LEMMA ReviewsSame ==
    ASSUME CapInv, ReviewInv, UNCHANGED <<review, verdict>>, call'["engine"] = call["engine"],
           cache' \in [Models -> [Prompts -> Answers \cup {Nothing}]], DOMAIN result' = Prompts,
           \A m \in Models, p \in Range(Proposals) : cache'[m][p] = cache[m][p],
           \A m \in DecisionModels, p \in Range(Proposals) : answers'[m][p] = answers[m][p]
    PROVE  ReviewInv'
<1>1. /\ review \in [todo : Seq(Entries), conv : ConvType] /\ ConvOk(review.conv, answers)
      /\ review.conv # Quiet =>
            /\ Reviewing("typed_veto") /\ review.conv.on = Head(review.todo)[2]
            /\ verdict[Head(review.todo)] = None
  BY DEF ReviewInv, ReviewOk, Entries
<1>2. review.todo # <<>> => Head(review.todo)[2] \in Range(Proposals)
  BY <1>1, HeadTailProperties DEF Entries
<1>3. ReviewOk'
  <2>1. review.conv # Quiet => review.conv.on \in Range(Proposals)
    BY <1>1, <1>2 DEF Reviewing
  <2>2. ConvOk(review.conv, answers')
    BY <1>1, <2>1 DEF ConvOk, DecisionModels
  <2>3. Reviewing("typed_veto")' = Reviewing("typed_veto")
    BY DEF Reviewing
  <2> QED
    BY <1>1, <2>2, <2>3 DEF ReviewOk, Entries
<1>4. CallFits'
  <2>1. Reviewing("llm_veto")' = Reviewing("llm_veto")
    BY DEF Reviewing
  <2>2. ASSUME call["engine"].on
        PROVE  /\ Reviewing("llm_veto") /\ call["engine"].prompt = Head(review.todo)[2]
               /\ verdict[Head(review.todo)] = None
               /\ \A j \in 1 .. call["engine"].k : cache'[Chain["engine"][j]][call["engine"].prompt] = Nothing
    <3>1. /\ Reviewing("llm_veto") /\ call["engine"].prompt = Head(review.todo)[2]
          /\ verdict[Head(review.todo)] = None
          /\ \A j \in 1 .. call["engine"].k : cache[Chain["engine"][j]][call["engine"].prompt] = Nothing
      BY <2>2 DEF ReviewInv, CallFits
    <3>2. call["engine"].prompt \in Range(Proposals)
      BY <1>2, <3>1 DEF Reviewing
    <3>3. call["engine"].k \in 1 .. Len(Chain["engine"])
      BY <2>2, EngineChain DEF CapInv, RoutersOk, CallOk
    <3>4. \A j \in 1 .. call["engine"].k : Chain["engine"][j] \in Models
      BY <3>3, EngineChain
    <3> QED
      BY <3>1, <3>2, <3>4
  <2> QED
    BY <2>1, <2>2 DEF CallFits
<1>5. VerdictsOk'
  <2>1. ASSUME NEW b \in Range(Books), NEW p \in Range(Proposals), verdict[<<b, p>>] # None
        PROVE  verdict[<<b, p>>] = Agreed(b, p)'
    <3>1. verdict[<<b, p>>] = Agreed(b, p)
      BY <2>1 DEF ReviewInv, VerdictsOk
    <3>2. ReplayedReply(p)' = ReplayedReply(p) /\ Decided(p)' = Decided(p)
      BY RepliesSame, ReplaysSame
    <3> QED
      BY <3>1, <3>2, AgreedSame
  <2> QED
    BY <2>1 DEF ReviewInv, VerdictsOk
<1> QED
  BY <1>3, <1>4, <1>5 DEF ReviewInv

(* A verdict is given, or set aside while its review goes on.              *)
LEMMA VerdictSet ==
    ASSUME VerdictsOk, NEW b \in Range(Books), NEW p \in Range(Proposals), NEW v \in Verdicts,
           verdict' = [verdict EXCEPT ![<<b, p>>] = v], v # None => v = Agreed(b, p)',
           \A c \in Range(Books), q \in Range(Proposals) :
                c # b \/ q # p => Agreed(c, q)' = Agreed(c, q)
    PROVE  VerdictsOk' /\ verdict'[<<b, p>>] = v
<1>1. verdict \in [Entries -> Verdicts] /\ <<b, p>> \in Entries
  BY DEF VerdictsOk, Entries
<1>2. verdict' \in [Entries -> Verdicts] /\ verdict'[<<b, p>>] = v
      /\ \A e \in Entries : e # <<b, p>> => verdict'[e] = verdict[e]
  BY <1>1
<1>3. ASSUME NEW c \in Range(Books), NEW q \in Range(Proposals), verdict'[<<c, q>>] # None
      PROVE  verdict'[<<c, q>>] = Agreed(c, q)'
  <2>1. CASE c = b /\ q = p
    BY <1>2, <1>3, <2>1
  <2>2. CASE c # b \/ q # p
    <3>1. <<c, q>> \in Entries /\ <<c, q>> # <<b, p>>
      BY <2>2 DEF Entries
    <3>2. verdict'[<<c, q>>] = verdict[<<c, q>>]
      BY <1>2, <3>1
    <3>3. verdict[<<c, q>>] = Agreed(c, q)
      BY <1>3, <3>2 DEF VerdictsOk
    <3> QED
      BY <2>2, <3>2, <3>3
  <2> QED
    BY <2>1, <2>2
<1> QED
  BY <1>2, <1>3 DEF VerdictsOk, Entries

(* Only one book's advisor is of a kind that reviews, so that what is on   *)
(* record about a proposal is of one review.                               *)
LEMMA OthersAgree ==
    ASSUME NEW b \in Range(Books), NEW p \in Range(Proposals),
           AdvisorOf[b] # "typed_veto" =>
                \A m \in DecisionModels, q \in Range(Proposals) : answers'[m][q] = answers[m][q],
           AdvisorOf[b] # "llm_veto" =>
                \A m \in Models, q \in Range(Proposals) : cache'[m][q] = cache[m][q],
           \A m \in DecisionModels, q \in Range(Proposals) \ {p} : answers'[m][q] = answers[m][q],
           \A m \in Models, q \in Range(Proposals) \ {p} : cache'[m][q] = cache[m][q]
    PROVE  \A c \in Range(Books), q \in Range(Proposals) :
                c # b \/ q # p => Agreed(c, q)' = Agreed(c, q)
<1> SUFFICES ASSUME NEW c \in Range(Books), NEW q \in Range(Proposals), c # b \/ q # p
             PROVE  Agreed(c, q)' = Agreed(c, q)
  OBVIOUS
<1>1. q # p \/ AdvisorOf[c] # AdvisorOf[b] \/ AdvisorOf[c] = "absent"
  BY OneBookPerAdvisor
<1>2. ASSUME AdvisorOf[c] = "llm_veto" PROVE ReplayedReply(q)' = ReplayedReply(q)
  <2>1. \A m \in Models : cache'[m][q] = cache[m][q]
    BY <1>1, <1>2
  <2> QED
    BY <2>1, RepliesSame
<1>3. ASSUME AdvisorOf[c] = "typed_veto" PROVE Decided(q)' = Decided(q)
  <2>1. \A m \in DecisionModels : answers'[m][q] = answers[m][q]
    BY <1>1, <1>3
  <2> QED
    BY <2>1, ReplaysSame
<1> QED
  BY <1>2, <1>3, AgreedSame

LEMMA ReviewIs ==
    ASSUME ReviewInv, review.todo # <<>>
    PROVE  \E b \in Range(Books), p \in Range(Proposals) :
                /\ Head(review.todo) = <<b, p>> /\ Head(review.todo)[1] = b /\ Head(review.todo)[2] = p
                /\ Tail(review.todo) \in Seq(Entries)
<1>1. review.todo \in Seq(Entries)
  BY DEF ReviewInv, ReviewOk, Entries
<1>2. Head(review.todo) \in Entries /\ Tail(review.todo) \in Seq(Entries)
  BY <1>1, HeadTailProperties
<1>3. PICK b \in Range(Books), p \in Range(Proposals) : Head(review.todo) = <<b, p>>
  BY <1>2 DEF Entries
<1> QED
  BY <1>2, <1>3

(* A ruling ends the review of the first of the entries.                   *)
LEMMA RulingKeeps ==
    ASSUME CapInv, ReviewInv, review.todo # <<>>, NEW v, Ruled(v), ~call'["engine"].on,
           NEW b \in Range(Books), NEW p \in Range(Proposals), Head(review.todo) = <<b, p>>,
           v \in Verdicts, v = Agreed(b, p)',
           AdvisorOf[b] # "typed_veto" =>
                \A m \in DecisionModels, q \in Range(Proposals) : answers'[m][q] = answers[m][q],
           AdvisorOf[b] # "llm_veto" =>
                \A m \in Models, q \in Range(Proposals) : cache'[m][q] = cache[m][q],
           \A m \in DecisionModels, q \in Range(Proposals) \ {p} : answers'[m][q] = answers[m][q],
           \A m \in Models, q \in Range(Proposals) \ {p} : cache'[m][q] = cache[m][q],
           cache' \in [Models -> [Prompts -> Answers \cup {Nothing}]], DOMAIN result' = Prompts
    PROVE  ReviewInv'
<1>1. /\ verdict' = [verdict EXCEPT ![<<b, p>>] = v]
      /\ review' = [NoReview EXCEPT !.todo = Tail(review.todo)]
  BY DEF Ruled
<1>2. review' = [todo |-> Tail(review.todo), conv |-> Quiet]
  BY <1>1 DEF NoReview
<1>3. Tail(review.todo) \in Seq(Entries)
  BY ReviewIs
<1>4. ReviewOk'
  <2>1. ConvOk(Quiet, answers') /\ Quiet \in ConvType
    BY DEF ConvOk, ConvType, Quiet
  <2> QED
    BY <1>2, <1>3, <2>1 DEF ReviewOk, Entries
<1>5. CallFits'
  BY DEF CallFits
<1>6. VerdictsOk'
  <2>1. \A c \in Range(Books), q \in Range(Proposals) : c # b \/ q # p => Agreed(c, q)' = Agreed(c, q)
    BY OthersAgree
  <2> QED
    BY <1>1, <2>1, VerdictSet DEF ReviewInv
<1> QED
  BY <1>4, <1>5, <1>6 DEF ReviewInv

(* The agenda is a sequence of entries.                                    *)
LEMMA Blocks ==
    ASSUME NEW n \in Nat, NEW m \in Nat, NEW k \in 1 .. n * m
    PROVE  ((k - 1) \div m) + 1 \in 1 .. n /\ ((k - 1) % m) + 1 \in 1 .. m
<1>1. m > 0
  <2> SUFFICES ASSUME m = 0 PROVE FALSE
    OBVIOUS
  <2>1. n * m = 0
    OBVIOUS
  <2> QED
    BY <2>1
<1> DEFINE q == (k - 1) \div m
           r == (k - 1) % m
<1>2. k - 1 \in Nat /\ q \in Int /\ r \in 0 .. m - 1 /\ k - 1 = m * q + r
  BY <1>1
<1>3. k - 1 < n * m /\ n * m \in Nat
  OBVIOUS
<1> HIDE DEF q, r
<1>4. q >= 0
  <2> SUFFICES ASSUME q <= -1 PROVE FALSE
    BY <1>2
  <2>1. m * q <= m * (-1)
    BY <1>1, <1>2
  <2> QED
    BY <1>2, <2>1
<1>5. q < n
  <2> SUFFICES ASSUME q >= n PROVE FALSE
    BY <1>2
  <2>1. m * q >= m * n
    BY <1>1, <1>2
  <2>2. m * n = n * m
    OBVIOUS
  <2> QED
    BY <1>2, <1>3, <2>1, <2>2
<1> QED
  BY <1>2, <1>4, <1>5 DEF q, r

LEMMA AgendaIs == Agenda \in Seq(Entries)
<1> DEFINE n == Len(Books)
           m == Len(Proposals)
<1>1. /\ n \in Nat /\ m \in Nat
      /\ \A i \in 1 .. n : Books[i] \in Range(Books)
      /\ \A i \in 1 .. m : Proposals[i] \in Range(Proposals)
  BY ProposalsAre, LenProperties
<1>2. n * m \in Nat
  BY <1>1
<1>3. Agenda = [k \in 1 .. n * m |-> <<Books[((k - 1) \div m) + 1], Proposals[((k - 1) % m) + 1]>>]
  BY DEF Agenda
<1> HIDE DEF n, m
<1>4. ASSUME NEW k \in 1 .. n * m
      PROVE  <<Books[((k - 1) \div m) + 1], Proposals[((k - 1) % m) + 1]>> \in Entries
  <2>1. ((k - 1) \div m) + 1 \in 1 .. n /\ ((k - 1) % m) + 1 \in 1 .. m
    BY <1>1, Blocks
  <2>2. Books[((k - 1) \div m) + 1] \in Range(Books) /\ Proposals[((k - 1) % m) + 1] \in Range(Proposals)
    BY <1>1, <2>1
  <2> QED
    BY <2>2 DEF Entries
<1>5. Agenda \in [1 .. n * m -> Entries]
  BY <1>3, <1>4
<1> QED
  BY <1>2, <1>5, IsASeq

LEMMA RunCycleKeeps ==
    ASSUME CapInv, ReviewInv, RunCycle
    PROVE  ReviewInv'
<1>1. /\ review = NoReview /\ review' = [NoReview EXCEPT !.todo = Agenda]
      /\ UNCHANGED <<verdict, answers, call, cache, result>>
  BY DEF RunCycle, newsVars, routerVars
<1>2. review' = [todo |-> Agenda, conv |-> Quiet] /\ review.todo = <<>>
  BY <1>1 DEF NoReview
<1>3. ~call["engine"].on
  BY <1>2 DEF ReviewInv, CallFits, Reviewing
<1>4. ReviewOk'
  <2>1. ConvOk(Quiet, answers') /\ Quiet \in ConvType
    BY DEF ConvOk, ConvType, Quiet
  <2> QED
    BY <1>2, <2>1, AgendaIs DEF ReviewOk, Entries
<1>5. CallFits'
  BY <1>1, <1>3 DEF CallFits
<1>6. VerdictsOk'
  <2>1. \A b, p : Agreed(b, p)' = Agreed(b, p)
    BY <1>1, AgreedSame, RepliesSame, ReplaysSame
  <2> QED
    BY <1>1, <2>1 DEF ReviewInv, VerdictsOk
<1> QED
  BY <1>1, <1>4, <1>5, <1>6 DEF ReviewInv

LEMMA ReviewAbsentKeeps ==
    ASSUME CapInv, ReviewInv, ReviewAbsent
    PROVE  ReviewInv'
<1>1. /\ Reviewing("absent") /\ Ruled("ABSTAIN") /\ review.todo # <<>>
      /\ UNCHANGED <<answers, call, cache, result>>
  BY DEF ReviewAbsent, newsVars, routerVars, Reviewing
<1>2. PICK b \in Range(Books), p \in Range(Proposals) :
            Head(review.todo) = <<b, p>> /\ Head(review.todo)[1] = b
  BY <1>1, ReviewIs
<1>3. AdvisorOf[b] = "absent" /\ ~call'["engine"].on
  BY <1>1, <1>2 DEF Reviewing, ReviewInv, CallFits
<1>4. "ABSTAIN" = Agreed(b, p)' /\ "ABSTAIN" \in Verdicts
  BY <1>3 DEF Agreed, Verdicts
<1>5. cache' \in [Models -> [Prompts -> Answers \cup {Nothing}]] /\ DOMAIN result' = Prompts
  BY <1>1 DEF ReviewInv
<1> QED
  BY <1>1, <1>2, <1>3, <1>4, <1>5, RulingKeeps

LEMMA ReviewTypedKeeps ==
    ASSUME CapInv, ReviewInv, ReviewTyped
    PROVE  ReviewInv'
<1>1. /\ Reviewing("typed_veto") /\ review.todo # <<>>
      /\ review' = [review EXCEPT !.conv = BeginWith(Head(review.todo)[2])] /\ Requested
      /\ UNCHANGED <<answers, call, cache, result>>
  BY DEF ReviewTyped, newsVars, routerVars, Reviewing
<1>2. PICK b \in Range(Books), p \in Range(Proposals) :
            Head(review.todo) = <<b, p>> /\ Head(review.todo)[1] = b /\ Head(review.todo)[2] = p
  BY <1>1, ReviewIs
<1>3. ~call["engine"].on
  BY <1>1 DEF Reviewing, ReviewInv, CallFits
<1>4. review \in [todo : Seq(Entries), conv : ConvType]
  BY DEF ReviewInv, ReviewOk, Entries
<1> DEFINE c == BeginWith(p)
<1>5. ConvOk(c, answers') /\ c \in ConvType /\ c.on = p
  <2>1. p \in Subjects
    BY ProposalsAre
  <2> QED
    BY <2>1, BeginsOk DEF ConvOk
<1>6. review' = [review EXCEPT !.conv = c]
  BY <1>1, <1>2
<1> HIDE DEF c
<1>7. review' \in [todo : Seq(Entries), conv : ConvType] /\ review'.todo = review.todo /\ review'.conv = c
  BY <1>4, <1>5, <1>6
<1>8. VerdictsOk' /\ verdict'[<<b, p>>] = None
  <2>1. \A d, q : Agreed(d, q)' = Agreed(d, q)
    BY <1>1, AgreedSame, RepliesSame, ReplaysSame
  <2>2. verdict' = [verdict EXCEPT ![<<b, p>>] = None] /\ None \in Verdicts
    BY <1>1, <1>2 DEF Requested, Verdicts
  <2> QED
    BY <2>1, <2>2, VerdictSet DEF ReviewInv
<1>9. ReviewOk'
  BY <1>1, <1>2, <1>5, <1>7, <1>8 DEF ReviewOk, Entries, Reviewing
<1>10. CallFits'
  BY <1>1, <1>3 DEF CallFits
<1> QED
  BY <1>1, <1>8, <1>9, <1>10 DEF ReviewInv

LEMMA HearTypedKeeps ==
    ASSUME AnswersOk(answers), CapInv, ReviewInv, NEW reply, HearTyped(reply)
    PROVE  ReviewInv' /\ AnswersOk(answers')
           /\ \A m \in DecisionModels, i \in Items : answers'[m][i] = answers[m][i]
<1>0. PICK c, x : c = review.conv /\ x = c.on
  OBVIOUS
<1> DEFINE d == Heard(c, reply)
<1>1. /\ Reviewing("typed_veto") /\ review.todo # <<>> /\ MayReply(c, reply)
      /\ answers' = Keeps(c, reply) /\ UNCHANGED <<call, cache, result>>
      /\ IF d.at = "said" THEN Ruled(TypedVerdict(d.said))
         ELSE review' = [review EXCEPT !.conv = d] /\ UNCHANGED verdict
  BY <1>0 DEF HearTyped, routerVars, Reviewing
<1>2. PICK b \in Range(Books), p \in Range(Proposals) :
            Head(review.todo) = <<b, p>> /\ Head(review.todo)[1] = b /\ Head(review.todo)[2] = p
  BY <1>1, ReviewIs
<1>3. ~call["engine"].on /\ AdvisorOf[b] = "typed_veto"
  BY <1>1, <1>2 DEF Reviewing, ReviewInv, CallFits
<1>4. review \in [todo : Seq(Entries), conv : ConvType] /\ ConvOk(c, answers)
  BY <1>0 DEF ReviewInv, ReviewOk, Entries
<1>5. /\ c # Quiet /\ d \in ConvType /\ d.on = x /\ AnswersOk(answers')
      /\ \A m \in DecisionModels, y \in Subjects \ {x} : answers'[m][y] = answers[m][y]
      /\ d.at = "said" => d.said = Decided(x)'
      /\ d.at # "said" => ConvOk(d, answers') /\ d # Quiet
  BY <1>0, <1>1, <1>4, Hears
<1>6. x = p /\ verdict[<<b, p>>] = None
  BY <1>0, <1>2, <1>5 DEF ReviewInv, ReviewOk
<1>7. /\ \A m \in DecisionModels, q \in Range(Proposals) \ {p} : answers'[m][q] = answers[m][q]
      /\ \A m \in DecisionModels, i \in Items : answers'[m][i] = answers[m][i]
  <2>1. Range(Proposals) \subseteq Subjects /\ Items \subseteq Subjects /\ p \notin Items
    BY ProposalsAre, ItemsAre
  <2> QED
    BY <1>5, <1>6, <2>1
<1> HIDE DEF d
<1>8. cache' \in [Models -> [Prompts -> Answers \cup {Nothing}]] /\ DOMAIN result' = Prompts
      /\ \A m \in Models, q \in Range(Proposals) : cache'[m][q] = cache[m][q]
  BY <1>1 DEF ReviewInv
<1>9. CASE d.at = "said"
  <2> DEFINE v == TypedVerdict(d.said)
  <2>1. v = Agreed(b, p)' /\ v \in Verdicts
    BY <1>3, <1>5, <1>6, <1>9, VerdictGiven DEF Agreed
  <2>2. Ruled(v) /\ ~call'["engine"].on
    BY <1>1, <1>3, <1>9
  <2> HIDE DEF v
  <2>3. ReviewInv'
    BY <1>1, <1>2, <1>3, <1>7, <1>8, <2>1, <2>2, RulingKeeps
  <2> QED
    BY <1>5, <1>7, <2>3
<1>10. CASE d.at # "said"
  <2>1. review' = [review EXCEPT !.conv = d] /\ UNCHANGED verdict
    BY <1>1, <1>10
  <2>2. review' \in [todo : Seq(Entries), conv : ConvType] /\ review'.todo = review.todo /\ review'.conv = d
    BY <1>4, <1>5, <2>1
  <2>3. ReviewOk'
    BY <1>1, <1>2, <1>5, <1>6, <1>10, <2>1, <2>2 DEF ReviewOk, Entries, Reviewing
  <2>4. CallFits'
    BY <1>1, <1>3 DEF CallFits
  <2>5. VerdictsOk'
    <3>1. \A e \in Range(Books), q \in Range(Proposals) : e # b \/ q # p => Agreed(e, q)' = Agreed(e, q)
      BY <1>3, <1>7, <1>8, OthersAgree
    <3>2. verdict' = [verdict EXCEPT ![<<b, p>>] = None] /\ None \in Verdicts
      BY <1>6, <2>1 DEF ReviewInv, VerdictsOk, Verdicts
    <3> QED
      BY <3>1, <3>2, VerdictSet DEF ReviewInv
  <2> QED
    BY <1>5, <1>7, <1>8, <2>3, <2>4, <2>5 DEF ReviewInv
<1> QED
  BY <1>9, <1>10

(* A step of the engine's call: it asks on, or the reply ends the review.  *)
LEMMA LLMWalkKeeps ==
    ASSUME CapInv, ReviewInv, Reviewing("llm_veto"),
           NEW b \in Range(Books), NEW p \in Range(Proposals), Head(review.todo) = <<b, p>>,
           NEW rt, NEW k \in Nat, ClearTo(p, k), Walk("engine", rt, p, k + 1), UNCHANGED <<answers, cache>>,
           IF call'["engine"].on THEN Requested /\ UNCHANGED review ELSE Ruled(LLMVerdict(result'[p]))
    PROVE  ReviewInv'
<1>1. /\ review.todo # <<>> /\ AdvisorOf[b] = "llm_veto" /\ Head(review.todo)[2] = p
      /\ p \in DOMAIN result /\ DOMAIN result = Prompts
  BY ProposalsAre DEF Reviewing, ReviewInv
<1>2. /\ DOMAIN result' = Prompts
      /\ \/ /\ call'["engine"].on /\ call'["engine"].prompt = p
            /\ ClearTo(p, call'["engine"].k)
         \/ ~call'["engine"].on /\ result'[p] = ReplayedReply(p)'
  BY <1>1, WalkSays
<1>3. cache' \in [Models -> [Prompts -> Answers \cup {Nothing}]]
  BY DEF ReviewInv
<1>4. CASE call'["engine"].on
  <2>1. /\ verdict' = [verdict EXCEPT ![<<b, p>>] = None] /\ review' = review
        /\ call'["engine"].prompt = p /\ ClearTo(p, call'["engine"].k)
    BY <1>2, <1>4 DEF Requested
  <2>2. VerdictsOk' /\ verdict'[<<b, p>>] = None
    <3>1. \A c, q : Agreed(c, q)' = Agreed(c, q)
      BY AgreedSame, RepliesSame, ReplaysSame
    <3>2. None \in Verdicts /\ verdict' = [verdict EXCEPT ![<<b, p>>] = None]
      BY <2>1 DEF Verdicts
    <3>3. VerdictsOk
      BY DEF ReviewInv
    <3> QED
      BY <3>1, <3>2, <3>3, VerdictSet
  <2>3. ReviewOk'
    <3>1. review.conv = Quiet
      BY <1>1 DEF ReviewInv, ReviewOk, Reviewing
    <3> QED
      BY <2>1, <3>1 DEF ReviewInv, ReviewOk
  <2>4. CallFits'
    BY <1>1, <2>1, <2>2 DEF CallFits, Reviewing, ClearTo
  <2> QED
    BY <1>2, <1>3, <2>2, <2>3, <2>4 DEF ReviewInv
<1>5. CASE ~call'["engine"].on
  <2> DEFINE v == LLMVerdict(result'[p])
  <2>1. v = Agreed(b, p)' /\ v \in Verdicts /\ Ruled(v)
    BY <1>1, <1>2, <1>5, VerdictGiven DEF Agreed
  <2> HIDE DEF v
  <2> QED
    BY <1>1, <1>2, <1>3, <1>5, <2>1, RulingKeeps
<1> QED
  BY <1>4, <1>5

LEMMA ReviewLLMKeeps ==
    ASSUME CapInv, ReviewInv, ReviewLLM
    PROVE  ReviewInv'
<1>1. Reviewing("llm_veto") /\ review.todo # <<>>
  BY DEF ReviewLLM, Reviewing
<1>2. PICK b \in Range(Books), p \in Range(Proposals) :
            Head(review.todo) = <<b, p>> /\ Head(review.todo)[2] = p
  BY <1>1, ReviewIs
<1> DEFINE rt == RollDay(router["engine"])
<1>3. /\ Walk("engine", rt, p, 1) /\ UNCHANGED <<answers, cache>>
      /\ IF call'["engine"].on THEN Requested /\ UNCHANGED review ELSE Ruled(LLMVerdict(result'[p]))
  BY <1>2 DEF ReviewLLM, LLMStep, Complete, newsVars
<1> HIDE DEF rt
<1>4. ClearTo(p, 0) /\ 0 \in Nat /\ 0 + 1 = 1
  BY DEF ClearTo
<1>5. Walk("engine", rt, p, 0 + 1)
  BY <1>3, <1>4
<1> QED
  BY <1>1, <1>2, <1>3, <1>4, <1>5, LLMWalkKeeps

(* The call in flight is about the first of the entries.                   *)
LEMMA CallIs ==
    ASSUME CapInv, ReviewInv, call["engine"].on
    PROVE  /\ Reviewing("llm_veto") /\ review.todo # <<>>
           /\ call["engine"].prompt = Head(review.todo)[2]
           /\ ClearTo(call["engine"].prompt, call["engine"].k)
           /\ call["engine"].k \in DOMAIN Chain["engine"] /\ call["engine"].k \in Nat
BY EngineChain DEF CapInv, RoutersOk, CallOk, CallType, ReviewInv, CallFits, ClearTo, Reviewing

LEMMA HearFailureKeeps ==
    ASSUME CapInv, ReviewInv, HearFailure
    PROVE  ReviewInv'
<1>1. PICK why \in Failures : LLMStep(NoReply("engine", why))
  BY DEF HearFailure
<1>2. NoReply("engine", why) /\ call["engine"].on /\ UNCHANGED <<answers, cache>>
  BY <1>1 DEF LLMStep, NoReply, newsVars
<1>3. /\ Reviewing("llm_veto") /\ review.todo # <<>>
      /\ call["engine"].prompt = Head(review.todo)[2]
      /\ ClearTo(call["engine"].prompt, call["engine"].k)
      /\ call["engine"].k \in Nat
  BY <1>2, CallIs
<1>4. PICK b \in Range(Books), p \in Range(Proposals) :
            Head(review.todo) = <<b, p>> /\ Head(review.todo)[2] = p
  BY <1>3, ReviewIs
<1>5. PICK rt : Walk("engine", rt, p, call["engine"].k + 1)
  BY <1>2, <1>3, <1>4 DEF NoReply
<1>6. IF call'["engine"].on THEN Requested /\ UNCHANGED review ELSE Ruled(LLMVerdict(result'[p]))
  BY <1>1, <1>4 DEF LLMStep
<1>7. PICK k \in Nat : k = call["engine"].k
  BY <1>3
<1>8. ClearTo(p, k) /\ Walk("engine", rt, p, k + 1)
  BY <1>3, <1>4, <1>5, <1>7
<1> QED
  BY <1>2, <1>3, <1>4, <1>6, <1>8, LLMWalkKeeps

LEMMA HearReplyKeeps ==
    ASSUME CapInv, ReviewInv, HearReply
    PROVE  ReviewInv'
<1>1. PICK a \in Answers, drained \in Drained : LLMStep(Reply("engine", a, drained))
  BY DEF HearReply
<1>2. Reply("engine", a, drained) /\ call["engine"].on /\ UNCHANGED answers
  BY <1>1 DEF LLMStep, Reply, newsVars
<1>3. /\ Reviewing("llm_veto") /\ review.todo # <<>>
      /\ call["engine"].prompt = Head(review.todo)[2]
      /\ ClearTo(call["engine"].prompt, call["engine"].k)
      /\ call["engine"].k \in DOMAIN Chain["engine"]
  BY <1>2, CallIs
<1>4. PICK b \in Range(Books), p \in Range(Proposals) :
            Head(review.todo) = <<b, p>> /\ Head(review.todo)[1] = b /\ Head(review.todo)[2] = p
  BY <1>3, ReviewIs
<1>5. PICK k \in DOMAIN Chain["engine"] : k = call["engine"].k
  BY <1>3
<1> DEFINE m == Chain["engine"][k]
<1>6. /\ cache' = [cache EXCEPT ![m][p] = a] /\ result' = [result EXCEPT ![p] = a]
      /\ call' = [call EXCEPT !["engine"] = NoCall]
  <2>1. PICK q, n : q = call["engine"].prompt /\ n = Chain["engine"][call["engine"].k]
    OBVIOUS
  <2>2. /\ cache' = [cache EXCEPT ![n][q] = a] /\ result' = [result EXCEPT ![q] = a]
        /\ call' = [call EXCEPT !["engine"] = NoCall]
    BY <1>2, <2>1 DEF Reply, Stored
  <2>3. q = p /\ n = m
    BY <1>3, <1>4, <1>5, <2>1
  <2> QED
    BY <2>2, <2>3
<1>7. m \in Models /\ p \in Prompts /\ a # Nothing /\ a \in Answers
  BY EngineChain, ProposalsAre DEF Answers, Nothing
<1>8. /\ cache \in [Models -> [Prompts -> Answers \cup {Nothing}]] /\ DOMAIN result = Prompts
  BY DEF ReviewInv
<1>9. /\ ~call'["engine"].on /\ result'[p] = a /\ DOMAIN result' = Prompts
  <2>1. call \in [Routers -> CallType] /\ "engine" \in Routers
    BY EngineChain DEF CapInv
  <2> QED
    BY <1>6, <1>7, <1>8, <2>1 DEF NoCall
<1> HIDE DEF m
<1>10. /\ cache' \in [Models -> [Prompts -> Answers \cup {Nothing}]] /\ cache'[m][p] = a
       /\ \A n \in Models, q \in Prompts : n # m \/ q # p => cache'[n][q] = cache[n][q]
  BY <1>6, <1>7, <1>8
<1>11. ReplayedReply(p)' = a
  <2>1. \A j \in 1 .. k : cache'[Chain["engine"][j]][p] \in {Nothing, a}
    <3> SUFFICES ASSUME NEW j \in 1 .. k PROVE cache'[Chain["engine"][j]][p] \in {Nothing, a}
      OBVIOUS
    <3>1. cache[Chain["engine"][j]][p] = Nothing
      BY <1>3, <1>4, <1>5 DEF ClearTo
    <3>2. Chain["engine"][j] \in Models
      BY EngineChain
    <3> QED
      BY <1>7, <1>10, <3>1, <3>2
  <2> QED
    BY <1>7, <1>10, <2>1, FirstReply DEF m
<1>12. AdvisorOf[b] = "llm_veto"
  BY <1>3, <1>4 DEF Reviewing
<1> DEFINE v == LLMVerdict(a)
<1>13. v = Agreed(b, p)' /\ v \in Verdicts /\ Ruled(v)
  <2>1. Ruled(LLMVerdict(result'[p]))
    BY <1>1, <1>4, <1>9 DEF LLMStep
  <2> QED
    BY <1>9, <1>11, <1>12, <2>1, VerdictGiven DEF Agreed
<1> HIDE DEF v
<1>14. \A n \in Models, q \in Range(Proposals) \ {p} : cache'[n][q] = cache[n][q]
  BY <1>10, ProposalsAre
<1> QED
  BY <1>2, <1>3, <1>4, <1>9, <1>10, <1>12, <1>13, <1>14, RulingKeeps

(* The script of the labels asks about prompts of its own.                 *)
LEMMA WalkTyped ==
    ASSUME NEW r, NEW rt, NEW p, NEW k, Walk(r, rt, p, k)
    PROVE  /\ DOMAIN result' = DOMAIN result
           /\ \A q \in DOMAIN call : q # r => call'[q] = call[q]
<1> DEFINE chain == Chain[r]
           stops == {i \in k..Len(chain) : cache[chain[i]][p] # Nothing \/ Admits(rt, chain[i], p)}
           i     == Min(stops)
           c     == [on |-> TRUE, prompt |-> p, k |-> i, since |-> now]
           v     == cache[chain[i]][p]
<1>1. IF stops = {}
      THEN call' = [call EXCEPT ![r] = NoCall] /\ result' = [result EXCEPT ![p] = "failed"]
      ELSE IF v # Nothing
      THEN call' = [call EXCEPT ![r] = NoCall] /\ result' = [result EXCEPT ![p] = v]
      ELSE call' = [call EXCEPT ![r] = c] /\ UNCHANGED result
  BY Zenon DEF Walk
<1> HIDE DEF stops, c, v
<1> QED
  BY <1>1

LEMMA LabelKeeps ==
    ASSUME CapInv, ReviewInv, Label
    PROVE  ReviewInv'
<1>1. UNCHANGED <<answers, review, verdict>>
  BY DEF Label, newsVars
<1>2. /\ "engine" \in DOMAIN call /\ "engine" # "labels" /\ "labels" \in Routers
      /\ cache \in [Models -> [Prompts -> Answers \cup {Nothing}]] /\ DOMAIN result = Prompts
  BY EngineChain DEF CapInv, ReviewInv
<1>3. ASSUME NEW rt, NEW p, NEW k, Walk("labels", rt, p, k), cache' = cache PROVE ReviewInv'
  <2>1. call'["engine"] = call["engine"] /\ DOMAIN result' = Prompts
    BY <1>2, <1>3, WalkTyped
  <2> QED
    BY <1>1, <1>2, <1>3, <2>1, ReviewsSame
<1>4. ASSUME NEW p, Complete("labels", p) PROVE ReviewInv'
  BY <1>3, <1>4 DEF Complete
<1>5. ASSUME NEW why, NoReply("labels", why) PROVE ReviewInv'
  BY <1>3, <1>5 DEF NoReply
<1>6. ASSUME Reply("labels", "APPROVE", FALSE) PROVE ReviewInv'
  <2>1. PICK p, m : p = call["labels"].prompt /\ m = Chain["labels"][call["labels"].k]
    OBVIOUS
  <2>2. /\ call["labels"].on /\ cache' = [cache EXCEPT ![m][p] = "APPROVE"]
        /\ result' = [result EXCEPT ![p] = "APPROVE"] /\ call' = [call EXCEPT !["labels"] = NoCall]
    BY <1>6, <2>1 DEF Reply, Stored
  <2>3. p \in Prompts /\ RoleOf[p] = "labels" /\ m \in Models
    <3>1. p \in OfRole("labels") /\ call["labels"].k \in DOMAIN Chain["labels"]
      BY <1>2, <2>1, <2>2 DEF CapInv, RoutersOk, CallOk
    <3>2. Chain["labels"] \in Seq(Models)
      BY <1>2, RouterAssumption
    <3>3. m \in Models
      BY <2>1, <3>1, <3>2, LenProperties
    <3> QED
      BY <3>1, <3>3 DEF OfRole
  <2>4. p \notin Range(Proposals)
    BY <1>2, <2>3, ProposalsAre
  <2>5. /\ cache' \in [Models -> [Prompts -> Answers \cup {Nothing}]] /\ DOMAIN result' = Prompts
        /\ \A n \in Models, q \in Prompts : q # p => cache'[n][q] = cache[n][q]
        /\ call'["engine"] = call["engine"]
    BY <1>2, <2>2, <2>3 DEF Answers
  <2>6. \A n \in Models, q \in Range(Proposals) : cache'[n][q] = cache[n][q]
    BY <2>4, <2>5, ProposalsAre
  <2> QED
    BY <1>1, <2>5, <2>6, ReviewsSame
<1> QED
  BY <1>4, <1>5, <1>6 DEF Label

(* The announcements task asks about the announcements.                    *)
LEMMA NewsStepKeeps ==
    ASSUME AnswersOk(answers), NewsInv, NewsStep
    PROVE  /\ NewsInv' /\ AnswersOk(answers')
           /\ \A m \in DecisionModels, p \in Range(Proposals) : answers'[m][p] = answers[m][p]
<1> DEFINE Preserved == /\ NewsInv' /\ AnswersOk(answers')
                   /\ \A m \in DecisionModels, p \in Range(Proposals) : answers'[m][p] = answers[m][p]
<1> SUFFICES Preserved
  OBVIOUS
<1>1. ASSUME answers' = answers, NewsInv' PROVE Preserved
  BY <1>1
<1>2. CASE Publish
  <2>1. answers' = answers
    BY <1>2 DEF Publish
  <2> QED
    BY <1>1, <1>2, <2>1, PublishKeeps
<1>3. CASE Polls
  <2>1. answers' = answers
    BY <1>3 DEF Polls
  <2> QED
    BY <1>1, <1>3, <2>1, PollsKeeps
<1>4. CASE NothingNew
  <2>1. answers' = answers
    BY <1>4 DEF NothingNew
  <2> QED
    BY <1>1, <1>4, <2>1, NothingNewKeeps
<1>5. ASSUME NEW n \in Nat, NEW how \in {"done", "fails"}, Fetched(n, how) PROVE Preserved
  <2>1. answers' = answers
    BY <1>5 DEF Fetched
  <2> QED
    BY <1>1, <1>5, <2>1, FetchedKeeps
<1>6. ASSUME NEW reply, NEW stored \in BOOLEAN, Classify(reply, stored) PROVE Preserved
  <2>1. NewsInv' /\ AnswersOk(answers')
    BY <1>6, ClassifyKeeps
  <2>2. PICK c, x : c = task.conv /\ x = c.on
    OBVIOUS
  <2>3. ConvOk(c, answers) /\ MayReply(c, reply) /\ answers' = Keeps(c, reply)
    BY <1>6, <2>2 DEF NewsInv, NewsTyped, Classify
  <2>4. c # Quiet /\ \A m \in DecisionModels, y \in Subjects \ {x} : answers'[m][y] = answers[m][y]
    BY <2>2, <2>3, Hears
  <2>5. x \in Items
    <3>1. task.todo # <<>> /\ x = Head(task.todo) /\ task.todo \in Seq(Items)
      BY <2>2, <2>4 DEF NewsInv, QueueOk, NewsTyped
    <3> QED
      BY <3>1, HeadTailProperties
  <2>6. \A p \in Range(Proposals) : p \in Subjects \ {x}
    BY <2>5, ProposalsAre
  <2> QED
    BY <2>1, <2>4, <2>6
<1>7. Len(Coverage(Page)) + Len(Accepted(Page)) \in Nat
  <2>1. Len(Accepted(Page)) \in Nat
    BY AcceptedIs, LenProperties
  <2>2. Len(<<>>) = 0 /\ \A e : Len(<<e>>) = 1
    OBVIOUS
  <2>3. Len(Coverage(Page)) \in {0, 1}
    BY <2>2 DEF Coverage
  <2> QED
    BY <2>1, <2>3
<1>8. \A n \in 0 .. Cardinality(Items) : n \in Nat
  <2>1. Cardinality(Items) \in Nat
    BY NewsAssumption, FS_CardinalityType
  <2> QED
    BY <2>1
<1> HIDE DEF Preserved
<1> QED
  BY <1>2, <1>3, <1>4, <1>5, <1>6, <1>7, <1>8 DEF NewsStep

(* The invariant, all parts together: a record that agrees with the model  *)
(* names, a queue that goes with the log, and the reviews with the record. *)
AdviceInv == CapInv /\ AnswersOk(answers) /\ NewsInv /\ ReviewInv

LEMMA AdviceInvInit == AdviceInit => AdviceInv
<1> SUFFICES ASSUME AdviceInit PROVE AdviceInv
  OBVIOUS
<1>1. CapInv /\ AnswersOk(answers) /\ NewsInv
  BY CapInvInit, NewsInvInit DEF AdviceInit
<1>2. /\ cache = [m \in Models |-> [p \in Prompts |-> Nothing]]
      /\ result = [p \in Prompts |-> Nothing] /\ call = [r \in Routers |-> NoCall]
      /\ review = NoReview /\ verdict = [k \in Entries |-> None]
  BY DEF AdviceInit, RouterInit, Entries
<1>3. cache \in [Models -> [Prompts -> Answers \cup {Nothing}]] /\ DOMAIN result = Prompts
  BY <1>2
<1>4. ReviewOk
  <2>1. ConvOk(Quiet, answers) /\ Quiet \in ConvType
    BY DEF ConvOk, ConvType, Quiet
  <2>2. <<>> \in Seq(Entries) /\ review = [todo |-> <<>>, conv |-> Quiet]
    BY <1>2 DEF NoReview
  <2> QED
    BY <2>1, <2>2 DEF ReviewOk, Entries
<1>5. CallFits
  BY <1>2, EngineChain DEF CallFits, NoCall
<1>6. VerdictsOk
  BY <1>2 DEF VerdictsOk, Verdicts, Entries
<1> QED
  BY <1>1, <1>3, <1>4, <1>5, <1>6 DEF AdviceInv, ReviewInv

LEMMA AdviceInvNext == AdviceInv /\ [AdviceNext]_adviceVars => AdviceInv'
<1> SUFFICES ASSUME AdviceInv, [AdviceNext]_adviceVars PROVE AdviceInv'
  OBVIOUS
<1>0. CapInv /\ AnswersOk(answers) /\ NewsInv /\ ReviewInv /\ CapInv'
  BY CapInvNext DEF AdviceInv
<1> DEFINE News == NewsInv' /\ AnswersOk(answers')
<1>1. ASSUME UNCHANGED newsVars PROVE News
  <2>1. UNCHANGED <<published, ing, task, backlog, received, gaps, typed, lapses, answers>>
    BY <1>1 DEF newsVars
  <2>2. NewsInv'
    BY <1>0, <2>1, NewsSame
  <2> QED
    BY <1>0, <2>1, <2>2
<1>2. ASSUME UNCHANGED <<review, verdict, answers, cache, result>>, call'["engine"] = call["engine"]
      PROVE  ReviewInv'
  <2>1. cache' \in [Models -> [Prompts -> Answers \cup {Nothing}]] /\ DOMAIN result' = Prompts
    BY <1>0, <1>2 DEF ReviewInv
  <2> QED
    BY <1>0, <1>2, <2>1, ReviewsSame
<1>3. CASE RunCycle
  <2>1. UNCHANGED newsVars
    BY <1>3 DEF RunCycle
  <2> QED
    BY <1>0, <1>1, <1>3, <2>1, RunCycleKeeps DEF AdviceInv
<1>4. CASE ReviewAbsent
  <2>1. UNCHANGED newsVars
    BY <1>4 DEF ReviewAbsent
  <2> QED
    BY <1>0, <1>1, <1>4, <2>1, ReviewAbsentKeeps DEF AdviceInv
<1>5. CASE ReviewTyped
  <2>1. UNCHANGED newsVars
    BY <1>5 DEF ReviewTyped
  <2> QED
    BY <1>0, <1>1, <1>5, <2>1, ReviewTypedKeeps DEF AdviceInv
<1>6. CASE ReviewLLM
  <2>1. UNCHANGED newsVars
    BY <1>6 DEF ReviewLLM, LLMStep
  <2> QED
    BY <1>0, <1>1, <1>6, <2>1, ReviewLLMKeeps DEF AdviceInv
<1>7. CASE HearReply
  <2>1. UNCHANGED newsVars
    BY <1>7 DEF HearReply, LLMStep
  <2> QED
    BY <1>0, <1>1, <1>7, <2>1, HearReplyKeeps DEF AdviceInv
<1>8. CASE HearFailure
  <2>1. UNCHANGED newsVars
    BY <1>8 DEF HearFailure, LLMStep
  <2> QED
    BY <1>0, <1>1, <1>8, <2>1, HearFailureKeeps DEF AdviceInv
<1>9. ASSUME NEW reply, HearTyped(reply) PROVE AdviceInv'
  <2>1. UNCHANGED <<published, ing, task, backlog, received, gaps, typed, lapses>>
    BY <1>9 DEF HearTyped
  <2>2. /\ ReviewInv' /\ AnswersOk(answers')
        /\ \A m \in DecisionModels, i \in Items : answers'[m][i] = answers[m][i]
    BY <1>0, <1>9, HearTypedKeeps
  <2>3. NewsInv'
    BY <1>0, <2>1, <2>2, NewsSame
  <2> QED
    BY <1>0, <2>2, <2>3 DEF AdviceInv
<1>10. CASE Label
  <2>1. UNCHANGED newsVars
    BY <1>10 DEF Label
  <2> QED
    BY <1>0, <1>1, <1>10, <2>1, LabelKeeps DEF AdviceInv
<1>11. CASE LabelsRestart
  <2>1. /\ UNCHANGED newsVars /\ UNCHANGED <<review, verdict, cache, result>>
        /\ call' = [call EXCEPT !["labels"] = NoCall]
    BY <1>11 DEF LabelsRestart
  <2>2. call'["engine"] = call["engine"] /\ answers' = answers
    BY <2>1, EngineChain DEF newsVars, CapInv
  <2> QED
    BY <1>0, <1>1, <1>2, <2>1, <2>2 DEF AdviceInv
<1>12. CASE NewsStep
  <2>1. UNCHANGED <<review, verdict, call, cache, result>>
    BY <1>12 DEF NewsStep, routerVars
  <2>2. /\ NewsInv' /\ AnswersOk(answers')
        /\ \A m \in DecisionModels, p \in Range(Proposals) : answers'[m][p] = answers[m][p]
    BY <1>0, <1>12, NewsStepKeeps
  <2>3. cache' \in [Models -> [Prompts -> Answers \cup {Nothing}]] /\ DOMAIN result' = Prompts
    BY <1>0, <2>1 DEF ReviewInv
  <2>4. ReviewInv'
    BY <1>0, <2>1, <2>2, <2>3, ReviewsSame
  <2> QED
    BY <1>0, <2>2, <2>4 DEF AdviceInv
<1>13. CASE Dies
  <2>1. /\ review' = NoReview /\ UNCHANGED <<verdict, cache, result>>
        /\ call' = [call EXCEPT !["engine"] = NoCall]
        /\ NewsEnds \/ \E n \in 0 .. Cardinality(Items) : Fetched(n, "dies")
    BY <1>13 DEF Dies, RouterEnds
  <2>2. NewsInv' /\ answers' = answers
    <3>1. NewsEnds => NewsInv' /\ answers' = answers
      BY <1>0, NewsEndsKeeps DEF NewsEnds
    <3>2. ASSUME NEW n \in 0 .. Cardinality(Items), Fetched(n, "dies") PROVE NewsInv' /\ answers' = answers
      <4>1. Cardinality(Items) \in Nat
        BY NewsAssumption, FS_CardinalityType
      <4>2. n \in Nat
        BY <4>1
      <4>3. answers' = answers
        BY <3>2 DEF Fetched
      <4> QED
        BY <1>0, <3>2, <4>2, <4>3, FetchedKeeps
    <3> QED
      BY <2>1, <3>1, <3>2
  <2>3. ReviewOk'
    <3>1. ConvOk(Quiet, answers') /\ Quiet \in ConvType
      BY DEF ConvOk, ConvType, Quiet
    <3>2. <<>> \in Seq(Entries) /\ review' = [todo |-> <<>>, conv |-> Quiet]
      BY <2>1 DEF NoReview
    <3> QED
      BY <3>1, <3>2 DEF ReviewOk, Entries
  <2>4. CallFits'
    <3>1. ~call'["engine"].on
      BY <1>0, <2>1, EngineChain DEF CapInv, NoCall
    <3> QED
      BY <3>1 DEF CallFits
  <2>5. VerdictsOk'
    <3>1. \A b, p : Agreed(b, p)' = Agreed(b, p)
      BY <2>1, <2>2, AgreedSame, RepliesSame, ReplaysSame
    <3> QED
      BY <1>0, <2>1, <3>1 DEF ReviewInv, VerdictsOk
  <2>6. ReviewInv'
    BY <1>0, <2>1, <2>3, <2>4, <2>5 DEF ReviewInv
  <2> QED
    BY <1>0, <2>2, <2>6 DEF AdviceInv
<1>14. CASE Starts
  <2>1. NewsStarts /\ ~ing.up /\ UNCHANGED <<review, verdict, call, cache, result>>
    BY <1>14 DEF Starts, RouterStarts
  <2>2. answers' = answers
    BY <2>1 DEF NewsStarts
  <2> QED
    BY <1>0, <1>2, <2>1, <2>2, NewsStartsKeeps DEF AdviceInv
<1>15. CASE TimePasses
  <2>1. UNCHANGED newsVars /\ UNCHANGED <<review, verdict, call, cache, result>> /\ answers' = answers
    BY <1>15 DEF TimePasses, RouterTick, newsVars
  <2> QED
    BY <1>0, <1>1, <1>2, <2>1 DEF AdviceInv
<1>16. CASE UNCHANGED adviceVars
  <2>1. UNCHANGED newsVars /\ UNCHANGED <<review, verdict, call, cache, result>> /\ answers' = answers
    BY <1>16 DEF adviceVars, newsVars, routerVars, reviewVars
  <2> QED
    BY <1>0, <1>1, <1>2, <2>1 DEF AdviceInv
<1> QED
  BY <1>3, <1>4, <1>5, <1>6, <1>7, <1>8, <1>9, <1>10, <1>11, <1>12, <1>13, <1>14, <1>15, <1>16
     DEF AdviceNext

(* Where the calibration leaves the record as it is, a replay decides what *)
(* was decided.                                                            *)
LEMMA UnmovedDecides == ASSUME NEW x, Unmoved(x) PROVE Replayed(x) = Decided(x)
<1>0. "laya" \in DecisionModels /\ "jev" \in DecisionModels
  BY DEF DecisionModels
<1>1. x \notin Reworded /\ Read("laya", x) = answers["laya"][x] /\ Read("jev", x) = answers["jev"][x]
  BY <1>0, Zenon DEF Unmoved
<1>2. Decided(x) = Outcome(answers["laya"][x], answers["jev"][x])
  BY <1>1 DEF Decided
<1> QED
  BY <1>1, <1>2 DEF Replayed

(* A replay, which asks nobody, comes to the verdicts and the typed events *)
(* of the live run, on what the calibration does not move.                 *)
THEOREM ReplaysAgree == AdviceSpec => []ReplayAgrees
<1>1. AdviceInv => ReplayAgrees
  <2> DEFINE X == {x \in Subjects : Unmoved(x)}
  <2> SUFFICES ASSUME AdviceInv PROVE ReplayAgrees
    OBVIOUS
  <2>1. ASSUME NEW b \in Range(Books), NEW p \in Range(Proposals), verdict[<<b, p>>] # None,
               AdvisorOf[b] = "typed_veto" => p \in X
        PROVE  verdict[<<b, p>>] = ReplayedVerdict(b, p)
    <3>1. verdict[<<b, p>>] = Agreed(b, p)
      BY <2>1 DEF AdviceInv, ReviewInv, VerdictsOk
    <3>2. AdvisorOf[b] = "typed_veto" => Decided(p) = Replayed(p)
      BY <2>1, UnmovedDecides
    <3>3. Agreed(b, p) = ReplayedVerdict(b, p)
      BY <3>2 DEF Agreed, ReplayedVerdict
    <3> QED
      BY <3>1, <3>3
  <2>2. ASSUME NEW i \in Items \cap X, typed[i] # <<>> PROVE typed[i][1].said = Replayed(i)
    <3>1. typed[i] = <<EventOf(i)>>
      BY <2>2 DEF AdviceInv, NewsInv, TypedOnce
    <3>2. <<EventOf(i)>>[1] = EventOf(i) /\ EventOf(i).said = Decided(i)
      BY DEF EventOf
    <3>3. Decided(i) = Replayed(i)
      BY UnmovedDecides
    <3> QED
      BY <3>1, <3>2, <3>3
  <2> QED
    BY <2>1, <2>2, Zenon DEF AgreesOn, ReplayAgrees
<1> QED
  BY <1>1, AdviceInvInit, AdviceInvNext, PTL DEF AdviceSpec

(* Every announcement is accounted for, whatever pages were missed and     *)
(* wherever the process died.                                              *)
THEOREM NewsIsAccounted == AdviceSpec => []Accounted
<1>1. AdviceInv => Accounted
  BY AccountedIs DEF AdviceInv
<1> QED
  BY <1>1, AdviceInvInit, AdviceInvNext, PTL DEF AdviceSpec
=============================================================================
