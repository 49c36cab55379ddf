--------------------------- MODULE Backtest_proofs ---------------------------
(***************************************************************************)
(* Proofs about a backtest: its account (TradeManager), for any stocks,    *)
(* prices, ex-rights events, amounts and clients, in the terms of          *)
(* TradeBooks, and the aggregate that drives many systems (MultiSystem),   *)
(* for any set of sub-systems.                                             *)
(***************************************************************************)
EXTENDS TradeBooks, MultiSystem, SequenceTheorems, WellFoundedInduction, TLAPS

(* Induction over the natural numbers, for a set instead of a predicate.   *)
LEMMA SetInduction ==
  ASSUME NEW T, T \subseteq Nat, 0 \in T, \A n \in T : n + 1 \in T
  PROVE  T = Nat
<1> DEFINE R == OpToRel(<, Nat)
<1>1. IsWellFoundedOn(R, Nat)
  BY NatLessThanWellFounded
<1>2. SUFFICES ASSUME Nat \ T # {} PROVE FALSE
  OBVIOUS
<1>3. \E x \in Nat \ T : \A y \in Nat \ T : ~ (<<y, x>> \in R)
  <2>1. Nat \ T \subseteq Nat
    OBVIOUS
  <2> HIDE DEF R
  <2> QED
    BY <1>1, <1>2, <2>1, WFMin
<1>4. PICK x \in Nat \ T : \A y \in Nat \ T : ~ (<<y, x>> \in R)
  BY <1>3
<1>5. x # 0 /\ x - 1 \in Nat /\ (x - 1) + 1 = x
  OBVIOUS
<1>6. x - 1 \notin T
  BY <1>5
<1>7. <<x - 1, x>> \in R
  BY <1>5 DEF OpToRel
<1> QED
  BY <1>4, <1>5, <1>6, <1>7

(* The same up to a bound.                                                 *)
LEMMA BoundedInduction ==
  ASSUME NEW m \in Nat, NEW T, T \subseteq 0 .. m, 0 \in T,
         \A n \in T : n < m => n + 1 \in T
  PROVE  T = 0 .. m
<1> DEFINE U == {n \in Nat : n <= m => n \in T}
<1>1. 0 \in U
  OBVIOUS
<1>2. \A n \in U : n + 1 \in U
  OBVIOUS
<1>3. U = Nat
  <2>1. U \subseteq Nat
    OBVIOUS
  <2> HIDE DEF U
  <2> QED
    BY <1>1, <1>2, <2>1, SetInduction
<1>4. ASSUME NEW n \in 0 .. m PROVE n \in T
  <2>1. n \in Nat /\ n <= m
    OBVIOUS
  <2>2. n \in U
    BY <1>3, <2>1
  <2> QED
    BY <2>1, <2>2
<1> QED
  BY <1>4

-----------------------------------------------------------------------------
(* Total, the sum of a sequence.                                           *)

(* f[i] is the sum of the first i numbers of v.                            *)
Sums(f, v) == /\ f \in [0 .. Len(v) -> Int]
              /\ f[0] = 0
              /\ \A i \in 1 .. Len(v) : f[i] = f[i - 1] + v[i]

LEMMA TotalIsSums ==
  ASSUME NEW v \in Seq(Int)
  PROVE  \E f : Sums(f, v) /\ Total(v) = f[Len(v)]
<1> DEFINE m == Len(v)
<1> DEFINE K(h) == [i \in 0 .. m |-> IF i = 0 THEN 0 ELSE h[i - 1] + v[i]]
<1> DEFINE Ok(f, n) == /\ f \in [0 .. m -> Int] /\ f[0] = 0
                       /\ \A i \in 1 .. n : f[i] = f[i - 1] + v[i]
<1> DEFINE T == {n \in 0 .. m : \E f : Ok(f, n)}
<1>1. m \in Nat /\ \A i \in 1 .. m : v[i] \in Int
  OBVIOUS
<1>2. 0 \in T
  <2> DEFINE f == [i \in 0 .. m |-> 0]
  <2>1. f \in [0 .. m -> Int] /\ f[0] = 0
    BY <1>1
  <2> HIDE DEF f
  <2>2. Ok(f, 0)
    BY <2>1
  <2> QED
    BY <1>1, <2>2
<1>3. ASSUME NEW n \in T, n < m PROVE n + 1 \in T
  <2>1. PICK f : Ok(f, n)
    OBVIOUS
  <2> DEFINE g == [f EXCEPT ![n + 1] = f[n] + v[n + 1]]
  <2>2. n \in 0 .. m /\ n + 1 \in 1 .. m /\ f[n] \in Int /\ v[n + 1] \in Int
    BY <1>1, <1>3, <2>1, SMTT(30)
  <2>3. g \in [0 .. m -> Int] /\ g[0] = 0
    BY <2>1, <2>2
  <2>4. ASSUME NEW i \in 1 .. n + 1 PROVE g[i] = g[i - 1] + v[i]
    <3>1. CASE i = n + 1
      BY <2>1, <2>2, <3>1
    <3>2. CASE i # n + 1
      BY <2>1, <2>2, <3>2
    <3> QED
      BY <3>1, <3>2
  <2>5. Ok(g, n + 1)
    BY <2>3, <2>4
  <2>6. n + 1 \in 0 .. m
    BY <2>2
  <2> HIDE DEF g, Ok
  <2> QED
    BY <2>5, <2>6
<1>4. m \in T
  <2>1. T \subseteq 0 .. m
    OBVIOUS
  <2>2. m \in 0 .. m
    BY <1>1
  <2> HIDE DEF T
  <2>3. T = 0 .. m
    BY <1>1, <1>2, <1>3, <2>1, BoundedInduction
  <2> QED
    BY <2>2, <2>3
<1>5. PICK f : Ok(f, m)
  BY <1>4
<1>6. f = K(f)
  BY <1>1, <1>5
<1> DEFINE F == CHOOSE h : h = K(h)
<1>7. F = K(F)
  BY <1>6
<1> HIDE DEF F
<1>8. ASSUME NEW h, h = K(h) PROVE Sums(h, v)
  <2>1. \A i \in 0 .. m : h[i] = IF i = 0 THEN 0 ELSE h[i - 1] + v[i]
    BY <1>8, Zenon
  <2> DEFINE U == {n \in 0 .. m : h[n] \in Int}
  <2>2. 0 \in U
    BY <1>1, <2>1
  <2>3. ASSUME NEW n \in U, n < m PROVE n + 1 \in U
    <3>1. n + 1 \in 0 .. m /\ n + 1 # 0 /\ (n + 1) - 1 = n /\ n + 1 \in 1 .. m
      BY <1>1, <2>3
    <3>2. h[n + 1] = h[n] + v[n + 1]
      BY <2>1, <3>1
    <3> QED
      BY <1>1, <2>3, <3>1, <3>2
  <2>4. U = 0 .. m
    <3>1. U \subseteq 0 .. m
      OBVIOUS
    <3> HIDE DEF U
    <3> QED
      BY <1>1, <2>2, <2>3, <3>1, BoundedInduction
  <2>5. h \in [0 .. m -> Int]
    BY <1>8, <2>4
  <2> QED
    BY <1>1, <2>1, <2>5 DEF Sums
<1>9. Total(v) = F[m]
  BY DEF Total, F
<1> QED
  BY <1>7, <1>8, <1>9

(* Two sequences have the same sums as far as they agree.                  *)
LEMMA SumsAgree ==
  ASSUME NEW v \in Seq(Int), NEW w \in Seq(Int), NEW f, NEW g,
         Sums(f, v), Sums(g, w), NEW m \in Nat, m <= Len(v), m <= Len(w),
         \A i \in 1 .. m : v[i] = w[i]
  PROVE  \A i \in 0 .. m : f[i] = g[i]
<1> DEFINE T == {i \in 0 .. m : f[i] = g[i]}
<1>1. 0 \in T
  BY DEF Sums
<1>2. ASSUME NEW n \in T, n < m PROVE n + 1 \in T
  <2>1. n + 1 \in 1 .. m /\ n + 1 \in 1 .. Len(v) /\ n + 1 \in 1 .. Len(w)
    BY <1>2
  <2>2. f[n + 1] = f[n] + v[n + 1] /\ g[n + 1] = g[n] + w[n + 1]
    <3>1. (n + 1) - 1 = n
      BY <1>2
    <3> QED
      BY <2>1, <3>1 DEF Sums
  <2> QED
    BY <2>1, <2>2
<1>3. T = 0 .. m
  <2>1. T \subseteq 0 .. m
    OBVIOUS
  <2> HIDE DEF T
  <2> QED
    BY <1>1, <1>2, <2>1, BoundedInduction
<1> QED
  BY <1>3

LEMMA SumsAgreeAt ==
  ASSUME NEW v \in Seq(Int), NEW x \in Seq(Int), NEW f, NEW h,
         Sums(f, v), Sums(h, x), NEW m \in Nat, m <= Len(v), m <= Len(x),
         \A i \in 1 .. m : v[i] = x[i]
  PROVE  f[m] = h[m]
<1>1. \A i \in 0 .. m : f[i] = h[i]
  BY SumsAgree
<1>2. m \in 0 .. m
  OBVIOUS
<1> QED
  BY <1>1, <1>2

LEMMA SumsType ==
  ASSUME NEW v \in Seq(Int), NEW f, Sums(f, v)
  PROVE  \A i \in 0 .. Len(v) : f[i] \in Int
  BY DEF Sums

LEMMA TotalType == ASSUME NEW v \in Seq(Int) PROVE Total(v) \in Int
<1>1. PICK f : Sums(f, v) /\ Total(v) = f[Len(v)]
  BY TotalIsSums
<1> QED
  BY <1>1 DEF Sums

LEMMA TotalEmpty == ASSUME NEW v \in Seq(Int), Len(v) = 0 PROVE Total(v) = 0
<1>1. PICK f : Sums(f, v) /\ Total(v) = f[Len(v)]
  BY TotalIsSums
<1> QED
  BY <1>1 DEF Sums

(* The last number, and what comes before it.                              *)
LEMMA TotalLast ==
  ASSUME NEW v \in Seq(Int), NEW w \in Seq(Int), Len(w) = Len(v) + 1,
         \A i \in 1 .. Len(v) : w[i] = v[i]
  PROVE  Total(w) = Total(v) + w[Len(w)]
<1>1. PICK f : Sums(f, v) /\ Total(v) = f[Len(v)]
  BY TotalIsSums
<1>2. PICK g : Sums(g, w) /\ Total(w) = g[Len(w)]
  BY TotalIsSums
<1>3. Len(v) \in Nat /\ Len(v) <= Len(v) /\ Len(v) <= Len(w)
  OBVIOUS
<1>4. \A i \in 0 .. Len(v) : f[i] = g[i]
  BY <1>1, <1>2, <1>3, SumsAgree
<1>5. f[Len(v)] = g[Len(v)]
  BY <1>3, <1>4
<1>6. Len(w) \in 1 .. Len(w) /\ Len(w) - 1 = Len(v)
  BY <1>3
<1>7. g[Len(w)] = g[Len(w) - 1] + w[Len(w)]
  BY <1>2, <1>6 DEF Sums
<1> QED
  BY <1>1, <1>2, <1>5, <1>6, <1>7

Joined(x, v, w) ==
  /\ x \in Seq(Int) /\ Len(x) = Len(v) + Len(w)
  /\ \A i \in 1 .. Len(v) : x[i] = v[i]
  /\ \A i \in 1 .. Len(w) : x[Len(v) + i] = w[i]

LEMMA TotalJoined ==
  ASSUME NEW v \in Seq(Int), NEW w \in Seq(Int), NEW x, Joined(x, v, w)
  PROVE  Total(x) = Total(v) + Total(w)
<1>1. /\ x \in Seq(Int) /\ Len(x) = Len(v) + Len(w)
      /\ Len(v) \in Nat /\ Len(w) \in Nat
  BY DEF Joined
<1>2. PICK f : Sums(f, v) /\ Total(v) = f[Len(v)]
  BY TotalIsSums
<1>3. PICK g : Sums(g, w) /\ Total(w) = g[Len(w)]
  BY TotalIsSums
<1>4. PICK h : Sums(h, x) /\ Total(x) = h[Len(x)]
  BY <1>1, TotalIsSums
<1> DEFINE T == {n \in 0 .. Len(w) : h[Len(v) + n] = f[Len(v)] + g[n]}
<1>5. 0 \in T
  <2>1. /\ Len(v) <= Len(v) /\ Len(v) <= Len(x)
        /\ \A i \in 1 .. Len(v) : v[i] = x[i]
    BY <1>1 DEF Joined
  <2>2. f[Len(v)] = h[Len(v)]
    <3> DEFINE m == Len(v)
    <3>1. m \in Nat /\ m <= Len(v) /\ m <= Len(x)
      BY <1>1, <2>1
    <3>2. \A i \in 1 .. m : v[i] = x[i]
      BY <2>1
    <3>3. Sums(f, v) /\ Sums(h, x) /\ x \in Seq(Int)
      BY <1>1, <1>2, <1>4
    <3> HIDE DEF m
    <3>4. f[m] = h[m]
      BY <3>1, <3>2, <3>3, SumsAgreeAt
    <3> QED
      BY <3>4 DEF m
  <2>3. Len(v) \in 0 .. Len(v) /\ Len(v) + 0 = Len(v)
    BY <1>1
  <2>4. g[0] = 0 /\ f[Len(v)] \in Int
    BY <1>2, <1>3, <2>3, SumsType DEF Sums
  <2> QED
    BY <1>1, <2>2, <2>3, <2>4
<1>6. ASSUME NEW n \in T, n < Len(w) PROVE n + 1 \in T
  <2>1. /\ n + 1 \in 1 .. Len(w) /\ (n + 1) - 1 = n
        /\ Len(v) + (n + 1) \in 1 .. Len(x) /\ (Len(v) + (n + 1)) - 1 = Len(v) + n
    BY <1>1, <1>6
  <2>2. g[n + 1] = g[n] + w[n + 1]
    BY <1>3, <2>1 DEF Sums
  <2>3. h[Len(v) + (n + 1)] = h[Len(v) + n] + w[n + 1]
    <3>1. h[Len(v) + (n + 1)] = h[Len(v) + n] + x[Len(v) + (n + 1)]
      BY <1>4, <2>1 DEF Sums
    <3> QED
      BY <2>1, <3>1 DEF Joined
  <2>4. g[n] \in Int /\ f[Len(v)] \in Int /\ w[n + 1] \in Int
    <3>1. n \in 0 .. Len(w) /\ Len(v) \in 0 .. Len(v)
      BY <1>1, <1>6
    <3> QED
      BY <1>1, <1>2, <1>3, <2>1, <3>1, SumsType, SMTT(30)
  <2>5. h[Len(v) + n] = f[Len(v)] + g[n]
    BY <1>6
  <2>6. h[Len(v) + (n + 1)] = f[Len(v)] + g[n + 1]
    BY <2>2, <2>3, <2>4, <2>5
  <2> QED
    BY <2>1, <2>6
<1>7. T = 0 .. Len(w)
  <2>1. T \subseteq 0 .. Len(w)
    OBVIOUS
  <2> HIDE DEF T
  <2> QED
    BY <1>1, <1>5, <1>6, <2>1, BoundedInduction
<1>8. Len(w) \in T
  <2>1. Len(w) \in 0 .. Len(w)
    BY <1>1
  <2> QED
    BY <1>7, <2>1
<1> QED
  BY <1>1, <1>2, <1>3, <1>4, <1>8

LEMMA TotalZeros ==
  ASSUME NEW v \in Seq(Int), \A i \in 1 .. Len(v) : v[i] = 0
  PROVE  Total(v) = 0
<1>1. PICK f : Sums(f, v) /\ Total(v) = f[Len(v)]
  BY TotalIsSums
<1> DEFINE T == {n \in 0 .. Len(v) : f[n] = 0}
<1>2. 0 \in T
  BY <1>1 DEF Sums
<1>3. ASSUME NEW n \in T, n < Len(v) PROVE n + 1 \in T
  <2>1. n + 1 \in 1 .. Len(v) /\ (n + 1) - 1 = n
    BY <1>3
  <2>2. f[n + 1] = f[n] + v[n + 1]
    BY <1>1, <2>1 DEF Sums
  <2> QED
    BY <1>3, <2>1, <2>2
<1>4. T = 0 .. Len(v)
  <2>1. T \subseteq 0 .. Len(v) /\ Len(v) \in Nat
    OBVIOUS
  <2> HIDE DEF T
  <2> QED
    BY <1>2, <1>3, <2>1, BoundedInduction
<1>5. Len(v) \in T
  BY <1>4
<1> QED
  BY <1>1, <1>5

(* One number of the sequence is another one.                              *)
LEMMA TotalOneChanged ==
  ASSUME NEW v \in Seq(Int), NEW w \in Seq(Int), Len(w) = Len(v),
         NEW j \in 1 .. Len(v), \A i \in 1 .. Len(v) : i # j => w[i] = v[i]
  PROVE  Total(w) = Total(v) + (w[j] - v[j])
<1>1. PICK f : Sums(f, v) /\ Total(v) = f[Len(v)]
  BY TotalIsSums
<1>2. PICK g : Sums(g, w) /\ Total(w) = g[Len(w)]
  BY TotalIsSums
<1>3. v[j] \in Int /\ w[j] \in Int /\ Len(v) \in Nat
  OBVIOUS
<1> DEFINE Gap(n) == IF n < j THEN 0 ELSE w[j] - v[j]
<1> DEFINE T == {n \in 0 .. Len(v) : g[n] = f[n] + Gap(n)}
<1>4. 0 \in T
  BY <1>1, <1>2 DEF Sums
<1>5. ASSUME NEW n \in T, n < Len(v) PROVE n + 1 \in T
  <2>1. n + 1 \in 1 .. Len(v) /\ n + 1 \in 1 .. Len(w) /\ (n + 1) - 1 = n
    BY <1>5
  <2>2. f[n + 1] = f[n] + v[n + 1] /\ g[n + 1] = g[n] + w[n + 1]
    BY <1>1, <1>2, <2>1 DEF Sums
  <2>3. f[n] \in Int /\ g[n] \in Int /\ v[n + 1] \in Int /\ w[n + 1] \in Int
    <3>1. n \in 0 .. Len(v) /\ n \in 0 .. Len(w)
      BY <1>5
    <3>2. f[n] \in Int /\ g[n] \in Int
      BY <1>1, <1>2, <3>1, SumsType
    <3> QED
      BY <2>1, <3>2
  <2>4. g[n] = f[n] + Gap(n)
    BY <1>5
  <2>5. CASE n + 1 = j
    BY <1>3, <2>1, <2>2, <2>3, <2>4, <2>5, SMTT(30)
  <2>6. CASE n + 1 # j
    <3>1. w[n + 1] = v[n + 1] /\ Gap(n + 1) = Gap(n) /\ Gap(n) \in Int
      BY <1>3, <2>1, <2>6, SMTT(30)
    <3> HIDE DEF Gap
    <3>2. g[n + 1] = f[n + 1] + Gap(n + 1)
      BY <2>2, <2>3, <2>4, <3>1, SMTT(30)
    <3> QED
      BY <2>1, <3>2
  <2> QED
    BY <2>5, <2>6
<1>6. T = 0 .. Len(v)
  <2>1. T \subseteq 0 .. Len(v)
    OBVIOUS
  <2> HIDE DEF T
  <2> QED
    BY <1>3, <1>4, <1>5, <2>1, BoundedInduction
<1>7. Len(v) \in T /\ ~ (Len(v) < j)
  BY <1>3, <1>6
<1> QED
  BY <1>1, <1>2, <1>7

-----------------------------------------------------------------------------
(* Arithmetic: rounding, and the share count an event leaves.              *)

LEMMA MaxPair == ASSUME NEW x \in Int, NEW y \in Int
                 PROVE  Max({x, y}) = IF x >= y THEN x ELSE y
  BY DEF Max

LEMMA TimesMonotone == ASSUME NEW x \in Int, NEW y \in Int, NEW c \in Nat, x <= y
                       PROVE  x * c <= y * c
  OBVIOUS

LEMMA TimesType == ASSUME NEW x \in Nat, NEW y \in Nat
                   PROVE  x * y \in Nat /\ (x > 0 /\ y > 0 => x * y > 0)
  OBVIOUS

LEMMA DivFacts ==
  ASSUME NEW x \in Nat, NEW q \in Nat \ {0}
  PROVE  /\ x \div q \in Nat
         /\ (x \div q) * q <= x /\ x < (x \div q) * q + q
  OBVIOUS

LEMMA DivMonotone ==
  ASSUME NEW x \in Nat, NEW y \in Nat, NEW q \in Nat \ {0}, x <= y
  PROVE  x \div q <= y \div q
  OBVIOUS

LEMMA CeilDivFacts ==
  ASSUME NEW x \in Nat, NEW q \in Nat \ {0}
  PROVE  CeilDiv(x, q) \in Nat /\ (x > 0 => CeilDiv(x, q) > 0) /\ CeilDiv(0, q) = 0
<1>1. x + q - 1 \in Nat /\ 0 + q - 1 \in Nat /\ 0 + q - 1 < q
  OBVIOUS
<1>2. CeilDiv(x, q) \in Nat
  BY <1>1, DivFacts DEF CeilDiv
<1>3. CeilDiv(0, q) = 0
  BY <1>1, DivFacts DEF CeilDiv
<1>4. ASSUME x > 0 PROVE CeilDiv(x, q) > 0
  <2>1. x + q - 1 >= q
    BY <1>4
  <2>2. x + q - 1 < ((x + q - 1) \div q) * q + q
    BY <1>1, DivFacts
  <2>3. (x + q - 1) \div q # 0
    BY <2>1, <2>2
  <2> QED
    BY <1>2, <2>3 DEF CeilDiv
<1> QED
  BY <1>2, <1>3, <1>4

LEMMA CeilDivMonotone ==
  ASSUME NEW x \in Nat, NEW y \in Nat, NEW q \in Nat \ {0}, x <= y
  PROVE  CeilDiv(x, q) <= CeilDiv(y, q)
<1>1. x + q - 1 \in Nat /\ y + q - 1 \in Nat /\ x + q - 1 <= y + q - 1
  OBVIOUS
<1> QED
  BY <1>1, DivMonotone DEF CeilDiv

LEMMA AddGiftFacts ==
  ASSUME NEW n \in Nat, NEW w \in ExRights
  PROVE  AddGift(n, w) \in Nat /\ AddGift(n, w) >= n /\ AddGift(0, w) = 0
<1>1. w.gift \in Nat
  BY DEF ExRights
<1>2. n * w.gift \in Nat
  BY <1>1, TimesType
<1> QED
  BY <1>1, <1>2 DEF AddGift

LEMMA AddGiftMonotone ==
  ASSUME NEW n \in Nat, NEW m \in Nat, n <= m, NEW w \in ExRights
  PROVE  AddGift(n, w) <= AddGift(m, w)
<1>1. w.gift \in Nat
  BY DEF ExRights
<1>2. n * w.gift <= m * w.gift /\ n * w.gift \in Nat /\ m * w.gift \in Nat
  BY <1>1, TimesMonotone, TimesType
<1> QED
  BY <1>2 DEF AddGift

LEMMA SuoguType ==
  ASSUME NEW w \in ExRights
  PROVE  w.suogu[1] \in Nat /\ w.suogu[2] \in Nat \ {0}
  BY DEF ExRights

LEMMA ConsolidateFacts ==
  ASSUME NEW n \in Nat, NEW w \in ExRights
  PROVE  /\ Consolidate(n, w) \in Nat /\ Consolidate(0, w) = 0
         /\ n > 0 => Consolidate(n, w) > 0
<1> DEFINE p == w.suogu[1]
           q == w.suogu[2]
<1>1. p \in Nat /\ q \in Nat \ {0} /\ n * p \in Nat /\ 0 * p = 0
  BY SuoguType, TimesType
<1>2. CASE p = 0
  BY <1>2 DEF Consolidate
<1>3. CASE p # 0 /\ p < q
  <2>1. n > 0 => n * p > 0
    BY <1>1, <1>3, TimesType
  <2>2. Consolidate(n, w) = CeilDiv(n * p, q) /\ Consolidate(0, w) = CeilDiv(0, q)
    BY <1>1, <1>3 DEF Consolidate
  <2> HIDE DEF p, q
  <2> QED
    BY <1>1, <2>1, <2>2, CeilDivFacts
<1>4. CASE p # 0 /\ ~ (p < q)
  <2>1. Consolidate(n, w) = (n * p) \div q /\ Consolidate(0, w) = 0 \div q
    BY <1>1, <1>4 DEF Consolidate
  <2> HIDE DEF p, q
  <2>2. (n * p) \div q \in Nat /\ n * p < ((n * p) \div q) * q + q
    BY <1>1, DivFacts
  <2>3. 0 \div q = 0
    BY <1>1, DivFacts
  <2>4. ASSUME n > 0 PROVE (n * p) \div q # 0
    <3>1. n * p >= q
      BY <1>1, <1>4, <2>4
    <3> QED
      BY <1>1, <2>2, <3>1
  <2> QED
    BY <2>1, <2>2, <2>3, <2>4
<1> QED
  BY <1>2, <1>3, <1>4

LEMMA ConsolidateMonotone ==
  ASSUME NEW n \in Nat, NEW m \in Nat, n <= m, NEW w \in ExRights
  PROVE  Consolidate(n, w) <= Consolidate(m, w)
<1> DEFINE p == w.suogu[1]
           q == w.suogu[2]
<1>1. p \in Nat /\ q \in Nat \ {0} /\ n * p \in Nat /\ m * p \in Nat /\ n * p <= m * p
  BY SuoguType, TimesType, TimesMonotone
<1>2. CASE p = 0
  BY <1>2 DEF Consolidate
<1>3. CASE p # 0 /\ p < q
  <2>1. Consolidate(n, w) = CeilDiv(n * p, q) /\ Consolidate(m, w) = CeilDiv(m * p, q)
    BY <1>3 DEF Consolidate
  <2> HIDE DEF p, q
  <2> QED
    BY <1>1, <2>1, CeilDivMonotone
<1>4. CASE p # 0 /\ ~ (p < q)
  <2>1. Consolidate(n, w) = (n * p) \div q /\ Consolidate(m, w) = (m * p) \div q
    BY <1>4 DEF Consolidate
  <2> HIDE DEF p, q
  <2> QED
    BY <1>1, <2>1, DivMonotone
<1> QED
  BY <1>2, <1>3, <1>4

LEMMA AfterEventFacts ==
  ASSUME NEW n \in Nat, NEW w \in ExRights
  PROVE  /\ AfterEvent(n, w) \in Nat /\ AfterEvent(0, w) = 0
         /\ n > 0 => AfterEvent(n, w) > 0
<1>1. AddGift(n, w) \in Nat /\ AddGift(n, w) >= n /\ AddGift(0, w) = 0
  BY AddGiftFacts
<1> QED
  BY <1>1, ConsolidateFacts DEF AfterEvent

(* An event leaves the larger of two holdings no smaller than the other.   *)
LEMMA AfterEventMonotone ==
  ASSUME NEW n \in Nat, NEW m \in Nat, n <= m, NEW w \in ExRights
  PROVE  AfterEvent(n, w) <= AfterEvent(m, w)
<1>1. AddGift(n, w) \in Nat /\ AddGift(m, w) \in Nat /\ AddGift(n, w) <= AddGift(m, w)
  BY AddGiftFacts, AddGiftMonotone
<1> QED
  BY <1>1, ConsolidateMonotone DEF AfterEvent

-----------------------------------------------------------------------------
(* What an account is.                                                     *)

-----------------------------------------------------------------------------
(* What a record of the log tells of the account: of each holding, of the  *)
(* cash, of the loans, and of the costs no position carries.               *)

LEMMA MeasureCases ==
  ASSUME NEW e \in Measures
  PROVE  \/ e = Cash
         \/ e = <<"loan", NoStock>>
         \/ e = <<"cost", NoStock>>
         \/ \E side \in Sides, s \in Stocks : e = <<side, s>>
  BY DEF Measures, Cash, Sides

LEMMA TimesInt == ASSUME NEW x \in Int, NEW y \in Int PROVE x * y \in Int
  OBVIOUS

LEMMA EffectType ==
  ASSUME NEW e \in Measures, NEW r \in Record
  PROVE  Effect(e, r) \in Int
<1>1. /\ r.number \in Int /\ r.realPrice \in Int /\ r.cost \in Int
      /\ r.realPrice * r.number \in Int
  BY TimesInt DEF Record
<1>2. CashEffect(r) \in Int
  <2> DEFINE money == r.realPrice * r.number
  <2>1. money \in Int
    BY <1>1
  <2> HIDE DEF money
  <2>2. /\ -money - r.cost \in Int /\ money - r.cost \in Int
        /\ r.realPrice - r.cost \in Int /\ -r.realPrice - r.cost \in Int /\ -r.cost \in Int
    BY <1>1, <2>1
  <2> QED
    BY <2>2 DEF CashEffect, money
<1>3. SignedCash(r) \in Int
  BY <1>1 DEF SignedCash
<1>4. DebtCost(r) \in Int
  BY <1>1 DEF DebtCost
<1>5. Signed(r, e[2], Plus(e[1]), Minus(e[1])) \in Int
  BY <1>1 DEF Signed
<1> QED
  BY <1>2, <1>3, <1>4, <1>5 DEF Effect

LEMMA ColumnType ==
  ASSUME NEW e \in Measures, NEW log \in Seq(Record)
  PROVE  /\ Column(e, log) \in Seq(Int) /\ Len(Column(e, log)) = Len(log)
         /\ \A i \in 1 .. Len(log) : Column(e, log)[i] = Effect(e, log[i])
<1>1. \A i \in 1 .. Len(log) : Effect(e, log[i]) \in Int
  BY EffectType
<1> QED
  BY <1>1 DEF Column

LEMMA ColumnAppend ==
  ASSUME NEW e \in Measures, NEW log \in Seq(Record), NEW r \in Record
  PROVE  Total(Column(e, Append(log, r))) = Total(Column(e, log)) + Effect(e, r)
<1> DEFINE v == Column(e, log)
           w == Column(e, Append(log, r))
<1>1. /\ Append(log, r) \in Seq(Record) /\ Len(Append(log, r)) = Len(log) + 1
      /\ Len(log) \in Nat
      /\ \A i \in 1 .. Len(log) : Append(log, r)[i] = log[i]
      /\ Append(log, r)[Len(log) + 1] = r
  OBVIOUS
<1>2. v \in Seq(Int) /\ Len(v) = Len(log)
  BY ColumnType
<1>3. /\ w \in Seq(Int) /\ Len(w) = Len(log) + 1
      /\ \A i \in 1 .. Len(log) + 1 : w[i] = Effect(e, Append(log, r)[i])
  BY <1>1, ColumnType
<1>4. \A i \in 1 .. Len(v) : w[i] = v[i]
  BY <1>1, <1>2, <1>3, ColumnType
<1>5. w[Len(w)] = Effect(e, r)
  BY <1>1, <1>3
<1> HIDE DEF v, w
<1>6. Total(w) = Total(v) + w[Len(w)]
  BY <1>2, <1>3, <1>4, TotalLast
<1> QED
  BY <1>5, <1>6 DEF v, w

LEMMA ColumnConcat ==
  ASSUME NEW e \in Measures, NEW log \in Seq(Record), NEW recs \in Seq(Record)
  PROVE  Total(Column(e, log \o recs)) = Total(Column(e, log)) + Total(Column(e, recs))
<1> DEFINE v == Column(e, log)
           w == Column(e, recs)
           x == Column(e, log \o recs)
<1>1. /\ log \o recs \in Seq(Record) /\ Len(log \o recs) = Len(log) + Len(recs)
      /\ Len(log) \in Nat /\ Len(recs) \in Nat
      /\ \A i \in 1 .. Len(log) : (log \o recs)[i] = log[i]
      /\ \A i \in 1 .. Len(recs) : (log \o recs)[Len(log) + i] = recs[i]
  OBVIOUS
<1>2. v \in Seq(Int) /\ Len(v) = Len(log) /\ w \in Seq(Int) /\ Len(w) = Len(recs)
  BY ColumnType
<1>3. /\ x \in Seq(Int) /\ Len(x) = Len(log) + Len(recs)
      /\ \A i \in 1 .. Len(log) + Len(recs) : x[i] = Effect(e, (log \o recs)[i])
  BY <1>1, ColumnType
<1>4. \A i \in 1 .. Len(v) : x[i] = v[i]
  BY <1>1, <1>2, <1>3, ColumnType
<1>5. \A i \in 1 .. Len(w) : x[Len(v) + i] = w[i]
  <2>1. TAKE i \in 1 .. Len(w)
  <2>2. i \in 1 .. Len(recs) /\ Len(log) + i \in 1 .. Len(log) + Len(recs)
    BY <1>1, <1>2
  <2>3. x[Len(log) + i] = Effect(e, recs[i])
    BY <1>1, <1>3, <2>2
  <2>4. w[i] = Effect(e, recs[i])
    BY <2>2, ColumnType
  <2> QED
    BY <1>2, <2>3, <2>4
<1> HIDE DEF v, w, x
<1>6. Joined(x, v, w)
  BY <1>2, <1>3, <1>4, <1>5 DEF Joined
<1>7. Total(x) = Total(v) + Total(w)
  BY <1>2, <1>6, TotalJoined
<1> QED
  BY <1>7 DEF v, w, x

LEMMA ColumnEmpty ==
  ASSUME NEW e \in Measures
  PROVE  Total(Column(e, <<>>)) = 0
<1>1. <<>> \in Seq(Record) /\ Len(<<>>) = 0
  OBVIOUS
<1>2. Column(e, <<>>) \in Seq(Int) /\ Len(Column(e, <<>>)) = 0
  BY <1>1, ColumnType
<1> QED
  BY <1>2, TotalEmpty

LEMMA ColumnTotalType ==
  ASSUME NEW e \in Measures, NEW log \in Seq(Record)
  PROVE  Total(Column(e, log)) \in Int
  BY ColumnType, TotalType

-----------------------------------------------------------------------------
(* An account after one more record.                                       *)

LEMMA LogFacts ==
  ASSUME NEW a, IsAccount(a)
  PROVE  /\ a.m_trade_list \in Seq(Record) /\ Len(a.m_trade_list) \in Nat \ {0}
         /\ Last(a.m_trade_list) = a.m_trade_list[Len(a.m_trade_list)]
         /\ lastDatetime(a) = a.m_trade_list[Len(a.m_trade_list)].datetime
         /\ lastDatetime(a) \in Nat
<1>1. a.m_trade_list \in Seq(Record) /\ a.m_trade_list # <<>>
  BY DEF IsAccount
<1>2. Len(a.m_trade_list) \in Nat \ {0}
  BY <1>1
<1>3. Last(a.m_trade_list) = a.m_trade_list[Len(a.m_trade_list)]
  BY DEF Last
<1>4. a.m_trade_list[Len(a.m_trade_list)] \in Record
  BY <1>1, <1>2
<1> QED
  BY <1>1, <1>2, <1>3, <1>4 DEF lastDatetime, Record

LEMMA CashIsMeasure == Cash \in Measures
  BY DEF Cash, Measures

LEMMA EntryKeepsGood ==
  ASSUME NEW a, Good(a), NEW b, NEW r, Entry(a, b, r), r.datetime >= lastDatetime(a)
  PROVE  Good(b) /\ lastDatetime(b) = r.datetime
<1> DEFINE log == a.m_trade_list
           m == Len(log)
           new == b.m_trade_list
<1>1. IsAccount(a) /\ IsAccount(b) /\ r \in Record
  BY DEF Good, Entry
<1>2. /\ log \in Seq(Record) /\ m \in Nat \ {0} /\ Last(log) = log[m]
      /\ lastDatetime(a) = log[m].datetime
      /\ \A i \in 1 .. m : log[i] \in Record
  BY <1>1, LogFacts
<1>3. /\ new = Append(log, r) /\ new \in Seq(Record) /\ Len(new) = m + 1
      /\ new[m + 1] = r /\ \A i \in 1 .. m : new[i] = log[i]
  BY <1>1, <1>2 DEF Entry
<1>4. Last(new) = r /\ lastDatetime(b) = r.datetime
  BY <1>1, <1>3, LogFacts
<1>5. InOrder(new)
  <2>1. InOrder(log)
    BY DEF Good
  <2>2. ASSUME NEW i \in 1 .. m + 1, NEW j \in 1 .. m + 1, i <= j
        PROVE  new[i].datetime <= new[j].datetime
    <3>1. CASE j \in 1 .. m
      <4>1. i \in 1 .. m
        BY <1>2, <2>2, <3>1
      <4> QED
        BY <1>3, <2>1, <2>2, <3>1, <4>1 DEF InOrder
    <3>2. CASE i = m + 1 /\ j = m + 1
      BY <1>1, <1>3, <3>2 DEF Record
    <3>3. CASE i \in 1 .. m /\ j = m + 1
      <4>1. log[i].datetime <= log[m].datetime
        BY <1>2, <2>1, <3>3 DEF InOrder
      <4>2. log[i].datetime \in Nat /\ log[m].datetime \in Nat /\ r.datetime \in Nat
        <5>1. log[i] \in Record /\ log[m] \in Record /\ r \in Record
          BY <1>1, <1>2, <3>3
        <5> QED
          BY <5>1 DEF Record
      <4> QED
        BY <1>2, <1>3, <3>3, <4>1, <4>2
    <3> QED
      BY <1>2, <2>2, <3>1, <3>2, <3>3
  <2> QED
    BY <1>3, <2>2 DEF InOrder
<1>6. a.m_cash \in Int /\ b.m_cash = a.m_cash + Effect(Cash, r)
  <2>1. a.m_cash \in Int /\ b.m_cash \in Int /\ Effect(Cash, r) \in Int /\ InitCash \in Int
    BY <1>1, CashIsMeasure, EffectType, ParameterAssumption DEF IsAccount
  <2>2. Level(Cash, b) = Level(Cash, a) + Effect(Cash, r)
    BY CashIsMeasure DEF Entry
  <2>3. b.m_cash - InitCash = (a.m_cash - InitCash) + Effect(Cash, r)
    BY <2>2 DEF Level, Cash
  <2> QED
    BY <2>1, <2>3
<1>7. RunningCash(new) /\ Last(new).cash = b.m_cash
  <2>1. RunningCash(log) /\ log[m].cash = a.m_cash
    BY <1>2 DEF Good
  <2>2. r.cash = b.m_cash
    BY DEF Entry
  <2>3. new[1].cash = InitCash
    BY <1>2, <1>3, <2>1 DEF RunningCash
  <2>4. ASSUME NEW i \in 1 .. m + 1, i > 1
        PROVE  new[i].cash = new[i - 1].cash + Effect(Cash, new[i])
    <3>1. CASE i \in 1 .. m
      <4>1. i - 1 \in 1 .. m
        BY <1>2, <2>4, <3>1
      <4> QED
        BY <1>3, <2>1, <2>4, <3>1, <4>1 DEF RunningCash
    <3>2. CASE i = m + 1
      <4>1. i - 1 = m /\ m \in 1 .. m
        BY <1>2, <3>2
      <4> QED
        BY <1>3, <1>6, <2>1, <2>2, <3>2, <4>1
    <3> QED
      BY <1>2, <3>1, <3>2
  <2> QED
    BY <1>3, <1>4, <2>2, <2>3, <2>4 DEF RunningCash
<1>8. Story(b)
  <2>1. ASSUME NEW e \in Measures PROVE Level(e, b) = Total(Column(e, new))
    <3>1. Level(e, b) = Level(e, a) + Effect(e, r)
      BY DEF Entry
    <3>2. Level(e, a) = Total(Column(e, log))
      BY DEF Good, Story
    <3>3. Total(Column(e, Append(log, r))) = Total(Column(e, log)) + Effect(e, r)
      BY <1>1, <1>2, ColumnAppend
    <3> QED
      BY <1>3, <3>1, <3>2, <3>3
  <2> QED
    BY <2>1 DEF Story
<1> QED
  BY <1>1, <1>4, <1>5, <1>7, <1>8 DEF Good

LEMMA QuietKeepsGood ==
  ASSUME NEW a, Good(a), NEW b, Quiet(a, b)
  PROVE  Good(b) /\ lastDatetime(b) = lastDatetime(a)
<1>1. IsAccount(b) /\ b.m_trade_list = a.m_trade_list /\ b.m_cash = a.m_cash
  BY DEF Quiet
<1>2. Story(b)
  <2>1. ASSUME NEW e \in Measures PROVE Level(e, b) = Total(Column(e, b.m_trade_list))
    <3>1. Level(e, b) = Level(e, a) /\ Level(e, a) = Total(Column(e, a.m_trade_list))
      BY DEF Quiet, Good, Story
    <3> QED
      BY <1>1, <3>1
  <2> QED
    BY <2>1 DEF Story
<1> QED
  BY <1>1, <1>2 DEF Good, lastDatetime

-----------------------------------------------------------------------------
(* Maps of positions.                                                      *)

LEMMA StockSeqFacts ==
  /\ Len(StockSeq) \in Nat
  /\ \A i \in 1 .. Len(StockSeq) : StockSeq[i] \in Stocks
  /\ \A s \in Stocks : \E j \in 1 .. Len(StockSeq) : StockSeq[j] = s
  /\ \A i, j \in 1 .. Len(StockSeq) : StockSeq[i] = StockSeq[j] => i = j
<1>1. StockSeq \in Seq(Stocks)
  BY StockAssumption
<1>2. DOMAIN StockSeq = 1 .. Len(StockSeq) /\ Len(StockSeq) \in Nat
  BY <1>1
<1>3. Stocks = {StockSeq[i] : i \in DOMAIN StockSeq}
  BY DEF Stocks, ToSet
<1> QED
  BY <1>2, <1>3, StockAssumption

LEMMA GainInType ==
  ASSUME NEW map, Positions(map), NEW s
  PROVE  GainIn(map, s) \in Int
<1>1. CASE s \in DOMAIN map
  <2>1. map[s] \in Position
    BY <1>1 DEF Positions
  <2>2. map[s].sellMoney \in Int /\ map[s].buyMoney \in Int /\ map[s].totalCost \in Int
    BY <2>1 DEF Position
  <2> QED
    BY <1>1, <2>2 DEF GainIn, Gain
<1>2. CASE s \notin DOMAIN map
  BY <1>2 DEF GainIn
<1> QED
  BY <1>1, <1>2

LEMMA GainsType ==
  ASSUME NEW map, Positions(map)
  PROVE  /\ Gains(map) \in Seq(Int) /\ Len(Gains(map)) = Len(StockSeq)
         /\ \A i \in 1 .. Len(StockSeq) : Gains(map)[i] = GainIn(map, StockSeq[i])
         /\ OpenGain(map) = Total(Gains(map)) /\ OpenGain(map) \in Int
<1>1. DOMAIN StockSeq = 1 .. Len(StockSeq) /\ Len(StockSeq) \in Nat
  BY StockAssumption
<1>2. Gains(map) = [i \in 1 .. Len(StockSeq) |-> GainIn(map, StockSeq[i])]
  BY <1>1 DEF Gains
<1>3. \A i \in 1 .. Len(StockSeq) : GainIn(map, StockSeq[i]) \in Int
  BY GainInType
<1>4. Gains(map) \in Seq(Int) /\ Len(Gains(map)) = Len(StockSeq)
  BY <1>1, <1>2, <1>3
<1>5. OpenGain(map) = Total(Gains(map))
  BY DEF OpenGain, Gains
<1> QED
  BY <1>2, <1>4, <1>5, TotalType

LEMMA OpenGainChanged ==
  ASSUME NEW map, Positions(map), NEW new, Positions(new), NEW s \in Stocks,
         \A x \in Stocks : x # s => GainIn(new, x) = GainIn(map, x)
  PROVE  OpenGain(new) = OpenGain(map) + (GainIn(new, s) - GainIn(map, s))
<1> DEFINE v == Gains(map)
           w == Gains(new)
<1>1. PICK j \in 1 .. Len(StockSeq) : StockSeq[j] = s
  BY StockSeqFacts
<1>2. v \in Seq(Int) /\ w \in Seq(Int) /\ Len(v) = Len(StockSeq) /\ Len(w) = Len(v)
  BY GainsType
<1>3. \A i \in 1 .. Len(v) : v[i] = GainIn(map, StockSeq[i]) /\ w[i] = GainIn(new, StockSeq[i])
  BY <1>2, GainsType
<1>4. \A i \in 1 .. Len(v) : i # j => w[i] = v[i]
  BY <1>1, <1>2, <1>3, StockSeqFacts
<1>5. j \in 1 .. Len(v)
  BY <1>1, <1>2
<1>6. OpenGain(map) = Total(v) /\ OpenGain(new) = Total(w)
  BY GainsType
<1>7. w[j] = GainIn(new, s) /\ v[j] = GainIn(map, s)
  BY <1>1, <1>3, <1>5
<1> HIDE DEF v, w
<1>8. Total(w) = Total(v) + (w[j] - v[j])
  BY <1>2, <1>4, <1>5, TotalOneChanged
<1> QED
  BY <1>6, <1>7, <1>8

(* A history of closed positions, with one more.                           *)
LEMMA ClosedGainType ==
  ASSUME NEW history \in Seq(Position)
  PROVE  ClosedGain(history) \in Int
<1>1. DOMAIN history = 1 .. Len(history) /\ Len(history) \in Nat
  OBVIOUS
<1>2. \A i \in 1 .. Len(history) : Gain(history[i]) \in Int
  <2>1. TAKE i \in 1 .. Len(history)
  <2>2. history[i] \in Position
    OBVIOUS
  <2> QED
    BY <2>2 DEF Gain, Position
<1>3. [i \in DOMAIN history |-> Gain(history[i])] \in Seq(Int)
  BY <1>1, <1>2
<1> QED
  BY <1>3, TotalType DEF ClosedGain

LEMMA ClosedGainAppend ==
  ASSUME NEW history \in Seq(Position), NEW pos \in Position
  PROVE  ClosedGain(Append(history, pos)) = ClosedGain(history) + Gain(pos)
<1> DEFINE longer == Append(history, pos)
           v == [i \in DOMAIN history |-> Gain(history[i])]
           w == [i \in DOMAIN longer |-> Gain(longer[i])]
<1>1. /\ longer \in Seq(Position) /\ Len(longer) = Len(history) + 1
      /\ Len(history) \in Nat
      /\ DOMAIN history = 1 .. Len(history) /\ DOMAIN longer = 1 .. Len(history) + 1
      /\ \A i \in 1 .. Len(history) : longer[i] = history[i]
      /\ longer[Len(history) + 1] = pos
  OBVIOUS
<1>2. \A p \in Position : Gain(p) \in Int
  BY DEF Gain, Position
<1> HIDE DEF longer
<1>3. \A i \in 1 .. Len(history) : Gain(history[i]) \in Int
  BY <1>2
<1>4. \A i \in 1 .. Len(history) + 1 : Gain(longer[i]) \in Int
  BY <1>1, <1>2
<1>5. v \in Seq(Int) /\ Len(v) = Len(history)
  BY <1>1, <1>3
<1>6. w \in Seq(Int) /\ Len(w) = Len(history) + 1
  BY <1>1, <1>4
<1>7. \A i \in 1 .. Len(v) : w[i] = v[i]
  BY <1>1, <1>5
<1>8. w[Len(w)] = Gain(pos)
  BY <1>1, <1>6
<1>9. ClosedGain(history) = Total(v) /\ ClosedGain(longer) = Total(w)
  BY DEF ClosedGain
<1> HIDE DEF v, w
<1>10. Total(w) = Total(v) + w[Len(w)]
  BY <1>5, <1>6, <1>7, TotalLast
<1> QED
  BY <1>8, <1>9, <1>10 DEF longer

LEMMA NumberInType ==
  ASSUME NEW map, NEW s, Positions(map) \/ Debts(map)
  PROVE  NumberIn(map, s) \in Nat
<1>1. CASE Positions(map)
  BY <1>1 DEF NumberIn, Positions, Position
<1>2. CASE Debts(map)
  BY <1>2 DEF NumberIn, Debts, Debt, Pos
<1> QED
  BY <1>1, <1>2

(* A position put in its place.                                            *)
LEMMA PutPosition ==
  ASSUME NEW map, Positions(map), NEW s \in Stocks,
         NEW pos \in Position, pos.stock = s, pos.number > 0
  PROVE  /\ Positions(Put(map, s, pos))
         /\ NumberIn(Put(map, s, pos), s) = pos.number
         /\ \A x : x # s => NumberIn(Put(map, s, pos), x) = NumberIn(map, x)
         /\ OpenGain(Put(map, s, pos)) = OpenGain(map) + (Gain(pos) - GainIn(map, s))
<1> DEFINE new == Put(map, s, pos)
<1>1. /\ DOMAIN new = DOMAIN map \cup {s} /\ new = [x \in DOMAIN new |-> new[x]]
      /\ new[s] = pos /\ \A x \in DOMAIN map : x # s => new[x] = map[x]
  BY DEF Put
<1> HIDE DEF new
<1>2. Positions(new)
  BY <1>1 DEF Positions
<1>3. NumberIn(new, s) = pos.number /\ \A x : x # s => NumberIn(new, x) = NumberIn(map, x)
  BY <1>1 DEF NumberIn
<1>4. GainIn(new, s) = Gain(pos) /\ \A x : x # s => GainIn(new, x) = GainIn(map, x)
  BY <1>1 DEF GainIn
<1>5. OpenGain(new) = OpenGain(map) + (GainIn(new, s) - GainIn(map, s))
  BY <1>2, <1>4, OpenGainChanged
<1> QED
  BY <1>2, <1>3, <1>4, <1>5 DEF new

LEMMA ErasePosition ==
  ASSUME NEW map, Positions(map), NEW s \in Stocks
  PROVE  /\ Positions(Erase(map, s))
         /\ NumberIn(Erase(map, s), s) = 0
         /\ \A x : x # s => NumberIn(Erase(map, s), x) = NumberIn(map, x)
         /\ OpenGain(Erase(map, s)) = OpenGain(map) - GainIn(map, s)
<1> DEFINE new == Erase(map, s)
<1>1. /\ DOMAIN new = DOMAIN map \ {s} /\ new = [x \in DOMAIN new |-> new[x]]
      /\ \A x \in DOMAIN map : x # s => new[x] = map[x]
  BY DEF Erase
<1> HIDE DEF new
<1>2. Positions(new)
  BY <1>1 DEF Positions
<1>3. NumberIn(new, s) = 0 /\ \A x : x # s => NumberIn(new, x) = NumberIn(map, x)
  BY <1>1 DEF NumberIn
<1>4. GainIn(new, s) = 0 /\ \A x : x # s => GainIn(new, x) = GainIn(map, x)
  BY <1>1 DEF GainIn
<1>5. OpenGain(new) = OpenGain(map) + (GainIn(new, s) - GainIn(map, s))
  BY <1>2, <1>4, OpenGainChanged
<1>6. OpenGain(map) \in Int /\ GainIn(map, s) \in Int
  BY GainsType, GainInType
<1> QED
  BY <1>2, <1>3, <1>4, <1>5, <1>6 DEF new

(* A position that changed stays open or moves to the history.             *)
LEMMA KeepOpenFacts ==
  ASSUME NEW map, Positions(map), NEW history \in Seq(Position),
         NEW pos \in Position
  PROVE  LET s == pos.stock
         IN  /\ Positions(KeepOpen(map, pos)) /\ Archived(history, pos) \in Seq(Position)
             /\ NumberIn(KeepOpen(map, pos), s) = pos.number
             /\ \A x : x # s => NumberIn(KeepOpen(map, pos), x) = NumberIn(map, x)
             /\ OpenGain(KeepOpen(map, pos)) + ClosedGain(Archived(history, pos))
                  = OpenGain(map) + ClosedGain(history) + (Gain(pos) - GainIn(map, s))
<1> DEFINE s == pos.stock
<1>1. s \in Stocks /\ pos.number \in Nat /\ Gain(pos) \in Int
  BY DEF Position, Gain
<1>2. OpenGain(map) \in Int /\ GainIn(map, s) \in Int /\ ClosedGain(history) \in Int
  BY GainsType, GainInType, ClosedGainType
<1>3. CASE pos.number = 0
  <2>1. KeepOpen(map, pos) = Erase(map, s) /\ Archived(history, pos) = Append(history, pos)
    BY <1>3 DEF KeepOpen, Archived
  <2>2. ClosedGain(Append(history, pos)) = ClosedGain(history) + Gain(pos)
    BY ClosedGainAppend
  <2>3. Append(history, pos) \in Seq(Position)
    OBVIOUS
  <2> HIDE DEF s
  <2>4. /\ Positions(Erase(map, s)) /\ NumberIn(Erase(map, s), s) = 0
        /\ \A x : x # s => NumberIn(Erase(map, s), x) = NumberIn(map, x)
        /\ OpenGain(Erase(map, s)) = OpenGain(map) - GainIn(map, s)
    BY <1>1, ErasePosition
  <2>5. OpenGain(Erase(map, s)) + ClosedGain(Append(history, pos))
          = OpenGain(map) + ClosedGain(history) + (Gain(pos) - GainIn(map, s))
    BY <1>1, <1>2, <2>2, <2>4
  <2> QED
    BY <1>3, <2>1, <2>3, <2>4, <2>5 DEF s
<1>4. CASE pos.number # 0
  <2>1. KeepOpen(map, pos) = Put(map, s, pos) /\ Archived(history, pos) = history
    BY <1>4 DEF KeepOpen, Archived
  <2>2. /\ Positions(Put(map, s, pos)) /\ NumberIn(Put(map, s, pos), s) = pos.number
        /\ \A x : x # s => NumberIn(Put(map, s, pos), x) = NumberIn(map, x)
        /\ OpenGain(Put(map, s, pos)) = OpenGain(map) + (Gain(pos) - GainIn(map, s))
    BY <1>1, <1>4, PutPosition
  <2> HIDE DEF s
  <2>3. OpenGain(Put(map, s, pos)) + ClosedGain(history)
          = OpenGain(map) + ClosedGain(history) + (Gain(pos) - GainIn(map, s))
    BY <1>1, <1>2, <2>2
  <2> QED
    BY <2>1, <2>2, <2>3 DEF s
<1> QED
  BY <1>3, <1>4

LEMMA NewPositionFacts ==
  ASSUME NEW s \in Stocks, NEW n \in Nat, NEW buyMoney \in Int, NEW cost \in Int,
         NEW sellMoney \in Int
  PROVE  LET pos == NewPosition(s, n, buyMoney, cost, sellMoney)
         IN  /\ pos \in Position /\ pos.stock = s /\ pos.number = n
             /\ Gain(pos) = sellMoney - buyMoney - cost
  BY DEF NewPosition, Position, Gain

LEMMA PositionFields ==
  ASSUME NEW pos \in Position
  PROVE  /\ pos.stock \in Stocks /\ pos.number \in Nat /\ pos.totalNumber \in Int
         /\ pos.buyMoney \in Int /\ pos.totalCost \in Int /\ pos.sellMoney \in Int
         /\ Gain(pos) = pos.sellMoney - pos.buyMoney - pos.totalCost
  BY DEF Position, Gain

LEMMA GrownFacts ==
  ASSUME NEW pos \in Position, NEW n \in Nat, NEW buyMoney \in Int, NEW cost \in Int,
         NEW sellMoney \in Int
  PROVE  LET new == Grown(pos, n, buyMoney, cost, sellMoney)
         IN  /\ new \in Position /\ new.stock = pos.stock /\ new.number = pos.number + n
             /\ Gain(new) = Gain(pos) + (sellMoney - buyMoney - cost)
<1> DEFINE number == pos.number + n
           total  == pos.totalNumber + n
           buys   == pos.buyMoney + buyMoney
           costs  == pos.totalCost + cost
           sells  == pos.sellMoney + sellMoney
           new    == [pos EXCEPT !.number = number, !.totalNumber = total,
                                 !.buyMoney = buys, !.totalCost = costs,
                                 !.sellMoney = sells]
<1>1. number \in Nat /\ total \in Int /\ buys \in Int /\ costs \in Int /\ sells \in Int
  BY PositionFields
<1>2. sells - buys - costs = Gain(pos) + (sellMoney - buyMoney - cost)
  BY PositionFields
<1>3. Grown(pos, n, buyMoney, cost, sellMoney) = new
  BY DEF Grown
<1> HIDE DEF number, total, buys, costs, sells
<1>4. /\ new \in Position /\ new.stock = pos.stock /\ new.number = number
      /\ Gain(new) = sells - buys - costs
  BY <1>1 DEF Position, Gain
<1> QED
  BY <1>2, <1>3, <1>4 DEF number

LEMMA GrowFacts ==
  ASSUME NEW map, Positions(map), NEW s \in Stocks, NEW n \in Pos,
         NEW buyMoney \in Int, NEW cost \in Int, NEW sellMoney \in Int
  PROVE  LET new == Grow(map, s, n, buyMoney, cost, sellMoney)
         IN  /\ Positions(new)
             /\ NumberIn(new, s) = NumberIn(map, s) + n
             /\ \A x : x # s => NumberIn(new, x) = NumberIn(map, x)
             /\ OpenGain(new) = OpenGain(map) + (sellMoney - buyMoney - cost)
<1>1. n \in Nat /\ n > 0 /\ OpenGain(map) \in Int
  BY GainsType DEF Pos
<1>2. CASE s \notin DOMAIN map
  <2> DEFINE pos == NewPosition(s, n, buyMoney, cost, sellMoney)
  <2>1. /\ pos \in Position /\ pos.stock = s /\ pos.number = n
        /\ Gain(pos) = sellMoney - buyMoney - cost
    BY <1>1, NewPositionFacts
  <2>2. Grow(map, s, n, buyMoney, cost, sellMoney) = Put(map, s, pos)
    BY <1>2 DEF Grow
  <2>3. GainIn(map, s) = 0 /\ NumberIn(map, s) = 0
    BY <1>2 DEF GainIn, NumberIn
  <2> HIDE DEF pos
  <2>4. /\ Positions(Put(map, s, pos))
        /\ NumberIn(Put(map, s, pos), s) = pos.number
        /\ \A x : x # s => NumberIn(Put(map, s, pos), x) = NumberIn(map, x)
        /\ OpenGain(Put(map, s, pos)) = OpenGain(map) + (Gain(pos) - GainIn(map, s))
    BY <1>1, <2>1, PutPosition
  <2>5. Gain(pos) - GainIn(map, s) = sellMoney - buyMoney - cost
        /\ NumberIn(map, s) + n = n
    BY <1>1, <2>1, <2>3
  <2> QED
    BY <2>1, <2>2, <2>4, <2>5
<1>3. CASE s \in DOMAIN map
  <2> DEFINE pos == Grown(map[s], n, buyMoney, cost, sellMoney)
  <2>1. map[s] \in Position /\ map[s].stock = s /\ map[s].number \in Nat
    BY <1>3 DEF Positions, Position
  <2>2. /\ pos \in Position /\ pos.stock = s /\ pos.number = map[s].number + n
        /\ Gain(pos) = Gain(map[s]) + (sellMoney - buyMoney - cost)
    BY <1>1, <2>1, GrownFacts
  <2>3. Grow(map, s, n, buyMoney, cost, sellMoney) = Put(map, s, pos)
    BY <1>3 DEF Grow, Grown
  <2>4. GainIn(map, s) = Gain(map[s]) /\ NumberIn(map, s) = map[s].number
    BY <1>3 DEF GainIn, NumberIn
  <2> HIDE DEF pos
  <2>5. pos.number > 0
    BY <1>1, <2>1, <2>2
  <2>6. /\ Positions(Put(map, s, pos))
        /\ NumberIn(Put(map, s, pos), s) = pos.number
        /\ \A x : x # s => NumberIn(Put(map, s, pos), x) = NumberIn(map, x)
        /\ OpenGain(Put(map, s, pos)) = OpenGain(map) + (Gain(pos) - GainIn(map, s))
    BY <2>2, <2>5, PutPosition
  <2>7. Gain(map[s]) \in Int
    BY <2>4, GainInType
  <2>8. Gain(pos) - GainIn(map, s) = sellMoney - buyMoney - cost
    BY <2>2, <2>4, <2>7
  <2> QED
    BY <2>2, <2>3, <2>4, <2>6, <2>8
<1> QED
  BY <1>2, <1>3

LEMMA ShrunkFacts ==
  ASSUME NEW pos \in Position, NEW n \in Nat, n <= pos.number,
         NEW buyMoney \in Int, NEW cost \in Int, NEW sellMoney \in Int
  PROVE  LET new == Shrunk(pos, n, buyMoney, cost, sellMoney)
         IN  /\ new \in Position /\ new.stock = pos.stock /\ new.number = pos.number - n
             /\ Gain(new) = Gain(pos) + (sellMoney - buyMoney - cost)
<1> DEFINE number == pos.number - n
           buys   == pos.buyMoney + buyMoney
           costs  == pos.totalCost + cost
           sells  == pos.sellMoney + sellMoney
           new    == [pos EXCEPT !.number = number, !.buyMoney = buys,
                                 !.totalCost = costs, !.sellMoney = sells]
<1>1. number \in Nat /\ buys \in Int /\ costs \in Int /\ sells \in Int
  BY PositionFields
<1>2. sells - buys - costs = Gain(pos) + (sellMoney - buyMoney - cost)
  BY PositionFields
<1>3. Shrunk(pos, n, buyMoney, cost, sellMoney) = new
  BY DEF Shrunk
<1> HIDE DEF number, buys, costs, sells
<1>4. /\ new \in Position /\ new.stock = pos.stock /\ new.number = number
      /\ Gain(new) = sells - buys - costs
  BY <1>1 DEF Position, Gain
<1> QED
  BY <1>2, <1>3, <1>4 DEF number

-----------------------------------------------------------------------------
(* Lists of loans and of borrowed lots.                                    *)

LEMMA LeastOf ==
  ASSUME NEW S, S \subseteq Nat, S # {}
  PROVE  Min(S) \in S /\ \A x \in S : Min(S) <= x
<1> DEFINE R == OpToRel(<, Nat)
<1>1. IsWellFoundedOn(R, Nat)
  BY NatLessThanWellFounded
<1>2. \E x \in S : \A y \in S : ~ (<<y, x>> \in R)
  <2> HIDE DEF R
  <2> QED
    BY <1>1, WFMin
<1>3. PICK x \in S : \A y \in S : ~ (<<y, x>> \in R)
  BY <1>2
<1>4. ASSUME NEW y \in S, y < x PROVE FALSE
  <2>1. <<y, x>> \in R
    BY <1>4 DEF OpToRel
  <2> QED
    BY <1>3, <2>1
<1>5. \A y \in S : x <= y
  BY <1>4
<1> QED
  BY <1>5 DEF Min

LEMMA LoansCount == ASSUME NEW list \in Seq(Loan) PROVE Counting(list, "value", Loan)
<1>1. \A x \in Loan : x["value"] \in Pos
  BY DEF Loan
<1>2. \A x \in Loan, n \in Pos : /\ [x EXCEPT !["value"] = n] \in Loan
                                 /\ [x EXCEPT !["value"] = n]["value"] = n
  BY DEF Loan
<1> QED
  BY <1>1, <1>2 DEF Counting

LEMMA LotsCount == ASSUME NEW list \in Seq(Lot) PROVE Counting(list, "number", Lot)
<1>1. \A x \in Lot : x["number"] \in Pos
  BY DEF Lot
<1>2. \A x \in Lot, n \in Pos : /\ [x EXCEPT !["number"] = n] \in Lot
                                /\ [x EXCEPT !["number"] = n]["number"] = n
  BY DEF Lot
<1> QED
  BY <1>1, <1>2 DEF Counting

LEMMA AmountsType ==
  ASSUME NEW list, NEW field, NEW E, Counting(list, field, E)
  PROVE  /\ Amounts(list, field) \in Seq(Int) /\ Len(Amounts(list, field)) = Len(list)
         /\ Amounts(list, field) \in Seq(Pos)
         /\ Len(list) \in Nat /\ DOMAIN list = 1 .. Len(list)
         /\ \A i \in 1 .. Len(list) : /\ Amounts(list, field)[i] = list[i][field]
                                      /\ list[i][field] \in Pos
<1>1. list \in Seq(E) /\ DOMAIN list = 1 .. Len(list) /\ Len(list) \in Nat
  BY DEF Counting
<1>2. \A i \in 1 .. Len(list) : list[i][field] \in Pos
  BY <1>1 DEF Counting
<1>3. \A i \in 1 .. Len(list) : list[i][field] \in Int
  BY <1>2 DEF Pos
<1> QED
  BY <1>1, <1>2, <1>3 DEF Amounts

LEMMA TotalPositive ==
  ASSUME NEW v \in Seq(Pos)
  PROVE  Total(v) \in Nat /\ (v # <<>> => Total(v) > 0)
<1>1. v \in Seq(Int) /\ \A i \in 1 .. Len(v) : v[i] \in Nat /\ v[i] > 0
  BY DEF Pos
<1>2. PICK f : Sums(f, v) /\ Total(v) = f[Len(v)]
  BY <1>1, TotalIsSums
<1> DEFINE T == {n \in 0 .. Len(v) : f[n] \in Nat /\ (n > 0 => f[n] > 0)}
<1>3. 0 \in T
  BY <1>2 DEF Sums
<1>4. ASSUME NEW n \in T, n < Len(v) PROVE n + 1 \in T
  <2>1. n + 1 \in 1 .. Len(v) /\ (n + 1) - 1 = n
    BY <1>4
  <2>2. f[n + 1] = f[n] + v[n + 1]
    BY <1>2, <2>1 DEF Sums
  <2>3. v[n + 1] \in Nat /\ v[n + 1] > 0 /\ f[n] \in Nat
    BY <1>1, <1>4, <2>1
  <2>4. f[n + 1] \in Nat /\ f[n + 1] > 0
    BY <2>2, <2>3
  <2> QED
    BY <2>1, <2>4
<1>5. T = 0 .. Len(v)
  <2>1. T \subseteq 0 .. Len(v) /\ Len(v) \in Nat
    OBVIOUS
  <2> HIDE DEF T
  <2> QED
    BY <1>3, <1>4, <2>1, BoundedInduction
<1>6. Len(v) \in T
  BY <1>5
<1>7. v # <<>> => Len(v) > 0
  BY <1>1
<1> QED
  BY <1>2, <1>6, <1>7

LEMMA TotalSingle == ASSUME NEW n \in Int PROVE Total(<<n>>) = n
<1> DEFINE v == <<n>>
<1>1. v \in Seq(Int) /\ Len(v) = 1 /\ v[1] = n
  OBVIOUS
<1>2. <<>> \in Seq(Int) /\ Len(<<>>) = 0 /\ \A i \in 1 .. Len(<<>>) : v[i] = <<>>[i]
  OBVIOUS
<1> HIDE DEF v
<1>3. Total(v) = Total(<<>>) + v[Len(v)]
  <2> DEFINE none == <<>>
  <2>1. none \in Seq(Int) /\ Len(v) = Len(none) + 1 /\ \A i \in 1 .. Len(none) : v[i] = none[i]
    BY <1>1, <1>2
  <2> HIDE DEF none
  <2>2. Total(v) = Total(none) + v[Len(v)]
    BY <1>1, <2>1, TotalLast
  <2> QED
    BY <2>2 DEF none
<1>4. Total(<<>>) = 0
  BY <1>2, TotalEmpty
<1> QED
  BY <1>1, <1>3, <1>4 DEF v

(* Repaying takes the amount from the list, and leaves no empty entry.     *)
LEMMA RepayFacts ==
  ASSUME NEW list, NEW field, NEW E, Counting(list, field, E), NEW amount \in Pos,
         amount <= Total(Amounts(list, field))
  PROVE  /\ Counting(Repay(list, amount, field), field, E)
         /\ Total(Amounts(Repay(list, amount, field), field))
              = Total(Amounts(list, field)) - amount
<1> DEFINE v == Amounts(list, field)
           m == Len(list)
           Before(i) == Total([j \in 1 .. i - 1 |-> list[j][field]])
           S == {i \in DOMAIN list : amount <= Before(i) + list[i][field]}
           t == Min(S)
           left == Before(t) + list[t][field] - amount
           rest == SubSeq(list, t + 1, m)
<1>1. /\ v \in Seq(Int) /\ v \in Seq(Pos) /\ Len(v) = m /\ m \in Nat
      /\ DOMAIN list = 1 .. m /\ list \in Seq(E)
      /\ \A i \in 1 .. m : v[i] = list[i][field] /\ v[i] \in Int /\ v[i] > 0
  <2>1. \A n \in Pos : n \in Int /\ n > 0
    BY DEF Pos
  <2>2. /\ v \in Seq(Int) /\ v \in Seq(Pos) /\ Len(v) = m /\ m \in Nat
        /\ DOMAIN list = 1 .. m
        /\ \A i \in 1 .. m : v[i] = list[i][field] /\ list[i][field] \in Pos
    BY AmountsType
  <2>3. list \in Seq(E)
    BY DEF Counting
  <2> HIDE DEF v
  <2> QED
    BY <2>1, <2>2, <2>3
<1>2. PICK f : Sums(f, v) /\ Total(v) = f[Len(v)]
  BY <1>1, TotalIsSums
<1>3. /\ \A i \in 0 .. m : f[i] \in Int
      /\ f[0] = 0 /\ f[m] = Total(v)
      /\ \A i \in 1 .. m : f[i] = f[i - 1] + v[i]
  BY <1>1, <1>2 DEF Sums
<1>4. ASSUME NEW i \in 0 .. m
      PROVE  Total([j \in 1 .. i |-> list[j][field]]) = f[i]
  <2> DEFINE w == [j \in 1 .. i |-> list[j][field]]
  <2>1. i \in Nat /\ i <= m /\ \A j \in 1 .. i : j \in 1 .. m
    BY <1>1
  <2>2. \A j \in 1 .. i : list[j][field] \in Int /\ list[j][field] = v[j]
    BY <1>1, <2>1
  <2>3. w \in Seq(Int) /\ Len(w) = i /\ \A j \in 1 .. i : w[j] = v[j]
    BY <2>1, <2>2
  <2> HIDE DEF w
  <2>4. PICK g : Sums(g, w) /\ Total(w) = g[Len(w)]
    BY <2>3, TotalIsSums
  <2>5. i <= Len(w) /\ i <= Len(v)
    BY <1>1, <2>1, <2>3
  <2>6. g[i] = f[i]
    BY <1>1, <1>2, <2>1, <2>3, <2>4, <2>5, SumsAgreeAt, SMTT(30)
  <2> QED
    BY <2>3, <2>4, <2>6 DEF w
<1>5. ASSUME NEW i \in 1 .. m
      PROVE  Before(i) = f[i - 1] /\ Before(i) + list[i][field] = f[i]
  <2>1. i - 1 \in 0 .. m
    BY <1>1
  <2>2. Before(i) = f[i - 1]
    BY <1>4, <2>1
  <2> HIDE DEF Before
  <2> QED
    BY <1>1, <1>3, <2>2
<1>6. S = {i \in 1 .. m : amount <= f[i]}
  <2> HIDE DEF Before
  <2> QED
    BY <1>1, <1>5
<1>7. amount \in Nat /\ amount > 0
  BY DEF Pos
<1>8. m \in S
  <2>1. m # 0
    BY <1>3, <1>7
  <2>2. m \in 1 .. m
    BY <1>1, <2>1
  <2> QED
    BY <1>3, <1>6, <2>2
<1>9. t \in S /\ \A i \in S : t <= i
  <2> HIDE DEF S
  <2>1. S \subseteq Nat /\ S # {}
    BY <1>1, <1>6, <1>8
  <2> QED
    BY <2>1, LeastOf
<1> HIDE DEF S, t, Before
<1>10. t \in 1 .. m /\ amount <= f[t] /\ f[t] \in Int /\ f[t - 1] \in Int
  BY <1>1, <1>3, <1>6, <1>9
<1>11. f[t - 1] < amount
  <2>1. CASE t = 1
    BY <1>3, <1>7, <2>1
  <2>2. CASE t # 1
    <3>1. t - 1 \in 1 .. m /\ ~ (t <= t - 1)
      BY <1>1, <1>10, <2>2
    <3>2. t - 1 \notin S
      BY <1>9, <3>1
    <3> QED
      BY <1>6, <1>7, <1>10, <3>1, <3>2
  <2> QED
    BY <2>1, <2>2
<1>12. left = f[t] - amount /\ left \in Nat
  <2>1. Before(t) + list[t][field] = f[t]
    BY <1>5, <1>10
  <2>2. Before(t) = f[t - 1] /\ list[t][field] \in Int
    BY <1>1, <1>5, <1>10
  <2>3. left = f[t] - amount
    BY <1>7, <1>10, <2>1, <2>2
  <2> HIDE DEF left
  <2> QED
    BY <1>7, <1>10, <2>3
<1> HIDE DEF left
<1> DEFINE u == [i \in 1 .. m - t |-> v[t + i]]
           p == [j \in 1 .. t |-> list[j][field]]
<1>13. u \in Seq(Int) /\ Len(u) = m - t /\ \A i \in 1 .. m - t : u[i] = v[t + i] /\ t + i \in 1 .. m
  <2>1. \A i \in 1 .. m - t : t + i \in 1 .. m
    BY <1>1, <1>10
  <2>2. \A i \in 1 .. m - t : v[t + i] \in Int
    BY <1>1, <2>1
  <2>3. m - t \in Nat
    BY <1>1, <1>10
  <2> HIDE DEF v
  <2>4. u \in Seq(Int) /\ Len(u) = m - t
    BY <2>2, <2>3
  <2> QED
    BY <2>1, <2>4
<1>14. Total(v) = f[t] + Total(u)
  <2>1. t \in Nat /\ t \in 0 .. m /\ \A j \in 1 .. t : j \in 1 .. m
    BY <1>1, <1>10
  <2>2. \A j \in 1 .. t : list[j][field] \in Int /\ list[j][field] = v[j]
    BY <1>1, <2>1
  <2>3. p \in Seq(Int) /\ Len(p) = t /\ \A j \in 1 .. t : p[j] = v[j]
    BY <2>1, <2>2
  <2>4. Total(p) = f[t]
    BY <1>4, <2>1
  <2>5. Len(v) = Len(p) + Len(u) /\ \A i \in 1 .. Len(u) : v[Len(p) + i] = u[i]
    <3> HIDE DEF v, p, u
    <3> QED
      BY <1>1, <1>10, <1>13, <2>3
  <2> HIDE DEF v, p, u
  <2>6. Joined(v, p, u)
    BY <1>1, <2>3, <2>5 DEF Joined
  <2>7. Total(v) = Total(p) + Total(u)
    BY <1>13, <2>3, <2>6, TotalJoined
  <2> QED
    BY <2>4, <2>7
<1>15. /\ rest \in Seq(E) /\ Len(rest) = m - t
       /\ \A i \in 1 .. m - t : rest[i] = list[t + i]
  BY <1>1, <1>10
<1>16. Total(u) \in Int
  BY <1>13, TotalType
<1> HIDE DEF rest
<1>17. \A i \in 1 .. m - t : rest[i][field] = u[i]
  <2> HIDE DEF u, v
  <2> QED
    BY <1>1, <1>13, <1>15
<1>18. CASE left = 0
  <2>1. Repay(list, amount, field) = rest
    BY <1>18 DEF Repay, left, rest, t, S, Before
  <2>2. Counting(rest, field, E)
    BY <1>15 DEF Counting
  <2>3. Amounts(rest, field) = u
    <3>1. DOMAIN rest = 1 .. m - t
      BY <1>15
    <3>2. Amounts(rest, field) = [i \in 1 .. m - t |-> rest[i][field]]
      BY <3>1 DEF Amounts
    <3> HIDE DEF v
    <3> QED
      BY <1>17, <3>2
  <2> HIDE DEF u, v
  <2>4. Total(u) = Total(v) - amount
    BY <1>7, <1>10, <1>12, <1>14, <1>16, <1>18, SMTT(30)
  <2> QED
    BY <2>1, <2>2, <2>3, <2>4 DEF v
<1>19. CASE left # 0
  <2> DEFINE x == [list[t] EXCEPT ![field] = left]
             all == <<x>> \o rest
  <2>1. Repay(list, amount, field) = all
    BY <1>19 DEF Repay, left, rest, t, S, Before
  <2>2. left \in Pos
    BY <1>12, <1>19 DEF Pos
  <2>3. list[t] \in E
    BY <1>1, <1>10
  <2>4. x \in E /\ x[field] = left
    BY <2>2, <2>3 DEF Counting
  <2> HIDE DEF x
  <2>5. /\ all \in Seq(E) /\ Len(all) = 1 + (m - t) /\ DOMAIN all = 1 .. 1 + (m - t)
        /\ all[1] = x /\ \A i \in 1 .. m - t : all[1 + i] = rest[i]
    <3>1. m - t \in Nat
      BY <1>1, <1>10
    <3>2. <<x>> \in Seq(E) /\ Len(<<x>>) = 1 /\ <<x>>[1] = x
      BY <2>4
    <3> QED
      BY <1>15, <2>4, <3>1, <3>2
  <2> HIDE DEF all
  <2>6. Counting(all, field, E)
    BY <2>5 DEF Counting
  <2> DEFINE y == Amounts(all, field)
             one == <<left>>
  <2>7. y \in Seq(Int) /\ Len(y) = 1 + (m - t)
    BY <2>5, <2>6, AmountsType
  <2>8. one \in Seq(Int) /\ Len(one) = 1 /\ one[1] = left
    BY <1>12
  <2>9. y[1] = left /\ \A i \in 1 .. m - t : y[1 + i] = u[i]
    <3>1. y = [i \in 1 .. 1 + (m - t) |-> all[i][field]]
      BY <2>5 DEF Amounts
    <3>2. m - t \in Nat /\ 1 \in 1 .. 1 + (m - t)
          /\ \A i \in 1 .. m - t : 1 + i \in 1 .. 1 + (m - t)
      BY <1>1, <1>10
    <3> HIDE DEF y, u
    <3> QED
      BY <1>17, <2>4, <2>5, <3>1, <3>2
  <2>10. Joined(y, one, u)
    <3>1. \A i \in 1 .. 1 : y[i] = one[i]
      BY <2>8, <2>9
    <3> HIDE DEF y, one, u
    <3> QED
      BY <1>13, <2>7, <2>8, <2>9, <3>1 DEF Joined
  <2>11. Total(one) = left
    BY <1>12, TotalSingle
  <2> HIDE DEF y, one, u, v
  <2>12. Total(y) = Total(one) + Total(u)
    BY <1>13, <2>8, <2>10, TotalJoined
  <2>13. Total(y) = Total(v) - amount
    BY <1>7, <1>10, <1>12, <1>14, <1>16, <2>11, <2>12
  <2> QED
    BY <2>1, <2>6, <2>13 DEF v, y
<1> QED
  BY <1>18, <1>19

-----------------------------------------------------------------------------
(* Loans and debts.                                                        *)

LEMMA LoanTotalIsAmounts ==
  ASSUME NEW list PROVE LoanTotal(list) = Total(Amounts(list, "value"))
  BY DEF LoanTotal, Amounts

LEMMA LotTotalIsAmounts ==
  ASSUME NEW list PROVE LotTotal(list) = Total(Amounts(list, "number"))
  BY DEF LotTotal, Amounts

LEMMA AmountsAppend ==
  ASSUME NEW list, NEW field, NEW E, Counting(list, field, E), NEW x \in E
  PROVE  /\ Counting(Append(list, x), field, E)
         /\ Total(Amounts(Append(list, x), field)) = Total(Amounts(list, field)) + x[field]
<1> DEFINE longer == Append(list, x)
           v == Amounts(list, field)
           w == Amounts(longer, field)
<1>1. list \in Seq(E) /\ Len(list) \in Nat
  BY DEF Counting
<1>2. /\ longer \in Seq(E) /\ Len(longer) = Len(list) + 1
      /\ \A i \in 1 .. Len(list) : longer[i] = list[i]
      /\ longer[Len(list) + 1] = x
  BY <1>1
<1> HIDE DEF longer
<1>3. Counting(longer, field, E)
  BY <1>2 DEF Counting
<1>4. v \in Seq(Int) /\ Len(v) = Len(list) /\ \A i \in 1 .. Len(list) : v[i] = list[i][field]
  BY AmountsType
<1>5. /\ w \in Seq(Int) /\ Len(w) = Len(list) + 1
      /\ \A i \in 1 .. Len(list) + 1 : w[i] = longer[i][field]
  BY <1>2, <1>3, AmountsType
<1> HIDE DEF v, w
<1>6. \A i \in 1 .. Len(v) : w[i] = v[i]
  BY <1>1, <1>2, <1>4, <1>5, SMTT(30)
<1>7. w[Len(w)] = x[field]
  BY <1>1, <1>2, <1>5
<1>8. Total(w) = Total(v) + w[Len(w)]
  BY <1>4, <1>5, <1>6, TotalLast
<1> QED
  BY <1>3, <1>7, <1>8 DEF longer, v, w

LEMMA LoanAppend ==
  ASSUME NEW list \in Seq(Loan), NEW d \in Nat, NEW cash \in Pos
  PROVE  LET new == Append(list, [datetime |-> d, value |-> cash])
         IN  new \in Seq(Loan) /\ LoanTotal(new) = LoanTotal(list) + cash
<1> DEFINE x == [datetime |-> d, value |-> cash]
<1>1. x \in Loan /\ x["value"] = cash
  BY DEF Loan
<1> HIDE DEF x
<1>2. Counting(list, "value", Loan)
  BY LoansCount
<1>3. Total(Amounts(Append(list, x), "value")) = Total(Amounts(list, "value")) + x["value"]
  BY <1>1, <1>2, AmountsAppend
<1>4. Append(list, x) \in Seq(Loan)
  BY <1>1
<1>5. LoanTotal(Append(list, x)) = LoanTotal(list) + cash
  BY <1>1, <1>3, LoanTotalIsAmounts
<1> QED
  BY <1>4, <1>5 DEF x

LEMMA LoanRepay ==
  ASSUME NEW list \in Seq(Loan), NEW cash \in Pos, cash <= LoanTotal(list)
  PROVE  /\ Repay(list, cash, "value") \in Seq(Loan)
         /\ LoanTotal(Repay(list, cash, "value")) = LoanTotal(list) - cash
<1>1. Counting(list, "value", Loan)
  BY LoansCount
<1>2. cash <= Total(Amounts(list, "value"))
  BY LoanTotalIsAmounts
<1>3. /\ Counting(Repay(list, cash, "value"), "value", Loan)
      /\ Total(Amounts(Repay(list, cash, "value"), "value")) = Total(Amounts(list, "value")) - cash
  BY <1>1, <1>2, RepayFacts
<1> QED
  BY <1>3, LoanTotalIsAmounts DEF Counting

LEMMA LotTotalPositive ==
  ASSUME NEW lots \in Seq(Lot)
  PROVE  LotTotal(lots) \in Nat /\ (lots # <<>> => LotTotal(lots) > 0)
<1>1. Counting(lots, "number", Lot)
  BY LotsCount
<1>2. Amounts(lots, "number") \in Seq(Pos) /\ Len(Amounts(lots, "number")) = Len(lots)
  BY <1>1, AmountsType
<1>3. lots # <<>> => Amounts(lots, "number") # <<>>
  BY <1>2
<1> QED
  BY <1>2, <1>3, LotTotalIsAmounts, TotalPositive

LEMMA LotTotalEmpty == LotTotal(<<>>) = 0
<1>1. <<>> \in Seq(Lot) /\ Len(<<>>) = 0
  OBVIOUS
<1>2. Amounts(<<>>, "number") \in Seq(Int) /\ Len(Amounts(<<>>, "number")) = 0
  BY <1>1, LotsCount, AmountsType
<1> QED
  BY <1>2, TotalEmpty, LotTotalIsAmounts

LEMMA OwedFacts ==
  ASSUME NEW map, Debts(map), NEW s
  PROVE  /\ Owed(map, s) \in [number : Nat, unit : Pos, record_list : Seq(Lot)]
         /\ Owed(map, s).number = NumberIn(map, s)
         /\ LotTotal(Owed(map, s).record_list) = Owed(map, s).number * Owed(map, s).unit
<1>1. CASE s \in DOMAIN map
  <2>1. Owed(map, s) = map[s] /\ NumberIn(map, s) = map[s].number
    BY <1>1 DEF Owed, NumberIn
  <2>2. map[s] \in Debt /\ LotTotal(map[s].record_list) = map[s].number * map[s].unit
    BY <1>1 DEF Debts
  <2> QED
    BY <2>1, <2>2 DEF Debt, Pos
<1>2. CASE s \notin DOMAIN map
  <2> DEFINE none == [number |-> 0, unit |-> 1, record_list |-> <<>>]
  <2>1. Owed(map, s) = none /\ NumberIn(map, s) = 0
    BY <1>2 DEF Owed, NumberIn
  <2>2. none \in [number : Nat, unit : Pos, record_list : Seq(Lot)]
    BY DEF Pos
  <2>3. none.number = 0 /\ none.unit = 1 /\ none.record_list = <<>>
    OBVIOUS
  <2> HIDE DEF none
  <2>4. LotTotal(none.record_list) = none.number * none.unit
    BY <2>3, LotTotalEmpty
  <2> QED
    BY <2>1, <2>2, <2>3, <2>4
<1> QED
  BY <1>1, <1>2

LEMMA WithLotFacts ==
  ASSUME NEW owed \in [number : Nat, unit : Pos, record_list : Seq(Lot)],
         LotTotal(owed.record_list) = owed.number * owed.unit,
         NEW d \in Nat, NEW n \in Pos
  PROVE  /\ WithLot(owed, d, n) \in Debt
         /\ WithLot(owed, d, n).number = owed.number + n
         /\ LotTotal(WithLot(owed, d, n).record_list)
              = WithLot(owed, d, n).number * WithLot(owed, d, n).unit
<1> DEFINE lot == [datetime |-> d, number |-> n * owed.unit]
           lots == Append(owed.record_list, lot)
           number == owed.number + n
           new == [owed EXCEPT !.number = number, !.record_list = lots]
<1>1. /\ owed.number \in Nat /\ owed.unit \in Pos /\ owed.unit \in Nat /\ owed.unit > 0
      /\ owed.record_list \in Seq(Lot) /\ n \in Nat /\ n > 0
  BY DEF Pos
<1>2. n * owed.unit \in Pos
  BY <1>1, TimesType DEF Pos
<1>3. lot \in Lot /\ lot["number"] = n * owed.unit
  BY <1>2 DEF Lot
<1>4. number \in Pos
  BY <1>1 DEF Pos
<1>5. WithLot(owed, d, n) = new
  BY DEF WithLot
<1> HIDE DEF lot
<1>6. lots \in Seq(Lot)
  BY <1>1, <1>3
<1>7. LotTotal(lots) = LotTotal(owed.record_list) + n * owed.unit
  <2> DEFINE old == owed.record_list
  <2>1. Counting(old, "number", Lot)
    BY <1>1, LotsCount
  <2> HIDE DEF old
  <2>2. Total(Amounts(Append(old, lot), "number")) = Total(Amounts(old, "number")) + lot["number"]
    BY <1>3, <2>1, AmountsAppend
  <2> QED
    BY <1>3, <2>2, LotTotalIsAmounts DEF old
<1>8. LotTotal(lots) = number * owed.unit
  <2> DEFINE x == owed.number
             u == owed.unit
  <2> HIDE DEF lots, x, u
  <2>1. x * u + n * u = (x + n) * u
    BY <1>1 DEF x, u
  <2> QED
    BY <1>7, <2>1 DEF x, u
<1> HIDE DEF lots, number
<1>9. new \in Debt /\ new.number = number /\ new.unit = owed.unit /\ new.record_list = lots
  BY <1>1, <1>4, <1>6 DEF Debt
<1> QED
  BY <1>5, <1>8, <1>9 DEF number

LEMMA PutDebt ==
  ASSUME NEW map, Debts(map), NEW s \in Stocks, NEW owed \in Debt,
         LotTotal(owed.record_list) = owed.number * owed.unit
  PROVE  /\ Debts(Put(map, s, owed))
         /\ NumberIn(Put(map, s, owed), s) = owed.number
         /\ \A x : x # s => NumberIn(Put(map, s, owed), x) = NumberIn(map, x)
<1> DEFINE new == Put(map, s, owed)
<1>1. /\ DOMAIN new = DOMAIN map \cup {s} /\ new = [x \in DOMAIN new |-> new[x]]
      /\ new[s] = owed /\ \A x \in DOMAIN map : x # s => new[x] = map[x]
  BY DEF Put
<1> HIDE DEF new
<1>2. Debts(new)
  BY <1>1 DEF Debts
<1>3. NumberIn(new, s) = owed.number /\ \A x : x # s => NumberIn(new, x) = NumberIn(map, x)
  BY <1>1 DEF NumberIn
<1> QED
  BY <1>2, <1>3 DEF new

LEMMA EraseDebt ==
  ASSUME NEW map, Debts(map), NEW s
  PROVE  /\ Debts(Erase(map, s))
         /\ NumberIn(Erase(map, s), s) = 0
         /\ \A x : x # s => NumberIn(Erase(map, s), x) = NumberIn(map, x)
<1> DEFINE new == Erase(map, s)
<1>1. /\ DOMAIN new = DOMAIN map \ {s} /\ new = [x \in DOMAIN new |-> new[x]]
      /\ \A x \in DOMAIN map : x # s => new[x] = map[x]
  BY DEF Erase
<1> HIDE DEF new
<1>2. Debts(new)
  BY <1>1 DEF Debts
<1>3. NumberIn(new, s) = 0 /\ \A x : x # s => NumberIn(new, x) = NumberIn(map, x)
  BY <1>1 DEF NumberIn
<1> QED
  BY <1>2, <1>3 DEF new

LEMMA BorrowFacts ==
  ASSUME NEW map, Debts(map), NEW s \in Stocks, NEW d \in Nat, NEW n \in Pos
  PROVE  LET new == Put(map, s, WithLot(Owed(map, s), d, n))
         IN  /\ Debts(new)
             /\ NumberIn(new, s) = NumberIn(map, s) + n
             /\ \A x : x # s => NumberIn(new, x) = NumberIn(map, x)
<1> DEFINE owed == Owed(map, s)
           more == WithLot(owed, d, n)
<1>1. /\ owed \in [number : Nat, unit : Pos, record_list : Seq(Lot)]
      /\ owed.number = NumberIn(map, s)
      /\ LotTotal(owed.record_list) = owed.number * owed.unit
  BY OwedFacts
<1> HIDE DEF owed
<1>2. /\ more \in Debt /\ more.number = owed.number + n
      /\ LotTotal(more.record_list) = more.number * more.unit
  BY <1>1, WithLotFacts
<1> HIDE DEF more
<1>3. /\ Debts(Put(map, s, more)) /\ NumberIn(Put(map, s, more), s) = more.number
      /\ \A x : x # s => NumberIn(Put(map, s, more), x) = NumberIn(map, x)
  BY <1>2, PutDebt
<1> QED
  BY <1>1, <1>2, <1>3 DEF more, owed

LEMMA GiveBackFacts ==
  ASSUME NEW map, Debts(map), NEW s \in DOMAIN map, NEW n \in Pos, n <= map[s].number
  PROVE  LET new == GiveBack(map, s, n)
         IN  /\ Debts(new)
             /\ NumberIn(new, s) = NumberIn(map, s) - n
             /\ \A x : x # s => NumberIn(new, x) = NumberIn(map, x)
<1> DEFINE owed == map[s]
           lots == owed.record_list
           left == Repay(lots, n * owed.unit, "number")
           fewer == [owed EXCEPT !.number = owed.number - n, !.record_list = left]
<1>1. /\ owed \in Debt /\ s \in Stocks /\ LotTotal(lots) = owed.number * owed.unit
      /\ NumberIn(map, s) = owed.number
  BY DEF Debts, NumberIn
<1> HIDE DEF owed
<1>2. /\ owed.number \in Nat /\ owed.unit \in Nat /\ owed.unit > 0 /\ owed.unit \in Pos
      /\ lots \in Seq(Lot) /\ n \in Nat /\ n > 0 /\ n <= owed.number
  BY <1>1 DEF Debt, Pos, owed
<1> HIDE DEF lots
<1>3. n * owed.unit \in Pos /\ n * owed.unit <= LotTotal(lots)
  <2>1. n * owed.unit \in Nat /\ n * owed.unit > 0
    BY <1>2, TimesType
  <2>2. n * owed.unit <= owed.number * owed.unit
    BY <1>2, TimesMonotone
  <2> QED
    BY <1>1, <2>1, <2>2 DEF Pos
<1>4. left \in Seq(Lot) /\ LotTotal(left) = LotTotal(lots) - n * owed.unit
  <2> DEFINE amount == n * owed.unit
  <2>1. Counting(lots, "number", Lot) /\ amount <= Total(Amounts(lots, "number"))
        /\ amount \in Pos
    BY <1>2, <1>3, LotsCount, LotTotalIsAmounts
  <2> HIDE DEF amount
  <2>2. /\ Counting(Repay(lots, amount, "number"), "number", Lot)
        /\ Total(Amounts(Repay(lots, amount, "number"), "number"))
             = Total(Amounts(lots, "number")) - amount
    BY <2>1, RepayFacts
  <2> QED
    BY <2>2, LotTotalIsAmounts DEF Counting, amount
<1>5. LotTotal(left) = (owed.number - n) * owed.unit
  <2> DEFINE x == owed.number
             u == owed.unit
  <2> HIDE DEF left, x, u
  <2>1. x * u - n * u = (x - n) * u
    BY <1>2 DEF x, u
  <2> QED
    BY <1>1, <1>4, <2>1 DEF x, u
<1>6. GiveBack(map, s, n) = IF left = <<>> THEN Erase(map, s) ELSE Put(map, s, fewer)
  BY DEF GiveBack, owed, lots
<1> HIDE DEF left
<1>7. CASE left = <<>>
  <2>1. owed.number - n = 0
    <3> DEFINE x == owed.number - n
               u == owed.unit
    <3>1. x \in Nat /\ u \in Nat /\ u > 0
      BY <1>2
    <3>2. x * u = 0
      BY <1>5, <1>7, LotTotalEmpty
    <3> HIDE DEF x, u
    <3>3. x = 0
      BY <3>1, <3>2, TimesType
    <3> QED
      BY <3>3 DEF x
  <2>2. /\ Debts(Erase(map, s)) /\ NumberIn(Erase(map, s), s) = 0
        /\ \A x : x # s => NumberIn(Erase(map, s), x) = NumberIn(map, x)
    BY EraseDebt
  <2> QED
    BY <1>1, <1>6, <1>7, <2>1, <2>2
<1>8. CASE left # <<>>
  <2>1. owed.number - n \in Pos
    <3>1. LotTotal(left) > 0
      BY <1>4, <1>8, LotTotalPositive
    <3>2. owed.number - n # 0
      BY <1>2, <1>5, <3>1
    <3> QED
      BY <1>2, <3>2 DEF Pos
  <2> DEFINE number == owed.number - n
             less == [owed EXCEPT !.number = number, !.record_list = left]
  <2>2. number \in Pos
    BY <2>1
  <2>3. fewer = less
    OBVIOUS
  <2> HIDE DEF number, fewer
  <2>4. less \in Debt /\ less.number = number /\ less.unit = owed.unit
        /\ less.record_list = left
    BY <1>1, <1>4, <2>2 DEF Debt
  <2> HIDE DEF less
  <2>5. LotTotal(less.record_list) = less.number * less.unit
    BY <1>5, <2>4 DEF number
  <2>6. /\ Debts(Put(map, s, less)) /\ NumberIn(Put(map, s, less), s) = less.number
        /\ \A x : x # s => NumberIn(Put(map, s, less), x) = NumberIn(map, x)
    BY <1>1, <2>4, <2>5, PutDebt
  <2> QED
    BY <1>1, <1>6, <1>8, <2>3, <2>4, <2>6 DEF number
<1> QED
  BY <1>7, <1>8

-----------------------------------------------------------------------------
(* The handlers: each leaves the account with one more record and with     *)
(* the levels that record tells.                                           *)

LEMMA TradeRecordFacts ==
  ASSUME NEW d \in Nat, NEW business \in Businesses, NEW s \in Stocks \cup {NoStock},
         NEW n \in Int, NEW price \in Int, NEW cost \in Int, NEW cash \in Int
  PROVE  LET r == TradeRecord(d, business, s, n, price, cost, cash)
         IN  /\ r \in Record /\ r.datetime = d /\ r.business = business /\ r.stock = s
             /\ r.number = n /\ r.realPrice = price /\ r.cost = cost /\ r.cash = cash
  BY DEF TradeRecord, Record

LEMMA AccountFields ==
  ASSUME NEW a, IsAccount(a)
  PROVE  /\ Shape(a)
         /\ a.m_cash \in Int /\ a.m_borrow_cash \in Int
         /\ a.m_checkin_cash \in Int /\ a.m_checkout_cash \in Int
         /\ a.m_checkin_stock \in Int /\ a.m_checkout_stock \in Int
         /\ a.m_loan_list \in Seq(Loan) /\ LoanTotal(a.m_loan_list) = a.m_borrow_cash
         /\ a.m_trade_list \in Seq(Record)
         /\ a.m_position_history \in Seq(Position)
         /\ a.m_short_position_history \in Seq(Position)
         /\ Positions(a.m_position) /\ Positions(a.m_short_position)
         /\ Debts(a.m_borrow_stock)
         /\ OpenGain(a.m_position) \in Int /\ ClosedGain(a.m_position_history) \in Int
         /\ OpenGain(a.m_short_position) \in Int
         /\ ClosedGain(a.m_short_position_history) \in Int
  BY GainsType, ClosedGainType DEF IsAccount

LEMMA AccountNumbers ==
  ASSUME NEW a, IsAccount(a)
  PROVE  /\ a.m_cash \in Int /\ a.m_borrow_cash \in Int
         /\ a.m_checkin_cash \in Int /\ a.m_checkout_cash \in Int
         /\ a.m_checkin_stock \in Int /\ a.m_checkout_stock \in Int
         /\ OpenGain(a.m_position) \in Int /\ ClosedGain(a.m_position_history) \in Int
         /\ OpenGain(a.m_short_position) \in Int
         /\ ClosedGain(a.m_short_position_history) \in Int
  BY AccountFields

LEMMA NumIs ==
  ASSUME NEW a, NEW s
  PROVE  /\ Num(a, "long", s) = NumberIn(a.m_position, s)
         /\ Num(a, "short", s) = NumberIn(a.m_short_position, s)
         /\ Num(a, "debt", s) = NumberIn(a.m_borrow_stock, s)
  BY DEF Num, Held

LEMMA NumType ==
  ASSUME NEW a, IsAccount(a), NEW side \in Sides, NEW s
  PROVE  Num(a, side, s) \in Nat
  BY NumIs, NumberInType DEF IsAccount, Sides

LEMMA EntryIntro ==
  ASSUME NEW a, NEW b, IsAccount(b), NEW r \in Record,
         b.m_trade_list = Append(a.m_trade_list, r), r.cash = b.m_cash,
         KeepsCalendar(a, b),
         a.m_cash \in Int, Net(a) \in Int,
         b.m_cash = a.m_cash + CashEffect(r),
         b.m_borrow_cash = a.m_borrow_cash + SignedCash(r),
         Net(b) = (Net(a) + CashEffect(r)) + DebtCost(r),
         \A side \in Sides, s \in Stocks :
            Num(b, side, s) = Num(a, side, s) + Signed(r, s, Plus(side), Minus(side))
  PROVE  Entry(a, b, r)
<1>1. ASSUME NEW e \in Measures PROVE Level(e, b) = Level(e, a) + Effect(e, r)
  <2>1. CASE e = Cash
    <3>1. Effect(e, r) = CashEffect(r) /\ Level(e, b) = b.m_cash - InitCash
          /\ Level(e, a) = a.m_cash - InitCash
      BY <2>1 DEF Effect, Level, Cash
    <3>2. CashEffect(r) \in Int /\ InitCash \in Int
      BY <2>1, <3>1, EffectType, ParameterAssumption
    <3> QED
      BY <3>1, <3>2
  <2>2. CASE e = <<"loan", NoStock>>
    BY <2>2 DEF Effect, Level
  <2>3. CASE e = <<"cost", NoStock>>
    <3>1. Effect(e, r) = DebtCost(r) /\ Level(e, b) = Net(b) - b.m_cash
          /\ Level(e, a) = Net(a) - a.m_cash
      BY <2>3 DEF Effect, Level
    <3>2. Effect(Cash, r) = CashEffect(r)
      BY DEF Effect, Cash
    <3>3. CashEffect(r) \in Int /\ DebtCost(r) \in Int
      BY <3>1, <3>2, EffectType, CashIsMeasure
    <3> QED
      BY <3>1, <3>3
  <2>4. CASE \E side \in Sides, s \in Stocks : e = <<side, s>>
    <3>1. PICK side \in Sides, s \in Stocks : e = <<side, s>>
      BY <2>4
    <3>2. e[1] = side /\ e[2] = s /\ side # "cash" /\ side # "loan" /\ side # "cost"
      BY <3>1 DEF Sides
    <3> QED
      BY <3>2 DEF Effect, Level
  <2> QED
    BY <2>1, <2>2, <2>3, <2>4, MeasureCases
<1> QED
  BY <1>1 DEF Entry

(* A record of cash concerns no stock.                                     *)
LEMMA NoStockSigned ==
  ASSUME NEW r, r.stock = NoStock, NEW s \in Stocks, NEW plus, NEW minus
  PROVE  Signed(r, s, plus, minus) = 0
  BY StockAssumption DEF Signed

LEMMA SameNumbers ==
  ASSUME NEW a, IsAccount(a), NEW b,
         b.m_position = a.m_position, b.m_short_position = a.m_short_position,
         b.m_borrow_stock = a.m_borrow_stock, NEW r, r.stock = NoStock
  PROVE  \A side \in Sides, s \in Stocks :
            Num(b, side, s) = Num(a, side, s) + Signed(r, s, Plus(side), Minus(side))
<1> TAKE side \in Sides, s \in Stocks
<1>1. Signed(r, s, Plus(side), Minus(side)) = 0
  BY NoStockSigned
<1>2. Num(b, side, s) = Num(a, side, s)
  BY DEF Num, Held
<1> QED
  BY <1>1, <1>2, NumType

LEMMA NetParts ==
  ASSUME NEW a, IsAccount(a)
  PROVE  /\ CashPart(a) \in Int /\ LongPart(a) \in Int /\ ShortPart(a) \in Int
         /\ Net(a) = (CashPart(a) + LongPart(a)) + ShortPart(a)
<1>1. \A c, d, e, f, g, h, i, j, k \in Int :
         /\ (c - d) + g \in Int /\ ((e - f) + h) + i \in Int /\ j + k \in Int
         /\ (c - d) + (e - f) + g + h + i + j + k
              = (((c - d) + g) + (((e - f) + h) + i)) + (j + k)
  OBVIOUS
<1> QED
  BY <1>1, AccountNumbers DEF Net, CashPart, LongPart, ShortPart

LEMMA NetType ==
  ASSUME NEW a, IsAccount(a) PROVE Net(a) \in Int
  BY NetParts

-----------------------------------------------------------------------------
(* The four kinds of booking, each of one record r.                        *)

LEMMA RecordFields ==
  ASSUME NEW r \in Record
  PROVE  /\ r.datetime \in Nat /\ r.number \in Int /\ r.realPrice \in Int
         /\ r.cost \in Int /\ r.cash \in Int
  BY DEF Record

LEMMA EffectTypes ==
  ASSUME NEW r \in Record
  PROVE  CashEffect(r) \in Int /\ DebtCost(r) \in Int /\ SignedCash(r) \in Int
<1>1. <<"loan", NoStock>> \in Measures /\ <<"cost", NoStock>> \in Measures
  BY DEF Measures
<1>2. /\ Effect(Cash, r) = CashEffect(r)
      /\ Effect(<<"loan", NoStock>>, r) = SignedCash(r)
      /\ Effect(<<"cost", NoStock>>, r) = DebtCost(r)
  BY DEF Effect, Cash
<1> QED
  BY <1>1, <1>2, CashIsMeasure, EffectType

LEMMA LogAppend ==
  ASSUME NEW a, IsAccount(a), NEW r \in Record
  PROVE  Append(a.m_trade_list, r) \in Seq(Record) /\ Append(a.m_trade_list, r) # <<>>
<1>1. a.m_trade_list \in Seq(Record)
  BY AccountFields
<1> QED
  BY <1>1

LEMMA CashEntry ==
  ASSUME NEW a, IsAccount(a), NEW r \in Record, r.stock = NoStock,
         NEW in \in Int, NEW out \in Int, NEW borrowed \in Int, NEW loans \in Seq(Loan),
         LoanTotal(loans) = borrowed,
         r.cash = a.m_cash + CashEffect(r),
         borrowed = a.m_borrow_cash + SignedCash(r),
         (in - out) + borrowed = CashPart(a) + (CashEffect(r) + DebtCost(r))
  PROVE  Entry(a, CashBooked(a, r, in, out, borrowed, loans), r)
<1> DEFINE b == CashBooked(a, r, in, out, borrowed, loans)
           log == Append(a.m_trade_list, r)
<1>1. log \in Seq(Record) /\ log # <<>> /\ r.cash \in Int
  BY LogAppend, RecordFields
<1>2. b = [a EXCEPT !.m_cash = r.cash, !.m_trade_list = log,
                    !.m_checkin_cash = in, !.m_checkout_cash = out,
                    !.m_borrow_cash = borrowed, !.m_loan_list = loans]
  BY DEF CashBooked
<1> HIDE DEF b, log
<1>3. /\ IsAccount(b) /\ b.m_trade_list = log /\ b.m_cash = r.cash
      /\ b.m_checkin_cash = in /\ b.m_checkout_cash = out /\ b.m_borrow_cash = borrowed
      /\ b.m_checkin_stock = a.m_checkin_stock /\ b.m_checkout_stock = a.m_checkout_stock
      /\ b.m_position = a.m_position /\ b.m_position_history = a.m_position_history
      /\ b.m_short_position = a.m_short_position /\ b.m_borrow_stock = a.m_borrow_stock
      /\ b.m_short_position_history = a.m_short_position_history
      /\ b.m_last_update_datetime = a.m_last_update_datetime
      /\ b.m_tmp_weight_checked_until = a.m_tmp_weight_checked_until
  BY <1>1, <1>2 DEF IsAccount, Shape, Fields
<1>4. Net(b) = (Net(a) + CashEffect(r)) + DebtCost(r)
  <2>1. LongPart(b) = LongPart(a)
    BY <1>3 DEF LongPart
  <2>2. ShortPart(b) = ShortPart(a)
    BY <1>3 DEF ShortPart
  <2>3. CashPart(b) = CashPart(a) + (CashEffect(r) + DebtCost(r))
    BY <1>3 DEF CashPart
  <2>4. CashEffect(r) \in Int /\ DebtCost(r) \in Int
    BY EffectTypes
  <2>5. CashPart(a) \in Int /\ LongPart(a) \in Int /\ ShortPart(a) \in Int
    BY NetParts
  <2>6. Net(a) = (CashPart(a) + LongPart(a)) + ShortPart(a)
        /\ Net(b) = (CashPart(b) + LongPart(b)) + ShortPart(b)
    BY <1>3, NetParts
  <2> QED
    BY <2>1, <2>2, <2>3, <2>4, <2>5, <2>6
<1>5. KeepsCalendar(a, b)
  BY <1>3 DEF KeepsCalendar
<1>6. \A side \in Sides, s \in Stocks :
         Num(b, side, s) = Num(a, side, s) + Signed(r, s, Plus(side), Minus(side))
  BY <1>3, SameNumbers
<1>7. a.m_cash \in Int /\ Net(a) \in Int
  BY AccountNumbers, NetType
<1>8. Entry(a, b, r)
  BY <1>3, <1>4, <1>5, <1>6, <1>7, EntryIntro DEF log
<1> QED
  BY <1>8 DEF b

LEMMA LongEntry ==
  ASSUME NEW a, IsAccount(a), NEW r \in Record,
         NEW in \in Int, NEW out \in Int, NEW map, Positions(map),
         NEW history \in Seq(Position),
         r.cash = a.m_cash + CashEffect(r), SignedCash(r) = 0,
         ((in - out) + OpenGain(map)) + ClosedGain(history)
           = LongPart(a) + (CashEffect(r) + DebtCost(r)),
         \A s \in Stocks :
            /\ NumberIn(map, s) = NumberIn(a.m_position, s)
                                  + Signed(r, s, Plus("long"), Minus("long"))
            /\ Signed(r, s, Plus("short"), Minus("short")) = 0
            /\ Signed(r, s, Plus("debt"), Minus("debt")) = 0
  PROVE  Entry(a, LongBooked(a, r, in, out, map, history), r)
<1> DEFINE b == LongBooked(a, r, in, out, map, history)
           log == Append(a.m_trade_list, r)
<1>1. log \in Seq(Record) /\ log # <<>> /\ r.cash \in Int
  BY LogAppend, RecordFields
<1>2. b = [a EXCEPT !.m_cash = r.cash, !.m_trade_list = log,
                    !.m_checkin_stock = in, !.m_checkout_stock = out,
                    !.m_position = map, !.m_position_history = history]
  BY DEF LongBooked
<1> HIDE DEF b, log
<1>3. /\ IsAccount(b) /\ b.m_trade_list = log /\ b.m_cash = r.cash
      /\ b.m_checkin_cash = a.m_checkin_cash /\ b.m_checkout_cash = a.m_checkout_cash
      /\ b.m_borrow_cash = a.m_borrow_cash
      /\ b.m_checkin_stock = in /\ b.m_checkout_stock = out
      /\ b.m_position = map /\ b.m_position_history = history
      /\ b.m_short_position = a.m_short_position /\ b.m_borrow_stock = a.m_borrow_stock
      /\ b.m_short_position_history = a.m_short_position_history
      /\ b.m_last_update_datetime = a.m_last_update_datetime
      /\ b.m_tmp_weight_checked_until = a.m_tmp_weight_checked_until
  BY <1>1, <1>2 DEF IsAccount, Shape, Fields
<1>4. Net(b) = (Net(a) + CashEffect(r)) + DebtCost(r)
  <2>1. CashPart(b) = CashPart(a)
    BY <1>3 DEF CashPart
  <2>2. ShortPart(b) = ShortPart(a)
    BY <1>3 DEF ShortPart
  <2>3. LongPart(b) = LongPart(a) + (CashEffect(r) + DebtCost(r))
    BY <1>3 DEF LongPart
  <2>4. CashEffect(r) \in Int /\ DebtCost(r) \in Int
    BY EffectTypes
  <2>5. CashPart(a) \in Int /\ LongPart(a) \in Int /\ ShortPart(a) \in Int
    BY NetParts
  <2>6. Net(a) = (CashPart(a) + LongPart(a)) + ShortPart(a)
        /\ Net(b) = (CashPart(b) + LongPart(b)) + ShortPart(b)
    BY <1>3, NetParts
  <2> QED
    BY <2>1, <2>2, <2>3, <2>4, <2>5, <2>6
<1>5. KeepsCalendar(a, b)
  BY <1>3 DEF KeepsCalendar
<1>6. \A side \in Sides, s \in Stocks :
         Num(b, side, s) = Num(a, side, s) + Signed(r, s, Plus(side), Minus(side))
  <2> TAKE side \in Sides, s \in Stocks
  <2>1. NumberIn(a.m_short_position, s) \in Int /\ NumberIn(a.m_borrow_stock, s) \in Int
    BY AccountFields, NumberInType
  <2>2. side = "long" \/ side = "short" \/ side = "debt"
    BY DEF Sides
  <2> QED
    BY <1>3, <2>1, <2>2, NumIs
<1>7. a.m_cash \in Int /\ Net(a) \in Int
  BY AccountNumbers, NetType
<1>8. b.m_borrow_cash = a.m_borrow_cash + SignedCash(r)
  BY <1>3, AccountNumbers
<1>9. Entry(a, b, r)
  BY <1>3, <1>4, <1>5, <1>6, <1>7, <1>8, EntryIntro DEF log
<1> QED
  BY <1>9 DEF b

LEMMA ShortEntry ==
  ASSUME NEW a, IsAccount(a), NEW r \in Record,
         NEW map, Positions(map), NEW history \in Seq(Position),
         r.cash = a.m_cash + CashEffect(r), SignedCash(r) = 0, DebtCost(r) = 0,
         OpenGain(map) + ClosedGain(history) = ShortPart(a) + CashEffect(r),
         \A s \in Stocks :
            /\ NumberIn(map, s) = NumberIn(a.m_short_position, s)
                                  + Signed(r, s, Plus("short"), Minus("short"))
            /\ Signed(r, s, Plus("long"), Minus("long")) = 0
            /\ Signed(r, s, Plus("debt"), Minus("debt")) = 0
  PROVE  Entry(a, ShortBooked(a, r, map, history), r)
<1> DEFINE b == ShortBooked(a, r, map, history)
           log == Append(a.m_trade_list, r)
<1>1. log \in Seq(Record) /\ log # <<>> /\ r.cash \in Int
  BY LogAppend, RecordFields
<1>2. b = [a EXCEPT !.m_cash = r.cash, !.m_trade_list = log,
                    !.m_short_position = map, !.m_short_position_history = history]
  BY DEF ShortBooked
<1> HIDE DEF b, log
<1>3. /\ IsAccount(b) /\ b.m_trade_list = log /\ b.m_cash = r.cash
      /\ b.m_checkin_cash = a.m_checkin_cash /\ b.m_checkout_cash = a.m_checkout_cash
      /\ b.m_borrow_cash = a.m_borrow_cash
      /\ b.m_checkin_stock = a.m_checkin_stock /\ b.m_checkout_stock = a.m_checkout_stock
      /\ b.m_position = a.m_position /\ b.m_position_history = a.m_position_history
      /\ b.m_short_position = map /\ b.m_borrow_stock = a.m_borrow_stock
      /\ b.m_short_position_history = history
      /\ b.m_last_update_datetime = a.m_last_update_datetime
      /\ b.m_tmp_weight_checked_until = a.m_tmp_weight_checked_until
  BY <1>1, <1>2 DEF IsAccount, Shape, Fields
<1>4. Net(b) = (Net(a) + CashEffect(r)) + DebtCost(r)
  <2>1. CashPart(b) = CashPart(a)
    BY <1>3 DEF CashPart
  <2>2. LongPart(b) = LongPart(a)
    BY <1>3 DEF LongPart
  <2>3. ShortPart(b) = ShortPart(a) + (CashEffect(r) + DebtCost(r))
    <3>1. ShortPart(b) = ShortPart(a) + CashEffect(r)
      BY <1>3 DEF ShortPart
    <3> QED
      BY <3>1, EffectTypes
  <2>4. CashEffect(r) \in Int /\ DebtCost(r) \in Int
    BY EffectTypes
  <2>5. CashPart(a) \in Int /\ LongPart(a) \in Int /\ ShortPart(a) \in Int
    BY NetParts
  <2>6. Net(a) = (CashPart(a) + LongPart(a)) + ShortPart(a)
        /\ Net(b) = (CashPart(b) + LongPart(b)) + ShortPart(b)
    BY <1>3, NetParts
  <2> QED
    BY <2>1, <2>2, <2>3, <2>4, <2>5, <2>6
<1>5. KeepsCalendar(a, b)
  BY <1>3 DEF KeepsCalendar
<1>6. \A side \in Sides, s \in Stocks :
         Num(b, side, s) = Num(a, side, s) + Signed(r, s, Plus(side), Minus(side))
  <2> TAKE side \in Sides, s \in Stocks
  <2>1. NumberIn(a.m_position, s) \in Int /\ NumberIn(a.m_borrow_stock, s) \in Int
    BY AccountFields, NumberInType
  <2>2. side = "long" \/ side = "short" \/ side = "debt"
    BY DEF Sides
  <2> QED
    BY <1>3, <2>1, <2>2, NumIs
<1>7. a.m_cash \in Int /\ Net(a) \in Int
  BY AccountNumbers, NetType
<1>8. b.m_borrow_cash = a.m_borrow_cash + SignedCash(r)
  BY <1>3, AccountNumbers
<1>9. Entry(a, b, r)
  BY <1>3, <1>4, <1>5, <1>6, <1>7, <1>8, EntryIntro DEF log
<1> QED
  BY <1>9 DEF b

LEMMA DebtEntry ==
  ASSUME NEW a, IsAccount(a), NEW r \in Record, NEW map, Debts(map),
         r.cash = a.m_cash + CashEffect(r), SignedCash(r) = 0,
         CashEffect(r) + DebtCost(r) = 0,
         \A s \in Stocks :
            /\ NumberIn(map, s) = NumberIn(a.m_borrow_stock, s)
                                  + Signed(r, s, Plus("debt"), Minus("debt"))
            /\ Signed(r, s, Plus("long"), Minus("long")) = 0
            /\ Signed(r, s, Plus("short"), Minus("short")) = 0
  PROVE  Entry(a, DebtBooked(a, r, map), r)
<1> DEFINE b == DebtBooked(a, r, map)
           log == Append(a.m_trade_list, r)
<1>1. log \in Seq(Record) /\ log # <<>> /\ r.cash \in Int
  BY LogAppend, RecordFields
<1>2. b = [a EXCEPT !.m_cash = r.cash, !.m_trade_list = log, !.m_borrow_stock = map]
  BY DEF DebtBooked
<1> HIDE DEF b, log
<1>3. /\ IsAccount(b) /\ b.m_trade_list = log /\ b.m_cash = r.cash
      /\ b.m_checkin_cash = a.m_checkin_cash /\ b.m_checkout_cash = a.m_checkout_cash
      /\ b.m_borrow_cash = a.m_borrow_cash
      /\ b.m_checkin_stock = a.m_checkin_stock /\ b.m_checkout_stock = a.m_checkout_stock
      /\ b.m_position = a.m_position /\ b.m_position_history = a.m_position_history
      /\ b.m_short_position = a.m_short_position /\ b.m_borrow_stock = map
      /\ b.m_short_position_history = a.m_short_position_history
      /\ b.m_last_update_datetime = a.m_last_update_datetime
      /\ b.m_tmp_weight_checked_until = a.m_tmp_weight_checked_until
  BY <1>1, <1>2 DEF IsAccount, Shape, Fields
<1>4. Net(b) = (Net(a) + CashEffect(r)) + DebtCost(r)
  <2>1. Net(b) = Net(a)
    BY <1>3 DEF Net
  <2> QED
    BY <2>1, NetType, EffectTypes
<1>5. KeepsCalendar(a, b)
  BY <1>3 DEF KeepsCalendar
<1>6. \A side \in Sides, s \in Stocks :
         Num(b, side, s) = Num(a, side, s) + Signed(r, s, Plus(side), Minus(side))
  <2> TAKE side \in Sides, s \in Stocks
  <2>1. NumberIn(a.m_position, s) \in Int /\ NumberIn(a.m_short_position, s) \in Int
    BY AccountFields, NumberInType
  <2>2. side = "long" \/ side = "short" \/ side = "debt"
    BY DEF Sides
  <2> QED
    BY <1>3, <2>1, <2>2, NumIs
<1>7. a.m_cash \in Int /\ Net(a) \in Int
  BY AccountNumbers, NetType
<1>8. b.m_borrow_cash = a.m_borrow_cash + SignedCash(r)
  BY <1>3, AccountNumbers
<1>9. Entry(a, b, r)
  BY <1>3, <1>4, <1>5, <1>6, <1>7, <1>8, EntryIntro DEF log
<1> QED
  BY <1>9 DEF b

-----------------------------------------------------------------------------
(* Each business, booked.                                                  *)

LEMMA SignedPlus ==
  ASSUME NEW r, NEW own \in Sides, r.business \in Plus(own), NEW side \in Sides, NEW x
  PROVE  Signed(r, x, Plus(side), Minus(side))
           = IF side = own /\ x = r.stock THEN r.number ELSE 0
  BY DEF Sides, Plus, Minus, TradedIn, Adjusted, Signed

LEMMA SignedMinus ==
  ASSUME NEW r, NEW own \in Sides, r.business \in Minus(own), NEW side \in Sides, NEW x
  PROVE  Signed(r, x, Plus(side), Minus(side))
           = IF side = own /\ x = r.stock THEN -r.number ELSE 0
  BY DEF Sides, Plus, Minus, TradedIn, Adjusted, Signed

LEMMA CheckinBooked ==
  ASSUME NEW a, IsAccount(a), NEW r \in Record, r.business = "CHECKIN",
         r.stock = NoStock, r.cost = 0, r.cash = a.m_cash + r.realPrice
  PROVE  Entry(a, CashBooked(a, r, a.m_checkin_cash + r.realPrice, a.m_checkout_cash,
                             a.m_borrow_cash, a.m_loan_list), r)
<1> DEFINE in == a.m_checkin_cash + r.realPrice
<1>1. r.realPrice \in Int
  BY RecordFields
<1>2. CashEffect(r) = r.realPrice /\ SignedCash(r) = 0 /\ DebtCost(r) = 0
  BY <1>1 DEF CashEffect, SignedCash, DebtCost
<1>3. in \in Int /\ a.m_borrow_cash = a.m_borrow_cash + SignedCash(r)
  BY <1>1, <1>2, AccountNumbers
<1>4. (in - a.m_checkout_cash) + a.m_borrow_cash
        = CashPart(a) + (CashEffect(r) + DebtCost(r))
  BY <1>1, <1>2, AccountNumbers DEF CashPart
<1>5. r.cash = a.m_cash + CashEffect(r)
  BY <1>2
<1> HIDE DEF in
<1>6. Entry(a, CashBooked(a, r, in, a.m_checkout_cash, a.m_borrow_cash, a.m_loan_list), r)
  BY <1>3, <1>4, <1>5, AccountFields, CashEntry
<1> QED
  BY <1>6 DEF in

LEMMA CheckoutBooked ==
  ASSUME NEW a, IsAccount(a), NEW r \in Record, r.business = "CHECKOUT",
         r.stock = NoStock, r.cost = 0, r.cash = a.m_cash - r.realPrice
  PROVE  Entry(a, CashBooked(a, r, a.m_checkin_cash, a.m_checkout_cash + r.realPrice,
                             a.m_borrow_cash, a.m_loan_list), r)
<1> DEFINE out == a.m_checkout_cash + r.realPrice
<1>1. r.realPrice \in Int /\ a.m_cash \in Int
  BY RecordFields, AccountNumbers
<1>2. CashEffect(r) = -r.realPrice /\ SignedCash(r) = 0 /\ DebtCost(r) = 0
  BY <1>1 DEF CashEffect, SignedCash, DebtCost
<1>3. out \in Int /\ a.m_borrow_cash = a.m_borrow_cash + SignedCash(r)
  BY <1>1, <1>2, AccountNumbers
<1>4. (a.m_checkin_cash - out) + a.m_borrow_cash
        = CashPart(a) + (CashEffect(r) + DebtCost(r))
  BY <1>1, <1>2, AccountNumbers DEF CashPart
<1>5. r.cash = a.m_cash + CashEffect(r)
  BY <1>1, <1>2
<1> HIDE DEF out
<1>6. Entry(a, CashBooked(a, r, a.m_checkin_cash, out, a.m_borrow_cash, a.m_loan_list), r)
  BY <1>3, <1>4, <1>5, AccountFields, CashEntry
<1> QED
  BY <1>6 DEF out

LEMMA BorrowCashBooked ==
  ASSUME NEW a, IsAccount(a), NEW r \in Record, r.business = "BORROW_CASH",
         r.stock = NoStock, r.realPrice \in Pos, r.cash = (a.m_cash + r.realPrice) - r.cost
  PROVE  Entry(a, CashBooked(a, r, a.m_checkin_cash, a.m_checkout_cash,
                             a.m_borrow_cash + r.realPrice,
                             Append(a.m_loan_list, [datetime |-> r.datetime,
                                                    value    |-> r.realPrice])), r)
<1> DEFINE borrowed == a.m_borrow_cash + r.realPrice
           loans == Append(a.m_loan_list, [datetime |-> r.datetime, value |-> r.realPrice])
<1>1. /\ r.realPrice \in Int /\ r.cost \in Int /\ r.datetime \in Nat
      /\ a.m_cash \in Int /\ a.m_borrow_cash \in Int
  BY RecordFields, AccountNumbers
<1>2. CashEffect(r) = r.realPrice - r.cost /\ SignedCash(r) = r.realPrice
      /\ DebtCost(r) = r.cost
  BY <1>1 DEF CashEffect, SignedCash, DebtCost
<1>3. borrowed \in Int /\ borrowed = a.m_borrow_cash + SignedCash(r)
  BY <1>1, <1>2
<1>4. loans \in Seq(Loan) /\ LoanTotal(loans) = borrowed
  BY <1>1, AccountFields, LoanAppend
<1>5. (a.m_checkin_cash - a.m_checkout_cash) + borrowed
        = CashPart(a) + (CashEffect(r) + DebtCost(r))
  BY <1>1, <1>2, AccountNumbers DEF CashPart
<1>6. r.cash = a.m_cash + CashEffect(r)
  BY <1>1, <1>2
<1> HIDE DEF borrowed, loans
<1>7. Entry(a, CashBooked(a, r, a.m_checkin_cash, a.m_checkout_cash, borrowed, loans), r)
  BY <1>3, <1>4, <1>5, <1>6, AccountNumbers, CashEntry
<1> QED
  BY <1>7 DEF borrowed, loans

LEMMA ReturnCashBooked ==
  ASSUME NEW a, IsAccount(a), NEW r \in Record, r.business = "RETURN_CASH",
         r.stock = NoStock, r.realPrice \in Pos, r.realPrice <= LoanTotal(a.m_loan_list),
         r.cash = (a.m_cash - r.realPrice) - r.cost
  PROVE  Entry(a, CashBooked(a, r, a.m_checkin_cash, a.m_checkout_cash,
                             a.m_borrow_cash - r.realPrice,
                             Repay(a.m_loan_list, r.realPrice, "value")), r)
<1> DEFINE borrowed == a.m_borrow_cash - r.realPrice
           loans == Repay(a.m_loan_list, r.realPrice, "value")
<1>1. /\ r.realPrice \in Int /\ r.cost \in Int
      /\ a.m_cash \in Int /\ a.m_borrow_cash \in Int
  BY RecordFields, AccountNumbers
<1>2. CashEffect(r) = -r.realPrice - r.cost /\ SignedCash(r) = -r.realPrice
      /\ DebtCost(r) = r.cost
  BY <1>1 DEF CashEffect, SignedCash, DebtCost
<1>3. borrowed \in Int /\ borrowed = a.m_borrow_cash + SignedCash(r)
  BY <1>1, <1>2
<1>4. loans \in Seq(Loan) /\ LoanTotal(loans) = borrowed
  BY <1>1, AccountFields, LoanRepay
<1>5. (a.m_checkin_cash - a.m_checkout_cash) + borrowed
        = CashPart(a) + (CashEffect(r) + DebtCost(r))
  BY <1>1, <1>2, AccountNumbers DEF CashPart
<1>6. r.cash = a.m_cash + CashEffect(r)
  BY <1>1, <1>2
<1> HIDE DEF borrowed, loans
<1>7. Entry(a, CashBooked(a, r, a.m_checkin_cash, a.m_checkout_cash, borrowed, loans), r)
  BY <1>3, <1>4, <1>5, <1>6, AccountNumbers, CashEntry
<1> QED
  BY <1>7 DEF borrowed, loans

LEMMA AmountType ==
  ASSUME NEW r \in Record
  PROVE  Amount(r) \in Int /\ r.realPrice \in Int /\ r.number \in Int /\ r.cost \in Int
         /\ Amount(r) = r.realPrice * r.number
  BY RecordFields, TimesInt DEF Amount

LEMMA LongRecord ==
  ASSUME NEW r \in Record,
         r.business \in {"BUY", "SELL", "CHECKIN_STOCK", "CHECKOUT_STOCK"}
  PROVE  /\ SignedCash(r) = 0 /\ DebtCost(r) = 0
         /\ \A x \in Stocks :
              /\ Signed(r, x, Plus("long"), Minus("long"))
                   = IF x # r.stock THEN 0
                     ELSE IF r.business \in {"BUY", "CHECKIN_STOCK"} THEN r.number
                     ELSE -r.number
              /\ Signed(r, x, Plus("short"), Minus("short")) = 0
              /\ Signed(r, x, Plus("debt"), Minus("debt")) = 0
<1>1. SignedCash(r) = 0 /\ DebtCost(r) = 0
  BY DEF SignedCash, DebtCost
<1>3. "long" \in Sides /\ "short" \in Sides /\ "debt" \in Sides
  BY DEF Sides
<1>4. r.business \in {"BUY", "CHECKIN_STOCK"} => r.business \in Plus("long")
  BY DEF Plus, TradedIn
<1>5. r.business \notin {"BUY", "CHECKIN_STOCK"} => r.business \in Minus("long")
  BY DEF Minus
<1>6. ASSUME NEW x \in Stocks
      PROVE  /\ Signed(r, x, Plus("long"), Minus("long"))
                  = IF x # r.stock THEN 0
                    ELSE IF r.business \in {"BUY", "CHECKIN_STOCK"} THEN r.number
                    ELSE -r.number
             /\ Signed(r, x, Plus("short"), Minus("short")) = 0
             /\ Signed(r, x, Plus("debt"), Minus("debt")) = 0
  <2>1. CASE r.business \in {"BUY", "CHECKIN_STOCK"}
    <3>1. \A side \in Sides : Signed(r, x, Plus(side), Minus(side))
                              = IF side = "long" /\ x = r.stock THEN r.number ELSE 0
      BY <1>3, <1>4, <2>1, SignedPlus
    <3> QED
      BY <1>3, <2>1, <3>1
  <2>2. CASE r.business \notin {"BUY", "CHECKIN_STOCK"}
    <3>1. \A side \in Sides : Signed(r, x, Plus(side), Minus(side))
                              = IF side = "long" /\ x = r.stock THEN -r.number ELSE 0
      BY <1>3, <1>5, <2>2, SignedMinus
    <3> QED
      BY <1>3, <2>2, <3>1
  <2> QED
    BY <2>1, <2>2
<1> QED
  BY <1>1, <1>6

LEMMA BuyBooked ==
  ASSUME NEW a, IsAccount(a), NEW r \in Record, r.business = "BUY",
         r.stock \in Stocks, r.number \in Pos, r.cash = (a.m_cash - Amount(r)) - r.cost
  PROVE  Entry(a, LongBooked(a, r, a.m_checkin_stock, a.m_checkout_stock,
                             Grow(a.m_position, r.stock, r.number, Amount(r), r.cost, 0),
                             a.m_position_history), r)
<1> DEFINE map == Grow(a.m_position, r.stock, r.number, Amount(r), r.cost, 0)
           in == a.m_checkin_stock
           out == a.m_checkout_stock
           history == a.m_position_history
<1>1. Amount(r) \in Int /\ r.cost \in Int /\ r.number \in Int /\ 0 \in Int
      /\ Amount(r) = r.realPrice * r.number
  BY AmountType
<1>2. Positions(a.m_position) /\ history \in Seq(Position) /\ in \in Int /\ out \in Int
      /\ a.m_cash \in Int /\ OpenGain(a.m_position) \in Int /\ ClosedGain(history) \in Int
  BY AccountFields
<1>3. /\ Positions(map)
      /\ NumberIn(map, r.stock) = NumberIn(a.m_position, r.stock) + r.number
      /\ \A x : x # r.stock => NumberIn(map, x) = NumberIn(a.m_position, x)
      /\ OpenGain(map) = OpenGain(a.m_position) + (0 - Amount(r) - r.cost)
  BY <1>1, <1>2, GrowFacts
<1> HIDE DEF map
<1>4. CashEffect(r) = -Amount(r) - r.cost
  BY <1>1 DEF CashEffect
<1>5. SignedCash(r) = 0 /\ DebtCost(r) = 0 /\ r.cash = a.m_cash + CashEffect(r)
  BY <1>1, <1>2, <1>4, LongRecord
<1>6. ((in - out) + OpenGain(map)) + ClosedGain(history)
        = LongPart(a) + (CashEffect(r) + DebtCost(r))
  BY <1>1, <1>2, <1>3, <1>4, <1>5, SMTT(30) DEF LongPart
<1>7. \A s \in Stocks :
        /\ NumberIn(map, s) = NumberIn(a.m_position, s)
                              + Signed(r, s, Plus("long"), Minus("long"))
        /\ Signed(r, s, Plus("short"), Minus("short")) = 0
        /\ Signed(r, s, Plus("debt"), Minus("debt")) = 0
  <2> TAKE s \in Stocks
  <2>1. NumberIn(a.m_position, s) \in Nat
    BY <1>2, NumberInType
  <2> QED
    BY <1>3, <2>1, LongRecord
<1> HIDE DEF in, out, history
<1>8. Entry(a, LongBooked(a, r, in, out, map, history), r)
  BY <1>2, <1>3, <1>5, <1>6, <1>7, LongEntry
<1> QED
  BY <1>8 DEF map, in, out, history

LEMMA StockMoved ==
  ASSUME NEW r \in Record, r.business \in {"CHECKIN_STOCK", "CHECKOUT_STOCK"}
  PROVE  CashEffect(r) = 0 - r.cost
<1>1. CashEffect(r) = -r.cost
  BY DEF CashEffect
<1>2. -r.cost = 0 - r.cost
  BY RecordFields
<1> QED
  BY <1>1, <1>2

LEMMA CheckinStockBooked ==
  ASSUME NEW a, IsAccount(a), NEW r \in Record, r.business = "CHECKIN_STOCK",
         r.stock \in Stocks, r.number \in Pos, r.cost = 0, r.cash = a.m_cash
  PROVE  Entry(a, LongBooked(a, r, a.m_checkin_stock + Amount(r), a.m_checkout_stock,
                             Grow(a.m_position, r.stock, r.number, Amount(r), 0, 0),
                             a.m_position_history), r)
<1> DEFINE map == Grow(a.m_position, r.stock, r.number, Amount(r), 0, 0)
           in == a.m_checkin_stock + Amount(r)
           out == a.m_checkout_stock
           history == a.m_position_history
<1>1. Amount(r) \in Int /\ r.number \in Int /\ 0 \in Int
  BY AmountType
<1>2. Positions(a.m_position) /\ history \in Seq(Position) /\ out \in Int
      /\ a.m_checkin_stock \in Int /\ in \in Int
      /\ a.m_cash \in Int /\ OpenGain(a.m_position) \in Int /\ ClosedGain(history) \in Int
  BY <1>1, AccountFields
<1>3. /\ Positions(map)
      /\ NumberIn(map, r.stock) = NumberIn(a.m_position, r.stock) + r.number
      /\ \A x : x # r.stock => NumberIn(map, x) = NumberIn(a.m_position, x)
      /\ OpenGain(map) = OpenGain(a.m_position) + (0 - Amount(r) - 0)
  BY <1>1, <1>2, GrowFacts
<1> HIDE DEF map
<1>4. CashEffect(r) = 0
  <2>1. CashEffect(r) = 0 - r.cost
    BY StockMoved
  <2> QED
    BY <2>1
<1>5. SignedCash(r) = 0 /\ DebtCost(r) = 0 /\ r.cash = a.m_cash + CashEffect(r)
  BY <1>1, <1>2, <1>4, LongRecord
<1>6. ((in - out) + OpenGain(map)) + ClosedGain(history)
        = LongPart(a) + (CashEffect(r) + DebtCost(r))
  BY <1>1, <1>2, <1>3, <1>4, <1>5, SMTT(30) DEF LongPart
<1>7. \A s \in Stocks :
        /\ NumberIn(map, s) = NumberIn(a.m_position, s)
                              + Signed(r, s, Plus("long"), Minus("long"))
        /\ Signed(r, s, Plus("short"), Minus("short")) = 0
        /\ Signed(r, s, Plus("debt"), Minus("debt")) = 0
  <2> TAKE s \in Stocks
  <2>1. NumberIn(a.m_position, s) \in Nat
    BY <1>2, NumberInType
  <2> QED
    BY <1>3, <2>1, LongRecord
<1> HIDE DEF in, out, history
<1>8. Entry(a, LongBooked(a, r, in, out, map, history), r)
  BY <1>2, <1>3, <1>5, <1>6, <1>7, LongEntry
<1> QED
  BY <1>8 DEF map, in, out, history

LEMMA ShrunkInPlace ==
  ASSUME NEW map, Positions(map), NEW history \in Seq(Position), NEW s \in DOMAIN map,
         NEW n \in Nat, n <= map[s].number,
         NEW buyMoney \in Int, NEW cost \in Int, NEW sellMoney \in Int,
         NEW pos, pos = Shrunk(map[s], n, buyMoney, cost, sellMoney)
  PROVE  Moved(map, history, KeepOpen(map, pos), Archived(history, pos), s, n,
               (sellMoney - buyMoney) - cost)
<1>1. map[s] \in Position /\ map[s].stock = s /\ NumberIn(map, s) = map[s].number
      /\ GainIn(map, s) = Gain(map[s]) /\ Gain(map[s]) \in Int
  <2>1. map[s] \in Position /\ map[s].stock = s
    BY DEF Positions
  <2> QED
    BY <2>1, GainInType DEF NumberIn, GainIn
<1>2. /\ pos \in Position /\ pos.stock = s /\ pos.number = map[s].number - n
      /\ Gain(pos) = Gain(map[s]) + (sellMoney - buyMoney - cost)
  BY <1>1, ShrunkFacts
<1>3. /\ Positions(KeepOpen(map, pos)) /\ Archived(history, pos) \in Seq(Position)
      /\ NumberIn(KeepOpen(map, pos), s) = pos.number
      /\ \A x : x # s => NumberIn(KeepOpen(map, pos), x) = NumberIn(map, x)
      /\ OpenGain(KeepOpen(map, pos)) + ClosedGain(Archived(history, pos))
           = OpenGain(map) + ClosedGain(history) + (Gain(pos) - GainIn(map, s))
  BY <1>2, KeepOpenFacts
<1>4. Gain(pos) - GainIn(map, s) = (sellMoney - buyMoney) - cost
  BY <1>1, <1>2
<1> QED
  BY <1>1, <1>2, <1>3, <1>4 DEF Moved

LEMMA SellBooked ==
  ASSUME NEW a, IsAccount(a), NEW r \in Record, r.business = "SELL",
         r.stock \in DOMAIN a.m_position, r.number \in Nat,
         r.number <= a.m_position[r.stock].number, r.cash = (a.m_cash + Amount(r)) - r.cost
  PROVE  LET pos == Shrunk(a.m_position[r.stock], r.number, 0, r.cost, Amount(r))
         IN  Entry(a, LongBooked(a, r, a.m_checkin_stock, a.m_checkout_stock,
                                 KeepOpen(a.m_position, pos),
                                 Archived(a.m_position_history, pos)), r)
<1> DEFINE pos == Shrunk(a.m_position[r.stock], r.number, 0, r.cost, Amount(r))
           map == KeepOpen(a.m_position, pos)
           in == a.m_checkin_stock
           out == a.m_checkout_stock
           history == Archived(a.m_position_history, pos)
<1>1. Amount(r) \in Int /\ r.cost \in Int /\ r.number \in Int /\ 0 \in Int
      /\ Amount(r) = r.realPrice * r.number
  BY AmountType
<1>2. Positions(a.m_position) /\ a.m_position_history \in Seq(Position)
      /\ in \in Int /\ out \in Int /\ a.m_cash \in Int
      /\ OpenGain(a.m_position) \in Int /\ ClosedGain(a.m_position_history) \in Int
  BY AccountFields
<1>3. /\ Positions(map) /\ history \in Seq(Position)
      /\ NumberIn(map, r.stock) = NumberIn(a.m_position, r.stock) - r.number
      /\ \A x : x # r.stock => NumberIn(map, x) = NumberIn(a.m_position, x)
      /\ OpenGain(map) + ClosedGain(history)
           = (OpenGain(a.m_position) + ClosedGain(a.m_position_history)) + ((Amount(r) - 0) - r.cost)
  <2>1. pos = Shrunk(a.m_position[r.stock], r.number, 0, r.cost, Amount(r))
    OBVIOUS
  <2> HIDE DEF pos
  <2>2. \A x, y, z \in Int : pos = Shrunk(a.m_position[r.stock], r.number, x, y, z)
          => Moved(a.m_position, a.m_position_history, KeepOpen(a.m_position, pos),
                   Archived(a.m_position_history, pos), r.stock, r.number, (z - x) - y)
    BY <1>2, ShrunkInPlace
  <2>3. Moved(a.m_position, a.m_position_history, map, history, r.stock, r.number, (Amount(r) - 0) - r.cost)
    BY <1>1, <2>1, <2>2
  <2> QED
    BY <2>3 DEF Moved
<1> HIDE DEF map, history, pos
<1>4. CashEffect(r) = Amount(r) - r.cost
  BY <1>1 DEF CashEffect
<1>5. SignedCash(r) = 0 /\ DebtCost(r) = 0 /\ r.cash = a.m_cash + CashEffect(r)
  BY <1>1, <1>2, <1>4, LongRecord
<1>6. ((in - out) + OpenGain(map)) + ClosedGain(history)
        = LongPart(a) + (CashEffect(r) + DebtCost(r))
  <2>1. OpenGain(map) \in Int /\ ClosedGain(history) \in Int
    BY <1>3, GainsType, ClosedGainType
  <2> DEFINE open == OpenGain(map)
             closed == ClosedGain(history)
             was == OpenGain(a.m_position)
             gone == ClosedGain(a.m_position_history)
             money == Amount(r)
             fee == r.cost
  <2>2. /\ open \in Int /\ closed \in Int /\ was \in Int /\ gone \in Int
        /\ money \in Int /\ fee \in Int /\ in \in Int /\ out \in Int
        /\ open + closed = (was + gone) + ((money - 0) - fee)
    BY <1>1, <1>2, <1>3, <2>1
  <2> HIDE DEF open, closed, was, gone, money, fee, in, out
  <2>3. ((in - out) + open) + closed
          = (((in - out) + was) + gone) + ((money - fee) + 0)
    BY <2>2
  <2> QED
    BY <1>4, <1>5, <2>3 DEF LongPart, open, closed, was, gone, money, fee, in, out
<1>7. \A s \in Stocks :
        /\ NumberIn(map, s) = NumberIn(a.m_position, s)
                              + Signed(r, s, Plus("long"), Minus("long"))
        /\ Signed(r, s, Plus("short"), Minus("short")) = 0
        /\ Signed(r, s, Plus("debt"), Minus("debt")) = 0
  <2> TAKE s \in Stocks
  <2>1. NumberIn(a.m_position, s) \in Nat
    BY <1>2, NumberInType
  <2>2. /\ Signed(r, s, Plus("long"), Minus("long")) = IF s # r.stock THEN 0 ELSE -r.number
        /\ Signed(r, s, Plus("short"), Minus("short")) = 0
        /\ Signed(r, s, Plus("debt"), Minus("debt")) = 0
    BY LongRecord
  <2> QED
    BY <1>1, <1>3, <2>1, <2>2
<1> HIDE DEF in, out
<1>8. Entry(a, LongBooked(a, r, in, out, map, history), r)
  BY <1>2, <1>3, <1>5, <1>6, <1>7, LongEntry
<1> QED
  BY <1>8 DEF map, in, out, history, pos

LEMMA CheckoutStockBooked ==
  ASSUME NEW a, IsAccount(a), NEW r \in Record, r.business = "CHECKOUT_STOCK",
         r.stock \in DOMAIN a.m_position, r.number \in Nat,
         r.number <= a.m_position[r.stock].number, r.cost = 0, r.cash = a.m_cash
  PROVE  LET pos == Shrunk(a.m_position[r.stock], r.number, 0, 0, Amount(r))
         IN  Entry(a, LongBooked(a, r, a.m_checkin_stock, a.m_checkout_stock + Amount(r),
                                 KeepOpen(a.m_position, pos),
                                 Archived(a.m_position_history, pos)), r)
<1> DEFINE pos == Shrunk(a.m_position[r.stock], r.number, 0, 0, Amount(r))
           map == KeepOpen(a.m_position, pos)
           in == a.m_checkin_stock
           out == a.m_checkout_stock + Amount(r)
           history == Archived(a.m_position_history, pos)
<1>1. Amount(r) \in Int /\ r.number \in Int /\ 0 \in Int
  BY AmountType
<1>2. Positions(a.m_position) /\ a.m_position_history \in Seq(Position)
      /\ in \in Int /\ a.m_checkout_stock \in Int /\ out \in Int /\ a.m_cash \in Int
      /\ OpenGain(a.m_position) \in Int /\ ClosedGain(a.m_position_history) \in Int
  BY <1>1, AccountFields
<1>3. /\ Positions(map) /\ history \in Seq(Position)
      /\ NumberIn(map, r.stock) = NumberIn(a.m_position, r.stock) - r.number
      /\ \A x : x # r.stock => NumberIn(map, x) = NumberIn(a.m_position, x)
      /\ OpenGain(map) + ClosedGain(history)
           = (OpenGain(a.m_position) + ClosedGain(a.m_position_history)) + ((Amount(r) - 0) - 0)
  <2>1. pos = Shrunk(a.m_position[r.stock], r.number, 0, 0, Amount(r))
    OBVIOUS
  <2> HIDE DEF pos
  <2>2. \A x, y, z \in Int : pos = Shrunk(a.m_position[r.stock], r.number, x, y, z)
          => Moved(a.m_position, a.m_position_history, KeepOpen(a.m_position, pos),
                   Archived(a.m_position_history, pos), r.stock, r.number, (z - x) - y)
    BY <1>2, ShrunkInPlace
  <2>3. Moved(a.m_position, a.m_position_history, map, history, r.stock, r.number, (Amount(r) - 0) - 0)
    BY <1>1, <2>1, <2>2
  <2> QED
    BY <2>3 DEF Moved
<1> HIDE DEF map, history, pos
<1>4. CashEffect(r) = 0
  <2>1. CashEffect(r) = 0 - r.cost
    BY StockMoved
  <2> QED
    BY <2>1
<1>5. SignedCash(r) = 0 /\ DebtCost(r) = 0 /\ r.cash = a.m_cash + CashEffect(r)
  BY <1>1, <1>2, <1>4, LongRecord
<1>6. ((in - out) + OpenGain(map)) + ClosedGain(history)
        = LongPart(a) + (CashEffect(r) + DebtCost(r))
  <2>1. OpenGain(map) \in Int /\ ClosedGain(history) \in Int
    BY <1>3, GainsType, ClosedGainType
  <2> DEFINE open == OpenGain(map)
             closed == ClosedGain(history)
             was == OpenGain(a.m_position)
             gone == ClosedGain(a.m_position_history)
             money == Amount(r)
             left == a.m_checkout_stock
  <2>2. /\ open \in Int /\ closed \in Int /\ was \in Int /\ gone \in Int
        /\ money \in Int /\ left \in Int /\ in \in Int
        /\ open + closed = (was + gone) + ((money - 0) - 0)
    BY <1>1, <1>2, <1>3, <2>1
  <2> HIDE DEF open, closed, was, gone, money, left, in
  <2>3. ((in - (left + money)) + open) + closed = (((in - left) + was) + gone) + 0
    BY <2>2
  <2> QED
    BY <1>4, <1>5, <2>3 DEF LongPart, open, closed, was, gone, money, left, in
<1>7. \A s \in Stocks :
        /\ NumberIn(map, s) = NumberIn(a.m_position, s)
                              + Signed(r, s, Plus("long"), Minus("long"))
        /\ Signed(r, s, Plus("short"), Minus("short")) = 0
        /\ Signed(r, s, Plus("debt"), Minus("debt")) = 0
  <2> TAKE s \in Stocks
  <2>1. NumberIn(a.m_position, s) \in Nat
    BY <1>2, NumberInType
  <2>2. /\ Signed(r, s, Plus("long"), Minus("long")) = IF s # r.stock THEN 0 ELSE -r.number
        /\ Signed(r, s, Plus("short"), Minus("short")) = 0
        /\ Signed(r, s, Plus("debt"), Minus("debt")) = 0
    BY LongRecord
  <2> QED
    BY <1>1, <1>3, <2>1, <2>2
<1> HIDE DEF in, out
<1>8. Entry(a, LongBooked(a, r, in, out, map, history), r)
  BY <1>2, <1>3, <1>5, <1>6, <1>7, LongEntry
<1> QED
  BY <1>8 DEF map, in, out, history, pos

LEMMA ShortRecord ==
  ASSUME NEW r \in Record, r.business \in {"SELL_SHORT", "BUY_SHORT"}
  PROVE  /\ SignedCash(r) = 0 /\ DebtCost(r) = 0
         /\ \A x \in Stocks :
              /\ Signed(r, x, Plus("short"), Minus("short"))
                   = IF x # r.stock THEN 0
                     ELSE IF r.business = "SELL_SHORT" THEN r.number ELSE -r.number
              /\ Signed(r, x, Plus("long"), Minus("long")) = 0
              /\ Signed(r, x, Plus("debt"), Minus("debt")) = 0
<1>1. SignedCash(r) = 0 /\ DebtCost(r) = 0
  BY DEF SignedCash, DebtCost
<1>2. "long" \in Sides /\ "short" \in Sides /\ "debt" \in Sides
  BY DEF Sides
<1>3. r.business = "SELL_SHORT" => r.business \in Plus("short")
  BY DEF Plus, TradedIn
<1>4. r.business # "SELL_SHORT" => r.business \in Minus("short")
  BY DEF Minus
<1>5. ASSUME NEW x \in Stocks
      PROVE  /\ Signed(r, x, Plus("short"), Minus("short"))
                  = IF x # r.stock THEN 0
                    ELSE IF r.business = "SELL_SHORT" THEN r.number ELSE -r.number
             /\ Signed(r, x, Plus("long"), Minus("long")) = 0
             /\ Signed(r, x, Plus("debt"), Minus("debt")) = 0
  <2>1. CASE r.business = "SELL_SHORT"
    <3>1. \A side \in Sides : Signed(r, x, Plus(side), Minus(side))
                              = IF side = "short" /\ x = r.stock THEN r.number ELSE 0
      BY <1>2, <1>3, <2>1, SignedPlus
    <3> QED
      BY <1>2, <2>1, <3>1
  <2>2. CASE r.business # "SELL_SHORT"
    <3>1. \A side \in Sides : Signed(r, x, Plus(side), Minus(side))
                              = IF side = "short" /\ x = r.stock THEN -r.number ELSE 0
      BY <1>2, <1>4, <2>2, SignedMinus
    <3> QED
      BY <1>2, <2>2, <3>1
  <2> QED
    BY <2>1, <2>2
<1> QED
  BY <1>1, <1>5

LEMMA SellShortBooked ==
  ASSUME NEW a, IsAccount(a), NEW r \in Record, r.business = "SELL_SHORT",
         r.stock \in Stocks, r.number \in Pos, r.cash = (a.m_cash + Amount(r)) - r.cost
  PROVE  Entry(a, ShortBooked(a, r, Grow(a.m_short_position, r.stock, r.number, 0, r.cost,
                                         Amount(r)),
                              a.m_short_position_history), r)
<1> DEFINE map == Grow(a.m_short_position, r.stock, r.number, 0, r.cost, Amount(r))
           history == a.m_short_position_history
<1>1. Amount(r) \in Int /\ r.cost \in Int /\ r.number \in Int /\ 0 \in Int
      /\ Amount(r) = r.realPrice * r.number
  BY AmountType
<1>2. Positions(a.m_short_position) /\ history \in Seq(Position) /\ a.m_cash \in Int
      /\ OpenGain(a.m_short_position) \in Int /\ ClosedGain(history) \in Int
  BY AccountFields
<1>3. /\ Positions(map)
      /\ NumberIn(map, r.stock) = NumberIn(a.m_short_position, r.stock) + r.number
      /\ \A x : x # r.stock => NumberIn(map, x) = NumberIn(a.m_short_position, x)
      /\ OpenGain(map) = OpenGain(a.m_short_position) + (Amount(r) - 0 - r.cost)
  BY <1>1, <1>2, GrowFacts
<1> HIDE DEF map
<1>4. CashEffect(r) = Amount(r) - r.cost
  BY <1>1 DEF CashEffect
<1>5. SignedCash(r) = 0 /\ DebtCost(r) = 0 /\ r.cash = a.m_cash + CashEffect(r)
  BY <1>1, <1>2, <1>4, ShortRecord
<1>6. OpenGain(map) + ClosedGain(history) = ShortPart(a) + CashEffect(r)
  BY <1>1, <1>2, <1>3, <1>4 DEF ShortPart
<1>7. \A s \in Stocks :
        /\ NumberIn(map, s) = NumberIn(a.m_short_position, s)
                              + Signed(r, s, Plus("short"), Minus("short"))
        /\ Signed(r, s, Plus("long"), Minus("long")) = 0
        /\ Signed(r, s, Plus("debt"), Minus("debt")) = 0
  <2> TAKE s \in Stocks
  <2>1. NumberIn(a.m_short_position, s) \in Nat
    BY <1>2, NumberInType
  <2> QED
    BY <1>3, <2>1, ShortRecord
<1> HIDE DEF history
<1>8. Entry(a, ShortBooked(a, r, map, history), r)
  BY <1>2, <1>3, <1>5, <1>6, <1>7, ShortEntry
<1> QED
  BY <1>8 DEF map, history

LEMMA BuyShortBooked ==
  ASSUME NEW a, IsAccount(a), NEW r \in Record, r.business = "BUY_SHORT",
         r.stock \in DOMAIN a.m_short_position, r.number \in Nat,
         r.number <= a.m_short_position[r.stock].number,
         r.cash = (a.m_cash - Amount(r)) - r.cost
  PROVE  LET pos == Shrunk(a.m_short_position[r.stock], r.number, Amount(r), r.cost, 0)
         IN  Entry(a, ShortBooked(a, r, KeepOpen(a.m_short_position, pos),
                                  Archived(a.m_short_position_history, pos)), r)
<1> DEFINE pos == Shrunk(a.m_short_position[r.stock], r.number, Amount(r), r.cost, 0)
           map == KeepOpen(a.m_short_position, pos)
           history == Archived(a.m_short_position_history, pos)
<1>1. Amount(r) \in Int /\ r.cost \in Int /\ r.number \in Int /\ 0 \in Int
      /\ Amount(r) = r.realPrice * r.number
  BY AmountType
<1>2. Positions(a.m_short_position) /\ a.m_short_position_history \in Seq(Position)
      /\ a.m_cash \in Int
      /\ OpenGain(a.m_short_position) \in Int
      /\ ClosedGain(a.m_short_position_history) \in Int
  BY AccountFields
<1>3. /\ Positions(map) /\ history \in Seq(Position)
      /\ NumberIn(map, r.stock) = NumberIn(a.m_short_position, r.stock) - r.number
      /\ \A x : x # r.stock => NumberIn(map, x) = NumberIn(a.m_short_position, x)
      /\ OpenGain(map) + ClosedGain(history)
           = (OpenGain(a.m_short_position) + ClosedGain(a.m_short_position_history)) + ((0 - Amount(r)) - r.cost)
  <2>1. pos = Shrunk(a.m_short_position[r.stock], r.number, Amount(r), r.cost, 0)
    OBVIOUS
  <2> HIDE DEF pos
  <2>2. \A x, y, z \in Int : pos = Shrunk(a.m_short_position[r.stock], r.number, x, y, z)
          => Moved(a.m_short_position, a.m_short_position_history, KeepOpen(a.m_short_position, pos),
                   Archived(a.m_short_position_history, pos), r.stock, r.number, (z - x) - y)
    BY <1>2, ShrunkInPlace
  <2>3. Moved(a.m_short_position, a.m_short_position_history, map, history, r.stock, r.number, (0 - Amount(r)) - r.cost)
    BY <1>1, <2>1, <2>2
  <2> QED
    BY <2>3 DEF Moved
<1> HIDE DEF map, history, pos
<1>4. CashEffect(r) = -Amount(r) - r.cost
  BY <1>1 DEF CashEffect
<1>5. SignedCash(r) = 0 /\ DebtCost(r) = 0 /\ r.cash = a.m_cash + CashEffect(r)
  BY <1>1, <1>2, <1>4, ShortRecord
<1>6. OpenGain(map) + ClosedGain(history) = ShortPart(a) + CashEffect(r)
  BY <1>1, <1>2, <1>3, <1>4 DEF ShortPart
<1>7. \A s \in Stocks :
        /\ NumberIn(map, s) = NumberIn(a.m_short_position, s)
                              + Signed(r, s, Plus("short"), Minus("short"))
        /\ Signed(r, s, Plus("long"), Minus("long")) = 0
        /\ Signed(r, s, Plus("debt"), Minus("debt")) = 0
  <2> TAKE s \in Stocks
  <2>1. NumberIn(a.m_short_position, s) \in Nat
    BY <1>2, NumberInType
  <2> QED
    BY <1>1, <1>3, <2>1, ShortRecord
<1>8. Entry(a, ShortBooked(a, r, map, history), r)
  BY <1>2, <1>3, <1>5, <1>6, <1>7, ShortEntry
<1> QED
  BY <1>8 DEF map, history, pos

LEMMA DebtRecord ==
  ASSUME NEW r \in Record, r.business \in {"BORROW_STOCK", "RETURN_STOCK"}
  PROVE  /\ SignedCash(r) = 0 /\ DebtCost(r) = r.cost /\ CashEffect(r) = -r.cost
         /\ \A x \in Stocks :
              /\ Signed(r, x, Plus("debt"), Minus("debt"))
                   = IF x # r.stock THEN 0
                     ELSE IF r.business = "BORROW_STOCK" THEN r.number ELSE -r.number
              /\ Signed(r, x, Plus("long"), Minus("long")) = 0
              /\ Signed(r, x, Plus("short"), Minus("short")) = 0
<1>1. SignedCash(r) = 0 /\ DebtCost(r) = r.cost /\ CashEffect(r) = -r.cost
  BY DEF SignedCash, DebtCost, CashEffect
<1>2. "long" \in Sides /\ "short" \in Sides /\ "debt" \in Sides
  BY DEF Sides
<1>3. r.business = "BORROW_STOCK" => r.business \in Plus("debt")
  BY DEF Plus, TradedIn
<1>4. r.business # "BORROW_STOCK" => r.business \in Minus("debt")
  BY DEF Minus
<1>5. ASSUME NEW x \in Stocks
      PROVE  /\ Signed(r, x, Plus("debt"), Minus("debt"))
                  = IF x # r.stock THEN 0
                    ELSE IF r.business = "BORROW_STOCK" THEN r.number ELSE -r.number
             /\ Signed(r, x, Plus("long"), Minus("long")) = 0
             /\ Signed(r, x, Plus("short"), Minus("short")) = 0
  <2>1. CASE r.business = "BORROW_STOCK"
    <3>1. \A side \in Sides : Signed(r, x, Plus(side), Minus(side))
                              = IF side = "debt" /\ x = r.stock THEN r.number ELSE 0
      BY <1>2, <1>3, <2>1, SignedPlus
    <3> QED
      BY <1>2, <2>1, <3>1
  <2>2. CASE r.business # "BORROW_STOCK"
    <3>1. \A side \in Sides : Signed(r, x, Plus(side), Minus(side))
                              = IF side = "debt" /\ x = r.stock THEN -r.number ELSE 0
      BY <1>2, <1>4, <2>2, SignedMinus
    <3> QED
      BY <1>2, <2>2, <3>1
  <2> QED
    BY <2>1, <2>2
<1> QED
  BY <1>1, <1>5

LEMMA BorrowStockBooked ==
  ASSUME NEW a, IsAccount(a), NEW r \in Record, r.business = "BORROW_STOCK",
         r.stock \in Stocks, r.number \in Pos, r.cash = a.m_cash - r.cost
  PROVE  Entry(a, DebtBooked(a, r, Put(a.m_borrow_stock, r.stock,
                                       WithLot(Owed(a.m_borrow_stock, r.stock),
                                               r.datetime, r.number))), r)
<1> DEFINE map == Put(a.m_borrow_stock, r.stock,
                      WithLot(Owed(a.m_borrow_stock, r.stock), r.datetime, r.number))
<1>1. r.cost \in Int /\ r.datetime \in Nat /\ a.m_cash \in Int /\ Debts(a.m_borrow_stock)
  BY RecordFields, AccountFields
<1>2. /\ Debts(map)
      /\ NumberIn(map, r.stock) = NumberIn(a.m_borrow_stock, r.stock) + r.number
      /\ \A x : x # r.stock => NumberIn(map, x) = NumberIn(a.m_borrow_stock, x)
  BY <1>1, BorrowFacts
<1> HIDE DEF map
<1>3. SignedCash(r) = 0 /\ CashEffect(r) + DebtCost(r) = 0 /\ r.cash = a.m_cash + CashEffect(r)
  BY <1>1, DebtRecord
<1>4. \A s \in Stocks :
        /\ NumberIn(map, s) = NumberIn(a.m_borrow_stock, s)
                              + Signed(r, s, Plus("debt"), Minus("debt"))
        /\ Signed(r, s, Plus("long"), Minus("long")) = 0
        /\ Signed(r, s, Plus("short"), Minus("short")) = 0
  <2> TAKE s \in Stocks
  <2>1. NumberIn(a.m_borrow_stock, s) \in Nat
    BY <1>1, NumberInType
  <2> QED
    BY <1>2, <2>1, DebtRecord
<1>5. Entry(a, DebtBooked(a, r, map), r)
  BY <1>2, <1>3, <1>4, DebtEntry
<1> QED
  BY <1>5 DEF map

LEMMA ReturnStockBooked ==
  ASSUME NEW a, IsAccount(a), NEW r \in Record, r.business = "RETURN_STOCK",
         r.stock \in DOMAIN a.m_borrow_stock, r.number \in Pos,
         r.number <= a.m_borrow_stock[r.stock].number, r.cash = a.m_cash - r.cost
  PROVE  Entry(a, DebtBooked(a, r, GiveBack(a.m_borrow_stock, r.stock, r.number)), r)
<1> DEFINE map == GiveBack(a.m_borrow_stock, r.stock, r.number)
<1>1. r.cost \in Int /\ r.number \in Int /\ a.m_cash \in Int /\ Debts(a.m_borrow_stock)
  BY RecordFields, AccountFields
<1>2. /\ Debts(map)
      /\ NumberIn(map, r.stock) = NumberIn(a.m_borrow_stock, r.stock) - r.number
      /\ \A x : x # r.stock => NumberIn(map, x) = NumberIn(a.m_borrow_stock, x)
  BY <1>1, GiveBackFacts
<1> HIDE DEF map
<1>3. SignedCash(r) = 0 /\ CashEffect(r) + DebtCost(r) = 0 /\ r.cash = a.m_cash + CashEffect(r)
  BY <1>1, DebtRecord
<1>4. \A s \in Stocks :
        /\ NumberIn(map, s) = NumberIn(a.m_borrow_stock, s)
                              + Signed(r, s, Plus("debt"), Minus("debt"))
        /\ Signed(r, s, Plus("long"), Minus("long")) = 0
        /\ Signed(r, s, Plus("short"), Minus("short")) = 0
  <2> TAKE s \in Stocks
  <2>1. NumberIn(a.m_borrow_stock, s) \in Nat
    BY <1>1, NumberInType
  <2> QED
    BY <1>1, <1>2, <2>1, DebtRecord
<1>5. Entry(a, DebtBooked(a, r, map), r)
  BY <1>2, <1>3, <1>4, DebtEntry
<1> QED
  BY <1>5 DEF map

-----------------------------------------------------------------------------
(* The handlers' own steps: each adds one record of its business.          *)

LEMMA DropQuiet ==
  ASSUME NEW a, IsAccount(a), NEW s \in Stocks
  PROVE  /\ Quiet(a, DropFrontier(a, s))
         /\ DropFrontier(a, s).m_position = a.m_position
         /\ DropFrontier(a, s).m_short_position = a.m_short_position
         /\ DropFrontier(a, s).m_borrow_stock = a.m_borrow_stock
<1> DEFINE b == DropFrontier(a, s)
           until == [a.m_tmp_weight_checked_until EXCEPT ![s] = 0]
<1>1. until \in [Stocks -> Nat] /\ \A x \in Stocks : until[x] \in {0, a.m_tmp_weight_checked_until[x]}
  BY DEF IsAccount
<1>2. b = [a EXCEPT !.m_tmp_weight_checked_until = until]
  BY DEF DropFrontier
<1> HIDE DEF b, until
<1>3. /\ IsAccount(b) /\ b.m_trade_list = a.m_trade_list /\ b.m_cash = a.m_cash
      /\ b.m_checkin_cash = a.m_checkin_cash /\ b.m_checkout_cash = a.m_checkout_cash
      /\ b.m_borrow_cash = a.m_borrow_cash
      /\ b.m_checkin_stock = a.m_checkin_stock /\ b.m_checkout_stock = a.m_checkout_stock
      /\ b.m_position = a.m_position /\ b.m_position_history = a.m_position_history
      /\ b.m_short_position = a.m_short_position /\ b.m_borrow_stock = a.m_borrow_stock
      /\ b.m_short_position_history = a.m_short_position_history
      /\ b.m_last_update_datetime = a.m_last_update_datetime
      /\ b.m_tmp_weight_checked_until = until
  BY <1>1, <1>2 DEF IsAccount, Shape, Fields
<1>4. \A e \in Measures : Level(e, b) = Level(e, a)
  <2>1. Net(b) = Net(a)
    BY <1>3 DEF Net
  <2>2. \A side, x : Num(b, side, x) = Num(a, side, x)
    BY <1>3 DEF Num, Held
  <2> QED
    BY <1>3, <2>1, <2>2 DEF Level
<1>5. Quiet(a, b)
  BY <1>1, <1>3, <1>4 DEF Quiet, KeepsCalendar
<1> QED
  BY <1>3, <1>5 DEF b

LEMMA PriceType ==
  ASSUME NEW d \in Days
  PROVE  d \in Nat /\ Price[d] \in Nat /\ Price[d] \in Int /\ Price[d] > 0
  BY ParameterAssumption DEF Days

LEMMA Fees == TradeFee \in Int /\ LoanFee \in Int /\ TradeFee \in Nat /\ LoanFee \in Nat
  BY ParameterAssumption

LEMMA CashRecordFacts ==
  ASSUME NEW d \in Nat, NEW business \in Businesses, NEW price \in Int, NEW cost \in Int,
         NEW left \in Int, NEW r, r = TradeRecord(d, business, NoStock, 0, price, cost, left)
  PROVE  /\ r \in Record /\ r.datetime = d /\ r.business = business /\ r.stock = NoStock
         /\ r.number = 0 /\ r.realPrice = price /\ r.cost = cost /\ r.cash = left
  BY TradeRecordFacts

LEMMA CheckinPosts ==
  ASSUME NEW a, IsAccount(a), NEW d \in Nat, NEW cash \in Pos
  PROVE  Posts(a, checkin(a, d, cash), d, "CHECKIN")
<1> DEFINE r == TradeRecord(d, "CHECKIN", NoStock, 0, cash, 0, a.m_cash + cash)
<1>1. "CHECKIN" \in Businesses /\ NoStock \in Stocks \cup {NoStock} /\ cash \in Int /\ 0 \in Int
  BY DEF Businesses, Pos
<1>2. a.m_cash + cash \in Int
  BY <1>1, AccountNumbers
<1>3. /\ r \in Record /\ r.datetime = d /\ r.business = "CHECKIN" /\ r.stock = NoStock
      /\ r.number = 0 /\ r.realPrice = cash /\ r.cost = 0 /\ r.cash = a.m_cash + cash
  BY <1>1, <1>2, TradeRecordFacts
<1>4. checkin(a, d, cash) = CashBooked(a, r, a.m_checkin_cash + cash, a.m_checkout_cash,
                                       a.m_borrow_cash, a.m_loan_list)
  BY <1>3, AccountFields DEF checkin, PushRecord, Shape, Fields, CashBooked
<1> HIDE DEF r
<1> QED
  BY <1>3, <1>4, CheckinBooked DEF Posts

LEMMA CheckoutPosts ==
  ASSUME NEW a, IsAccount(a), NEW d \in Nat, NEW cash \in Pos
  PROVE  \/ checkout(a, d, cash) = a
         \/ Posts(a, checkout(a, d, cash), d, "CHECKOUT")
<1> DEFINE left == a.m_cash - cash
           r == TradeRecord(d, "CHECKOUT", NoStock, 0, cash, 0, left)
<1>0. r = TradeRecord(d, "CHECKOUT", NoStock, 0, cash, 0, left)
  OBVIOUS
<1>1. "CHECKOUT" \in Businesses /\ NoStock \in Stocks \cup {NoStock} /\ cash \in Int /\ 0 \in Int
  BY DEF Businesses, Pos
<1>2. left \in Int /\ left = a.m_cash - cash
  BY <1>1, AccountNumbers
<1> HIDE DEF left, r
<1>3. /\ r \in Record /\ r.datetime = d /\ r.business = "CHECKOUT" /\ r.stock = NoStock
      /\ r.number = 0 /\ r.realPrice = cash /\ r.cost = 0 /\ r.cash = left
  BY <1>0, <1>1, <1>2, CashRecordFacts
<1>4. CASE cash > a.m_cash
  BY <1>4 DEF checkout
<1>5. CASE ~(cash > a.m_cash)
  <2>1. checkout(a, d, cash) = CashBooked(a, r, a.m_checkin_cash, a.m_checkout_cash + cash,
                                          a.m_borrow_cash, a.m_loan_list)
    BY <1>0, <1>2, <1>3, <1>5, AccountFields DEF checkout, PushRecord, Shape, Fields, CashBooked
  <2>2. Entry(a, checkout(a, d, cash), r)
    BY <1>2, <1>3, <2>1, CheckoutBooked
  <2> QED
    BY <1>3, <2>2 DEF Posts
<1> QED
  BY <1>4, <1>5

LEMMA BorrowCashPosts ==
  ASSUME NEW a, IsAccount(a), NEW d \in Nat, NEW cash \in Pos
  PROVE  Posts(a, borrowCash(a, d, cash), d, "BORROW_CASH")
<1> DEFINE left == (a.m_cash + cash) - LoanFee
           r == TradeRecord(d, "BORROW_CASH", NoStock, 0, cash, LoanFee, left)
<1>0. r = TradeRecord(d, "BORROW_CASH", NoStock, 0, cash, LoanFee, left)
  OBVIOUS
<1>1. "BORROW_CASH" \in Businesses /\ NoStock \in Stocks \cup {NoStock} /\ cash \in Int /\ 0 \in Int
  BY DEF Businesses, Pos
<1>2. left \in Int /\ left = a.m_cash + cash - LoanFee /\ left = (a.m_cash + cash) - LoanFee
  BY <1>1, AccountNumbers, Fees
<1> HIDE DEF left, r
<1>3. /\ r \in Record /\ r.datetime = d /\ r.business = "BORROW_CASH" /\ r.stock = NoStock
      /\ r.number = 0 /\ r.realPrice = cash /\ r.cost = LoanFee /\ r.cash = left
  BY <1>0, <1>1, <1>2, Fees, CashRecordFacts
<1>4. borrowCash(a, d, cash)
        = CashBooked(a, r, a.m_checkin_cash, a.m_checkout_cash, a.m_borrow_cash + cash,
                     Append(a.m_loan_list, [datetime |-> d, value |-> cash]))
  BY <1>0, <1>2, <1>3, AccountFields, ZenonT(40) DEF borrowCash, PushRecord, Shape, Fields, CashBooked
<1>5. Entry(a, borrowCash(a, d, cash), r)
  BY <1>2, <1>3, <1>4, BorrowCashBooked
<1> QED
  BY <1>3, <1>5 DEF Posts

LEMMA ReturnCashPosts ==
  ASSUME NEW a, IsAccount(a), NEW d \in Nat, NEW cash \in Pos
  PROVE  \/ returnCash(a, d, cash) = a
         \/ Posts(a, returnCash(a, d, cash), d, "RETURN_CASH")
<1> DEFINE left == a.m_cash - cash
           r == TradeRecord(d, "RETURN_CASH", NoStock, 0, cash, 0, left)
<1>0. r = TradeRecord(d, "RETURN_CASH", NoStock, 0, cash, 0, left)
  OBVIOUS
<1>1. "RETURN_CASH" \in Businesses /\ NoStock \in Stocks \cup {NoStock} /\ cash \in Int /\ 0 \in Int
  BY DEF Businesses, Pos
<1>2. left \in Int /\ left = (a.m_cash - cash) - 0 /\ left = a.m_cash - cash
  BY <1>1, AccountNumbers
<1> HIDE DEF left, r
<1>3. /\ r \in Record /\ r.datetime = d /\ r.business = "RETURN_CASH" /\ r.stock = NoStock
      /\ r.number = 0 /\ r.realPrice = cash /\ r.cost = 0 /\ r.cash = left
  BY <1>0, <1>1, <1>2, CashRecordFacts
<1>4. CASE cash > LoanTotal(a.m_loan_list) \/ cash > a.m_cash
  BY <1>4 DEF returnCash
<1>5. CASE ~(cash > LoanTotal(a.m_loan_list) \/ cash > a.m_cash)
  <2>1. returnCash(a, d, cash)
          = CashBooked(a, r, a.m_checkin_cash, a.m_checkout_cash, a.m_borrow_cash - cash,
                       Repay(a.m_loan_list, cash, "value"))
    BY <1>0, <1>2, <1>3, <1>5, AccountFields, ZenonT(40) DEF returnCash, PushRecord, Shape, Fields, CashBooked
  <2>2. cash <= LoanTotal(a.m_loan_list)
    BY <1>1, <1>5, AccountFields
  <2>3. Entry(a, returnCash(a, d, cash), r)
    BY <1>2, <1>3, <2>1, <2>2, ReturnCashBooked
  <2> QED
    BY <1>3, <2>3 DEF Posts
<1> QED
  BY <1>4, <1>5

(* A record of a trade of n shares of s at the day's price.                *)
LEMMA TradeRecordOf ==
  ASSUME NEW d \in Days, NEW business \in Businesses, NEW s \in Stocks, NEW n \in Nat,
         NEW cost \in Int, NEW cash \in Int
  PROVE  LET r == TradeRecord(d, business, s, n, Price[d], cost, cash)
         IN  /\ r \in Record /\ r.datetime = d /\ r.business = business /\ r.stock = s
             /\ r.number = n /\ r.cost = cost /\ r.cash = cash
             /\ Amount(r) = Price[d] * n
<1>1. d \in Nat /\ s \in Stocks \cup {NoStock} /\ n \in Int /\ Price[d] \in Int
  BY PriceType
<1> QED
  BY <1>1, TradeRecordFacts DEF Amount

LEMMA CheckinStockPosts ==
  ASSUME NEW a, IsAccount(a), NEW d \in Days, NEW s \in Stocks, NEW n \in Pos
  PROVE  \E b : Quiet(a, b) /\ Posts(b, checkinStock(a, d, s, n), d, "CHECKIN_STOCK")
<1> DEFINE b == DropFrontier(a, s)
           r == TradeRecord(d, "CHECKIN_STOCK", s, n, Price[d], 0, b.m_cash)
<1>1. Quiet(a, b) /\ IsAccount(b)
  BY DropQuiet DEF Quiet
<1>2. "CHECKIN_STOCK" \in Businesses /\ b.m_cash \in Int /\ n \in Nat /\ 0 \in Int
  BY <1>1, AccountNumbers DEF Businesses, Pos
<1> HIDE DEF b
<1>3. /\ r \in Record /\ r.datetime = d /\ r.business = "CHECKIN_STOCK" /\ r.stock = s
      /\ r.number = n /\ r.cost = 0 /\ r.cash = b.m_cash /\ Amount(r) = Price[d] * n
  BY <1>2, TradeRecordOf
<1>4. checkinStock(a, d, s, n)
        = LongBooked(b, r, b.m_checkin_stock + Price[d] * n, b.m_checkout_stock,
                     Grow(b.m_position, s, n, Price[d] * n, 0, 0), b.m_position_history)
  <2>1. checkinStock(a, d, s, n)
          = [PushRecord(b, d, "CHECKIN_STOCK", s, n, Price[d], 0)
               EXCEPT !.m_position      = Grow(@, s, n, Price[d] * n, 0, 0),
                      !.m_checkin_stock = @ + Price[d] * n]
    BY DEF checkinStock, b
  <2> DEFINE value == Price[d] * n
  <2> HIDE DEF value
  <2> QED
    BY <1>1, <1>3, <2>1, AccountFields DEF PushRecord, Shape, Fields, LongBooked
<1> HIDE DEF r
<1>5. Posts(b, checkinStock(a, d, s, n), d, "CHECKIN_STOCK")
  BY <1>1, <1>2, <1>3, <1>4, CheckinStockBooked DEF Posts
<1> QED
  BY <1>1, <1>5

LEMMA CheckoutStockPosts ==
  ASSUME NEW a, IsAccount(a), NEW d \in Days, NEW s \in Stocks, NEW n \in Pos
  PROVE  \/ checkoutStock(a, d, s, n) = a
         \/ Posts(a, checkoutStock(a, d, s, n), d, "CHECKOUT_STOCK")
<1> DEFINE r == TradeRecord(d, "CHECKOUT_STOCK", s, n, Price[d], 0, a.m_cash)
           value == Price[d] * n
           pos == Shrunk(a.m_position[s], n, 0, 0, value)
<1>1. "CHECKOUT_STOCK" \in Businesses /\ a.m_cash \in Int /\ n \in Nat /\ 0 \in Int
  BY AccountNumbers DEF Businesses, Pos
<1>2. /\ r \in Record /\ r.datetime = d /\ r.business = "CHECKOUT_STOCK" /\ r.stock = s
      /\ r.number = n /\ r.cost = 0 /\ r.cash = a.m_cash /\ Amount(r) = value
  BY <1>1, TradeRecordOf
<1>3. CASE s \notin DOMAIN a.m_position \/ n > a.m_position[s].number
  BY <1>3 DEF checkoutStock
<1>4. CASE ~(s \notin DOMAIN a.m_position \/ n > a.m_position[s].number)
  <2>1. checkoutStock(a, d, s, n)
          = [PushRecord(ShrinkLong(a, pos), d, "CHECKOUT_STOCK", s, n, Price[d], 0)
               EXCEPT !.m_checkout_stock = @ + value]
    BY <1>4 DEF checkoutStock
  <2>2. s \in DOMAIN a.m_position /\ n <= a.m_position[s].number
    <3>1. a.m_position[s].number \in Nat
      BY <1>4, AccountFields, PositionFields DEF Positions
    <3> QED
      BY <1>1, <1>4, <3>1
  <2> HIDE DEF value, pos
  <2>3. checkoutStock(a, d, s, n)
          = LongBooked(a, r, a.m_checkin_stock, a.m_checkout_stock + value,
                       KeepOpen(a.m_position, pos), Archived(a.m_position_history, pos))
    <3> DEFINE map == KeepOpen(a.m_position, pos)
               history == Archived(a.m_position_history, pos)
    <3>1. ShrinkLong(a, pos) = [a EXCEPT !.m_position = map, !.m_position_history = history]
      BY DEF ShrinkLong
    <3> HIDE DEF map, history, r
    <3>2. r = TradeRecord(d, "CHECKOUT_STOCK", s, n, Price[d], 0, a.m_cash)
      BY DEF r
    <3>3. PushRecord(ShrinkLong(a, pos), d, "CHECKOUT_STOCK", s, n, Price[d], 0)
            = [a EXCEPT !.m_position = map, !.m_position_history = history,
                        !.m_trade_list = Append(@, r)]
      BY <3>1, <3>2, AccountFields DEF PushRecord, Shape, Fields
    <3>4. checkoutStock(a, d, s, n)
            = LongBooked(a, r, a.m_checkin_stock, a.m_checkout_stock + value, map, history)
      <4> DEFINE out == a.m_checkout_stock + value
                 log == Append(a.m_trade_list, r)
      <4>1. checkoutStock(a, d, s, n)
              = [a EXCEPT !.m_position = map, !.m_position_history = history,
                          !.m_trade_list = log, !.m_checkout_stock = out]
        BY <2>1, <3>3, AccountFields DEF Shape, Fields
      <4>2. r.cash = a.m_cash /\ Shape(a)
        BY <1>2, AccountFields
      <4> HIDE DEF out, log
      <4>3. [a EXCEPT !.m_position = map, !.m_position_history = history,
                          !.m_trade_list = log, !.m_checkout_stock = out]
             = [a EXCEPT !.m_cash = r.cash, !.m_trade_list = log,
            !.m_checkin_stock = a.m_checkin_stock, !.m_checkout_stock = out,
            !.m_position = map, !.m_position_history = history]
        BY <4>2 DEF Shape, Fields
      <4> QED
        BY <4>1, <4>3 DEF LongBooked, out, log
    <3> QED
      BY <3>4 DEF map, history
  <2>4. pos = Shrunk(a.m_position[r.stock], r.number, 0, 0, Amount(r))
    BY <1>2 DEF pos
  <2> HIDE DEF r
  <2> QED
    BY <1>1, <1>2, <2>2, <2>3, <2>4, CheckoutStockBooked DEF Posts
<1> QED
  BY <1>3, <1>4

LEMMA PaidCash ==
  ASSUME NEW a, IsAccount(a), NEW money \in Int
  PROVE  /\ Shape(a) /\ TradeFee \in Int
         /\ (a.m_cash + money) - TradeFee \in Int /\ (a.m_cash - money) - TradeFee \in Int
         /\ (a.m_cash + money) - TradeFee = a.m_cash + money - TradeFee
  BY AccountFields, Fees

(* The trade at the end of buy.                                            *)
LEMMA BuyPosts ==
  ASSUME NEW c, IsAccount(c), NEW d \in Days, NEW s \in Stocks, NEW n \in Pos,
         NEW money, money = Price[d] * n
  PROVE  Posts(c, [PushRecord([c EXCEPT !.m_cash = @ - money - TradeFee],
                              d, "BUY", s, n, Price[d], TradeFee)
                     EXCEPT !.m_position = Grow(@, s, n, money, TradeFee, 0)], d, "BUY")
<1> DEFINE left == (c.m_cash - money) - TradeFee
           r == TradeRecord(d, "BUY", s, n, Price[d], TradeFee, left)
           map == Grow(c.m_position, s, n, money, TradeFee, 0)
           log == Append(c.m_trade_list, r)
           paid == [c EXCEPT !.m_cash = @ - money - TradeFee]
           b == [PushRecord(paid, d, "BUY", s, n, Price[d], TradeFee)
                   EXCEPT !.m_position = Grow(@, s, n, money, TradeFee, 0)]
<1>1. "BUY" \in Businesses /\ n \in Nat /\ money \in Int /\ Price[d] \in Int
  <2>1. n \in Int /\ Price[d] \in Int
    BY PriceType DEF Pos
  <2> QED
    BY <2>1, TimesInt DEF Businesses, Pos
<1>2. left \in Int /\ Shape(c) /\ TradeFee \in Int
  BY <1>1, PaidCash
<1>3. paid = [c EXCEPT !.m_cash = left]
  OBVIOUS
<1> HIDE DEF left, paid
<1>4. /\ r \in Record /\ r.datetime = d /\ r.business = "BUY" /\ r.stock = s
      /\ r.number = n /\ r.cost = TradeFee /\ r.cash = left /\ Amount(r) = money
  BY <1>1, <1>2, TradeRecordOf
<1>5. PushRecord(paid, d, "BUY", s, n, Price[d], TradeFee)
        = [c EXCEPT !.m_cash = left, !.m_trade_list = log]
  BY <1>2, <1>3 DEF PushRecord, Shape, Fields
<1>6. b = [c EXCEPT !.m_cash = left, !.m_trade_list = log, !.m_position = map]
  BY <1>2, <1>5 DEF Shape, Fields
<1> HIDE DEF map, log, r, b
<1>7. b = LongBooked(c, r, c.m_checkin_stock, c.m_checkout_stock, map, c.m_position_history)
  BY <1>2, <1>4, <1>6 DEF Shape, Fields, LongBooked, log
<1>8. Posts(c, b, d, "BUY")
  BY <1>1, <1>2, <1>4, <1>7, BuyBooked DEF Posts, left, map
<1> QED
  BY <1>8 DEF b, paid

(* The trade at the beginning of sell.                                     *)
LEMMA SellPosts ==
  ASSUME NEW a, IsAccount(a), NEW d \in Days, NEW s \in DOMAIN a.m_position,
         NEW n \in Nat, n <= a.m_position[s].number,
         NEW money, money = Price[d] * n
  PROVE  Posts(a, ShrinkLong(PushRecord([a EXCEPT !.m_cash = @ + money - TradeFee],
                                        d, "SELL", s, n, Price[d], TradeFee),
                             Shrunk(a.m_position[s], n, 0, TradeFee, money)), d, "SELL")
<1> DEFINE left == (a.m_cash + money) - TradeFee
           r == TradeRecord(d, "SELL", s, n, Price[d], TradeFee, left)
           pos == Shrunk(a.m_position[s], n, 0, TradeFee, money)
           map == KeepOpen(a.m_position, pos)
           history == Archived(a.m_position_history, pos)
           log == Append(a.m_trade_list, r)
           paid == [a EXCEPT !.m_cash = @ + money - TradeFee]
           b == ShrinkLong(PushRecord(paid, d, "SELL", s, n, Price[d], TradeFee), pos)
<1>1. "SELL" \in Businesses /\ s \in Stocks /\ money \in Int /\ Price[d] \in Int
  <2>1. n \in Int /\ Price[d] \in Int
    BY PriceType
  <2> QED
    BY <2>1, TimesInt, AccountFields DEF Businesses, Positions
<1>2. left \in Int /\ Shape(a) /\ TradeFee \in Int /\ left = a.m_cash + money - TradeFee
  BY <1>1, PaidCash
<1>3. paid = [a EXCEPT !.m_cash = left]
  BY <1>2
<1> HIDE DEF left, paid, pos
<1>4. /\ r \in Record /\ r.datetime = d /\ r.business = "SELL" /\ r.stock = s
      /\ r.number = n /\ r.cost = TradeFee /\ r.cash = left /\ Amount(r) = money
  BY <1>1, <1>2, TradeRecordOf
<1>5. PushRecord(paid, d, "SELL", s, n, Price[d], TradeFee)
        = [a EXCEPT !.m_cash = left, !.m_trade_list = log]
  BY <1>2, <1>3 DEF PushRecord, Shape, Fields
<1>6. b = [a EXCEPT !.m_cash = left, !.m_trade_list = log,
                    !.m_position = map, !.m_position_history = history]
  BY <1>2, <1>5 DEF ShrinkLong, Shape, Fields
<1>7. pos = Shrunk(a.m_position[r.stock], r.number, 0, r.cost, Amount(r))
  BY <1>4 DEF pos
<1> HIDE DEF map, history, log, r, b
<1>8. b = LongBooked(a, r, a.m_checkin_stock, a.m_checkout_stock, map, history)
  BY <1>2, <1>4, <1>6 DEF Shape, Fields, LongBooked, log
<1>9. r.cash = (a.m_cash + Amount(r)) - r.cost
  BY <1>4 DEF left
<1>10. Posts(a, b, d, "SELL")
  BY <1>4, <1>7, <1>8, <1>9, SellBooked DEF Posts, map, history
<1> QED
  BY <1>10 DEF b, paid, pos

LEMMA BorrowStockPosts ==
  ASSUME NEW a, IsAccount(a), NEW d \in Days, NEW s \in Stocks, NEW n \in Pos
  PROVE  \E b : /\ Quiet(a, b) /\ b.m_short_position = a.m_short_position
                /\ b.m_borrow_stock = a.m_borrow_stock
                /\ Posts(b, borrowStock(a, d, s, n), d, "BORROW_STOCK")
<1> DEFINE b == DropFrontier(a, s)
           r == TradeRecord(d, "BORROW_STOCK", s, n, Price[d], 0, b.m_cash)
           map == Put(b.m_borrow_stock, s, WithLot(Owed(b.m_borrow_stock, s), d, n))
           log == Append(b.m_trade_list, r)
           c == borrowStock(a, d, s, n)
<1>1. Quiet(a, b) /\ IsAccount(b) /\ b.m_short_position = a.m_short_position
      /\ b.m_borrow_stock = a.m_borrow_stock
  BY DropQuiet DEF Quiet
<1>2. "BORROW_STOCK" \in Businesses /\ b.m_cash \in Int /\ n \in Nat /\ 0 \in Int /\ Shape(b)
  BY <1>1, AccountFields DEF Businesses, Pos
<1>3. c = [PushRecord(b, d, "BORROW_STOCK", s, n, Price[d], 0)
             EXCEPT !.m_borrow_stock = Put(@, s, WithLot(Owed(@, s), d, n))]
  BY DEF borrowStock
<1> HIDE DEF b, c
<1>4. /\ r \in Record /\ r.datetime = d /\ r.business = "BORROW_STOCK" /\ r.stock = s
      /\ r.number = n /\ r.cost = 0 /\ r.cash = b.m_cash
  BY <1>2, TradeRecordOf
<1>5. PushRecord(b, d, "BORROW_STOCK", s, n, Price[d], 0) = [b EXCEPT !.m_trade_list = log]
  BY DEF PushRecord
<1>6. c = [b EXCEPT !.m_trade_list = log, !.m_borrow_stock = map]
  BY <1>2, <1>3, <1>5 DEF Shape, Fields
<1> HIDE DEF map, log, r
<1>7. c = DebtBooked(b, r, map)
  BY <1>2, <1>4, <1>6 DEF Shape, Fields, DebtBooked, log
<1>8. r.cash = b.m_cash - r.cost
  BY <1>2, <1>4
<1>9. Posts(b, c, d, "BORROW_STOCK")
  BY <1>1, <1>2, <1>4, <1>7, <1>8, BorrowStockBooked DEF Posts, map
<1> QED
  BY <1>1, <1>9 DEF c

LEMMA ReturnStockPosts ==
  ASSUME NEW a, IsAccount(a), NEW d \in Days, NEW s \in Stocks, NEW n \in Pos
  PROVE  \/ returnStock(a, d, s, n) = a
         \/ PostsOf(a, returnStock(a, d, s, n), d, "RETURN_STOCK", s, n)
<1> DEFINE r == TradeRecord(d, "RETURN_STOCK", s, n, Price[d], 0, a.m_cash)
           map == GiveBack(a.m_borrow_stock, s, n)
           log == Append(a.m_trade_list, r)
           c == returnStock(a, d, s, n)
<1>1. CASE s \notin DOMAIN a.m_borrow_stock \/ n > a.m_borrow_stock[s].number
  BY <1>1 DEF returnStock
<1>2. CASE ~(s \notin DOMAIN a.m_borrow_stock \/ n > a.m_borrow_stock[s].number)
  <2>1. "RETURN_STOCK" \in Businesses /\ a.m_cash \in Int /\ n \in Nat /\ 0 \in Int /\ Shape(a)
    BY AccountFields DEF Businesses, Pos
  <2>2. s \in DOMAIN a.m_borrow_stock /\ n <= a.m_borrow_stock[s].number
    <3>1. a.m_borrow_stock[s].number \in Nat
      BY <1>2, AccountFields DEF Debts, Debt, Pos
    <3> QED
      BY <1>2, <2>1, <3>1
  <2>3. c = [PushRecord(a, d, "RETURN_STOCK", s, n, Price[d], 0)
               EXCEPT !.m_borrow_stock = GiveBack(@, s, n)]
    BY <1>2 DEF returnStock
  <2> HIDE DEF c
  <2>4. /\ r \in Record /\ r.datetime = d /\ r.business = "RETURN_STOCK" /\ r.stock = s
        /\ r.number = n /\ r.cost = 0 /\ r.cash = a.m_cash
    BY <2>1, TradeRecordOf
  <2>5. PushRecord(a, d, "RETURN_STOCK", s, n, Price[d], 0) = [a EXCEPT !.m_trade_list = log]
    BY DEF PushRecord
  <2>6. c = [a EXCEPT !.m_trade_list = log, !.m_borrow_stock = map]
    BY <2>1, <2>3, <2>5 DEF Shape, Fields
  <2> HIDE DEF map, log, r
  <2>7. c = DebtBooked(a, r, map)
    BY <2>1, <2>4, <2>6 DEF Shape, Fields, DebtBooked, log
  <2>8. r.cash = a.m_cash - r.cost
    BY <2>1, <2>4
  <2>9. PostsOf(a, c, d, "RETURN_STOCK", s, n)
    BY <2>1, <2>2, <2>4, <2>7, <2>8, ReturnStockBooked DEF PostsOf, map
  <2> QED
    BY <2>9 DEF c
<1> QED
  BY <1>1, <1>2

(* The short sale at the end of sellShort.                                 *)
LEMMA SellShortPosts ==
  ASSUME NEW c, IsAccount(c), NEW d \in Days, NEW s \in Stocks, NEW n \in Pos,
         NEW money, money = Price[d] * n
  PROVE  \E r : /\ r.datetime = d /\ r.business = "SELL_SHORT" /\ r.stock = s /\ r.number = n
                /\ Entry(c, [PushRecord([c EXCEPT !.m_cash = @ + money - TradeFee],
                                        d, "SELL_SHORT", s, n, Price[d], TradeFee)
                               EXCEPT !.m_short_position = Grow(@, s, n, 0, TradeFee, money)], r)
<1> DEFINE left == (c.m_cash + money) - TradeFee
           r == TradeRecord(d, "SELL_SHORT", s, n, Price[d], TradeFee, left)
           map == Grow(c.m_short_position, s, n, 0, TradeFee, money)
           log == Append(c.m_trade_list, r)
           paid == [c EXCEPT !.m_cash = @ + money - TradeFee]
           b == [PushRecord(paid, d, "SELL_SHORT", s, n, Price[d], TradeFee)
                   EXCEPT !.m_short_position = Grow(@, s, n, 0, TradeFee, money)]
<1>1. "SELL_SHORT" \in Businesses /\ n \in Nat /\ money \in Int /\ Price[d] \in Int
  <2>1. n \in Int /\ Price[d] \in Int
    BY PriceType DEF Pos
  <2> QED
    BY <2>1, TimesInt DEF Businesses, Pos
<1>2. left \in Int /\ Shape(c) /\ TradeFee \in Int /\ left = c.m_cash + money - TradeFee
  BY <1>1, PaidCash
<1>3. paid = [c EXCEPT !.m_cash = left]
  BY <1>2
<1> HIDE DEF left, paid
<1>4. /\ r \in Record /\ r.datetime = d /\ r.business = "SELL_SHORT" /\ r.stock = s
      /\ r.number = n /\ r.cost = TradeFee /\ r.cash = left /\ Amount(r) = money
  BY <1>1, <1>2, TradeRecordOf
<1>5. PushRecord(paid, d, "SELL_SHORT", s, n, Price[d], TradeFee)
        = [c EXCEPT !.m_cash = left, !.m_trade_list = log]
  BY <1>2, <1>3 DEF PushRecord, Shape, Fields
<1>6. b = [c EXCEPT !.m_cash = left, !.m_trade_list = log, !.m_short_position = map]
  BY <1>2, <1>5 DEF Shape, Fields
<1> HIDE DEF map, log, r, b
<1>7. b = ShortBooked(c, r, map, c.m_short_position_history)
  BY <1>2, <1>4, <1>6 DEF Shape, Fields, ShortBooked, log
<1>8. Entry(c, b, r)
  BY <1>1, <1>2, <1>4, <1>7, SellShortBooked DEF left, map
<1> QED
  BY <1>4, <1>8 DEF b, paid

(* The trade at the beginning of buyShort.                                 *)
LEMMA BuyShortPosts ==
  ASSUME NEW a, IsAccount(a), NEW d \in Days, NEW s \in DOMAIN a.m_short_position,
         NEW n \in Nat, n <= a.m_short_position[s].number,
         NEW money, money = Price[d] * n
  PROVE  PostsOf(a, ShrinkShort(PushRecord([a EXCEPT !.m_cash = @ - money - TradeFee],
                                           d, "BUY_SHORT", s, n, Price[d], TradeFee),
                                Shrunk(a.m_short_position[s], n, money, TradeFee, 0)),
                 d, "BUY_SHORT", s, n)
<1> DEFINE left == (a.m_cash - money) - TradeFee
           r == TradeRecord(d, "BUY_SHORT", s, n, Price[d], TradeFee, left)
           pos == Shrunk(a.m_short_position[s], n, money, TradeFee, 0)
           map == KeepOpen(a.m_short_position, pos)
           history == Archived(a.m_short_position_history, pos)
           log == Append(a.m_trade_list, r)
           paid == [a EXCEPT !.m_cash = @ - money - TradeFee]
           b == ShrinkShort(PushRecord(paid, d, "BUY_SHORT", s, n, Price[d], TradeFee), pos)
<1>1. "BUY_SHORT" \in Businesses /\ s \in Stocks /\ money \in Int /\ Price[d] \in Int
  <2>1. n \in Int /\ Price[d] \in Int
    BY PriceType
  <2> QED
    BY <2>1, TimesInt, AccountFields DEF Businesses, Positions
<1>2. left \in Int /\ Shape(a) /\ TradeFee \in Int
  BY <1>1, PaidCash
<1>3. paid = [a EXCEPT !.m_cash = left]
  OBVIOUS
<1> HIDE DEF left, paid, pos
<1>4. /\ r \in Record /\ r.datetime = d /\ r.business = "BUY_SHORT" /\ r.stock = s
      /\ r.number = n /\ r.cost = TradeFee /\ r.cash = left /\ Amount(r) = money
  BY <1>1, <1>2, TradeRecordOf
<1>5. PushRecord(paid, d, "BUY_SHORT", s, n, Price[d], TradeFee)
        = [a EXCEPT !.m_cash = left, !.m_trade_list = log]
  BY <1>2, <1>3 DEF PushRecord, Shape, Fields
<1>6. b = [a EXCEPT !.m_cash = left, !.m_trade_list = log,
                    !.m_short_position = map, !.m_short_position_history = history]
  BY <1>2, <1>5 DEF ShrinkShort, Shape, Fields
<1>7. pos = Shrunk(a.m_short_position[r.stock], r.number, Amount(r), r.cost, 0)
  BY <1>4 DEF pos
<1> HIDE DEF map, history, log, r, b
<1>8. b = ShortBooked(a, r, map, history)
  BY <1>2, <1>4, <1>6 DEF Shape, Fields, ShortBooked, log
<1>9. r.cash = (a.m_cash - Amount(r)) - r.cost
  BY <1>4 DEF left
<1>10. PostsOf(a, b, d, "BUY_SHORT", s, n)
  BY <1>4, <1>7, <1>8, <1>9, BuyShortBooked DEF PostsOf, map, history
<1> QED
  BY <1>10 DEF b, paid, pos

-----------------------------------------------------------------------------
(* addTradeRecord: a record is booked with the cash it leaves.             *)

LEMMA StampedFacts ==
  ASSUME NEW r \in Record, NEW cash \in Int
  PROVE  /\ Stamped(r, cash) \in Record /\ Stamped(r, cash).datetime = r.datetime
         /\ Stamped(r, cash).business = r.business /\ Stamped(r, cash).stock = r.stock
         /\ Stamped(r, cash).number = r.number /\ Stamped(r, cash).realPrice = r.realPrice
         /\ Stamped(r, cash).cost = r.cost /\ Stamped(r, cash).cash = cash
         /\ Amount(Stamped(r, cash)) = Amount(r)
  BY DEF Stamped, Record, Amount

LEMMA PayIs ==
  ASSUME NEW a, IsAccount(a), NEW r \in Record, NEW sum \in Int
  PROVE  LET left == (a.m_cash + sum) - r.cost
         IN  /\ left \in Int
             /\ Pay(a, r, sum) = [a EXCEPT !.m_cash = left,
                                           !.m_trade_list = Append(@, Stamped(r, left))]
<1> DEFINE left == (a.m_cash + sum) - r.cost
<1>1. left \in Int /\ left = a.m_cash + sum - r.cost /\ Shape(a)
  BY AccountFields, RecordFields
<1>2. [a EXCEPT !.m_cash = @ + sum - r.cost] = [a EXCEPT !.m_cash = left]
  BY <1>1
<1> HIDE DEF left
<1>3. Pay(a, r, sum) = LogAsBooked([a EXCEPT !.m_cash = left], r)
  BY <1>2 DEF Pay
<1>4. [a EXCEPT !.m_cash = left].m_cash = left
  BY <1>1 DEF Shape, Fields
<1>5. Pay(a, r, sum) = [a EXCEPT !.m_cash = left, !.m_trade_list = Append(@, Stamped(r, left))]
  BY <1>1, <1>3, <1>4 DEF LogAsBooked, Stamped, Shape, Fields
<1> QED
  BY <1>1, <1>5 DEF left

LEMMA AddBuyBooks ==
  ASSUME NEW a, IsAccount(a), NEW r \in Record, r.business = "BUY",
         r.stock \in Stocks, r.number \in Pos
  PROVE  add_buy_tr(a, r) = a \/ Books(a, add_buy_tr(a, r), r)
<1> DEFINE left == (a.m_cash + -Amount(r)) - r.cost
           t == Stamped(r, left)
           map == Grow(a.m_position, r.stock, r.number, Amount(r), r.cost, 0)
           b == add_buy_tr(a, r)
<1>1. CASE a.m_cash < Amount(r) + r.cost
  BY <1>1 DEF add_buy_tr
<1>2. CASE ~(a.m_cash < Amount(r) + r.cost)
  <2>1. Amount(r) \in Int /\ -Amount(r) \in Int /\ Shape(a) /\ a.m_cash \in Int /\ r.cost \in Int
    BY AmountType, AccountFields
  <2>2. left \in Int /\ Pay(a, r, -Amount(r)) = [a EXCEPT !.m_cash = left, !.m_trade_list = Append(@, t)]
    BY <2>1, PayIs
  <2>3. left = (a.m_cash - Amount(r)) - r.cost
    BY <2>1
  <2> HIDE DEF left
  <2>4. b = [Pay(a, r, -Amount(r)) EXCEPT !.m_position = Grow(@, r.stock, r.number, Amount(r), r.cost, 0)]
    BY <1>2 DEF add_buy_tr
  <2> HIDE DEF b, t
  <2>5. b = [a EXCEPT !.m_cash = left, !.m_trade_list = Append(@, t), !.m_position = map]
    BY <2>1, <2>2, <2>4 DEF Shape, Fields
  <2>6. /\ t \in Record /\ t.business = "BUY" /\ t.stock = r.stock /\ t.number = r.number
        /\ t.cost = r.cost /\ t.cash = left /\ Amount(t) = Amount(r)
    BY <2>2, StampedFacts DEF t
  <2> HIDE DEF map
  <2>7. b = LongBooked(a, t, a.m_checkin_stock, a.m_checkout_stock, map, a.m_position_history)
    BY <2>1, <2>5, <2>6 DEF Shape, Fields, LongBooked
  <2>8. Entry(a, b, t)
    BY <2>3, <2>6, <2>7, BuyBooked DEF map
  <2> QED
    BY <2>2, <2>8 DEF Books, b, t
<1> QED
  BY <1>1, <1>2

LEMMA AddSellBooks ==
  ASSUME NEW a, IsAccount(a), NEW r \in Record, r.business = "SELL",
         r.stock \in Stocks, r.number \in Pos
  PROVE  add_sell_tr(a, r) = a \/ Books(a, add_sell_tr(a, r), r)
<1> DEFINE left == (a.m_cash + Amount(r)) - r.cost
           t == Stamped(r, left)
           pos == Shrunk(a.m_position[r.stock], r.number, 0, r.cost, Amount(r))
           map == KeepOpen(a.m_position, pos)
           history == Archived(a.m_position_history, pos)
           b == add_sell_tr(a, r)
           denied == r.number > NumberIn(a.m_position, r.stock)
<1>1. CASE denied
  BY <1>1 DEF add_sell_tr
<1>2. CASE ~denied
  <2>1. /\ Amount(r) \in Int /\ Amount(r) \in Int /\ Shape(a) /\ a.m_cash \in Int
        /\ r.cost \in Int /\ Positions(a.m_position) /\ r.number \in Nat
    BY AmountType, AccountFields DEF Pos
  <2>2. left \in Int /\ Pay(a, r, Amount(r)) = [a EXCEPT !.m_cash = left, !.m_trade_list = Append(@, t)]
    BY <2>1, PayIs
  <2>3. left = (a.m_cash + Amount(r)) - r.cost
    BY <2>1
  <2>4. r.stock \in DOMAIN a.m_position /\ r.number <= a.m_position[r.stock].number
    <3>1. r.number <= NumberIn(a.m_position, r.stock)
      BY <1>2, <2>1, NumberInType
    <3> QED
      BY <2>1, <3>1 DEF NumberIn, Pos
  <2> HIDE DEF left
  <2>5. b = ShrinkLong(Pay(a, r, Amount(r)), pos)
    BY <1>2 DEF add_sell_tr
  <2> HIDE DEF b, t, pos
  <2>6. b = [a EXCEPT !.m_cash = left, !.m_trade_list = Append(@, t),
                      !.m_position = map, !.m_position_history = history]
    BY <2>1, <2>2, <2>5 DEF Shape, Fields, ShrinkLong
  <2>7. /\ t \in Record /\ t.business = "SELL" /\ t.stock = r.stock /\ t.number = r.number
        /\ t.cost = r.cost /\ t.cash = left /\ Amount(t) = Amount(r)
    BY <2>2, StampedFacts DEF t
  <2> HIDE DEF map, history
  <2>8. b = LongBooked(a, t, a.m_checkin_stock, a.m_checkout_stock, map, history)
    BY <2>1, <2>6, <2>7 DEF Shape, Fields, LongBooked
  <2>9. Entry(a, b, t)
    BY <2>1, <2>3, <2>4, <2>7, <2>8, SellBooked DEF map, history, pos
  <2> QED
    BY <2>2, <2>9 DEF Books, b, t
<1> QED
  BY <1>1, <1>2

LEMMA AddBuyShortBooks ==
  ASSUME NEW a, IsAccount(a), NEW r \in Record, r.business = "BUY_SHORT",
         r.stock \in Stocks, r.number \in Pos
  PROVE  add_buy_short_tr(a, r) = a \/ Books(a, add_buy_short_tr(a, r), r)
<1> DEFINE left == (a.m_cash + -Amount(r)) - r.cost
           t == Stamped(r, left)
           pos == Shrunk(a.m_short_position[r.stock], r.number, Amount(r), r.cost, 0)
           map == KeepOpen(a.m_short_position, pos)
           history == Archived(a.m_short_position_history, pos)
           b == add_buy_short_tr(a, r)
           denied == r.number > NumberIn(a.m_short_position, r.stock) \/ a.m_cash < Amount(r) + r.cost
<1>1. CASE denied
  BY <1>1 DEF add_buy_short_tr
<1>2. CASE ~denied
  <2>1. /\ Amount(r) \in Int /\ -Amount(r) \in Int /\ Shape(a) /\ a.m_cash \in Int
        /\ r.cost \in Int /\ Positions(a.m_short_position) /\ r.number \in Nat
    BY AmountType, AccountFields DEF Pos
  <2>2. left \in Int /\ Pay(a, r, -Amount(r)) = [a EXCEPT !.m_cash = left, !.m_trade_list = Append(@, t)]
    BY <2>1, PayIs
  <2>3. left = (a.m_cash - Amount(r)) - r.cost
    BY <2>1
  <2>4. r.stock \in DOMAIN a.m_short_position /\ r.number <= a.m_short_position[r.stock].number
    <3>1. r.number <= NumberIn(a.m_short_position, r.stock)
      BY <1>2, <2>1, NumberInType
    <3> QED
      BY <2>1, <3>1 DEF NumberIn, Pos
  <2> HIDE DEF left
  <2>5. b = ShrinkShort(Pay(a, r, -Amount(r)), pos)
    BY <1>2 DEF add_buy_short_tr
  <2> HIDE DEF b, t, pos
  <2>6. b = [a EXCEPT !.m_cash = left, !.m_trade_list = Append(@, t),
                      !.m_short_position = map, !.m_short_position_history = history]
    BY <2>1, <2>2, <2>5 DEF Shape, Fields, ShrinkShort
  <2>7. /\ t \in Record /\ t.business = "BUY_SHORT" /\ t.stock = r.stock /\ t.number = r.number
        /\ t.cost = r.cost /\ t.cash = left /\ Amount(t) = Amount(r)
    BY <2>2, StampedFacts DEF t
  <2> HIDE DEF map, history
  <2>8. b = ShortBooked(a, t, map, history)
    BY <2>1, <2>6, <2>7 DEF Shape, Fields, ShortBooked
  <2>9. Entry(a, b, t)
    BY <2>1, <2>3, <2>4, <2>7, <2>8, BuyShortBooked DEF map, history, pos
  <2> QED
    BY <2>2, <2>9 DEF Books, b, t
<1> QED
  BY <1>1, <1>2

LEMMA AddCheckinStockBooks ==
  ASSUME NEW a, IsAccount(a), NEW r \in Record, r.business = "CHECKIN_STOCK",
         r.stock \in Stocks, r.number \in Pos, r.cost = 0
  PROVE  Books(a, add_checkin_stock_tr(a, r), r)
<1> DEFINE t == Stamped(r, a.m_cash)
           map == Grow(a.m_position, r.stock, r.number, Amount(r), 0, 0)
           in == a.m_checkin_stock + Amount(r)
           log == Append(a.m_trade_list, t)
           b == add_checkin_stock_tr(a, r)
<1>1. Shape(a) /\ a.m_cash \in Int
  BY AccountFields
<1>2. LogAsBooked(a, r) = [a EXCEPT !.m_trade_list = log]
  BY DEF LogAsBooked, Stamped
<1>3. b = [LogAsBooked(a, r) EXCEPT !.m_position = Grow(@, r.stock, r.number, Amount(r), 0, 0),
                                    !.m_checkin_stock = @ + Amount(r)]
  BY DEF add_checkin_stock_tr
<1> HIDE DEF t, b, log
<1>4. b = [a EXCEPT !.m_trade_list = log, !.m_position = map, !.m_checkin_stock = in]
  BY <1>1, <1>2, <1>3 DEF Shape, Fields
<1>5. /\ t \in Record /\ t.business = "CHECKIN_STOCK" /\ t.stock = r.stock
      /\ t.number = r.number /\ t.cost = 0 /\ t.cash = a.m_cash /\ Amount(t) = Amount(r)
  BY <1>1, StampedFacts DEF t
<1> HIDE DEF map, in
<1>6. b = LongBooked(a, t, in, a.m_checkout_stock, map, a.m_position_history)
  BY <1>1, <1>4, <1>5 DEF Shape, Fields, LongBooked, log
<1>7. Entry(a, b, t)
  BY <1>5, <1>6, CheckinStockBooked DEF map, in
<1> QED
  BY <1>1, <1>7 DEF Books, b, t

LEMMA AddCheckoutStockBooks ==
  ASSUME NEW a, IsAccount(a), NEW r \in Record, r.business = "CHECKOUT_STOCK",
         r.stock \in Stocks, r.number \in Pos, r.cost = 0
  PROVE  add_checkout_stock_tr(a, r) = a \/ Books(a, add_checkout_stock_tr(a, r), r)
<1> DEFINE t == Stamped(r, a.m_cash)
           pos == Shrunk(a.m_position[r.stock], r.number, 0, 0, Amount(r))
           map == KeepOpen(a.m_position, pos)
           history == Archived(a.m_position_history, pos)
           out == a.m_checkout_stock + Amount(r)
           log == Append(a.m_trade_list, t)
           b == add_checkout_stock_tr(a, r)
           denied == r.number > NumberIn(a.m_position, r.stock)
<1>1. CASE denied
  BY <1>1 DEF add_checkout_stock_tr
<1>2. CASE ~denied
  <2>1. Shape(a) /\ a.m_cash \in Int /\ Positions(a.m_position) /\ r.number \in Nat
    BY AccountFields DEF Pos
  <2>2. r.stock \in DOMAIN a.m_position /\ r.number <= a.m_position[r.stock].number
    <3>1. r.number <= NumberIn(a.m_position, r.stock)
      BY <1>2, <2>1, NumberInType
    <3> QED
      BY <2>1, <3>1 DEF NumberIn, Pos
  <2>3. LogAsBooked(a, r) = [a EXCEPT !.m_trade_list = log]
    BY DEF LogAsBooked, Stamped
  <2>4. b = [ShrinkLong(LogAsBooked(a, r), pos) EXCEPT !.m_checkout_stock = @ + Amount(r)]
    BY <1>2 DEF add_checkout_stock_tr
  <2> HIDE DEF t, b, log, pos
  <2>5. ShrinkLong(LogAsBooked(a, r), pos)
          = [a EXCEPT !.m_trade_list = log, !.m_position = map, !.m_position_history = history]
    BY <2>1, <2>3 DEF Shape, Fields, ShrinkLong
  <2> HIDE DEF map, history
  <2>6. b = [a EXCEPT !.m_trade_list = log, !.m_position = map, !.m_position_history = history,
                      !.m_checkout_stock = out]
    BY <2>1, <2>4, <2>5 DEF Shape, Fields
  <2>7. /\ t \in Record /\ t.business = "CHECKOUT_STOCK" /\ t.stock = r.stock
        /\ t.number = r.number /\ t.cost = 0 /\ t.cash = a.m_cash /\ Amount(t) = Amount(r)
    BY <2>1, StampedFacts DEF t
  <2> HIDE DEF out
  <2>8. b = LongBooked(a, t, a.m_checkin_stock, out, map, history)
    BY <2>1, <2>6, <2>7 DEF Shape, Fields, LongBooked, log
  <2>9. Entry(a, b, t)
    BY <2>1, <2>2, <2>7, <2>8, CheckoutStockBooked DEF map, history, pos, out
  <2> QED
    BY <2>1, <2>9 DEF Books, b, t
<1> QED
  BY <1>1, <1>2

LEMMA AddBorrowCashBooks ==
  ASSUME NEW a, IsAccount(a), NEW r \in Record, r.business = "BORROW_CASH",
         r.stock = NoStock, r.realPrice \in Pos
  PROVE  Books(a, add_borrow_cash_tr(a, r), r)
<1> DEFINE left == (a.m_cash + r.realPrice) - r.cost
           t == Stamped(r, left)
           borrowed == a.m_borrow_cash + r.realPrice
           loans == Append(a.m_loan_list, [datetime |-> r.datetime, value |-> r.realPrice])
           b == add_borrow_cash_tr(a, r)
<1>1. Amount(r) \in Int /\ r.realPrice \in Int /\ Shape(a) /\ a.m_cash \in Int /\ r.cost \in Int
      /\ r.realPrice \in Int
  BY AmountType, AccountFields
<1>2. left \in Int /\ Pay(a, r, r.realPrice) = [a EXCEPT !.m_cash = left, !.m_trade_list = Append(@, t)]
  BY <1>1, PayIs
<1>3. left = (a.m_cash + r.realPrice) - r.cost
  BY <1>1
<1> HIDE DEF left
<1>4. b = [Pay(a, r, r.realPrice) EXCEPT !.m_borrow_cash = @ + r.realPrice,
                !.m_loan_list = Append(@, [datetime |-> r.datetime,
                                           value    |-> r.realPrice])]
  BY DEF add_borrow_cash_tr
<1> HIDE DEF b, t
<1>5. b = [a EXCEPT !.m_cash = left, !.m_trade_list = Append(@, t), !.m_borrow_cash = borrowed,
           !.m_loan_list = loans]
  BY <1>1, <1>2, <1>4 DEF Shape, Fields
<1>6. /\ t \in Record /\ t.business = "BORROW_CASH" /\ t.stock = r.stock /\ t.number = r.number
    /\ t.cost = r.cost /\ t.cash = left /\ Amount(t) = Amount(r)
    /\ t.realPrice = r.realPrice /\ t.datetime = r.datetime
  BY <1>2, StampedFacts DEF t
<1> HIDE DEF borrowed, loans
<1>7. b = CashBooked(a, t, a.m_checkin_cash, a.m_checkout_cash, borrowed, loans)
  BY <1>1, <1>5, <1>6 DEF Shape, Fields, CashBooked
<1>8. Entry(a, b, t)
  BY <1>1, <1>3, <1>6, <1>7, BorrowCashBooked DEF borrowed, loans
<1> QED
  BY <1>2, <1>8 DEF Books, b, t

LEMMA AddReturnCashBooks ==
  ASSUME NEW a, IsAccount(a), NEW r \in Record, r.business = "RETURN_CASH",
         r.stock = NoStock, r.realPrice \in Pos
  PROVE  add_return_cash_tr(a, r) = a \/ Books(a, add_return_cash_tr(a, r), r)
<1> DEFINE left == (a.m_cash + -r.realPrice) - r.cost
           t == Stamped(r, left)
           borrowed == a.m_borrow_cash - r.realPrice
           loans == Repay(a.m_loan_list, r.realPrice, "value")
           b == add_return_cash_tr(a, r)
           denied == r.realPrice > LoanTotal(a.m_loan_list) \/ r.realPrice + r.cost > a.m_cash
<1>1. CASE denied
  BY <1>1 DEF add_return_cash_tr
<1>2. CASE ~denied
  <2>1. Amount(r) \in Int /\ -r.realPrice \in Int /\ Shape(a) /\ a.m_cash \in Int /\ r.cost \in Int
        /\ r.realPrice \in Int
    BY AmountType, AccountFields
  <2>2. left \in Int /\ Pay(a, r, -r.realPrice) = [a EXCEPT !.m_cash = left, !.m_trade_list = Append(@, t)]
    BY <2>1, PayIs
  <2>3. left = (a.m_cash - r.realPrice) - r.cost
    BY <2>1
  <2>3b. r.realPrice <= LoanTotal(a.m_loan_list)
    BY <1>2, <2>1, AccountFields, SMTT(30)
  <2> HIDE DEF left
  <2>4. b = [Pay(a, r, -r.realPrice) EXCEPT !.m_borrow_cash = @ - r.realPrice,
                  !.m_loan_list = Repay(@, r.realPrice, "value")]
    BY <1>2 DEF add_return_cash_tr
  <2> HIDE DEF b, t
  <2>5. b = [a EXCEPT !.m_cash = left, !.m_trade_list = Append(@, t), !.m_borrow_cash = borrowed,
             !.m_loan_list = loans]
    BY <2>1, <2>2, <2>4 DEF Shape, Fields
  <2>6. /\ t \in Record /\ t.business = "RETURN_CASH" /\ t.stock = r.stock /\ t.number = r.number
      /\ t.cost = r.cost /\ t.cash = left /\ Amount(t) = Amount(r)
      /\ t.realPrice = r.realPrice /\ t.datetime = r.datetime
    BY <2>2, StampedFacts DEF t
  <2> HIDE DEF borrowed, loans
  <2>7. b = CashBooked(a, t, a.m_checkin_cash, a.m_checkout_cash, borrowed, loans)
    BY <2>1, <2>5, <2>6 DEF Shape, Fields, CashBooked
  <2>8. Entry(a, b, t)
    BY <2>1, <2>3, <2>3b, <2>6, <2>7, ReturnCashBooked DEF borrowed, loans
  <2> QED
    BY <2>2, <2>8 DEF Books, b, t
<1> QED
  BY <1>1, <1>2

LEMMA AddBorrowStockBooks ==
  ASSUME NEW a, IsAccount(a), NEW r \in Record, r.business = "BORROW_STOCK",
         r.stock \in Stocks, r.number \in Pos
  PROVE  Books(a, add_borrow_stock_tr(a, r), r)
<1> DEFINE left == (a.m_cash + 0) - r.cost
           t == Stamped(r, left)
           map == Put(a.m_borrow_stock, r.stock, WithLot(Owed(a.m_borrow_stock, r.stock), r.datetime, r.number))
           b == add_borrow_stock_tr(a, r)
<1>1. Amount(r) \in Int /\ 0 \in Int /\ Shape(a) /\ a.m_cash \in Int /\ r.cost \in Int
      /\ r.realPrice \in Int
  BY AmountType, AccountFields
<1>2. left \in Int /\ Pay(a, r, 0) = [a EXCEPT !.m_cash = left, !.m_trade_list = Append(@, t)]
  BY <1>1, PayIs
<1>3. left = a.m_cash - r.cost
  BY <1>1
<1> HIDE DEF left
<1>4. b = [Pay(a, r, 0) EXCEPT !.m_borrow_stock = Put(@, r.stock,
                WithLot(Owed(@, r.stock), r.datetime, r.number))]
  BY DEF add_borrow_stock_tr
<1> HIDE DEF b, t
<1>5. b = [a EXCEPT !.m_cash = left, !.m_trade_list = Append(@, t), !.m_borrow_stock = map]
  BY <1>1, <1>2, <1>4 DEF Shape, Fields
<1>6. /\ t \in Record /\ t.business = "BORROW_STOCK" /\ t.stock = r.stock /\ t.number = r.number
    /\ t.cost = r.cost /\ t.cash = left /\ Amount(t) = Amount(r)
    /\ t.realPrice = r.realPrice /\ t.datetime = r.datetime
  BY <1>2, StampedFacts DEF t
<1> HIDE DEF map
<1>7. b = DebtBooked(a, t, map)
  BY <1>1, <1>5, <1>6 DEF Shape, Fields, DebtBooked
<1>8. Entry(a, b, t)
  BY <1>1, <1>3, <1>6, <1>7, BorrowStockBooked DEF map
<1> QED
  BY <1>2, <1>8 DEF Books, b, t

LEMMA AddReturnStockBooks ==
  ASSUME NEW a, IsAccount(a), NEW r \in Record, r.business = "RETURN_STOCK",
         r.stock \in Stocks, r.number \in Pos
  PROVE  add_return_stock_tr(a, r) = a \/ Books(a, add_return_stock_tr(a, r), r)
<1> DEFINE left == (a.m_cash + 0) - r.cost
           t == Stamped(r, left)
           map == GiveBack(a.m_borrow_stock, r.stock, r.number)
           b == add_return_stock_tr(a, r)
           denied == r.number > NumberIn(a.m_borrow_stock, r.stock)
<1>1. CASE denied
  BY <1>1 DEF add_return_stock_tr
<1>2. CASE ~denied
  <2>1. Amount(r) \in Int /\ 0 \in Int /\ Shape(a) /\ a.m_cash \in Int /\ r.cost \in Int
        /\ r.realPrice \in Int
    BY AmountType, AccountFields
  <2>2. left \in Int /\ Pay(a, r, 0) = [a EXCEPT !.m_cash = left, !.m_trade_list = Append(@, t)]
    BY <2>1, PayIs
  <2>3. left = a.m_cash - r.cost
    BY <2>1
  <2>3b. r.stock \in DOMAIN a.m_borrow_stock /\ r.number <= a.m_borrow_stock[r.stock].number
    <3>1. NumberIn(a.m_borrow_stock, r.stock) \in Nat /\ r.number \in Nat
      BY AccountFields, NumberInType DEF Pos
    <3>2. r.number <= NumberIn(a.m_borrow_stock, r.stock)
      BY <1>2, <3>1
    <3> QED
      BY <3>1, <3>2 DEF NumberIn, Pos
  <2> HIDE DEF left
  <2>4. b = [Pay(a, r, 0) EXCEPT !.m_borrow_stock = GiveBack(@, r.stock, r.number)]
    BY <1>2 DEF add_return_stock_tr
  <2> HIDE DEF b, t
  <2>5. b = [a EXCEPT !.m_cash = left, !.m_trade_list = Append(@, t), !.m_borrow_stock = map]
    BY <2>1, <2>2, <2>4 DEF Shape, Fields
  <2>6. /\ t \in Record /\ t.business = "RETURN_STOCK" /\ t.stock = r.stock /\ t.number = r.number
      /\ t.cost = r.cost /\ t.cash = left /\ Amount(t) = Amount(r)
      /\ t.realPrice = r.realPrice /\ t.datetime = r.datetime
    BY <2>2, StampedFacts DEF t
  <2> HIDE DEF map
  <2>7. b = DebtBooked(a, t, map)
    BY <2>1, <2>5, <2>6 DEF Shape, Fields, DebtBooked
  <2>8. Entry(a, b, t)
    BY <2>1, <2>3, <2>3b, <2>6, <2>7, ReturnStockBooked DEF map
  <2> QED
    BY <2>2, <2>8 DEF Books, b, t
<1> QED
  BY <1>1, <1>2

LEMMA AddSellShortBooks ==
  ASSUME NEW a, IsAccount(a), NEW r \in Record, r.business = "SELL_SHORT",
         r.stock \in Stocks, r.number \in Pos
  PROVE  Books(a, add_sell_short_tr(a, r), r)
<1> DEFINE left == (a.m_cash + Amount(r)) - r.cost
           t == Stamped(r, left)
           map == Grow(a.m_short_position, r.stock, r.number, 0, r.cost, Amount(r))
           b == add_sell_short_tr(a, r)
<1>1. Amount(r) \in Int /\ Amount(r) \in Int /\ Shape(a) /\ a.m_cash \in Int /\ r.cost \in Int
      /\ r.realPrice \in Int
  BY AmountType, AccountFields
<1>2. left \in Int /\ Pay(a, r, Amount(r)) = [a EXCEPT !.m_cash = left, !.m_trade_list = Append(@, t)]
  BY <1>1, PayIs
<1>3. left = (a.m_cash + Amount(r)) - r.cost
  BY <1>1
<1> HIDE DEF left
<1>4. b = [Pay(a, r, Amount(r)) EXCEPT !.m_short_position = Grow(@, r.stock, r.number, 0, r.cost, Amount(r))]
  BY DEF add_sell_short_tr
<1> HIDE DEF b, t
<1>5. b = [a EXCEPT !.m_cash = left, !.m_trade_list = Append(@, t), !.m_short_position = map]
  BY <1>1, <1>2, <1>4 DEF Shape, Fields
<1>6. /\ t \in Record /\ t.business = "SELL_SHORT" /\ t.stock = r.stock /\ t.number = r.number
    /\ t.cost = r.cost /\ t.cash = left /\ Amount(t) = Amount(r)
    /\ t.realPrice = r.realPrice /\ t.datetime = r.datetime
  BY <1>2, StampedFacts DEF t
<1> HIDE DEF map
<1>7. b = ShortBooked(a, t, map, a.m_short_position_history)
  BY <1>1, <1>5, <1>6 DEF Shape, Fields, ShortBooked
<1>8. Entry(a, b, t)
  BY <1>1, <1>3, <1>6, <1>7, SellShortBooked DEF map
<1> QED
  BY <1>2, <1>8 DEF Books, b, t

-----------------------------------------------------------------------------
(* Several records of one day.                                             *)

LEMMA LeadsQuiet ==
  ASSUME NEW a, Good(a), NEW b, Quiet(a, b), NEW d
  PROVE  Leads(a, b, d)
<1>1. Good(b) /\ lastDatetime(b) = lastDatetime(a)
  BY QuietKeepsGood
<1>2. KeepsCalendar(a, b) /\ b.m_trade_list = a.m_trade_list
  BY DEF Quiet
<1>3. a.m_trade_list \in Seq(Record)
  BY LogFacts DEF Good
<1>4. <<>> \in Seq(Record) /\ b.m_trade_list = a.m_trade_list \o <<>> /\ OfDay(<<>>, d)
  BY <1>2, <1>3 DEF OfDay
<1> QED
  BY <1>1, <1>2, <1>4 DEF Leads

LEMMA LeadsSelf ==
  ASSUME NEW a, Good(a), NEW d
  PROVE  Leads(a, a, d)
<1>1. IsAccount(a)
  BY DEF Good
<1>2. \A s \in Stocks : a.m_tmp_weight_checked_until[s] \in {0, a.m_tmp_weight_checked_until[s]}
  OBVIOUS
<1>3. Quiet(a, a)
  BY <1>1, <1>2 DEF Quiet, KeepsCalendar
<1> QED
  BY <1>3, LeadsQuiet

LEMMA LeadsEntry ==
  ASSUME NEW a, Good(a), NEW b, NEW r, Entry(a, b, r), NEW d, r.datetime = d,
         d >= lastDatetime(a), r.business \notin EventBusinesses
  PROVE  Leads(a, b, d)
<1>1. Good(b) /\ lastDatetime(b) = d
  BY EntryKeepsGood
<1>2. r \in Record /\ b.m_trade_list = Append(a.m_trade_list, r) /\ KeepsCalendar(a, b)
  BY DEF Entry
<1>3. a.m_trade_list \in Seq(Record)
  BY LogFacts DEF Good
<1>4. <<r>> \in Seq(Record) /\ Append(a.m_trade_list, r) = a.m_trade_list \o <<r>>
  <2>1. <<r>> \in Seq(Record)
    BY <1>2
  <2> QED
    BY <1>2, <1>3, <2>1, AppendIsConcat
<1>5. OfDay(<<r>>, d)
  BY DEF OfDay
<1>6. Leads(a, b, d)
  BY <1>1, <1>2, <1>4, <1>5 DEF Leads
<1> QED
  BY <1>6

LEMMA LeadsOn ==
  ASSUME NEW a, Good(a), NEW b, NEW d \in Nat, Leads(a, b, d), d >= lastDatetime(a)
  PROVE  /\ Good(b) /\ IsAccount(b) /\ d >= lastDatetime(b)
         /\ Len(b.m_trade_list) >= Len(a.m_trade_list)
<1>1. Good(b) /\ IsAccount(b) /\ d >= lastDatetime(b)
  BY DEF Leads, Good
<1>2. PICK recs \in Seq(Record) : b.m_trade_list = a.m_trade_list \o recs
  BY DEF Leads
<1>3. a.m_trade_list \in Seq(Record)
  BY LogFacts DEF Good
<1>4. Len(b.m_trade_list) = Len(a.m_trade_list) + Len(recs)
  BY <1>2, <1>3
<1> QED
  BY <1>1, <1>3, <1>4

LEMMA LeadsTrans ==
  ASSUME NEW a, Good(a), NEW b, NEW c, NEW d, Leads(a, b, d), Leads(b, c, d)
  PROVE  Leads(a, c, d)
<1>1. PICK one \in Seq(Record) : b.m_trade_list = a.m_trade_list \o one /\ OfDay(one, d)
  BY DEF Leads
<1>2. PICK two \in Seq(Record) : c.m_trade_list = b.m_trade_list \o two /\ OfDay(two, d)
  BY DEF Leads
<1> DEFINE log == a.m_trade_list
           both == one \o two
<1>3. log \in Seq(Record)
  BY LogFacts DEF Good
<1> HIDE DEF log
<1>4. both \in Seq(Record) /\ Len(both) = Len(one) + Len(two)
      /\ Len(one) \in Nat /\ Len(two) \in Nat
      /\ \A i \in 1 .. Len(both) : both[i] = IF i <= Len(one) THEN one[i] ELSE two[i - Len(one)]
  OBVIOUS
<1>5. (log \o one) \o two = log \o both
  BY <1>3, ConcatAssociative
<1>6. OfDay(both, d)
  <2>1. ASSUME NEW i \in 1 .. Len(both)
        PROVE  both[i].datetime = d /\ both[i].business \notin EventBusinesses
    <3>1. CASE i <= Len(one)
      <4>1. i \in 1 .. Len(one)
        BY <1>4, <3>1
      <4> QED
        BY <1>1, <1>4, <3>1, <4>1 DEF OfDay
    <3>2. CASE ~(i <= Len(one))
      <4>1. i - Len(one) \in 1 .. Len(two)
        BY <1>4, <3>2
      <4> QED
        BY <1>2, <1>4, <3>2, <4>1 DEF OfDay
    <3> QED
      BY <3>1, <3>2
  <2> HIDE DEF both
  <2> QED
    BY <2>1 DEF OfDay
<1>7. c.m_trade_list = a.m_trade_list \o both
  BY <1>1, <1>2, <1>5 DEF log
<1>8. KeepsCalendar(a, c)
  <2>1. KeepsCalendar(a, b) /\ KeepsCalendar(b, c)
    BY DEF Leads
  <2> QED
    BY <2>1 DEF KeepsCalendar
<1>9. Good(c) /\ lastDatetime(c) \in {lastDatetime(a), d}
  BY DEF Leads
<1> HIDE DEF both
<1> QED
  BY <1>4, <1>6, <1>7, <1>8, <1>9 DEF Leads

-----------------------------------------------------------------------------
(* Cover: what is owed and not sold stays where it was not below zero.     *)

LEMMA UnsoldType ==
  ASSUME NEW a, IsAccount(a), NEW s
  PROVE  /\ Unsold(a, s) \in Int
         /\ Unsold(a, s) = Num(a, "debt", s) - Num(a, "short", s)
<1>1. NumberIn(a.m_borrow_stock, s) \in Nat /\ NumberIn(a.m_short_position, s) \in Nat
  BY NumberInType, AccountFields
<1> QED
  BY <1>1, NumIs DEF Unsold

LEMMA NumberMoves ==
  ASSUME NEW a, NEW b, NEW r, Entry(a, b, r), NEW side \in Sides, NEW s \in Stocks
  PROVE  Num(b, side, s) = Num(a, side, s) + Signed(r, s, Plus(side), Minus(side))
<1> DEFINE e == <<side, s>>
<1>1. e \in Measures /\ e[1] = side /\ e[2] = s /\ side \notin {"cash", "loan", "cost"}
  BY DEF Measures, Sides
<1>2. Level(e, b) = Level(e, a) + Effect(e, r)
  BY <1>1 DEF Entry
<1> QED
  BY <1>1, <1>2 DEF Level, Effect

LEMMA UnsoldMoves ==
  ASSUME NEW a, IsAccount(a), NEW b, NEW r, Entry(a, b, r), r.number \in Int, NEW s \in Stocks
  PROVE  /\ Unsold(a, s) \in Int /\ Unsold(b, s) \in Int
         /\ r.business = "RETURN_STOCK" =>
              Unsold(b, s) = Unsold(a, s) - (IF r.stock = s THEN r.number ELSE 0)
         /\ r.business = "BUY_SHORT" =>
              Unsold(b, s) = Unsold(a, s) + (IF r.stock = s THEN r.number ELSE 0)
<1> DEFINE more == Signed(r, s, Plus("debt"), Minus("debt"))
           sold == Signed(r, s, Plus("short"), Minus("short"))
<1>1. IsAccount(b) /\ "debt" \in Sides /\ "short" \in Sides
  BY DEF Entry, Sides
<1>2. Num(b, "debt", s) = Num(a, "debt", s) + more
      /\ Num(b, "short", s) = Num(a, "short", s) + sold
  BY <1>1, NumberMoves
<1>3. /\ r.business = "RETURN_STOCK" =>
           more = -(IF r.stock = s THEN r.number ELSE 0) /\ sold = 0
      /\ r.business = "BUY_SHORT" =>
           more = 0 /\ sold = -(IF r.stock = s THEN r.number ELSE 0)
  BY DEF Signed, Plus, Minus, TradedIn, Adjusted
<1> HIDE DEF more, sold
<1>4. /\ Num(a, "debt", s) \in Nat /\ Num(a, "short", s) \in Nat
      /\ Unsold(a, s) = Num(a, "debt", s) - Num(a, "short", s)
      /\ Unsold(b, s) = Num(b, "debt", s) - Num(b, "short", s)
      /\ Unsold(a, s) \in Int /\ Unsold(b, s) \in Int
  BY <1>1, NumType, UnsoldType
<1> QED
  BY <1>2, <1>3, <1>4

LEMMA CoversEntry ==
  ASSUME NEW a, IsAccount(a), NEW b, NEW r, Entry(a, b, r), r.number \in Nat,
         r.business \notin EventBusinesses, r.business # "RETURN_STOCK",
         r.business = "SELL_SHORT" => r.number <= Unsold(a, r.stock)
  PROVE  Covers(a, b)
<1> SUFFICES ASSUME NEW s \in Stocks, Unsold(a, s) >= 0 PROVE Unsold(b, s) >= 0
  BY DEF Covers
<1> DEFINE more == Signed(r, s, Plus("debt"), Minus("debt"))
           sold == Signed(r, s, Plus("short"), Minus("short"))
<1>1. IsAccount(b) /\ "debt" \in Sides /\ "short" \in Sides
  BY DEF Entry, Sides
<1>2. Num(b, "debt", s) = Num(a, "debt", s) + more
      /\ Num(b, "short", s) = Num(a, "short", s) + sold
  BY <1>1, NumberMoves
<1>3. more \in Nat
  BY DEF Signed, Plus, Minus, TradedIn, Adjusted, EventBusinesses
<1>4. sold \in Int /\ (sold > 0 => r.business = "SELL_SHORT" /\ s = r.stock /\ sold = r.number)
  BY DEF Signed, Plus, Minus, TradedIn, Adjusted, EventBusinesses
<1> HIDE DEF more, sold
<1>5. /\ Num(a, "debt", s) \in Nat /\ Num(a, "short", s) \in Nat
      /\ Unsold(a, s) = Num(a, "debt", s) - Num(a, "short", s)
      /\ Unsold(b, s) = Num(b, "debt", s) - Num(b, "short", s)
  BY <1>1, NumType, UnsoldType
<1> QED
  BY <1>2, <1>3, <1>4, <1>5

LEMMA CoversQuiet ==
  ASSUME NEW a, IsAccount(a), NEW b, Quiet(a, b)
  PROVE  Covers(a, b) /\ \A s \in Stocks : Unsold(b, s) = Unsold(a, s)
<1>1. ASSUME NEW s \in Stocks PROVE Unsold(b, s) = Unsold(a, s)
  <2>1. IsAccount(b)
    BY DEF Quiet
  <2>2. ASSUME NEW side \in Sides PROVE Num(b, side, s) = Num(a, side, s)
    <3> DEFINE e == <<side, s>>
    <3>1. e \in Measures /\ e[1] = side /\ e[2] = s /\ side \notin {"cash", "loan", "cost"}
      BY DEF Measures, Sides
    <3>2. Level(e, b) = Level(e, a)
      BY <3>1 DEF Quiet
    <3> QED
      BY <3>1, <3>2 DEF Level
  <2> QED
    BY <2>1, <2>2, UnsoldType DEF Sides
<1> QED
  BY <1>1 DEF Covers

LEMMA SafeSelf ==
  ASSUME NEW a, Good(a), NEW d
  PROVE  Safe(a, a, d) /\ Covers(a, a)
  BY LeadsSelf DEF Safe, Covers

LEMMA SafeQuiet ==
  ASSUME NEW a, Good(a), NEW b, Quiet(a, b), NEW d
  PROVE  Safe(a, b, d) /\ Covers(a, b) /\ \A s \in Stocks : Unsold(b, s) = Unsold(a, s)
  BY LeadsQuiet, CoversQuiet DEF Safe, Good

LEMMA SafePosts ==
  ASSUME NEW a, Good(a), NEW b, NEW d, NEW business, Posts(a, b, d, business),
         d >= lastDatetime(a),
         business \in {"CHECKIN", "CHECKOUT", "CHECKIN_STOCK", "CHECKOUT_STOCK", "BORROW_CASH",
                       "RETURN_CASH", "BORROW_STOCK", "BUY", "SELL"}
  PROVE  Safe(a, b, d) /\ Covers(a, b)
<1>1. PICK r : Entry(a, b, r) /\ r.datetime = d /\ r.business = business /\ r.number \in Nat
  BY DEF Posts
<1>2. r.business \notin EventBusinesses /\ r.business # "SELL_SHORT"
  BY <1>1 DEF EventBusinesses
<1>3. Leads(a, b, d)
  BY <1>1, <1>2, LeadsEntry
<1>4. Covers(a, b)
  BY <1>1, <1>2, CoversEntry DEF Good
<1> QED
  BY <1>3, <1>4 DEF Safe

LEMMA SafeThen ==
  ASSUME NEW a, Good(a), NEW b, NEW c, NEW d \in Nat, d >= lastDatetime(a),
         Safe(a, b, d), Safe(b, c, d)
  PROVE  Safe(a, c, d) /\ Covers(a, c)
<1>1. Leads(a, b, d) /\ Leads(b, c, d) /\ Covers(a, b) /\ Covers(b, c)
  BY DEF Safe
<1>2. Leads(a, c, d)
  BY <1>1, LeadsTrans
<1>3. Covers(a, c)
  BY <1>1 DEF Covers
<1> QED
  BY <1>2, <1>3 DEF Safe

-----------------------------------------------------------------------------
(* Every handler is safe on a good account that is up to date.             *)

LEMMA ReadyOn ==
  ASSUME NEW a, NEW d, Ready(a, d), NEW b, Safe(a, b, d)
  PROVE  Ready(b, d) /\ IsAccount(b)
  BY LeadsOn DEF Ready, Safe

LEMMA SafeCheckin ==
  ASSUME NEW a, NEW d, Ready(a, d), NEW cash \in Pos
  PROVE  Safe(a, checkin(a, d, cash), d)
<1>1. Posts(a, checkin(a, d, cash), d, "CHECKIN")
  BY CheckinPosts DEF Ready, Good
<1> QED
  BY <1>1, SafePosts DEF Ready

LEMMA SafeCheckout ==
  ASSUME NEW a, NEW d, Ready(a, d), NEW cash \in Pos
  PROVE  Safe(a, checkout(a, d, cash), d)
<1>1. checkout(a, d, cash) = a \/ Posts(a, checkout(a, d, cash), d, "CHECKOUT")
  BY CheckoutPosts DEF Ready, Good
<1> QED
  BY <1>1, SafePosts, SafeSelf DEF Ready

LEMMA SafeBorrowCash ==
  ASSUME NEW a, NEW d, Ready(a, d), NEW cash \in Pos
  PROVE  Safe(a, borrowCash(a, d, cash), d) /\ Covers(a, borrowCash(a, d, cash))
<1>1. Posts(a, borrowCash(a, d, cash), d, "BORROW_CASH")
  BY BorrowCashPosts DEF Ready, Good
<1> QED
  BY <1>1, SafePosts DEF Ready

LEMMA SafeReturnCash ==
  ASSUME NEW a, NEW d, Ready(a, d), NEW cash \in Pos
  PROVE  Safe(a, returnCash(a, d, cash), d)
<1>1. returnCash(a, d, cash) = a \/ Posts(a, returnCash(a, d, cash), d, "RETURN_CASH")
  BY ReturnCashPosts DEF Ready, Good
<1> QED
  BY <1>1, SafePosts, SafeSelf DEF Ready

LEMMA SafeCheckinStock ==
  ASSUME NEW a, NEW d, Ready(a, d), NEW s \in Stocks, NEW n \in Pos
  PROVE  Safe(a, checkinStock(a, d, s, n), d)
<1>1. PICK b : Quiet(a, b) /\ Posts(b, checkinStock(a, d, s, n), d, "CHECKIN_STOCK")
  BY CheckinStockPosts DEF Ready, Good
<1>2. Safe(a, b, d) /\ Covers(a, b) /\ Ready(b, d)
  BY <1>1, SafeQuiet, ReadyOn DEF Ready
<1>3. Safe(b, checkinStock(a, d, s, n), d)
  BY <1>1, <1>2, SafePosts DEF Ready
<1> QED
  BY <1>2, <1>3, SafeThen DEF Ready

LEMMA SafeCheckoutStock ==
  ASSUME NEW a, NEW d, Ready(a, d), NEW s \in Stocks, NEW n \in Pos
  PROVE  Safe(a, checkoutStock(a, d, s, n), d)
<1>1. checkoutStock(a, d, s, n) = a \/ Posts(a, checkoutStock(a, d, s, n), d, "CHECKOUT_STOCK")
  BY CheckoutStockPosts DEF Ready, Good
<1> QED
  BY <1>1, SafePosts, SafeSelf DEF Ready

LEMMA SafeBorrowStock ==
  ASSUME NEW a, NEW d, Ready(a, d), NEW s \in Stocks, NEW n \in Pos
  PROVE  Safe(a, borrowStock(a, d, s, n), d) /\ Covers(a, borrowStock(a, d, s, n))
<1>1. PICK b : Quiet(a, b) /\ Posts(b, borrowStock(a, d, s, n), d, "BORROW_STOCK")
  BY BorrowStockPosts DEF Ready, Good
<1>2. Safe(a, b, d) /\ Covers(a, b) /\ Ready(b, d)
  BY <1>1, SafeQuiet, ReadyOn DEF Ready
<1>3. Safe(b, borrowStock(a, d, s, n), d) /\ Covers(b, borrowStock(a, d, s, n))
  BY <1>1, <1>2, SafePosts DEF Ready
<1> QED
  BY <1>2, <1>3, SafeThen DEF Ready

(* returnStock takes the number away from the stock not sold.              *)
LEMMA LeadsReturnStock ==
  ASSUME NEW a, NEW d, Ready(a, d), NEW s \in Stocks, NEW n \in Pos
  PROVE  LET b == returnStock(a, d, s, n)
         IN  /\ Leads(a, b, d)
             /\ \A t \in Stocks : Unsold(b, t) \in Int /\ Unsold(a, t) \in Int
             /\ \A t \in Stocks \ {s} : Unsold(b, t) = Unsold(a, t)
             /\ Unsold(b, s) \in {Unsold(a, s), Unsold(a, s) - n}
<1> DEFINE b == returnStock(a, d, s, n)
<1>1. b = a \/ PostsOf(a, b, d, "RETURN_STOCK", s, n)
  BY ReturnStockPosts DEF Ready, Good
<1> HIDE DEF b
<1>2. IsAccount(a) /\ Good(a) /\ d >= lastDatetime(a) /\ n \in Int
  BY DEF Ready, Good, Pos
<1>3. CASE b = a
  BY <1>2, <1>3, LeadsSelf, UnsoldType DEF b
<1>4. CASE PostsOf(a, b, d, "RETURN_STOCK", s, n)
  <2>1. PICK r : /\ Entry(a, b, r) /\ r.datetime = d /\ r.business = "RETURN_STOCK"
                 /\ r.stock = s /\ r.number = n
    BY <1>4 DEF PostsOf
  <2>2. Leads(a, b, d)
    BY <1>2, <2>1, LeadsEntry DEF EventBusinesses
  <2>3. \A t \in Stocks : /\ Unsold(b, t) \in Int /\ Unsold(a, t) \in Int
                          /\ Unsold(b, t) = Unsold(a, t) - (IF s = t THEN n ELSE 0)
    BY <1>2, <2>1, UnsoldMoves
  <2> QED
    BY <1>2, <2>2, <2>3 DEF b
<1> QED
  BY <1>1, <1>3, <1>4

LEMMA SafeFinance ==
  ASSUME NEW a, NEW d, Ready(a, d), NEW money \in Int
  PROVE  Safe(a, Finance(a, d, money), d) /\ Covers(a, Finance(a, d, money))
<1>1. CASE ~("support_borrow_cash" \in a.params /\ a.m_cash < money + TradeFee)
  BY <1>1, SafeSelf DEF Finance, Ready
<1>2. CASE "support_borrow_cash" \in a.params /\ a.m_cash < money + TradeFee
  <2> DEFINE gap == money + TradeFee - a.m_cash
  <2>1. a.m_cash \in Int /\ TradeFee \in Nat /\ LoanFee \in Nat
    BY AccountFields, Fees DEF Ready, Good
  <2>2. gap \in Nat \ {0} /\ gap + LoanFee \in Nat \ {0}
    BY <1>2, <2>1
  <2>3. BorrowGap(a, money) \in Pos
    BY <2>2 DEF BorrowGap, Pos
  <2>4. Finance(a, d, money) = borrowCash(a, d, BorrowGap(a, money))
    BY <1>2 DEF Finance
  <2> QED
    BY <2>3, <2>4, SafeBorrowCash
<1> QED
  BY <1>1, <1>2

LEMMA MoneyType ==
  ASSUME NEW d \in Days, NEW n \in Int PROVE Price[d] * n \in Int
  BY PriceType, TimesInt

LEMMA SafeBuy ==
  ASSUME NEW a, NEW d, Ready(a, d), NEW s \in Stocks, NEW n \in Pos
  PROVE  Safe(a, buy(a, d, s, n), d)
<1> DEFINE money == Price[d] * n
           b == DropFrontier(a, s)
           c == Finance(b, d, money)
           end == [PushRecord([c EXCEPT !.m_cash = @ - money - TradeFee],
                              d, "BUY", s, n, Price[d], TradeFee)
                     EXCEPT !.m_position = Grow(@, s, n, money, TradeFee, 0)]
<1>1. buy(a, d, s, n) \in {b, c, end}
  BY DEF buy
<1>2. money \in Int
  BY MoneyType DEF Ready, Pos
<1>3. Quiet(a, b)
  BY DropQuiet DEF Ready, Good
<1>4. Safe(a, b, d) /\ Covers(a, b) /\ Ready(b, d)
  BY <1>3, SafeQuiet, ReadyOn DEF Ready
<1> HIDE DEF b
<1>5. Safe(b, c, d) /\ Covers(b, c)
  BY <1>2, <1>4, SafeFinance
<1>6. Safe(a, c, d) /\ Covers(a, c) /\ Ready(c, d) /\ IsAccount(c)
  BY <1>4, <1>5, SafeThen, ReadyOn DEF Ready
<1> HIDE DEF c
<1>7. Posts(c, end, d, "BUY")
  BY <1>6, BuyPosts DEF Ready
<1>8. Safe(c, end, d)
  BY <1>6, <1>7, SafePosts DEF Ready
<1> HIDE DEF end
<1>9. Safe(a, end, d)
  BY <1>6, <1>8, SafeThen DEF Ready
<1> QED
  BY <1>1, <1>4, <1>6, <1>9

LEMMA MinPairOf ==
  ASSUME NEW x \in Pos, NEW y \in Pos
  PROVE  Min({x, y}) \in Pos /\ Min({x, y}) <= x /\ Min({x, y}) <= y
<1>1. {x, y} \subseteq Nat /\ {x, y} # {}
  BY DEF Pos
<1> QED
  BY <1>1, LeastOf DEF Pos

LEMMA SafeAutoRepay ==
  ASSUME NEW a, NEW d, Ready(a, d)
  PROVE  Safe(a, AutoRepay(a, d), d)
<1>1. CASE ~("support_borrow_cash" \in a.params /\ a.m_borrow_cash > 0 /\ a.m_cash > 0)
  BY <1>1, SafeSelf DEF AutoRepay, Ready
<1>2. CASE "support_borrow_cash" \in a.params /\ a.m_borrow_cash > 0 /\ a.m_cash > 0
  <2>1. a.m_cash \in Pos /\ a.m_borrow_cash \in Pos
    BY <1>2, AccountFields DEF Ready, Good, Pos
  <2>2. Min({a.m_borrow_cash, a.m_cash}) \in Pos
    BY <2>1, MinPairOf
  <2>3. AutoRepay(a, d) = returnCash(a, d, Min({a.m_borrow_cash, a.m_cash}))
    BY <1>2 DEF AutoRepay
  <2> QED
    BY <2>2, <2>3, SafeReturnCash
<1> QED
  BY <1>1, <1>2

LEMMA HeldNumber ==
  ASSUME NEW map, Positions(map), NEW s \in DOMAIN map
  PROVE  s \in Stocks /\ map[s].number \in Nat /\ map[s].number \in Pos
  BY PositionFields DEF Positions, Pos

LEMMA SafeSell ==
  ASSUME NEW a, NEW d, Ready(a, d), NEW s \in DOMAIN a.m_position,
         NEW n, n \in Pos \/ n = MaxDouble
  PROVE  Safe(a, sell(a, d, s, n), d)
<1> DEFINE held == a.m_position[s]
           real_number == IF n = MaxDouble THEN held.number ELSE n
           money == Price[d] * real_number
           sold == ShrinkLong(PushRecord([a EXCEPT !.m_cash = @ + money - TradeFee],
                                         d, "SELL", s, real_number, Price[d], TradeFee),
                              Shrunk(held, real_number, 0, TradeFee, money))
<1>1. sell(a, d, s, n) = IF real_number > held.number THEN a ELSE AutoRepay(sold, d)
  BY DEF sell
<1>2. held.number \in Nat /\ real_number \in Nat
  BY HeldNumber, AccountFields DEF Ready, Good, Pos
<1>3. CASE real_number > held.number
  BY <1>1, <1>3, SafeSelf DEF Ready
<1>4. CASE ~(real_number > held.number)
  <2>1. real_number <= a.m_position[s].number
    BY <1>2, <1>4
  <2> HIDE DEF real_number
  <2>2. Posts(a, sold, d, "SELL")
    BY <1>2, <2>1, SellPosts DEF Ready, Good
  <2> HIDE DEF sold
  <2>3. Safe(a, sold, d) /\ Covers(a, sold) /\ Ready(sold, d)
    BY <2>2, SafePosts, ReadyOn DEF Ready
  <2>4. Safe(sold, AutoRepay(sold, d), d)
    BY <2>3, SafeAutoRepay
  <2>5. Safe(a, AutoRepay(sold, d), d)
    BY <2>3, <2>4, SafeThen DEF Ready
  <2> QED
    BY <1>1, <1>4, <2>5
<1> QED
  BY <1>3, <1>4

LEMMA ShortfallType ==
  ASSUME NEW a, IsAccount(a), NEW s, NEW n \in Pos
  PROVE  BorrowShortfall(a, s, n) \in Int
<1>1. Unsold(a, s) \in Int /\ n \in Int /\ n - Unsold(a, s) \in Int /\ 0 \in Int
  BY UnsoldType DEF Pos
<1> QED
  BY <1>1, MaxPair DEF BorrowShortfall

LEMMA SafeAutoBorrow ==
  ASSUME NEW a, NEW d, Ready(a, d), NEW s \in Stocks, NEW n \in Pos
  PROVE  Safe(a, AutoBorrow(a, d, s, n), d) /\ Covers(a, AutoBorrow(a, d, s, n))
<1>1. BorrowShortfall(a, s, n) \in Int
  BY ShortfallType DEF Ready, Good
<1>2. CASE ~("support_borrow_stock" \in a.params /\ BorrowShortfall(a, s, n) > 0)
  BY <1>2, SafeSelf DEF AutoBorrow, Ready
<1>3. CASE "support_borrow_stock" \in a.params /\ BorrowShortfall(a, s, n) > 0
  <2>1. BorrowShortfall(a, s, n) \in Pos
    BY <1>1, <1>3 DEF Pos
  <2>2. AutoBorrow(a, d, s, n) = borrowStock(a, d, s, BorrowShortfall(a, s, n))
    BY <1>3 DEF AutoBorrow
  <2> QED
    BY <2>1, <2>2, SafeBorrowStock
<1> QED
  BY <1>2, <1>3

LEMMA SafeSellShort ==
  ASSUME NEW a, NEW d, Ready(a, d), NEW s \in Stocks, NEW n \in Pos
  PROVE  Safe(a, sellShort(a, d, s, n), d)
<1> DEFINE b == DropFrontier(a, s)
           c == AutoBorrow(b, d, s, n)
           sold == Min({n, Unsold(c, s)})
           gross == Price[d] * sold
           end == [PushRecord([c EXCEPT !.m_cash = @ + gross - TradeFee],
                              d, "SELL_SHORT", s, sold, Price[d], TradeFee)
                     EXCEPT !.m_short_position = Grow(@, s, sold, 0, TradeFee, gross)]
<1>1. /\ sellShort(a, d, s, n) \in {b, c, end}
      /\ sellShort(a, d, s, n) \in {b, c} \/ ~(Unsold(c, s) <= 0)
  BY DEF sellShort
<1>2. Quiet(a, b)
  BY DropQuiet DEF Ready, Good
<1>3. Safe(a, b, d) /\ Covers(a, b) /\ Ready(b, d)
  BY <1>2, SafeQuiet, ReadyOn DEF Ready
<1> HIDE DEF b
<1>4. Safe(b, c, d) /\ Covers(b, c)
  BY <1>3, SafeAutoBorrow
<1>5. Safe(a, c, d) /\ Covers(a, c) /\ Ready(c, d) /\ IsAccount(c)
  BY <1>3, <1>4, SafeThen, ReadyOn DEF Ready
<1> HIDE DEF c
<1>6. ASSUME ~(Unsold(c, s) <= 0) PROVE Safe(a, end, d)
  <2>1. Unsold(c, s) \in Pos
    BY <1>5, <1>6, UnsoldType DEF Pos
  <2>2. sold \in Pos /\ sold <= Unsold(c, s) /\ sold \in Nat
    BY <2>1, MinPairOf DEF Pos
  <2> HIDE DEF sold
  <2>3. PICK r : /\ r.datetime = d /\ r.business = "SELL_SHORT" /\ r.stock = s /\ r.number = sold
                 /\ Entry(c, end, r)
    BY <1>5, <2>2, SellShortPosts DEF Ready
  <2> HIDE DEF end
  <2>4. r.business \notin EventBusinesses
    BY <2>3 DEF EventBusinesses
  <2>5. Leads(c, end, d)
    BY <1>5, <2>3, <2>4, LeadsEntry DEF Ready
  <2>6. Covers(c, end)
    BY <1>5, <2>2, <2>3, <2>4, CoversEntry
  <2>7. Safe(c, end, d)
    BY <2>5, <2>6 DEF Safe
  <2> QED
    BY <1>5, <2>7, SafeThen DEF Ready
<1> HIDE DEF end
<1> QED
  BY <1>1, <1>3, <1>5, <1>6

LEMMA SafeBuyShort ==
  ASSUME NEW a, NEW d, Ready(a, d), NEW s \in DOMAIN a.m_short_position,
         NEW n, n \in Pos \/ n = MaxDouble
  PROVE  Safe(a, buyShort(a, d, s, n), d)
<1> DEFINE short == a.m_short_position[s]
           real_number == IF n = MaxDouble THEN short.number ELSE Min({n, short.number})
           money == Price[d] * real_number
           covered == ShrinkShort(PushRecord([a EXCEPT !.m_cash = @ - money - TradeFee],
                                             d, "BUY_SHORT", s, real_number, Price[d], TradeFee),
                                  Shrunk(short, real_number, money, TradeFee, 0))
<1>1. buyShort(a, d, s, n) \in {a, returnStock(covered, d, s, real_number), covered}
  BY DEF buyShort
<1>2. short.number \in Pos /\ s \in Stocks
  BY HeldNumber, AccountFields DEF Ready, Good
<1>3. real_number \in Pos /\ real_number \in Nat /\ real_number <= a.m_short_position[s].number
  BY <1>2, MinPairOf DEF Pos
<1> HIDE DEF real_number
<1>4. PostsOf(a, covered, d, "BUY_SHORT", s, real_number)
  BY <1>3, BuyShortPosts DEF Ready, Good
<1> DEFINE both == returnStock(covered, d, s, real_number)
<1>5. buyShort(a, d, s, n) \in {a, both, covered}
  BY <1>1
<1> HIDE DEF covered
<1>6. PICK r : /\ Entry(a, covered, r) /\ r.datetime = d /\ r.business = "BUY_SHORT"
               /\ r.stock = s /\ r.number = real_number
  BY <1>4 DEF PostsOf
<1>7. Leads(a, covered, d)
  BY <1>6, LeadsEntry DEF Ready, EventBusinesses
<1>8. \A t \in Stocks : /\ Unsold(covered, t) \in Int /\ Unsold(a, t) \in Int
                        /\ Unsold(covered, t) = Unsold(a, t) + (IF s = t THEN real_number ELSE 0)
  BY <1>3, <1>6, UnsoldMoves DEF Ready, Good
<1>9. Covers(a, covered)
  BY <1>3, <1>8 DEF Covers
<1>10. Safe(a, covered, d) /\ Ready(covered, d)
  BY <1>7, <1>9, ReadyOn DEF Safe
<1>11. /\ Leads(covered, both, d)
       /\ \A t \in Stocks \ {s} : Unsold(both, t) = Unsold(covered, t)
       /\ Unsold(both, s) \in {Unsold(covered, s), Unsold(covered, s) - real_number}
  BY <1>2, <1>3, <1>10, LeadsReturnStock
<1> HIDE DEF both
<1>12. Leads(a, both, d)
  BY <1>7, <1>11, LeadsTrans DEF Ready
<1>13. Covers(a, both)
  BY <1>2, <1>3, <1>8, <1>11 DEF Covers
<1>14. Safe(a, a, d)
  BY SafeSelf DEF Ready
<1> QED
  BY <1>5, <1>10, <1>12, <1>13, <1>14 DEF Safe

-----------------------------------------------------------------------------
(* A record brought by the client, booked on an account that is up to date. *)

LEMMA LeadsBooks ==
  ASSUME NEW a, NEW r, NEW b, Brought(r), Ready(a, r.datetime), Books(a, b, r)
  PROVE  Leads(a, b, r.datetime)
<1>1. PICK cash \in Int : Entry(a, b, Stamped(r, cash))
  BY DEF Books
<1>2. /\ Stamped(r, cash).datetime = r.datetime
      /\ Stamped(r, cash).business \notin EventBusinesses
  BY StampedFacts DEF Brought, StockBusinesses, CashBusinesses, EventBusinesses
<1> QED
  BY <1>1, <1>2, LeadsEntry DEF Ready

LEMMA LeadsPosts ==
  ASSUME NEW a, NEW d, Ready(a, d), NEW b, NEW business, Posts(a, b, d, business),
         business \in {"CHECKIN", "CHECKOUT"}
  PROVE  Leads(a, b, d)
  BY SafePosts DEF Ready, Safe

LEMMA BookLeads ==
  ASSUME NEW a, NEW r, Brought(r), Ready(a, r.datetime)
  PROVE  Leads(a, Book(a, r), r.datetime)
<1>1. IsAccount(a) /\ Good(a) /\ r \in Record /\ r.datetime \in Nat
  BY DEF Ready, Good, Brought
<1>2. Leads(a, a, r.datetime)
  BY <1>1, LeadsSelf
<1>3. CASE r.business \in StockBusinesses
  <2>1. r.stock \in Stocks /\ r.number \in Pos
        /\ (r.business \in {"CHECKIN_STOCK", "CHECKOUT_STOCK"} => r.cost = 0)
    BY <1>3 DEF Brought, StockBusinesses, CashBusinesses
  <2>2. CASE r.business = "BUY"
    <3>1. Book(a, r) = add_buy_tr(a, r)
      BY <2>2 DEF Book
    <3> QED
      BY <1>1, <1>2, <2>1, <2>2, <3>1, AddBuyBooks, LeadsBooks
  <2>3. CASE r.business = "SELL"
    <3>1. Book(a, r) = add_sell_tr(a, r)
      BY <2>3 DEF Book
    <3> QED
      BY <1>1, <1>2, <2>1, <2>3, <3>1, AddSellBooks, LeadsBooks
  <2>4. CASE r.business = "CHECKIN_STOCK"
    <3>1. Book(a, r) = add_checkin_stock_tr(a, r)
      BY <2>4 DEF Book
    <3> QED
      BY <1>1, <1>2, <2>1, <2>4, <3>1, AddCheckinStockBooks, LeadsBooks
  <2>5. CASE r.business = "CHECKOUT_STOCK"
    <3>1. Book(a, r) = add_checkout_stock_tr(a, r)
      BY <2>5 DEF Book
    <3> QED
      BY <1>1, <1>2, <2>1, <2>5, <3>1, AddCheckoutStockBooks, LeadsBooks
  <2>6. CASE r.business = "BORROW_STOCK"
    <3>1. Book(a, r) = add_borrow_stock_tr(a, r)
      BY <2>6 DEF Book
    <3> QED
      BY <1>1, <1>2, <2>1, <2>6, <3>1, AddBorrowStockBooks, LeadsBooks
  <2>7. CASE r.business = "RETURN_STOCK"
    <3>1. Book(a, r) = add_return_stock_tr(a, r)
      BY <2>7 DEF Book
    <3> QED
      BY <1>1, <1>2, <2>1, <2>7, <3>1, AddReturnStockBooks, LeadsBooks
  <2>8. CASE r.business = "SELL_SHORT"
    <3>1. Book(a, r) = add_sell_short_tr(a, r)
      BY <2>8 DEF Book
    <3> QED
      BY <1>1, <1>2, <2>1, <2>8, <3>1, AddSellShortBooks, LeadsBooks
  <2>9. CASE r.business = "BUY_SHORT"
    <3>1. Book(a, r) = add_buy_short_tr(a, r)
      BY <2>9 DEF Book
    <3> QED
      BY <1>1, <1>2, <2>1, <2>9, <3>1, AddBuyShortBooks, LeadsBooks
  <2> QED
    BY <1>3, <2>2, <2>3, <2>4, <2>5, <2>6, <2>7, <2>8, <2>9 DEF StockBusinesses
<1>4. CASE r.business \notin StockBusinesses
  <2>1. r.business \in CashBusinesses /\ r.stock = NoStock /\ r.realPrice \in Pos
    BY <1>4 DEF Brought
  <2>2. CASE r.business = "CHECKIN"
    <3>1. Book(a, r) = checkin(a, r.datetime, r.realPrice)
      BY <2>2 DEF Book
    <3> QED
      BY <1>1, <2>1, <3>1, CheckinPosts, LeadsPosts
  <2>3. CASE r.business = "CHECKOUT"
    <3>1. Book(a, r) = checkout(a, r.datetime, r.realPrice)
      BY <2>3 DEF Book
    <3> QED
      BY <1>1, <1>2, <2>1, <3>1, CheckoutPosts, LeadsPosts
  <2>4. CASE r.business = "BORROW_CASH"
    <3>1. Book(a, r) = add_borrow_cash_tr(a, r)
      BY <2>4 DEF Book
    <3> QED
      BY <1>1, <1>2, <2>1, <2>4, <3>1, AddBorrowCashBooks, LeadsBooks
  <2>5. CASE r.business = "RETURN_CASH"
    <3>1. Book(a, r) = add_return_cash_tr(a, r)
      BY <2>5 DEF Book
    <3> QED
      BY <1>1, <1>2, <2>1, <2>5, <3>1, AddReturnCashBooks, LeadsBooks
  <2> QED
    BY <2>1, <2>2, <2>3, <2>4, <2>5 DEF CashBusinesses
<1> QED
  BY <1>3, <1>4

-----------------------------------------------------------------------------
(* The records an ex-rights event leaves, and what they tell.              *)

LEMMA ColumnOne ==
  ASSUME NEW e \in Measures, NEW r \in Record
  PROVE  <<r>> \in Seq(Record) /\ Total(Column(e, <<r>>)) = Effect(e, r)
<1>1. <<>> \in Seq(Record) /\ <<r>> = Append(<<>>, r) /\ <<r>> \in Seq(Record)
  OBVIOUS
<1>2. Total(Column(e, Append(<<>>, r))) = Total(Column(e, <<>>)) + Effect(e, r)
  BY <1>1, ColumnAppend
<1> QED
  BY <1>1, <1>2, ColumnEmpty, EffectType

LEMMA WhenFacts ==
  ASSUME NEW condition \in BOOLEAN, NEW r, NEW k, condition => r \in Record /\ EventOf(r, k)
  PROVE  /\ When(condition, r) \in Seq(Record)
         /\ \A i \in 1 .. Len(When(condition, r)) : EventOf(When(condition, r)[i], k)
         /\ \A e \in Measures : Total(Column(e, When(condition, r)))
                                = IF condition THEN Effect(e, r) ELSE 0
<1>1. CASE condition
  <2>1. When(condition, r) = <<r>> /\ <<r>> \in Seq(Record)
    BY <1>1 DEF When
  <2>2. Len(<<r>>) = 1 /\ <<r>>[1] = r
    OBVIOUS
  <2>3. \A e \in Measures : Total(Column(e, <<r>>)) = Effect(e, r)
    BY <1>1, ColumnOne
  <2>4. \A i \in 1 .. Len(<<r>>) : EventOf(<<r>>[i], k)
    BY <1>1, <2>2
  <2> QED
    BY <1>1, <2>1, <2>3, <2>4
<1>2. CASE ~condition
  <2>1. When(condition, r) = <<>> /\ <<>> \in Seq(Record) /\ Len(<<>>) = 0
    BY <1>2 DEF When
  <2> QED
    BY <1>2, <2>1, ColumnEmpty
<1> QED
  BY <1>1, <1>2

LEMMA EventsJoin ==
  ASSUME NEW one \in Seq(Record), NEW two \in Seq(Record), NEW k,
         \A i \in 1 .. Len(one) : EventOf(one[i], k),
         \A i \in 1 .. Len(two) : EventOf(two[i], k)
  PROVE  /\ one \o two \in Seq(Record)
         /\ \A i \in 1 .. Len(one \o two) : EventOf((one \o two)[i], k)
<1>1. /\ one \o two \in Seq(Record) /\ Len(one \o two) = Len(one) + Len(two)
      /\ Len(one) \in Nat /\ Len(two) \in Nat
      /\ \A i \in 1 .. Len(one \o two) :
            (one \o two)[i] = IF i <= Len(one) THEN one[i] ELSE two[i - Len(one)]
  OBVIOUS
<1>2. ASSUME NEW i \in 1 .. Len(one \o two) PROVE EventOf((one \o two)[i], k)
  <2>1. CASE i <= Len(one)
    <3>1. i \in 1 .. Len(one) /\ (one \o two)[i] = one[i]
      BY <1>1, <2>1
    <3> QED
      BY <3>1
  <2>2. CASE ~(i <= Len(one))
    <3>1. i - Len(one) \in 1 .. Len(two) /\ (one \o two)[i] = two[i - Len(one)]
      BY <1>1, <2>2
    <3> QED
      BY <3>1
  <2> QED
    BY <2>1, <2>2
<1> QED
  BY <1>1, <1>2

LEMMA AdjustEffect ==
  ASSUME NEW r \in Record,
         r.business \in {"GIFT", "SUOGU", "BORROW_ADJUST", "SHORT_ADJUST"}
  PROVE  CashEffect(r) = 0 - r.cost /\ SignedCash(r) = 0 /\ DebtCost(r) = 0
<1>1. CashEffect(r) = -r.cost /\ SignedCash(r) = 0 /\ DebtCost(r) = 0
  BY DEF CashEffect, SignedCash, DebtCost
<1>2. -r.cost = 0 - r.cost
  BY RecordFields
<1> QED
  BY <1>1, <1>2

LEMMA MeasureIs ==
  ASSUME NEW e \in Measures
  PROVE  /\ e = Cash => \A r : Effect(e, r) = CashEffect(r)
         /\ e = <<"loan", NoStock>> => \A r : Effect(e, r) = SignedCash(r)
         /\ e = <<"cost", NoStock>> => \A r : Effect(e, r) = DebtCost(r)
         /\ \A own \in Sides : \A x : e = <<own, x>> =>
               \A r : Effect(e, r) = Signed(r, x, Plus(own), Minus(own))
  BY DEF Effect, Cash, Sides

(* The record of shares added or taken away.                               *)
LEMMA SharesEffect ==
  ASSUME NEW e \in Measures, NEW side \in Sides, NEW s \in Stocks, NEW k \in Nat,
         NEW n \in Int, NEW business \in {Gift(side), Suogu(side)}
  PROVE  LET r == TradeRecord(k, business, s, n, 0, 0, 0)
         IN  r \in Record /\ EventOf(r, k) /\ Effect(e, r) = IF e = <<side, s>> THEN n ELSE 0
<1> DEFINE r == TradeRecord(k, business, s, n, 0, 0, 0)
<1>1. business \in {"GIFT", "SUOGU", "BORROW_ADJUST", "SHORT_ADJUST"}
      /\ business \in Plus(side) /\ business \in Businesses /\ business \in EventBusinesses
  BY DEF Gift, Suogu, Plus, Adjusted, Sides, Businesses, EventBusinesses
<1>2. s \in Stocks \cup {NoStock} /\ 0 \in Int
  OBVIOUS
<1>3. /\ r \in Record /\ r.datetime = k /\ r.business = business /\ r.stock = s
      /\ r.number = n /\ r.realPrice = 0 /\ r.cost = 0
  BY <1>1, <1>2, TradeRecordFacts
<1> HIDE DEF r
<1>4. CashEffect(r) = 0 - r.cost /\ SignedCash(r) = 0 /\ DebtCost(r) = 0
  BY <1>1, <1>3, AdjustEffect
<1>5. CashEffect(r) = 0
  BY <1>3, <1>4
<1>6. ASSUME NEW own \in Sides, NEW x, e = <<own, x>>
      PROVE  Effect(e, r) = IF e = <<side, s>> THEN n ELSE 0
  <2>1. Effect(e, r) = Signed(r, x, Plus(own), Minus(own))
    BY <1>6, MeasureIs
  <2>2. Signed(r, x, Plus(own), Minus(own)) = IF own = side /\ x = r.stock THEN r.number ELSE 0
    BY <1>1, <1>3, SignedPlus
  <2> QED
    BY <1>3, <1>6, <2>1, <2>2
<1>7. CASE e = Cash \/ e = <<"loan", NoStock>> \/ e = <<"cost", NoStock>>
  <2>1. e # <<side, s>>
    BY <1>7 DEF Cash, Sides
  <2>2. Effect(e, r) = 0
    BY <1>4, <1>5, <1>7, MeasureIs
  <2> QED
    BY <1>1, <1>3, <2>1, <2>2 DEF EventOf, r
<1> QED
  BY <1>1, <1>3, <1>6, <1>7, MeasureCases DEF EventOf, r

(* The record of a dividend.                                               *)
LEMMA DividendEffect ==
  ASSUME NEW e \in Measures, NEW side \in Sides, side # "short", NEW s \in Stocks,
         NEW k \in Nat, NEW paid \in Int
  PROVE  LET r == TradeRecord(k, Dividend(side), s, 0, paid, 0, 0)
         IN  /\ r \in Record /\ EventOf(r, k)
             /\ Effect(e, r) = IF e = Cash THEN IF side = "long" THEN paid ELSE 0 - paid
                               ELSE IF e[1] = "cost" /\ side = "debt" THEN paid
                               ELSE 0
<1> DEFINE business == Dividend(side)
           r == TradeRecord(k, business, s, 0, paid, 0, 0)
<1>1. /\ \/ side = "long" /\ business = "BONUS"
         \/ side = "debt" /\ business = "DIVIDEND_COMPENSATION"
      /\ business \in Businesses /\ business \in EventBusinesses
  BY DEF Dividend, Sides, Businesses, EventBusinesses
<1>2. s \in Stocks \cup {NoStock} /\ 0 \in Int
  OBVIOUS
<1> HIDE DEF business
<1>3. /\ r \in Record /\ r.datetime = k /\ r.business = business /\ r.stock = s
      /\ r.number = 0 /\ r.realPrice = paid /\ r.cost = 0
  BY <1>1, <1>2, TradeRecordFacts
<1> HIDE DEF r
<1>4. CASE e = Cash
  <2>1. Effect(e, r) = CashEffect(r)
    BY <1>4, MeasureIs
  <2>2. side = "long" => CashEffect(r) = r.realPrice - r.cost
    BY <1>1, <1>3 DEF CashEffect
  <2>3. side = "debt" => CashEffect(r) = -r.realPrice - r.cost
    BY <1>1, <1>3 DEF CashEffect
  <2>4. Effect(e, r) = IF side = "long" THEN paid ELSE 0 - paid
    BY <1>1, <1>3, <2>1, <2>2, <2>3
  <2> QED
    BY <1>1, <1>3, <1>4, <2>4 DEF EventOf, r, business
<1>5. CASE e = <<"loan", NoStock>>
  <2>1. Effect(e, r) = SignedCash(r) /\ e # Cash /\ e[1] # "cost"
    BY <1>5, MeasureIs DEF Cash
  <2>2. SignedCash(r) = 0
    BY <1>1, <1>3 DEF SignedCash
  <2> QED
    BY <1>1, <1>3, <2>1, <2>2 DEF EventOf, r, business
<1>6. CASE e = <<"cost", NoStock>>
  <2>1. Effect(e, r) = DebtCost(r) /\ e # Cash /\ e[1] = "cost"
    BY <1>6, MeasureIs DEF Cash
  <2>2. DebtCost(r) = IF side = "debt" THEN paid ELSE 0
    BY <1>1, <1>3 DEF DebtCost
  <2> QED
    BY <1>1, <1>3, <2>1, <2>2 DEF EventOf, r, business
<1>7. CASE \E own \in Sides, x \in Stocks : e = <<own, x>>
  <2>1. PICK own \in Sides, x \in Stocks : e = <<own, x>>
    BY <1>7
  <2>2. Effect(e, r) = Signed(r, x, Plus(own), Minus(own)) /\ e # Cash /\ e[1] # "cost"
    BY <2>1, MeasureIs DEF Cash, Sides
  <2>3. Signed(r, x, Plus(own), Minus(own)) = 0
    BY <1>1, <1>3 DEF Signed, Plus, Minus, TradedIn, Adjusted, Sides
  <2> QED
    BY <1>1, <1>3, <2>2, <2>3 DEF EventOf, r, business
<1> QED
  BY <1>4, <1>5, <1>6, <1>7, MeasureCases

LEMMA EventFacts ==
  ASSUME NEW s \in Stocks, NEW k \in DOMAIN Weights[s]
  PROVE  k \in Days /\ k \in Nat /\ Weights[s][k] \in ExRights /\ Weights[s][k].bonus \in Nat
  BY WeightsAssumption DEF Days, ExRights

LEMMA AddedType ==
  ASSUME NEW n \in Nat, NEW w \in ExRights
  PROVE  /\ AddGift(n, w) - n \in Int /\ AfterEvent(n, w) - AddGift(n, w) \in Int
         /\ (AddGift(n, w) - n) + (AfterEvent(n, w) - AddGift(n, w)) = AfterEvent(n, w) - n
         /\ AfterEvent(n, w) - n \in Int
  BY AddGiftFacts, AfterEventFacts

LEMMA SideRecordsFacts ==
  ASSUME NEW side \in Sides, NEW s \in Stocks, NEW n \in Nat, NEW k \in DOMAIN Weights[s]
  PROVE  LET evs == SideRecords(side, s, n, k)
         IN  /\ evs \in Seq(Record)
             /\ \A i \in 1 .. Len(evs) : EventOf(evs[i], k)
             /\ \A e \in Measures :
                  Total(Column(e, evs)) = SideEffect(e, side, s, n, Weights[s][k])
<1> DEFINE w == Weights[s][k]
           paid == n * w.bonus
           added == AddGift(n, w) - n
           changed == AfterEvent(n, w) - AddGift(n, w)
           r1 == TradeRecord(k, Dividend(side), s, 0, paid, 0, 0)
           r2 == TradeRecord(k, Gift(side), s, added, 0, 0, 0)
           r3 == TradeRecord(k, Suogu(side), s, changed, 0, 0, 0)
           paying == Dividend(side) # "" /\ w.bonus # 0
           one == When(paying, r1)
           two == When(added # 0, r2)
           three == When(changed # 0, r3)
<1>1. k \in Nat /\ w \in ExRights /\ w.bonus \in Nat
  BY EventFacts
<1>2. SideRecords(side, s, n, k) = (one \o two) \o three
  BY DEF SideRecords, EventRecords
<1>3. paid \in Int /\ paid \in Nat /\ (w.bonus = 0 => paid = 0)
  BY <1>1, TimesType
<1>4. added \in Int /\ changed \in Int /\ added + changed = AfterEvent(n, w) - n
  BY <1>1, AddedType
<1>5. (Dividend(side) # "" <=> side # "short") /\ paying \in BOOLEAN
  BY DEF Dividend, Sides
<1> HIDE DEF paying, added, changed, paid, w
<1>6. ASSUME paying
      PROVE  /\ r1 \in Record /\ EventOf(r1, k)
             /\ \A e \in Measures :
                  Effect(e, r1) = IF e = Cash THEN IF side = "long" THEN paid ELSE 0 - paid
                                  ELSE IF e[1] = "cost" /\ side = "debt" THEN paid
                                  ELSE 0
  <2>1. side # "short"
    BY <1>5, <1>6 DEF paying
  <2>2. Cash \in Measures
    BY CashIsMeasure
  <2> QED
    BY <1>1, <1>3, <2>1, <2>2, DividendEffect
<1>7. /\ r2 \in Record /\ EventOf(r2, k)
      /\ \A e \in Measures : Effect(e, r2) = IF e = <<side, s>> THEN added ELSE 0
  <2>1. Gift(side) \in {Gift(side), Suogu(side)} /\ Cash \in Measures
    BY CashIsMeasure
  <2> QED
    BY <1>1, <1>4, <2>1, SharesEffect
<1>8. /\ r3 \in Record /\ EventOf(r3, k)
      /\ \A e \in Measures : Effect(e, r3) = IF e = <<side, s>> THEN changed ELSE 0
  <2>1. Suogu(side) \in {Gift(side), Suogu(side)} /\ Cash \in Measures
    BY CashIsMeasure
  <2> QED
    BY <1>1, <1>4, <2>1, SharesEffect
<1> HIDE DEF r1, r2, r3
<1>9. /\ one \in Seq(Record) /\ \A i \in 1 .. Len(one) : EventOf(one[i], k)
      /\ \A e \in Measures : Total(Column(e, one)) = IF paying THEN Effect(e, r1) ELSE 0
  BY <1>5, <1>6, WhenFacts
<1>10. /\ two \in Seq(Record) /\ \A i \in 1 .. Len(two) : EventOf(two[i], k)
       /\ \A e \in Measures : Total(Column(e, two)) = IF added # 0 THEN Effect(e, r2) ELSE 0
  BY <1>7, WhenFacts
<1>11. /\ three \in Seq(Record) /\ \A i \in 1 .. Len(three) : EventOf(three[i], k)
       /\ \A e \in Measures : Total(Column(e, three)) = IF changed # 0 THEN Effect(e, r3) ELSE 0
  BY <1>8, WhenFacts
<1> HIDE DEF one, two, three
<1>12. /\ one \o two \in Seq(Record) /\ \A i \in 1 .. Len(one \o two) : EventOf((one \o two)[i], k)
  BY <1>9, <1>10, EventsJoin
<1>13. /\ (one \o two) \o three \in Seq(Record)
       /\ \A i \in 1 .. Len((one \o two) \o three) : EventOf(((one \o two) \o three)[i], k)
  BY <1>11, <1>12, EventsJoin
<1>14. ASSUME NEW e \in Measures
       PROVE  Total(Column(e, (one \o two) \o three)) = SideEffect(e, side, s, n, w)
  <2> DEFINE t1 == IF paying THEN Effect(e, r1) ELSE 0
             t2 == IF e = <<side, s>> THEN added ELSE 0
             t3 == IF e = <<side, s>> THEN changed ELSE 0
  <2>1. Total(Column(e, one)) = t1 /\ Total(Column(e, two)) = t2 /\ Total(Column(e, three)) = t3
    BY <1>7, <1>8, <1>9, <1>10, <1>11
  <2>2. Total(Column(e, (one \o two) \o three)) = (t1 + t2) + t3
    <3>1. Total(Column(e, one \o two)) = Total(Column(e, one)) + Total(Column(e, two))
      BY <1>9, <1>10, ColumnConcat
    <3>2. Total(Column(e, (one \o two) \o three))
            = Total(Column(e, one \o two)) + Total(Column(e, three))
      BY <1>11, <1>12, ColumnConcat
    <3> QED
      BY <2>1, <3>1, <3>2
  <2>3. CASE e = <<side, s>>
    <3>1. e # Cash /\ e[1] # "cost"
      BY <2>3 DEF Cash, Sides
    <3>2. t1 = 0 /\ t2 = added /\ t3 = changed
      BY <1>6, <2>3, <3>1
    <3>3. SideEffect(e, side, s, n, w) = AfterEvent(n, w) - n
      BY <2>3 DEF SideEffect
    <3> QED
      BY <1>4, <2>2, <3>2, <3>3
  <2>4. CASE e # <<side, s>> /\ paying
    <3>1. t2 = 0 /\ t3 = 0
      BY <2>4
    <3>2. side # "short"
      BY <1>5, <2>4 DEF paying
    <3>3. t1 = SideEffect(e, side, s, n, w) /\ t1 \in Int
      BY <1>3, <1>6, <2>4, <3>2 DEF SideEffect, paid, Sides
    <3> QED
      BY <2>2, <3>1, <3>3
  <2>5. CASE e # <<side, s>> /\ ~paying
    <3>1. t1 = 0 /\ t2 = 0 /\ t3 = 0
      BY <2>5
    <3>2. side = "short" \/ paid = 0
      BY <1>3, <1>5, <2>5 DEF paying
    <3>3. SideEffect(e, side, s, n, w) = 0
      <4>1. CASE side = "short"
        BY <2>5, <4>1 DEF SideEffect
      <4>2. CASE paid = 0
        <5>1. n * w.bonus = 0 /\ 0 - n * w.bonus = 0
          BY <4>2 DEF paid
        <5> QED
          BY <2>5, <5>1 DEF SideEffect
      <4> QED
        BY <3>2, <4>1, <4>2
    <3> QED
      BY <2>2, <3>1, <3>3
  <2> QED
    BY <2>3, <2>4, <2>5
<1> QED
  BY <1>2, <1>13, <1>14 DEF w

-----------------------------------------------------------------------------
(* One event on one holding.                                               *)

LEMMA CeilDivType ==
  ASSUME NEW x \in Int, NEW y \in Nat \ {0}
  PROVE  CeilDiv(x, y) \in Int
  BY DEF CeilDiv

LEMMA WeighPositionFacts ==
  ASSUME NEW pos \in Position, pos.number > 0, NEW w \in ExRights, NEW paid \in {0, 1}
  PROVE  LET new == WeighPosition(pos, w, paid)
         IN  /\ new \in Position /\ new.stock = pos.stock
             /\ new.number = AfterEvent(pos.number, w) /\ new.number > 0
             /\ Gain(new) = Gain(pos) + (IF paid = 1 THEN pos.number * w.bonus ELSE 0)
<1> DEFINE gifted == AddGift(pos.number, w)
           number == AfterEvent(pos.number, w)
           base   == pos.totalNumber + (gifted - pos.number)
           total  == IF number = gifted THEN base ELSE CeilDiv(base * number, gifted)
           money  == paid * pos.number * w.bonus
           sells  == pos.sellMoney + money
           new    == [pos EXCEPT !.number = number, !.totalNumber = total, !.sellMoney = sells]
<1>1. /\ pos.stock \in Stocks /\ pos.number \in Nat /\ pos.totalNumber \in Int
      /\ pos.buyMoney \in Int /\ pos.totalCost \in Int /\ pos.sellMoney \in Int
      /\ Gain(pos) = pos.sellMoney - pos.buyMoney - pos.totalCost
  BY PositionFields
<1>2. gifted \in Nat /\ gifted > 0 /\ number \in Nat /\ number > 0
  BY <1>1, AddGiftFacts, AfterEventFacts
<1>3. w.bonus \in Nat /\ pos.number * w.bonus \in Int
  BY <1>1, TimesType DEF ExRights
<1>4. money \in Int /\ money = IF paid = 1 THEN pos.number * w.bonus ELSE 0
  <2>1. CASE paid = 1
    <3>1. paid * pos.number = pos.number
      BY <1>1, <2>1
    <3> QED
      BY <1>3, <2>1, <3>1
  <2>2. CASE paid = 0
    <3>1. paid * pos.number = 0 /\ 0 * w.bonus = 0
      BY <1>1, <1>3, <2>2
    <3> QED
      BY <2>2, <3>1
  <2> QED
    BY <2>1, <2>2
<1>5. base \in Int /\ base * number \in Int
  BY <1>1, <1>2, TimesInt
<1>6. total \in Int
  BY <1>2, <1>5, CeilDivType
<1>7. sells \in Int
  BY <1>1, <1>4
<1>8. WeighPosition(pos, w, paid) = new
  BY DEF WeighPosition
<1> HIDE DEF gifted, number, base, total, sells, money
<1>9. new \in Position /\ new.stock = pos.stock /\ new.number = number
      /\ new.buyMoney = pos.buyMoney /\ new.totalCost = pos.totalCost /\ new.sellMoney = sells
  BY <1>2, <1>6, <1>7 DEF Position
<1>10. Gain(new) = Gain(pos) + money
  <2> HIDE DEF new
  <2>1. Gain(new) = sells - pos.buyMoney - pos.totalCost
    BY <1>9 DEF Gain
  <2> QED
    BY <1>1, <1>4, <2>1 DEF sells
<1> QED
  BY <1>2, <1>4, <1>8, <1>9, <1>10 DEF number

LEMMA SeqFrom ==
  ASSUME NEW n \in Nat, NEW S, NEW f, f = [i \in 1 .. n |-> f[i]],
         \A i \in 1 .. n : f[i] \in S
  PROVE  f \in Seq(S) /\ Len(f) = n
<1>1. f \in [1 .. n -> S]
  OBVIOUS
<1>2. f \in Seq(S)
  BY <1>1, IsASeq
<1>3. DOMAIN f = 1 .. n
  BY <1>1
<1> QED
  BY <1>2, <1>3, LenProperties

LEMMA TimesPlus ==
  ASSUME NEW x \in Int, NEW y \in Int, NEW c \in Int
  PROVE  (x + y) * c = x * c + y * c /\ x * c \in Int /\ y * c \in Int /\ (x + y) * c \in Int
  OBVIOUS

(* A sequence of numbers, each multiplied.                                 *)
LEMMA TotalScaled ==
  ASSUME NEW v \in Seq(Int), NEW w \in Seq(Int), Len(w) = Len(v), NEW c \in Int,
         \A i \in 1 .. Len(v) : w[i] = v[i] * c
  PROVE  Total(w) = Total(v) * c
<1>1. PICK f : Sums(f, v) /\ Total(v) = f[Len(v)]
  BY TotalIsSums
<1>2. PICK g : Sums(g, w) /\ Total(w) = g[Len(w)]
  BY TotalIsSums
<1>3. \A i \in 0 .. Len(v) : f[i] \in Int
  BY <1>1, SumsType
<1> DEFINE T == {n \in 0 .. Len(v) : g[n] = f[n] * c}
<1>4. 0 \in T
  <2>1. f[0] = 0 /\ g[0] = 0 /\ 0 * c = 0
    BY <1>1, <1>2 DEF Sums
  <2> QED
    BY <2>1
<1>5. ASSUME NEW n \in T, n < Len(v) PROVE n + 1 \in T
  <2>1. n + 1 \in 1 .. Len(v) /\ (n + 1) - 1 = n /\ n \in 0 .. Len(v)
    BY <1>5
  <2>2. f[n + 1] = f[n] + v[n + 1] /\ g[n + 1] = g[n] + w[n + 1]
    BY <1>1, <1>2, <2>1 DEF Sums
  <2>3. f[n] \in Int /\ v[n + 1] \in Int /\ w[n + 1] = v[n + 1] * c /\ g[n] = f[n] * c
    BY <1>3, <1>5, <2>1
  <2>4. (f[n] + v[n + 1]) * c = f[n] * c + v[n + 1] * c
    BY <2>3, TimesPlus
  <2>5. g[n + 1] = f[n + 1] * c
    BY <2>2, <2>3, <2>4
  <2> QED
    BY <2>1, <2>5
<1>6. T = 0 .. Len(v)
  <2>1. T \subseteq 0 .. Len(v) /\ Len(v) \in Nat
    OBVIOUS
  <2> HIDE DEF T
  <2> QED
    BY <1>4, <1>5, <2>1, BoundedInduction
<1>7. Len(v) \in T
  BY <1>6
<1> QED
  BY <1>1, <1>2, <1>7

LEMMA TimesAround ==
  ASSUME NEW n \in Int, NEW u \in Int, NEW m \in Int
  PROVE  (n * u) * m = m * (u * n)
  OBVIOUS

LEMMA PosTimes ==
  ASSUME NEW x \in Pos, NEW y \in Pos PROVE x * y \in Pos
<1>1. x \in Nat /\ y \in Nat /\ x > 0 /\ y > 0
  BY DEF Pos
<1>2. x * y \in Nat /\ x * y > 0
  BY <1>1, TimesType
<1> QED
  BY <1>2 DEF Pos

LEMMA WeighBorrowFacts ==
  ASSUME NEW bor \in Debt, LotTotal(bor.record_list) = bor.number * bor.unit,
         NEW w \in ExRights
  PROVE  LET new == WeighBorrow(bor, w)
         IN  /\ new \in Debt /\ new.number = AfterEvent(bor.number, w)
             /\ LotTotal(new.record_list) = new.number * new.unit
<1> DEFINE number == AfterEvent(bor.number, w)
           unit   == bor.unit * bor.number
           lots   == bor.record_list
           scaled == [i \in DOMAIN lots |-> [lots[i] EXCEPT !.number = @ * number]]
           new    == [number |-> number, unit |-> unit, record_list |-> scaled]
<1>1. bor.number \in Pos /\ bor.unit \in Pos /\ lots \in Seq(Lot)
      /\ bor.number \in Nat /\ bor.number > 0 /\ bor.number \in Int /\ bor.unit \in Int
  BY DEF Debt, Pos
<1>2. number \in Pos /\ number \in Int
  BY <1>1, AfterEventFacts DEF Pos
<1>3. CASE number = bor.number
  <2>1. WeighBorrow(bor, w) = bor
    BY <1>3 DEF WeighBorrow
  <2> QED
    BY <1>3, <2>1
<1>4. CASE number # bor.number
  <2>1. WeighBorrow(bor, w) = new
    BY <1>4 DEF WeighBorrow
  <2> HIDE DEF number
  <2>2. unit \in Pos
    BY <1>1, PosTimes
  <2>3. DOMAIN lots = 1 .. Len(lots) /\ Len(lots) \in Nat
        /\ \A i \in 1 .. Len(lots) : lots[i] \in Lot
    BY <1>1
  <2>4. ASSUME NEW i \in 1 .. Len(lots)
        PROVE  scaled[i] \in Lot /\ scaled[i].number = lots[i].number * number
    <3> DEFINE more == lots[i].number * number
    <3>1. lots[i].number \in Pos /\ lots[i] \in Lot
      BY <2>3 DEF Lot
    <3>2. more \in Pos
      BY <1>2, <3>1, PosTimes
    <3>3. scaled[i] = [lots[i] EXCEPT !.number = more]
      BY <2>3
    <3> HIDE DEF more
    <3>4. [lots[i] EXCEPT !.number = more] \in Lot /\ [lots[i] EXCEPT !.number = more].number = more
      BY <3>1, <3>2 DEF Lot
    <3> QED
      BY <3>3, <3>4 DEF more
  <2>5. scaled \in Seq(Lot) /\ Len(scaled) = Len(lots)
    <3>1. scaled = [i \in 1 .. Len(lots) |-> scaled[i]]
      BY <2>3
    <3>2. \A i \in 1 .. Len(lots) : scaled[i] \in Lot
      BY <2>4
    <3> HIDE DEF scaled
    <3> QED
      BY <2>3, <3>1, <3>2, SeqFrom
  <2> HIDE DEF scaled
  <2>6. LotTotal(scaled) = LotTotal(lots) * number
    <3> DEFINE v == Amounts(lots, "number")
               x == Amounts(scaled, "number")
    <3>1. Counting(lots, "number", Lot) /\ Counting(scaled, "number", Lot)
      BY <1>1, <2>5, LotsCount
    <3>2. /\ v \in Seq(Int) /\ Len(v) = Len(lots)
          /\ \A i \in 1 .. Len(lots) : v[i] = lots[i]["number"]
      BY <3>1, AmountsType
    <3>3. /\ x \in Seq(Int) /\ Len(x) = Len(scaled)
          /\ \A i \in 1 .. Len(scaled) : x[i] = scaled[i]["number"]
      BY <3>1, AmountsType
    <3>4. \A i \in 1 .. Len(v) : x[i] = v[i] * number
      BY <2>4, <2>5, <3>2, <3>3
    <3> HIDE DEF v, x, scaled
    <3>5. Total(x) = Total(v) * number
      BY <1>2, <2>5, <3>2, <3>3, <3>4, TotalScaled
    <3> QED
      BY <3>5, LotTotalIsAmounts DEF v, x
  <2>7. LotTotal(scaled) = number * unit
    <3>1. (bor.number * bor.unit) * number = number * (bor.unit * bor.number)
      BY <1>1, <1>2, TimesAround
    <3> QED
      BY <2>6, <3>1
  <2> HIDE DEF unit
  <2>8. new \in Debt
    BY <1>2, <2>2, <2>5 DEF Debt
  <2> QED
    BY <2>1, <2>7, <2>8 DEF number
<1> QED
  BY <1>3, <1>4

-----------------------------------------------------------------------------
(* One event on an account.                                                *)

LEMMA BonusType ==
  ASSUME NEW n \in Nat, NEW w \in ExRights
  PROVE  n * w.bonus \in Int
  BY TimesType DEF ExRights

LEMMA EventIntro ==
  ASSUME NEW a, IsAccount(a), NEW b, IsAccount(b), SameFrame(a, b),
         NEW side \in Sides, NEW s \in Stocks, NEW n \in Nat, NEW w \in ExRights,
         b.m_cash = a.m_cash + (IF side = "long" THEN n * w.bonus
                                ELSE IF side = "debt" THEN 0 - n * w.bonus ELSE 0),
         b.m_borrow_cash = a.m_borrow_cash,
         Net(b) = Net(a) + (IF side = "long" THEN n * w.bonus ELSE 0),
         Num(a, side, s) = n, Num(b, side, s) = AfterEvent(n, w),
         \A own \in Sides, x \in Stocks :
            ~(own = side /\ x = s) => Num(b, own, x) = Num(a, own, x)
  PROVE  Struck(a, b, side, s, n, w)
<1> DEFINE paid == n * w.bonus
<1>1. paid \in Int
  BY BonusType
<1>2. Net(a) \in Int /\ a.m_cash \in Int /\ a.m_borrow_cash \in Int /\ InitCash \in Int
      /\ AfterEvent(n, w) \in Nat
  BY NetType, AccountNumbers, AfterEventFacts, ParameterAssumption
<1>3. side \in {"long", "short", "debt"}
  BY DEF Sides
<1>4. ASSUME NEW e \in Measures
      PROVE  Level(e, b) = Level(e, a) + SideEffect(e, side, s, n, w)
  <2>1. CASE e = Cash
    <3>1. e # <<side, s>>
      BY <1>3, <2>1 DEF Cash
    <3>2. SideEffect(e, side, s, n, w) = IF side = "long" THEN paid
                                        ELSE IF side = "debt" THEN 0 - paid ELSE 0
      BY <2>1, <3>1 DEF SideEffect
    <3>3. Level(e, a) = a.m_cash - InitCash /\ Level(e, b) = b.m_cash - InitCash
      BY <2>1 DEF Level, Cash
    <3> HIDE DEF paid
    <3> QED
      BY <1>1, <1>2, <3>2, <3>3 DEF paid
  <2>2. CASE e = <<"loan", NoStock>>
    <3>1. SideEffect(e, side, s, n, w) = 0
      BY <1>3, <2>2 DEF SideEffect, Cash
    <3>2. Level(e, a) = a.m_borrow_cash /\ Level(e, b) = b.m_borrow_cash
      BY <2>2 DEF Level
    <3> QED
      BY <1>2, <3>1, <3>2
  <2>3. CASE e = <<"cost", NoStock>>
    <3>1. SideEffect(e, side, s, n, w) = IF side = "debt" THEN paid ELSE 0
      BY <1>3, <2>3 DEF SideEffect, Cash
    <3>2. Level(e, a) = Net(a) - a.m_cash /\ Level(e, b) = Net(b) - b.m_cash
      BY <2>3 DEF Level
    <3> HIDE DEF paid
    <3> QED
      BY <1>1, <1>2, <1>3, <3>1, <3>2 DEF paid
  <2>4. ASSUME NEW own \in Sides, NEW x \in Stocks, e = <<own, x>>
        PROVE  Level(e, b) = Level(e, a) + SideEffect(e, side, s, n, w)
    <3>1. Level(e, a) = Num(a, own, x) /\ Level(e, b) = Num(b, own, x)
      BY <2>4 DEF Level, Sides
    <3>2. SideEffect(e, side, s, n, w)
            = IF own = side /\ x = s THEN AfterEvent(n, w) - n ELSE 0
      BY <2>4 DEF SideEffect, Cash, Sides
    <3>3. Num(a, own, x) \in Nat
      BY NumType
    <3> QED
      BY <1>2, <3>1, <3>2, <3>3
  <2> QED
    BY <2>1, <2>2, <2>3, <2>4, MeasureCases
<1> QED
  BY <1>4 DEF Struck

LEMMA ExceptIsPut ==
  ASSUME NEW map, map = [x \in DOMAIN map |-> map[x]], NEW s \in DOMAIN map, NEW v
  PROVE  /\ [map EXCEPT ![s] = v] = Put(map, s, v)
         /\ DOMAIN Put(map, s, v) = DOMAIN map
<1>1. DOMAIN map \cup {s} = DOMAIN map
  OBVIOUS
<1> QED
  BY <1>1 DEF Put

LEMMA HeldPosition ==
  ASSUME NEW map, Positions(map), NEW s \in DOMAIN map
  PROVE  /\ s \in Stocks /\ map[s] \in Position /\ map[s].stock = s /\ map[s].number > 0
         /\ NumberIn(map, s) = map[s].number /\ map[s].number \in Nat
         /\ GainIn(map, s) = Gain(map[s]) /\ Gain(map[s]) \in Int
<1>1. s \in Stocks /\ map[s] \in Position /\ map[s].stock = s /\ map[s].number > 0
  BY DEF Positions
<1>2. GainIn(map, s) \in Int /\ GainIn(map, s) = Gain(map[s])
  BY GainInType DEF GainIn
<1> QED
  BY <1>1, <1>2, PositionFields DEF NumberIn

LEMMA StruckLong ==
  ASSUME NEW a, IsAccount(a), NEW s \in DOMAIN a.m_position, NEW w \in ExRights,
         NEW b, b = [a EXCEPT !.m_position[s] = WeighPosition(a.m_position[s], w, 1),
                              !.m_cash = @ + a.m_position[s].number * w.bonus]
  PROVE  s \in Stocks /\ Struck(a, b, "long", s, Num(a, "long", s), w)
         /\ Num(b, "long", s) = AfterEvent(Num(a, "long", s), w)
<1> DEFINE map == a.m_position
           n == map[s].number
           pos == WeighPosition(map[s], w, 1)
           new == Put(map, s, pos)
           cash == a.m_cash + n * w.bonus
<1>1. Positions(map)
  BY AccountFields
<1>2. /\ s \in Stocks /\ map[s] \in Position /\ map[s].stock = s /\ map[s].number > 0
      /\ NumberIn(map, s) = n /\ n \in Nat
      /\ GainIn(map, s) = Gain(map[s]) /\ Gain(map[s]) \in Int
  BY <1>1, HeldPosition
<1>3. /\ pos \in Position /\ pos.stock = s
      /\ pos.number = AfterEvent(n, w) /\ pos.number > 0
      /\ Gain(pos) = Gain(map[s]) + n * w.bonus
  BY <1>2, WeighPositionFacts
<1>4. b = [a EXCEPT !.m_position = [map EXCEPT ![s] = pos], !.m_cash = cash]
  BY Shape(a) DEF Shape, Fields, IsAccount
<1> HIDE DEF pos
<1>5. [map EXCEPT ![s] = pos] = new /\ DOMAIN new = DOMAIN map
  BY <1>1, ExceptIsPut DEF Positions
<1>6. /\ Positions(new) /\ NumberIn(new, s) = AfterEvent(n, w)
      /\ \A x : x # s => NumberIn(new, x) = NumberIn(map, x)
      /\ OpenGain(new) = OpenGain(map) + (Gain(pos) - GainIn(map, s))
  BY <1>1, <1>2, <1>3, PutPosition
<1>7. n * w.bonus \in Int /\ a.m_cash \in Int /\ cash \in Int
  BY <1>2, BonusType, AccountNumbers
<1> HIDE DEF new, cash, map
<1>8. b = [a EXCEPT !.m_position = new, !.m_cash = cash]
  BY <1>4, <1>5
<1>9. /\ IsAccount(b) /\ b.m_trade_list = a.m_trade_list /\ b.m_cash = cash
      /\ b.m_checkin_cash = a.m_checkin_cash /\ b.m_checkout_cash = a.m_checkout_cash
      /\ b.m_borrow_cash = a.m_borrow_cash
      /\ b.m_checkin_stock = a.m_checkin_stock /\ b.m_checkout_stock = a.m_checkout_stock
      /\ b.m_position = new /\ b.m_position_history = a.m_position_history
      /\ b.m_short_position = a.m_short_position /\ b.m_borrow_stock = a.m_borrow_stock
      /\ b.m_short_position_history = a.m_short_position_history
      /\ b.m_last_update_datetime = a.m_last_update_datetime
      /\ b.m_tmp_weight_checked_until = a.m_tmp_weight_checked_until
  BY <1>6, <1>7, <1>8 DEF IsAccount, Shape, Fields
<1>10. SameFrame(a, b)
  BY <1>5, <1>9 DEF SameFrame, map
<1>11. Net(b) = Net(a) + n * w.bonus
  <2>1. CashPart(b) = CashPart(a)
    BY <1>9 DEF CashPart
  <2>2. ShortPart(b) = ShortPart(a)
    BY <1>9 DEF ShortPart
  <2>3. OpenGain(new) = OpenGain(map) + n * w.bonus
    <3>1. OpenGain(map) \in Int
      BY AccountNumbers DEF map
    <3> QED
      BY <1>2, <1>3, <1>6, <1>7, <3>1
  <2>4. LongPart(b) = LongPart(a) + n * w.bonus
    <3> DEFINE paid == n * w.bonus
    <3>1. OpenGain(new) = OpenGain(map) + paid /\ paid \in Int
      BY <1>7, <2>3
    <3> HIDE DEF paid
    <3>2. LongPart(b) = LongPart(a) + paid
      BY <1>9, <3>1, AccountNumbers DEF LongPart, map
    <3> QED
      BY <3>2 DEF paid
  <2>5. CashPart(a) \in Int /\ LongPart(a) \in Int /\ ShortPart(a) \in Int
    BY NetParts
  <2>6. Net(a) = (CashPart(a) + LongPart(a)) + ShortPart(a)
        /\ Net(b) = (CashPart(b) + LongPart(b)) + ShortPart(b)
    BY <1>9, NetParts
  <2> QED
    BY <1>7, <2>1, <2>2, <2>4, <2>5, <2>6
<1>12. Num(a, "long", s) = n /\ Num(b, "long", s) = AfterEvent(n, w)
  <2>1. Num(a, "long", s) = NumberIn(a.m_position, s)
        /\ Num(b, "long", s) = NumberIn(b.m_position, s)
    BY NumIs
  <2>2. NumberIn(a.m_position, s) = n
    BY <1>2 DEF map
  <2> QED
    BY <1>6, <1>9, <2>1, <2>2
<1>13. \A own \in Sides, x \in Stocks :
          ~(own = "long" /\ x = s) => Num(b, own, x) = Num(a, own, x)
  <2>1. ASSUME NEW x \in Stocks
        PROVE  /\ x # s => Num(b, "long", x) = Num(a, "long", x)
               /\ Num(b, "short", x) = Num(a, "short", x)
               /\ Num(b, "debt", x) = Num(a, "debt", x)
    <3>1. x # s => NumberIn(b.m_position, x) = NumberIn(a.m_position, x)
      BY <1>6, <1>9 DEF map
    <3>2. NumberIn(b.m_short_position, x) = NumberIn(a.m_short_position, x)
          /\ NumberIn(b.m_borrow_stock, x) = NumberIn(a.m_borrow_stock, x)
      BY <1>9
    <3> QED
      BY <3>1, <3>2, NumIs, ZenonT(40)
  <2> QED
    BY <2>1 DEF Sides
<1>14. "long" \in Sides /\ b.m_cash = a.m_cash + n * w.bonus
  BY <1>9 DEF Sides, cash
<1> QED
  BY <1>2, <1>9, <1>10, <1>11, <1>12, <1>13, <1>14, EventIntro

LEMMA StruckShort ==
  ASSUME NEW a, IsAccount(a), NEW s \in DOMAIN a.m_short_position, NEW w \in ExRights,
         NEW b, b = [a EXCEPT !.m_short_position[s]
                                 = WeighPosition(a.m_short_position[s], w, 0)]
  PROVE  s \in Stocks /\ Struck(a, b, "short", s, Num(a, "short", s), w)
         /\ Num(b, "short", s) = AfterEvent(Num(a, "short", s), w)
<1> DEFINE map == a.m_short_position
           n == map[s].number
           pos == WeighPosition(map[s], w, 0)
           new == Put(map, s, pos)
<1>1. Positions(map)
  BY AccountFields
<1>2. /\ s \in Stocks /\ map[s] \in Position /\ map[s].stock = s /\ map[s].number > 0
      /\ NumberIn(map, s) = n /\ n \in Nat
      /\ GainIn(map, s) = Gain(map[s]) /\ Gain(map[s]) \in Int
  BY <1>1, HeldPosition
<1>3. /\ pos \in Position /\ pos.stock = s
      /\ pos.number = AfterEvent(n, w) /\ pos.number > 0
      /\ Gain(pos) = Gain(map[s]) + 0
  BY <1>2, WeighPositionFacts
<1>4. b = [a EXCEPT !.m_short_position = [map EXCEPT ![s] = pos]]
  BY Shape(a) DEF Shape, Fields, IsAccount
<1> HIDE DEF pos
<1>5. [map EXCEPT ![s] = pos] = new /\ DOMAIN new = DOMAIN map
  BY <1>1, ExceptIsPut DEF Positions
<1>6. /\ Positions(new) /\ NumberIn(new, s) = AfterEvent(n, w)
      /\ \A x : x # s => NumberIn(new, x) = NumberIn(map, x)
      /\ OpenGain(new) = OpenGain(map) + (Gain(pos) - GainIn(map, s))
  BY <1>1, <1>2, <1>3, PutPosition
<1> HIDE DEF new, map
<1>8. b = [a EXCEPT !.m_short_position = new]
  BY <1>4, <1>5
<1>9. /\ IsAccount(b) /\ b.m_trade_list = a.m_trade_list /\ b.m_cash = a.m_cash
      /\ b.m_checkin_cash = a.m_checkin_cash /\ b.m_checkout_cash = a.m_checkout_cash
      /\ b.m_borrow_cash = a.m_borrow_cash
      /\ b.m_checkin_stock = a.m_checkin_stock /\ b.m_checkout_stock = a.m_checkout_stock
      /\ b.m_position = a.m_position /\ b.m_position_history = a.m_position_history
      /\ b.m_short_position = new /\ b.m_borrow_stock = a.m_borrow_stock
      /\ b.m_short_position_history = a.m_short_position_history
      /\ b.m_last_update_datetime = a.m_last_update_datetime
      /\ b.m_tmp_weight_checked_until = a.m_tmp_weight_checked_until
  BY <1>6, <1>8 DEF IsAccount, Shape, Fields
<1>10. SameFrame(a, b)
  BY <1>5, <1>9 DEF SameFrame, map
<1>11. Net(b) = Net(a) + 0
  <2>1. OpenGain(new) = OpenGain(map)
    <3>1. OpenGain(map) \in Int
      BY AccountNumbers DEF map
    <3> QED
      BY <1>2, <1>3, <1>6, <3>1
  <2>2. Net(b) = Net(a)
    BY <1>9, <2>1 DEF Net, map
  <2> QED
    BY <2>2, NetType
<1>12. Num(a, "short", s) = n /\ Num(b, "short", s) = AfterEvent(n, w)
  <2>1. Num(a, "short", s) = NumberIn(a.m_short_position, s)
        /\ Num(b, "short", s) = NumberIn(b.m_short_position, s)
    BY NumIs
  <2>2. NumberIn(a.m_short_position, s) = n
    BY <1>2 DEF map
  <2> QED
    BY <1>6, <1>9, <2>1, <2>2
<1>13. \A own \in Sides, x \in Stocks :
          ~(own = "short" /\ x = s) => Num(b, own, x) = Num(a, own, x)
  <2>1. ASSUME NEW x \in Stocks
        PROVE  /\ x # s => Num(b, "short", x) = Num(a, "short", x)
               /\ Num(b, "long", x) = Num(a, "long", x)
               /\ Num(b, "debt", x) = Num(a, "debt", x)
    <3>1. x # s => NumberIn(b.m_short_position, x) = NumberIn(a.m_short_position, x)
      BY <1>6, <1>9 DEF map
    <3>2. NumberIn(b.m_position, x) = NumberIn(a.m_position, x)
          /\ NumberIn(b.m_borrow_stock, x) = NumberIn(a.m_borrow_stock, x)
      BY <1>9
    <3> QED
      BY <3>1, <3>2, NumIs
  <2> QED
    BY <2>1 DEF Sides
<1>14. "short" \in Sides /\ b.m_cash = a.m_cash + 0 /\ "short" # "long" /\ "short" # "debt"
  BY <1>9, AccountNumbers DEF Sides
<1> QED
  BY <1>2, <1>9, <1>10, <1>11, <1>12, <1>13, <1>14, EventIntro

LEMMA StruckDebt ==
  ASSUME NEW a, IsAccount(a), NEW s \in DOMAIN a.m_borrow_stock, NEW w \in ExRights,
         NEW b, b = [a EXCEPT !.m_borrow_stock[s] = WeighBorrow(a.m_borrow_stock[s], w),
                              !.m_cash = @ - a.m_borrow_stock[s].number * w.bonus]
  PROVE  s \in Stocks /\ Struck(a, b, "debt", s, Num(a, "debt", s), w)
         /\ Num(b, "debt", s) = AfterEvent(Num(a, "debt", s), w)
<1> DEFINE map == a.m_borrow_stock
           n == map[s].number
           owed == WeighBorrow(map[s], w)
           new == Put(map, s, owed)
           cash == a.m_cash - n * w.bonus
<1>1. Debts(map)
  BY AccountFields
<1>2. /\ s \in Stocks /\ map[s] \in Debt /\ LotTotal(map[s].record_list) = map[s].number * map[s].unit
      /\ NumberIn(map, s) = n /\ n \in Nat
  BY <1>1 DEF Debts, Debt, Pos, NumberIn
<1>3. /\ owed \in Debt /\ owed.number = AfterEvent(n, w)
      /\ LotTotal(owed.record_list) = owed.number * owed.unit
  BY <1>2, WeighBorrowFacts
<1>4. b = [a EXCEPT !.m_borrow_stock = [map EXCEPT ![s] = owed], !.m_cash = cash]
  BY Shape(a) DEF Shape, Fields, IsAccount
<1> HIDE DEF owed
<1>5. [map EXCEPT ![s] = owed] = new /\ DOMAIN new = DOMAIN map
  BY <1>1, ExceptIsPut DEF Debts
<1>6. /\ Debts(new) /\ NumberIn(new, s) = AfterEvent(n, w)
      /\ \A x : x # s => NumberIn(new, x) = NumberIn(map, x)
  BY <1>1, <1>2, <1>3, PutDebt
<1>7. n * w.bonus \in Int /\ a.m_cash \in Int /\ cash \in Int
  BY <1>2, BonusType, AccountNumbers
<1> HIDE DEF new, map, cash
<1>8. b = [a EXCEPT !.m_borrow_stock = new, !.m_cash = cash]
  BY <1>4, <1>5
<1>9. /\ IsAccount(b) /\ b.m_trade_list = a.m_trade_list /\ b.m_cash = cash
      /\ b.m_checkin_cash = a.m_checkin_cash /\ b.m_checkout_cash = a.m_checkout_cash
      /\ b.m_borrow_cash = a.m_borrow_cash
      /\ b.m_checkin_stock = a.m_checkin_stock /\ b.m_checkout_stock = a.m_checkout_stock
      /\ b.m_position = a.m_position /\ b.m_position_history = a.m_position_history
      /\ b.m_short_position = a.m_short_position /\ b.m_borrow_stock = new
      /\ b.m_short_position_history = a.m_short_position_history
      /\ b.m_last_update_datetime = a.m_last_update_datetime
      /\ b.m_tmp_weight_checked_until = a.m_tmp_weight_checked_until
  BY <1>6, <1>7, <1>8 DEF IsAccount, Shape, Fields
<1>10. SameFrame(a, b)
  BY <1>5, <1>9 DEF SameFrame, map
<1>11. Net(b) = Net(a) + 0
  <2>2. Net(b) = Net(a)
    BY <1>9 DEF Net
  <2> QED
    BY <2>2, NetType
<1>12. Num(a, "debt", s) = n /\ Num(b, "debt", s) = AfterEvent(n, w)
  <2>1. Num(a, "debt", s) = NumberIn(a.m_borrow_stock, s)
        /\ Num(b, "debt", s) = NumberIn(b.m_borrow_stock, s)
    BY NumIs
  <2>2. NumberIn(a.m_borrow_stock, s) = n
    BY <1>2 DEF map
  <2> QED
    BY <1>6, <1>9, <2>1, <2>2
<1>13. \A own \in Sides, x \in Stocks :
          ~(own = "debt" /\ x = s) => Num(b, own, x) = Num(a, own, x)
  <2>1. ASSUME NEW x \in Stocks
        PROVE  /\ x # s => Num(b, "debt", x) = Num(a, "debt", x)
               /\ Num(b, "long", x) = Num(a, "long", x)
               /\ Num(b, "short", x) = Num(a, "short", x)
    <3>1. x # s => NumberIn(b.m_borrow_stock, x) = NumberIn(a.m_borrow_stock, x)
      BY <1>6, <1>9 DEF map
    <3>2. NumberIn(b.m_position, x) = NumberIn(a.m_position, x)
          /\ NumberIn(b.m_short_position, x) = NumberIn(a.m_short_position, x)
      BY <1>9
    <3> QED
      BY <3>1, <3>2, NumIs
  <2> QED
    BY <2>1 DEF Sides
<1>14. "debt" \in Sides /\ "debt" # "long" /\ b.m_cash = a.m_cash + (0 - n * w.bonus)
  <2> DEFINE paid == n * w.bonus
  <2>1. paid \in Int /\ a.m_cash \in Int /\ b.m_cash = a.m_cash - paid
    BY <1>7, <1>9 DEF cash
  <2> HIDE DEF paid
  <2>2. b.m_cash = a.m_cash + (0 - paid)
    BY <2>1
  <2> QED
    BY <2>2 DEF Sides, paid
<1>15. b.m_borrow_cash = a.m_borrow_cash
  BY <1>9
<1> QED
  BY <1>2, <1>9, <1>10, <1>11, <1>12, <1>13, <1>14, <1>15, EventIntro

-----------------------------------------------------------------------------
(* The batch of events of one update.                                      *)

LEMMA GrowsTrans ==
  ASSUME NEW x \in Seq(Record), NEW y \in Seq(Record), NEW z \in Seq(Record), NEW k,
         Grows(x, y, k), Grows(y, z, k)
  PROVE  Grows(x, z, k)
<1>1. /\ Len(x) \in Nat /\ Len(y) \in Nat /\ Len(z) \in Nat
      /\ Len(x) <= Len(y) /\ Len(y) <= Len(z)
  BY DEF Grows
<1>2. ASSUME NEW i \in 1 .. Len(x) PROVE z[i] = x[i]
  <2>1. i \in 1 .. Len(y)
    BY <1>1
  <2> QED
    BY <2>1 DEF Grows
<1>3. ASSUME NEW i \in 1 .. Len(z), i > Len(x) PROVE z[i].datetime = k
  <2>1. CASE i > Len(y)
    BY <2>1 DEF Grows
  <2>2. CASE ~(i > Len(y))
    <3>1. i \in 1 .. Len(y)
      BY <1>1, <2>2
    <3> QED
      BY <1>3, <3>1 DEF Grows
  <2> QED
    BY <2>1, <2>2
<1> QED
  BY <1>1, <1>2, <1>3 DEF Grows

LEMMA GrowsBy ==
  ASSUME NEW x \in Seq(Record), NEW evs \in Seq(Record), NEW k, NEW y, y = x \o evs,
         \A i \in 1 .. Len(evs) : evs[i].datetime = k
  PROVE  Grows(x, y, k)
<1>1. /\ Len(x) \in Nat /\ Len(evs) \in Nat /\ Len(y) = Len(x) + Len(evs)
      /\ \A i \in 1 .. Len(y) : y[i] = IF i <= Len(x) THEN x[i] ELSE evs[i - Len(x)]
  OBVIOUS
<1>2. ASSUME NEW i \in 1 .. Len(y), i > Len(x) PROVE y[i].datetime = k
  <2>1. i - Len(x) \in 1 .. Len(evs) /\ ~(i <= Len(x))
    BY <1>1, <1>2
  <2> QED
    BY <1>1, <2>1
<1>3. ASSUME NEW i \in 1 .. Len(x) PROVE y[i] = x[i]
  <2>1. i \in 1 .. Len(y) /\ i <= Len(x)
    BY <1>1
  <2> QED
    BY <1>1, <2>1
<1> QED
  BY <1>1, <1>2, <1>3 DEF Grows

LEMMA GrowsSelf ==
  ASSUME NEW x \in Seq(Record), NEW k
  PROVE  Grows(x, x, k)
  BY DEF Grows

LEMMA LevelType ==
  ASSUME NEW a, IsAccount(a), NEW e \in Measures
  PROVE  Level(e, a) \in Int
<1>1. /\ Net(a) \in Int /\ a.m_cash \in Int /\ a.m_borrow_cash \in Int /\ InitCash \in Int
      /\ Net(a) - a.m_cash \in Int /\ a.m_cash - InitCash \in Int
  BY NetType, AccountNumbers, ParameterAssumption
<1>2. CASE e = Cash \/ e = <<"loan", NoStock>> \/ e = <<"cost", NoStock>>
  BY <1>1, <1>2 DEF Level, Cash
<1>3. ASSUME NEW own \in Sides, NEW x \in Stocks, e = <<own, x>> PROVE Level(e, a) \in Int
  <2>1. Level(e, a) = Num(a, own, x)
    BY <1>3 DEF Level, Sides
  <2> QED
    BY <2>1, NumType
<1> QED
  BY <1>2, <1>3, MeasureCases

LEMMA StruckNumbers ==
  ASSUME NEW a, IsAccount(a), NEW b, NEW side \in Sides, NEW s \in Stocks, NEW n, NEW w,
         Struck(a, b, side, s, n, w)
  PROVE  \A own \in Sides, x \in Stocks :
            ~(own = side /\ x = s) => Num(b, own, x) = Num(a, own, x)
<1> SUFFICES ASSUME NEW own \in Sides, NEW x \in Stocks, ~(own = side /\ x = s)
             PROVE  Num(b, own, x) = Num(a, own, x)
  OBVIOUS
<1> DEFINE e == <<own, x>>
<1>1. e \in Measures /\ e[1] = own /\ e[2] = x /\ own \notin {"cash", "loan", "cost"}
  BY DEF Measures, Sides
<1>2. SideEffect(e, side, s, n, w) = 0
  BY <1>1 DEF SideEffect, Cash
<1>3. Level(e, b) = Level(e, a) + 0
  BY <1>1, <1>2 DEF Struck
<1>4. Level(e, b) = Num(b, own, x) /\ Level(e, a) = Num(a, own, x) /\ Num(a, own, x) \in Nat
  BY <1>1, NumType DEF Level
<1> QED
  BY <1>3, <1>4

LEMMA WindowFacts ==
  ASSUME NEW a, IsAccount(a), NEW s \in Stocks, NEW d, NEW k \in getWeight(a, s, d)
  PROVE  k \in DOMAIN Weights[s] /\ k \in Nat /\ lastDatetime(a) < k /\ k <= d
         /\ a.m_tmp_weight_checked_until[s] <= k
<1>1. k \in DOMAIN Weights[s] /\ ScanStart(a, s) <= k /\ k <= d
  BY DEF getWeight
<1>2. k \in Nat /\ lastDatetime(a) \in Nat /\ a.m_tmp_weight_checked_until[s] \in Nat
  BY <1>1, EventFacts, LogFacts DEF IsAccount
<1>3. ScanStart(a, s) = IF lastDatetime(a) + 1 >= a.m_tmp_weight_checked_until[s]
                        THEN lastDatetime(a) + 1 ELSE a.m_tmp_weight_checked_until[s]
  BY <1>2, MaxPair DEF ScanStart
<1> QED
  BY <1>1, <1>2, <1>3

LEMMA BatchGrows ==
  ASSUME NEW a, IsAccount(a), NEW d \in Nat, NEW k \in Nat, NEW b, Batch(a, d, k, b),
         NEW side \in Sides, NEW s \in Stocks, NEW n \in Nat,
         k \in getWeight(a, s, d),
         NEW c, c = [tm |-> c.tm, recs |-> b.recs \o SideRecords(side, s, n, k)],
         Struck(b.tm, c.tm, side, s, n, Weights[s][k])
  PROVE  Batch(a, d, k, c)
<1> DEFINE evs == SideRecords(side, s, n, k)
           recs == b.recs
           w == Weights[s][k]
<1>1. k \in DOMAIN Weights[s] /\ lastDatetime(a) < k /\ k <= d /\ k \in Nat
  BY WindowFacts
<1>2. /\ evs \in Seq(Record)
      /\ \A i \in 1 .. Len(evs) : EventOf(evs[i], k)
      /\ \A e \in Measures : Total(Column(e, evs)) = SideEffect(e, side, s, n, w)
  BY <1>1, SideRecordsFacts
<1>3. /\ recs \in Seq(Record) /\ InOrder(recs)
      /\ \A i \in 1 .. Len(recs) : Recent(a, d, k, recs[i])
  BY DEF Batch
<1> HIDE DEF evs, recs, w
<1>4. /\ recs \o evs \in Seq(Record) /\ Len(recs \o evs) = Len(recs) + Len(evs)
      /\ Len(recs) \in Nat /\ Len(evs) \in Nat
      /\ \A i \in 1 .. Len(recs \o evs) :
            (recs \o evs)[i] = IF i <= Len(recs) THEN recs[i] ELSE evs[i - Len(recs)]
  BY <1>2, <1>3
<1> DEFINE all == recs \o evs
<1>5. \A i \in 1 .. Len(all) : i <= Len(recs) => i \in 1 .. Len(recs) /\ all[i] = recs[i]
  BY <1>4
<1>6. \A i \in 1 .. Len(all) : ~(i <= Len(recs)) => i - Len(recs) \in 1 .. Len(evs)
                                                    /\ all[i] = evs[i - Len(recs)]
  BY <1>4
<1> HIDE DEF all
<1>7. ASSUME NEW i \in 1 .. Len(all)
      PROVE  /\ Recent(a, d, k, all[i]) /\ all[i].datetime \in Nat /\ all[i].datetime <= k
             /\ ~(i <= Len(recs)) => all[i].datetime = k
  <2>1. all[i] \in Record
    BY <1>4 DEF all
  <2>2. all[i].datetime \in Nat
    BY <2>1, RecordFields
  <2>3. CASE i <= Len(recs)
    <3>1. Recent(a, d, k, all[i])
      BY <1>3, <1>5, <2>3
    <3> QED
      BY <2>2, <2>3, <3>1 DEF Recent
  <2>4. CASE ~(i <= Len(recs))
    <3>1. EventOf(all[i], k)
      BY <1>2, <1>6, <2>4
    <3> QED
      BY <1>1, <2>2, <3>1 DEF Recent, EventOf
  <2> QED
    BY <2>3, <2>4
<1>8. InOrder(all)
  <2>1. ASSUME NEW i \in 1 .. Len(all), NEW j \in 1 .. Len(all), i <= j
        PROVE  all[i].datetime <= all[j].datetime
    <3>1. CASE j <= Len(recs)
      <4>1. i <= Len(recs)
        BY <1>4, <2>1, <3>1 DEF all
      <4> QED
        BY <1>3, <1>5, <2>1, <3>1, <4>1 DEF InOrder
    <3>2. CASE ~(j <= Len(recs))
      BY <1>7, <3>2
    <3> QED
      BY <3>1, <3>2
  <2> QED
    BY <2>1 DEF InOrder
<1>9. ASSUME NEW e \in Measures
      PROVE  Level(e, c.tm) = Level(e, a) + Total(Column(e, all))
  <2>1. Level(e, c.tm) = Level(e, b.tm) + Total(Column(e, evs))
    BY <1>2 DEF Struck, w
  <2>2. Level(e, b.tm) = Level(e, a) + Total(Column(e, recs))
    BY DEF Batch, recs
  <2>3. Total(Column(e, all)) = Total(Column(e, recs)) + Total(Column(e, evs))
    BY <1>2, <1>3, ColumnConcat DEF all
  <2>4. Total(Column(e, recs)) \in Int /\ Total(Column(e, evs)) \in Int /\ Level(e, a) \in Int
    BY <1>2, <1>3, ColumnTotalType, LevelType
  <2> QED
    BY <2>1, <2>2, <2>3, <2>4
<1>10. c.recs = all
  BY DEF all, recs, evs
<1>11. IsAccount(c.tm) /\ SameFrame(a, c.tm)
  BY DEF Struck, SameFrame, Batch
<1>12. all \in Seq(Record)
  BY <1>4 DEF all
<1>13. c = [tm |-> c.tm, recs |-> c.recs]
  BY <1>10 DEF all, recs, evs
<1> QED
  BY <1>7, <1>8, <1>9, <1>10, <1>11, <1>12, <1>13 DEF Batch

LEMMA WeighOneFacts ==
  ASSUME NEW a, IsAccount(a), NEW d \in Nat, NEW k \in Nat, NEW b, Batch(a, d, k, b),
         NEW side \in Sides, NEW s \in Stocks
  PROVE  LET c == WeighOne(a, d, side, k, s, b)
         IN  /\ Batch(a, d, k, c) /\ Grows(b.recs, c.recs, k)
             /\ Num(c.tm, side, s) = OnDay(a, d, k, s, Num(b.tm, side, s))
             /\ \A own \in Sides, x \in Stocks :
                   ~(own = side /\ x = s) => Num(c.tm, own, x) = Num(b.tm, own, x)
<1> DEFINE c == WeighOne(a, d, side, k, s, b)
           n == Num(b.tm, side, s)
           w == Weights[s][k]
<1>0. /\ IsAccount(b.tm) /\ b = [tm |-> b.tm, recs |-> b.recs]
      /\ b.recs \in Seq(Record) /\ Grows(b.recs, b.recs, k)
  BY GrowsSelf DEF Batch
<1>1. CASE k \notin getWeight(a, s, d)
  <2>1. c = b
    BY <1>1 DEF WeighOne
  <2> QED
    BY <1>0, <1>1, <2>1 DEF OnDay
<1>2. CASE k \in getWeight(a, s, d)
  <2>1. k \in DOMAIN Weights[s] /\ w \in ExRights
    BY <1>2, WindowFacts, EventFacts
  <2>2. n \in Nat
    BY <1>0, NumType
  <2>3. OnDay(a, d, k, s, n) = AfterEvent(n, w)
    BY <1>2 DEF OnDay
  <2>4. ASSUME c = [tm |-> c.tm, recs |-> b.recs \o SideRecords(side, s, n, k)],
               Struck(b.tm, c.tm, side, s, n, w), Num(c.tm, side, s) = AfterEvent(n, w)
        PROVE  /\ Batch(a, d, k, c) /\ Grows(b.recs, c.recs, k)
               /\ Num(c.tm, side, s) = OnDay(a, d, k, s, Num(b.tm, side, s))
               /\ \A own \in Sides, x \in Stocks :
                     ~(own = side /\ x = s) => Num(c.tm, own, x) = Num(b.tm, own, x)
    <3> HIDE DEF c
    <3>1. Batch(a, d, k, c)
      BY <1>2, <2>2, <2>4, BatchGrows
    <3> DEFINE evs == SideRecords(side, s, n, k)
    <3>2. evs \in Seq(Record) /\ \A i \in 1 .. Len(evs) : EventOf(evs[i], k)
      BY <2>1, <2>2, SideRecordsFacts
    <3> DEFINE new == b.recs \o evs
    <3> HIDE DEF new
    <3>f. \A x : c = [tm |-> x, recs |-> new] => c.recs = new
      OBVIOUS
    <3>g. c = [tm |-> c.tm, recs |-> new]
      BY <2>4 DEF new
    <3>3. c.recs = b.recs \o evs
      BY <3>f, <3>g, Zenon DEF new
    <3> HIDE DEF evs
    <3>4. Grows(b.recs, c.recs, k)
      BY <1>0, <3>2, <3>3, GrowsBy DEF EventOf
    <3> QED
      BY <1>0, <2>3, <2>4, <3>1, <3>4, StruckNumbers
  <2>5. CASE s \notin DOMAIN Held(b.tm, side)
    <3>1. c = b
      BY <1>2, <2>5 DEF WeighOne, Held, Sides
    <3>2. n = 0
      BY <2>5 DEF Num, NumberIn
    <3>3. AfterEvent(0, w) = 0
      BY <2>1, AfterEventFacts
    <3>4. OnDay(a, d, k, s, n) = n
      BY <2>3, <3>2, <3>3
    <3> QED
      BY <1>0, <3>1, <3>4
  <2>6. CASE side = "long" /\ s \in DOMAIN b.tm.m_position
    <3>1. c = WeighLong(b, s, k)
      BY <1>2, <2>6 DEF WeighOne
    <3>2. n = b.tm.m_position[s].number
      BY <2>6 DEF Num, Held, NumberIn
    <3> DEFINE t == [b.tm EXCEPT !.m_position[s] = WeighPosition(b.tm.m_position[s], w, 1),
                                 !.m_cash = @ + b.tm.m_position[s].number * w.bonus]
    <3>3. c = [tm |-> t, recs |-> b.recs \o SideRecords(side, s, n, k)]
      BY <2>6, <3>1, <3>2 DEF WeighLong, SideRecords, Dividend, Gift, Suogu
    <3>4. Struck(b.tm, t, side, s, n, w) /\ Num(t, side, s) = AfterEvent(n, w)
      BY <1>0, <2>1, <2>6, StruckLong, ZenonT(40)
    <3> HIDE DEF t, c, n, w
    <3>5. /\ c = [tm |-> c.tm, recs |-> b.recs \o SideRecords(side, s, n, k)]
          /\ Struck(b.tm, c.tm, side, s, n, w) /\ Num(c.tm, side, s) = AfterEvent(n, w)
      BY <3>3, <3>4
    <3> QED
      BY <2>4, <3>5 DEF c
  <2>7. CASE side = "debt" /\ s \in DOMAIN b.tm.m_borrow_stock
    <3>1. c = WeighDebt(b, s, k)
      BY <1>2, <2>7 DEF WeighOne
    <3>2. n = b.tm.m_borrow_stock[s].number
      BY <2>7 DEF Num, Held, NumberIn
    <3> DEFINE t == [b.tm EXCEPT !.m_borrow_stock[s] = WeighBorrow(b.tm.m_borrow_stock[s], w),
                                 !.m_cash = @ - b.tm.m_borrow_stock[s].number * w.bonus]
    <3>3. c = [tm |-> t, recs |-> b.recs \o SideRecords(side, s, n, k)]
      BY <2>7, <3>1, <3>2 DEF WeighDebt, SideRecords, Dividend, Gift, Suogu
    <3>4. Struck(b.tm, t, side, s, n, w) /\ Num(t, side, s) = AfterEvent(n, w)
      BY <1>0, <2>1, <2>7, StruckDebt, ZenonT(40)
    <3> HIDE DEF t, c, n, w
    <3>5. /\ c = [tm |-> c.tm, recs |-> b.recs \o SideRecords(side, s, n, k)]
          /\ Struck(b.tm, c.tm, side, s, n, w) /\ Num(c.tm, side, s) = AfterEvent(n, w)
      BY <3>3, <3>4
    <3> QED
      BY <2>4, <3>5 DEF c
  <2>8. CASE side = "short" /\ s \in DOMAIN b.tm.m_short_position
    <3>1. c = WeighShort(b, s, k)
      BY <1>2, <2>8 DEF WeighOne
    <3>2. n = b.tm.m_short_position[s].number
      BY <2>8 DEF Num, Held, NumberIn
    <3> DEFINE t == [b.tm EXCEPT !.m_short_position[s]
                                    = WeighPosition(b.tm.m_short_position[s], w, 0)]
    <3>3. c = [tm |-> t, recs |-> b.recs \o SideRecords(side, s, n, k)]
      BY <2>8, <3>1, <3>2 DEF WeighShort, SideRecords, Dividend, Gift, Suogu
    <3>4. Struck(b.tm, t, side, s, n, w) /\ Num(t, side, s) = AfterEvent(n, w)
      BY <1>0, <2>1, <2>8, StruckShort
    <3> HIDE DEF t, c, n, w
    <3>5. /\ c = [tm |-> c.tm, recs |-> b.recs \o SideRecords(side, s, n, k)]
          /\ Struck(b.tm, c.tm, side, s, n, w) /\ Num(c.tm, side, s) = AfterEvent(n, w)
      BY <3>3, <3>4
    <3> QED
      BY <2>4, <3>5 DEF c
  <2> QED
    BY <2>5, <2>6, <2>7, <2>8 DEF Held, Sides
<1> QED
  BY <1>1, <1>2

-----------------------------------------------------------------------------
(* The recursive functions of the update do what they say.                 *)

(* f is the recursive function of WeighSide.                               *)
RunsStocks(f, a, d, side, k, b) ==
  f = [i \in 0 .. Len(StockSeq) |-> IF i = 0 THEN b ELSE WeighOne(a, d, side, k, StockSeq[i], f[i - 1])]

LEMMA SideRuns ==
  ASSUME NEW a, NEW d, NEW side, NEW k, NEW b
  PROVE  \E f : RunsStocks(f, a, d, side, k, b) /\ WeighSide(a, d, side, k, b) = f[Len(StockSeq)]
<1> DEFINE m == Len(StockSeq)
           K(h) == [i \in 0 .. m |-> IF i = 0 THEN b ELSE WeighOne(a, d, side, k, StockSeq[i], h[i - 1])]
           Ok(f, n) == /\ f = [i \in 0 .. m |-> f[i]] /\ f[0] = b
                       /\ \A i \in 1 .. n : f[i] = WeighOne(a, d, side, k, StockSeq[i], f[i - 1])
           T == {n \in 0 .. m : \E f : Ok(f, n)}
<1>1. m \in Nat
  BY StockSeqFacts
<1>2. 0 \in T
  <2> DEFINE f == [i \in 0 .. m |-> b]
  <2>1. 0 \in 0 .. m
    BY <1>1
  <2>2. f[0] = b /\ f = [i \in 0 .. m |-> f[i]]
    BY <2>1
  <2> HIDE DEF f
  <2>3. Ok(f, 0)
    BY <2>2
  <2> QED
    BY <2>1, <2>3
<1>3. ASSUME NEW n \in T, n < m PROVE n + 1 \in T
  <2>1. PICK f : Ok(f, n)
    OBVIOUS
  <2>2. n \in 0 .. m /\ n + 1 \in 1 .. m /\ n \in Nat /\ n + 1 \in 0 .. m /\ (n + 1) - 1 = n
    BY <1>1, <1>3
  <2> DEFINE new == WeighOne(a, d, side, k, StockSeq[n + 1], f[n])
             g == [i \in 0 .. m |-> IF i = n + 1 THEN new ELSE f[i]]
  <2>9. \A i \in 0 .. n : i \in 0 .. m /\ i # n + 1
    BY <1>1, <2>2
  <2> HIDE DEF new, m, Ok, T
  <2>3. g = [i \in 0 .. m |-> g[i]] /\ g[n + 1] = new
        /\ \A i \in 0 .. n : g[i] = f[i]
    <3>1. g = [i \in 0 .. m |-> g[i]]
      OBVIOUS
    <3>2. g[n + 1] = new
      BY <2>2
    <3> QED
      BY <2>9, <3>1, <3>2
  <2> HIDE DEF g
  <2>4. f[0] = b /\ \A i \in 1 .. n : f[i] = WeighOne(a, d, side, k, StockSeq[i], f[i - 1])
    BY <2>1 DEF Ok
  <2>5. ASSUME NEW i \in 1 .. n + 1 PROVE g[i] = WeighOne(a, d, side, k, StockSeq[i], g[i - 1])
    <3>1. CASE i = n + 1
      <4>1. i - 1 = n /\ n \in 0 .. n
        BY <2>2, <3>1
      <4>2. g[i - 1] = f[n] /\ g[i] = new
        BY <2>3, <3>1, <4>1
      <4>3. new = WeighOne(a, d, side, k, StockSeq[i], f[n])
        BY <3>1 DEF new
      <4> QED
        BY <4>2, <4>3
    <3>2. CASE i # n + 1
      <4>1. i \in 1 .. n /\ i \in 0 .. n /\ i - 1 \in 0 .. n
        BY <2>2, <3>2
      <4>2. g[i - 1] = f[i - 1] /\ g[i] = f[i]
        BY <2>3, <4>1
      <4>3. f[i] = WeighOne(a, d, side, k, StockSeq[i], f[i - 1])
        BY <2>4, <4>1
      <4> QED
        BY <4>2, <4>3
    <3> QED
      BY <3>1, <3>2
  <2>6. g[0] = b
    <3>1. 0 \in 0 .. n
      BY <2>2
    <3> QED
      BY <2>3, <2>4, <3>1
  <2>7. Ok(g, n + 1)
    BY <2>3, <2>5, <2>6 DEF Ok
  <2> QED
    BY <2>2, <2>7 DEF T
<1>4. m \in T
  <2>1. T \subseteq 0 .. m
    OBVIOUS
  <2>2. m \in 0 .. m
    BY <1>1
  <2> HIDE DEF T, m
  <2>3. T = 0 .. m
    BY <1>1, <1>2, <1>3, <2>1, BoundedInduction
  <2> QED
    BY <2>2, <2>3
<1>5. PICK f : Ok(f, m)
  BY <1>4
<1>6. f = K(f)
  <2>1. f = [i \in 0 .. m |-> f[i]]
    BY <1>5
  <2>2. ASSUME NEW i \in 0 .. m
        PROVE  f[i] = IF i = 0 THEN b ELSE WeighOne(a, d, side, k, StockSeq[i], f[i - 1])
    <3>1. CASE i = 0
      BY <1>5, <3>1
    <3>2. CASE i # 0
      <4>1. i \in 1 .. m
        BY <1>1, <3>2
      <4>2. f[i] = WeighOne(a, d, side, k, StockSeq[i], f[i - 1])
        BY <1>5, <4>1
      <4> QED
        BY <3>2, <4>2
    <3> QED
      BY <3>1, <3>2
  <2> HIDE DEF Ok, m
  <2> QED
    BY <2>1, <2>2
<1> DEFINE F == CHOOSE h : h = K(h)
<1>7. F = K(F)
  BY <1>6
<1>8. WeighSide(a, d, side, k, b) = F[m]
  BY DEF WeighSide
<1> HIDE DEF F
<1> QED
  BY <1>7, <1>8 DEF RunsStocks

(* f is the recursive function of Weighed.                                 *)
RunsDays(f, a, d) ==
  f = [i \in 0 .. MaxDay |-> IF i = 0 THEN [tm |-> a, recs |-> <<>>] ELSE WeighDay(a, d, i, f[i - 1])]

LEMMA DayRuns ==
  ASSUME NEW a, NEW d
  PROVE  \E f : RunsDays(f, a, d) /\ Weighed(a, d) = f[MaxDay]
<1> DEFINE m == MaxDay
           K(h) == [i \in 0 .. m |-> IF i = 0 THEN [tm |-> a, recs |-> <<>>] ELSE WeighDay(a, d, i, h[i - 1])]
           Ok(f, n) == /\ f = [i \in 0 .. m |-> f[i]] /\ f[0] = [tm |-> a, recs |-> <<>>]
                       /\ \A i \in 1 .. n : f[i] = WeighDay(a, d, i, f[i - 1])
           T == {n \in 0 .. m : \E f : Ok(f, n)}
<1>1. m \in Nat
  BY ParameterAssumption
<1>2. 0 \in T
  <2> DEFINE f == [i \in 0 .. m |-> [tm |-> a, recs |-> <<>>]]
  <2>1. 0 \in 0 .. m
    BY <1>1
  <2>2. f[0] = [tm |-> a, recs |-> <<>>] /\ f = [i \in 0 .. m |-> f[i]]
    BY <2>1
  <2> HIDE DEF f
  <2>3. Ok(f, 0)
    BY <2>2
  <2> QED
    BY <2>1, <2>3
<1>3. ASSUME NEW n \in T, n < m PROVE n + 1 \in T
  <2>1. PICK f : Ok(f, n)
    OBVIOUS
  <2>2. n \in 0 .. m /\ n + 1 \in 1 .. m /\ n \in Nat /\ n + 1 \in 0 .. m /\ (n + 1) - 1 = n
    BY <1>1, <1>3
  <2> DEFINE new == WeighDay(a, d, n + 1, f[n])
             g == [i \in 0 .. m |-> IF i = n + 1 THEN new ELSE f[i]]
  <2>9. \A i \in 0 .. n : i \in 0 .. m /\ i # n + 1
    BY <1>1, <2>2
  <2> HIDE DEF new, m, Ok, T
  <2>3. g = [i \in 0 .. m |-> g[i]] /\ g[n + 1] = new
        /\ \A i \in 0 .. n : g[i] = f[i]
    <3>1. g = [i \in 0 .. m |-> g[i]]
      OBVIOUS
    <3>2. g[n + 1] = new
      BY <2>2
    <3> QED
      BY <2>9, <3>1, <3>2
  <2> HIDE DEF g
  <2>4. f[0] = [tm |-> a, recs |-> <<>>] /\ \A i \in 1 .. n : f[i] = WeighDay(a, d, i, f[i - 1])
    BY <2>1 DEF Ok
  <2>5. ASSUME NEW i \in 1 .. n + 1 PROVE g[i] = WeighDay(a, d, i, g[i - 1])
    <3>1. CASE i = n + 1
      <4>1. i - 1 = n /\ n \in 0 .. n
        BY <2>2, <3>1
      <4>2. g[i - 1] = f[n] /\ g[i] = new
        BY <2>3, <3>1, <4>1
      <4>3. new = WeighDay(a, d, i, f[n])
        BY <3>1 DEF new
      <4> QED
        BY <4>2, <4>3
    <3>2. CASE i # n + 1
      <4>1. i \in 1 .. n /\ i \in 0 .. n /\ i - 1 \in 0 .. n
        BY <2>2, <3>2
      <4>2. g[i - 1] = f[i - 1] /\ g[i] = f[i]
        BY <2>3, <4>1
      <4>3. f[i] = WeighDay(a, d, i, f[i - 1])
        BY <2>4, <4>1
      <4> QED
        BY <4>2, <4>3
    <3> QED
      BY <3>1, <3>2
  <2>6. g[0] = [tm |-> a, recs |-> <<>>]
    <3>1. 0 \in 0 .. n
      BY <2>2
    <3> QED
      BY <2>3, <2>4, <3>1
  <2>7. Ok(g, n + 1)
    BY <2>3, <2>5, <2>6 DEF Ok
  <2> QED
    BY <2>2, <2>7 DEF T
<1>4. m \in T
  <2>1. T \subseteq 0 .. m
    OBVIOUS
  <2>2. m \in 0 .. m
    BY <1>1
  <2> HIDE DEF T, m
  <2>3. T = 0 .. m
    BY <1>1, <1>2, <1>3, <2>1, BoundedInduction
  <2> QED
    BY <2>2, <2>3
<1>5. PICK f : Ok(f, m)
  BY <1>4
<1>6. f = K(f)
  <2>1. f = [i \in 0 .. m |-> f[i]]
    BY <1>5
  <2>2. ASSUME NEW i \in 0 .. m
        PROVE  f[i] = IF i = 0 THEN [tm |-> a, recs |-> <<>>] ELSE WeighDay(a, d, i, f[i - 1])
    <3>1. CASE i = 0
      BY <1>5, <3>1
    <3>2. CASE i # 0
      <4>1. i \in 1 .. m
        BY <1>1, <3>2
      <4>2. f[i] = WeighDay(a, d, i, f[i - 1])
        BY <1>5, <4>1
      <4> QED
        BY <3>2, <4>2
    <3> QED
      BY <3>1, <3>2
  <2> HIDE DEF Ok, m
  <2> QED
    BY <2>1, <2>2
<1> DEFINE F == CHOOSE h : h = K(h)
<1>7. F = K(F)
  BY <1>6
<1>8. Weighed(a, d) = F[m]
  BY DEF Weighed
<1> HIDE DEF F
<1> QED
  BY <1>7, <1>8 DEF RunsDays

LEMMA WeighSideFacts ==
  ASSUME NEW a, IsAccount(a), NEW d \in Nat, NEW k \in Nat, NEW b, Batch(a, d, k, b),
         NEW side \in Sides
  PROVE  LET c == WeighSide(a, d, side, k, b)
         IN  /\ Batch(a, d, k, c) /\ Grows(b.recs, c.recs, k)
             /\ \A s \in Stocks : Num(c.tm, side, s) = OnDay(a, d, k, s, Num(b.tm, side, s))
             /\ \A own \in Sides, s \in Stocks :
                   own # side => Num(c.tm, own, s) = Num(b.tm, own, s)
<1> DEFINE m == Len(StockSeq)
<1>1. /\ m \in Nat /\ \A i \in 1 .. m : StockSeq[i] \in Stocks
      /\ \A s \in Stocks : \E j \in 1 .. m : StockSeq[j] = s
      /\ \A i, j \in 1 .. m : StockSeq[i] = StockSeq[j] => i = j
  BY StockSeqFacts
<1>2. PICK f : RunsStocks(f, a, d, side, k, b) /\ WeighSide(a, d, side, k, b) = f[m]
  BY SideRuns
<1>3. \A j \in 0 .. m : f[j] = IF j = 0 THEN b ELSE WeighOne(a, d, side, k, StockSeq[j], f[j - 1])
  BY <1>2 DEF RunsStocks
<1> HIDE DEF m
<1>4. f[0] = b /\ \A j \in 1 .. m : f[j] = WeighOne(a, d, side, k, StockSeq[j], f[j - 1])
  BY <1>1, <1>3
<1> DEFINE
      Done(j) == \A i \in 1 .. m :
                   Num(f[j].tm, side, StockSeq[i])
                     = IF i <= j THEN OnDay(a, d, k, StockSeq[i], Num(b.tm, side, StockSeq[i]))
                       ELSE Num(b.tm, side, StockSeq[i])
      Others(j) == \A own \in Sides, s \in Stocks :
                      own # side => Num(f[j].tm, own, s) = Num(b.tm, own, s)
      T == {j \in 0 .. m : /\ Batch(a, d, k, f[j]) /\ Grows(b.recs, f[j].recs, k)
                           /\ Done(j) /\ Others(j)}
<1>5. 0 \in T
  <2>1. 0 \in 0 .. m /\ \A i \in 1 .. m : ~(i <= 0)
    BY <1>1
  <2>2. Grows(b.recs, b.recs, k)
    BY GrowsSelf DEF Batch
  <2> QED
    BY <1>4, <2>1, <2>2
<1>6. ASSUME NEW j \in T, j < m PROVE j + 1 \in T
  <2> DEFINE s == StockSeq[j + 1]
             c == f[j + 1]
  <2>1. j \in Nat /\ j + 1 \in 1 .. m /\ j + 1 \in 0 .. m /\ (j + 1) - 1 = j
    BY <1>1, <1>6
  <2>2. /\ Batch(a, d, k, f[j]) /\ Grows(b.recs, f[j].recs, k) /\ Done(j) /\ Others(j)
        /\ s \in Stocks
    BY <1>1, <2>1
  <2>3. c = WeighOne(a, d, side, k, s, f[j])
    BY <1>4, <2>1
  <2> HIDE DEF c, T, Done, Others
  <2>4. /\ Batch(a, d, k, c) /\ Grows(f[j].recs, c.recs, k)
        /\ Num(c.tm, side, s) = OnDay(a, d, k, s, Num(f[j].tm, side, s))
        /\ \A own \in Sides, x \in Stocks :
              ~(own = side /\ x = s) => Num(c.tm, own, x) = Num(f[j].tm, own, x)
    BY <2>2, <2>3, WeighOneFacts
  <2>5. Done(j + 1)
    <3> SUFFICES ASSUME NEW i \in 1 .. m
                 PROVE  Num(c.tm, side, StockSeq[i])
                          = IF i <= j + 1
                            THEN OnDay(a, d, k, StockSeq[i], Num(b.tm, side, StockSeq[i]))
                            ELSE Num(b.tm, side, StockSeq[i])
      BY DEF Done, c
    <3>1. Num(f[j].tm, side, StockSeq[i])
            = IF i <= j THEN OnDay(a, d, k, StockSeq[i], Num(b.tm, side, StockSeq[i]))
              ELSE Num(b.tm, side, StockSeq[i])
      BY <2>2 DEF Done
    <3>2. CASE i = j + 1
      <4>1. ~(i <= j) /\ i <= j + 1
        BY <2>1, <3>2
      <4> QED
        BY <2>4, <3>1, <3>2, <4>1
    <3>3. CASE i # j + 1
      <4>1. (i <= j <=> i <= j + 1) /\ StockSeq[i] # s /\ StockSeq[i] \in Stocks
        BY <1>1, <2>1, <3>3
      <4>2. Num(c.tm, side, StockSeq[i]) = Num(f[j].tm, side, StockSeq[i])
        BY <2>4, <4>1
      <4> QED
        BY <3>1, <4>1, <4>2
    <3> QED
      BY <3>2, <3>3
  <2>6. Others(j + 1)
    BY <2>2, <2>4 DEF Others, c
  <2>7. Grows(b.recs, c.recs, k)
    BY <2>2, <2>4, GrowsTrans DEF Batch
  <2> QED
    BY <2>1, <2>4, <2>5, <2>6, <2>7 DEF T, c
<1>7. m \in T
  <2>1. T \subseteq 0 .. m /\ m \in 0 .. m
    BY <1>1
  <2> HIDE DEF T
  <2>2. T = 0 .. m
    BY <1>1, <1>5, <1>6, <2>1, BoundedInduction
  <2> QED
    BY <2>1, <2>2
<1> DEFINE c == WeighSide(a, d, side, k, b)
<1>8. c = f[m] /\ Batch(a, d, k, c) /\ Grows(b.recs, c.recs, k) /\ Done(m) /\ Others(m)
  BY <1>2, <1>7 DEF m
<1>9. \A s \in Stocks : Num(c.tm, side, s) = OnDay(a, d, k, s, Num(b.tm, side, s))
  <2> TAKE s \in Stocks
  <2>1. PICK i \in 1 .. m : StockSeq[i] = s
    BY <1>1
  <2>2. i <= m
    BY <1>1
  <2> HIDE DEF c
  <2> QED
    BY <1>8, <2>1, <2>2
<1>10. \A own \in Sides, s \in Stocks : own # side => Num(c.tm, own, s) = Num(b.tm, own, s)
  <2> HIDE DEF c
  <2> QED
    BY <1>8
<1> QED
  BY <1>8, <1>9, <1>10

LEMMA WeighDayFacts ==
  ASSUME NEW a, IsAccount(a), NEW d \in Nat, NEW k \in Nat, NEW b, Batch(a, d, k, b)
  PROVE  LET c == WeighDay(a, d, k, b)
         IN  /\ Batch(a, d, k, c) /\ Grows(b.recs, c.recs, k)
             /\ \A side \in Sides, s \in Stocks :
                   Num(c.tm, side, s) = OnDay(a, d, k, s, Num(b.tm, side, s))
<1> DEFINE b1 == WeighSide(a, d, "long", k, b)
           b2 == WeighSide(a, d, "debt", k, b1)
           b3 == WeighSide(a, d, "short", k, b2)
<1>0. "long" \in Sides /\ "debt" \in Sides /\ "short" \in Sides
  BY DEF Sides
<1>1. /\ Batch(a, d, k, b1) /\ Grows(b.recs, b1.recs, k)
      /\ \A s \in Stocks : Num(b1.tm, "long", s) = OnDay(a, d, k, s, Num(b.tm, "long", s))
      /\ \A own \in Sides, s \in Stocks :
            own # "long" => Num(b1.tm, own, s) = Num(b.tm, own, s)
  BY <1>0, WeighSideFacts
<1> HIDE DEF b1
<1>2. /\ Batch(a, d, k, b2) /\ Grows(b1.recs, b2.recs, k)
      /\ \A s \in Stocks : Num(b2.tm, "debt", s) = OnDay(a, d, k, s, Num(b1.tm, "debt", s))
      /\ \A own \in Sides, s \in Stocks :
            own # "debt" => Num(b2.tm, own, s) = Num(b1.tm, own, s)
  BY <1>0, <1>1, WeighSideFacts
<1> HIDE DEF b2
<1>3. /\ Batch(a, d, k, b3) /\ Grows(b2.recs, b3.recs, k)
      /\ \A s \in Stocks : Num(b3.tm, "short", s) = OnDay(a, d, k, s, Num(b2.tm, "short", s))
      /\ \A own \in Sides, s \in Stocks :
            own # "short" => Num(b3.tm, own, s) = Num(b2.tm, own, s)
  BY <1>0, <1>2, WeighSideFacts
<1>4. WeighDay(a, d, k, b) = b3
  BY DEF WeighDay, b1, b2
<1> HIDE DEF b3
<1>5. ASSUME NEW side \in Sides, NEW s \in Stocks
      PROVE  Num(b3.tm, side, s) = OnDay(a, d, k, s, Num(b.tm, side, s))
  <2>1. CASE side = "long"
    <3>1. Num(b3.tm, "long", s) = Num(b2.tm, "long", s)
          /\ Num(b2.tm, "long", s) = Num(b1.tm, "long", s)
      BY <1>0, <1>2, <1>3
    <3> QED
      BY <1>1, <2>1, <3>1
  <2>2. CASE side = "debt"
    <3>1. Num(b3.tm, "debt", s) = Num(b2.tm, "debt", s)
          /\ Num(b1.tm, "debt", s) = Num(b.tm, "debt", s)
      BY <1>0, <1>1, <1>3
    <3> QED
      BY <1>2, <2>2, <3>1
  <2>3. CASE side = "short"
    <3>1. Num(b2.tm, "short", s) = Num(b1.tm, "short", s)
          /\ Num(b1.tm, "short", s) = Num(b.tm, "short", s)
      BY <1>0, <1>1, <1>2
    <3> QED
      BY <1>3, <2>3, <3>1
  <2> QED
    BY <2>1, <2>2, <2>3 DEF Sides
<1>6. Grows(b.recs, b3.recs, k)
  <2>1. Grows(b.recs, b2.recs, k)
    BY <1>1, <1>2, GrowsTrans DEF Batch
  <2> QED
    BY <1>2, <1>3, <2>1, GrowsTrans DEF Batch
<1> QED
  BY <1>3, <1>4, <1>5, <1>6

LEMMA BatchLater ==
  ASSUME NEW a, IsAccount(a), NEW d, NEW k \in Nat, NEW b, Batch(a, d, k, b)
  PROVE  Batch(a, d, k + 1, b)
<1>1. b.recs \in Seq(Record) /\ \A i \in 1 .. Len(b.recs) : Recent(a, d, k, b.recs[i])
  BY DEF Batch
<1>2. \A i \in 1 .. Len(b.recs) : Recent(a, d, k + 1, b.recs[i])
  <2> TAKE i \in 1 .. Len(b.recs)
  <2>1. b.recs[i] \in Record
    BY <1>1
  <2>2. b.recs[i].datetime \in Nat /\ Recent(a, d, k, b.recs[i])
    BY <1>1, <2>1, RecordFields
  <2> QED
    BY <2>2 DEF Recent
<1> QED
  BY <1>2 DEF Batch

LEMMA EmptyBatch ==
  ASSUME NEW a, IsAccount(a), NEW d, NEW b, b = [tm |-> a, recs |-> <<>>]
  PROVE  Batch(a, d, 0, b)
<1>1. b.tm = a /\ b.recs = <<>> /\ b = [tm |-> b.tm, recs |-> b.recs]
  OBVIOUS
<1>2. b.recs \in Seq(Record) /\ Len(b.recs) = 0
  BY <1>1
<1>3. \A e \in Measures : Level(e, b.tm) = Level(e, a) + Total(Column(e, b.recs))
  BY <1>1, ColumnEmpty, LevelType
<1>4. InOrder(b.recs) /\ \A i \in 1 .. Len(b.recs) : Recent(a, d, 0, b.recs[i])
  BY <1>2 DEF InOrder
<1>5. IsAccount(b.tm) /\ SameFrame(a, b.tm)
  BY <1>1 DEF SameFrame
<1> QED
  BY <1>1, <1>2, <1>3, <1>4, <1>5 DEF Batch

LEMMA WeighedFacts ==
  ASSUME NEW a, IsAccount(a), NEW d \in Nat
  PROVE  \E f : DayByDay(f, a, d) /\ Weighed(a, d) = f[MaxDay]
<1>1. PICK f : RunsDays(f, a, d) /\ Weighed(a, d) = f[MaxDay]
  BY DayRuns
<1>2. MaxDay \in Nat
  BY ParameterAssumption
<1> DEFINE empty == [tm |-> a, recs |-> <<>>]
<1>3. \A k \in 0 .. MaxDay : f[k] = IF k = 0 THEN empty ELSE WeighDay(a, d, k, f[k - 1])
  BY <1>1 DEF RunsDays
<1>4. f[0] = empty /\ \A k \in 1 .. MaxDay : f[k] = WeighDay(a, d, k, f[k - 1])
  BY <1>2, <1>3
<1>5. Batch(a, d, 0, f[0]) /\ f[0].tm = a
  <2>1. empty.tm = a
    OBVIOUS
  <2> QED
    BY <1>4, <2>1, EmptyBatch
<1> HIDE DEF empty
<1> DEFINE T == {k \in 0 .. MaxDay : Batch(a, d, k, f[k])}
<1>6. 0 \in T
  BY <1>2, <1>5
<1>7. ASSUME NEW k \in T, k < MaxDay PROVE k + 1 \in T
  <2>1. k \in Nat /\ k + 1 \in Nat /\ k + 1 \in 1 .. MaxDay /\ k + 1 \in 0 .. MaxDay /\ (k + 1) - 1 = k
    BY <1>2, <1>7
  <2>2. Batch(a, d, k + 1, f[k])
    BY <2>1, BatchLater
  <2>3. Batch(a, d, k + 1, WeighDay(a, d, k + 1, f[k]))
    BY <2>1, <2>2, WeighDayFacts
  <2>4. f[k + 1] = WeighDay(a, d, k + 1, f[k])
    BY <1>4, <2>1
  <2> QED
    BY <2>1, <2>3, <2>4
<1>8. T = 0 .. MaxDay
  <2>1. T \subseteq 0 .. MaxDay
    OBVIOUS
  <2> HIDE DEF T
  <2> QED
    BY <1>2, <1>6, <1>7, <2>1, BoundedInduction
<1>9. \A k \in 0 .. MaxDay : Batch(a, d, k, f[k])
  BY <1>8
<1>10. ASSUME NEW k \in 1 .. MaxDay
       PROVE  /\ \A side \in Sides, s \in Stocks :
                    Num(f[k].tm, side, s) = OnDay(a, d, k, s, Num(f[k - 1].tm, side, s))
              /\ Grows(f[k - 1].recs, f[k].recs, k)
  <2>1. k - 1 \in 0 .. MaxDay /\ k - 1 \in Nat /\ k \in Nat /\ (k - 1) + 1 = k
    BY <1>2
  <2>2. Batch(a, d, (k - 1) + 1, f[k - 1])
    BY <1>9, <2>1, BatchLater
  <2>3. Batch(a, d, k, f[k - 1])
    BY <2>1, <2>2
  <2>4. /\ \A side \in Sides, s \in Stocks :
             Num(WeighDay(a, d, k, f[k - 1]).tm, side, s)
               = OnDay(a, d, k, s, Num(f[k - 1].tm, side, s))
        /\ Grows(f[k - 1].recs, WeighDay(a, d, k, f[k - 1]).recs, k)
    BY <2>1, <2>3, WeighDayFacts
  <2> QED
    BY <1>4, <2>4
<1>11. DayByDay(f, a, d)
  BY <1>5, <1>9, <1>10 DEF DayByDay
<1> QED
  BY <1>1, <1>11

-----------------------------------------------------------------------------
(* The running balance of the records of a batch.                          *)

LEMMA StampedEffect ==
  ASSUME NEW e \in Measures, NEW r \in Record, NEW cash \in Int
  PROVE  Effect(e, Stamped(r, cash)) = Effect(e, r)
<1> DEFINE t == Stamped(r, cash)
<1>1. /\ t.business = r.business /\ t.stock = r.stock /\ t.number = r.number
      /\ t.realPrice = r.realPrice /\ t.cost = r.cost
  BY StampedFacts
<1> HIDE DEF t
<1>2. CashEffect(t) = CashEffect(r)
  BY <1>1 DEF CashEffect
<1>3. SignedCash(t) = SignedCash(r) /\ DebtCost(t) = DebtCost(r)
  BY <1>1 DEF SignedCash, DebtCost
<1>4. \A s, plus, minus : Signed(t, s, plus, minus) = Signed(r, s, plus, minus)
  BY <1>1 DEF Signed
<1>5. Effect(e, t) = Effect(e, r)
  BY <1>2, <1>3, <1>4 DEF Effect
<1> QED
  BY <1>5 DEF t

LEMMA EventCash ==
  ASSUME NEW r \in Record, r.business \in EventBusinesses, r.cost = 0
  PROVE  CashEffectOfEvent(r) = Effect(Cash, r) /\ Effect(Cash, r) \in Int
<1>1. Effect(Cash, r) = CashEffect(r)
  BY DEF Effect, Cash
<1>2. r.realPrice \in Int /\ r.cost = 0
  BY RecordFields
<1>3. CASE r.business = "BONUS"
  <2>1. CashEffectOfEvent(r) = r.realPrice /\ CashEffect(r) = r.realPrice - r.cost
    BY <1>3 DEF CashEffectOfEvent, CashEffect
  <2> QED
    BY <1>1, <1>2, <2>1
<1>4. CASE r.business = "DIVIDEND_COMPENSATION"
  <2>1. CashEffectOfEvent(r) = -r.realPrice /\ CashEffect(r) = -r.realPrice - r.cost
    BY <1>4 DEF CashEffectOfEvent, CashEffect
  <2> QED
    BY <1>1, <1>2, <2>1
<1>5. CASE r.business \in {"GIFT", "SUOGU", "BORROW_ADJUST", "SHORT_ADJUST"}
  <2>1. CashEffectOfEvent(r) = 0 /\ CashEffect(r) = 0 - r.cost
    BY <1>5, AdjustEffect DEF CashEffectOfEvent
  <2> QED
    BY <1>1, <1>2, <2>1
<1> QED
  BY <1>3, <1>4, <1>5 DEF EventBusinesses

LEMMA ReplayFacts ==
  ASSUME NEW base \in Int, NEW recs \in Seq(Record),
         \A i \in 1 .. Len(recs) : recs[i].business \in EventBusinesses /\ recs[i].cost = 0
  PROVE  LET out == ReplayCash(base, recs)
         IN  /\ out \in Seq(Record) /\ Len(out) = Len(recs)
             /\ \A i \in 1 .. Len(recs) :
                  /\ out[i].cash \in Int /\ out[i] = Stamped(recs[i], out[i].cash)
                  /\ out[i].cash = (IF i = 1 THEN base ELSE out[i - 1].cash)
                                   + Effect(Cash, recs[i])
             /\ Len(recs) > 0 => out[Len(recs)].cash = base + Total(Column(Cash, recs))
             /\ \A e \in Measures : Total(Column(e, out)) = Total(Column(e, recs))
<1> DEFINE m == Len(recs)
           pre(i) == [j \in 1 .. i |-> CashEffectOfEvent(recs[j])]
           out == ReplayCash(base, recs)
<1>1. m \in Nat /\ DOMAIN recs = 1 .. m /\ \A i \in 1 .. m : recs[i] \in Record
  OBVIOUS
<1>2. \A i \in 1 .. m : /\ CashEffectOfEvent(recs[i]) = Effect(Cash, recs[i])
                        /\ CashEffectOfEvent(recs[i]) \in Int
  BY <1>1, EventCash
<1>3. ASSUME NEW i \in 0 .. m
      PROVE  /\ pre(i) \in Seq(Int) /\ Len(pre(i)) = i
             /\ \A j \in 1 .. i : pre(i)[j] = CashEffectOfEvent(recs[j])
  <2>1. i \in Nat /\ \A j \in 1 .. i : j \in 1 .. m
    BY <1>1
  <2>2. \A j \in 1 .. i : pre(i)[j] \in Int
    BY <1>2, <2>1
  <2>3. pre(i) = [j \in 1 .. i |-> pre(i)[j]]
    OBVIOUS
  <2>4. pre(i) \in Seq(Int) /\ Len(pre(i)) = i
    <3> DEFINE f == pre(i)
    <3>1. f = [j \in 1 .. i |-> f[j]] /\ \A j \in 1 .. i : f[j] \in Int
      BY <2>2, <2>3
    <3> HIDE DEF f
    <3>2. f \in Seq(Int) /\ Len(f) = i
      BY <2>1, <3>1, SeqFrom
    <3> QED
      BY <3>2 DEF f
  <2> QED
    BY <2>4
<1>4. ASSUME NEW i \in 1 .. m
      PROVE  /\ out[i] = Stamped(recs[i], base + Total(pre(i)))
             /\ base + Total(pre(i)) \in Int
             /\ Total(pre(i)) = (IF i = 1 THEN 0 ELSE Total(pre(i - 1))) + Effect(Cash, recs[i])
             /\ Total(pre(i)) \in Int
             /\ i # 1 => Total(pre(i - 1)) \in Int
  <2>1. i \in 0 .. m /\ i - 1 \in 0 .. m /\ i \in Nat /\ i - 1 \in Nat /\ i = (i - 1) + 1
    BY <1>1
  <2>2. Total(pre(i)) \in Int /\ Total(pre(i - 1)) \in Int
    BY <1>3, <2>1, TotalType
  <2>3. Total(pre(i)) = Total(pre(i - 1)) + pre(i)[Len(pre(i))]
    <3> DEFINE v == pre(i - 1)
               w == pre(i)
    <3>1. v \in Seq(Int) /\ Len(v) = i - 1 /\ w \in Seq(Int) /\ Len(w) = i
      BY <1>3, <2>1
    <3>2. \A j \in 1 .. i - 1 : w[j] = v[j]
      <4>1. \A j \in 1 .. i - 1 : j \in 1 .. i
        BY <2>1
      <4> QED
        BY <1>3, <2>1, <4>1
    <3> HIDE DEF v, w
    <3>3. Total(w) = Total(v) + w[Len(w)]
      BY <2>1, <3>1, <3>2, TotalLast
    <3> QED
      BY <3>3 DEF v, w
  <2>4. pre(i)[Len(pre(i))] = Effect(Cash, recs[i])
    <3>1. Len(pre(i)) = i /\ i \in 1 .. i
      BY <1>3, <2>1
    <3>2. pre(i)[i] = CashEffectOfEvent(recs[i])
      BY <3>1
    <3> HIDE DEF pre
    <3> QED
      BY <1>2, <3>1, <3>2
  <2>5. out[i] = Stamped(recs[i], base + Total(pre(i)))
    BY <1>1 DEF ReplayCash, Stamped
  <2>6. i = 1 => Total(pre(i - 1)) = 0
    <3>1. ASSUME i = 1 PROVE Total(pre(i - 1)) = 0
      <4>1. i - 1 = 0
        BY <3>1
      <4>2. pre(i - 1) \in Seq(Int) /\ Len(pre(i - 1)) = 0
        BY <1>3, <2>1, <4>1
      <4> HIDE DEF pre
      <4> QED
        BY <4>2, TotalEmpty
    <3> QED
      BY <3>1
  <2> HIDE DEF pre, out
  <2> QED
    BY <2>2, <2>3, <2>4, <2>5, <2>6
<1>5. DOMAIN out = 1 .. m /\ out = [i \in 1 .. m |-> out[i]]
  BY <1>1 DEF ReplayCash
<1>6. \A i \in 1 .. m : out[i] \in Record /\ out[i].cash = base + Total(pre(i))
                        /\ out[i].cash \in Int /\ out[i] = Stamped(recs[i], out[i].cash)
  <2> HIDE DEF pre, out
  <2> QED
    BY <1>1, <1>4, StampedFacts, SMTT(30)
<1>7. out \in Seq(Record) /\ Len(out) = m
  <2> HIDE DEF out, m
  <2> QED
    BY <1>1, <1>5, <1>6, SeqFrom
<1>8. \A i \in 1 .. m : out[i].cash = (IF i = 1 THEN base ELSE out[i - 1].cash)
                                      + Effect(Cash, recs[i])
  <2> TAKE i \in 1 .. m
  <2> HIDE DEF pre, out
  <2>1. Effect(Cash, recs[i]) \in Int
    BY <1>1, CashIsMeasure, EffectType
  <2>2. CASE i = 1
    BY <1>4, <1>6, <2>1, <2>2
  <2>3. CASE i # 1
    <3>1. i - 1 \in 1 .. m
      BY <1>1, <2>3
    <3>2. out[i - 1].cash = base + Total(pre(i - 1)) /\ Total(pre(i - 1)) \in Int
      BY <1>4, <1>6, <3>1
    <3>3. out[i].cash = base + Total(pre(i))
          /\ Total(pre(i)) = Total(pre(i - 1)) + Effect(Cash, recs[i])
      BY <1>4, <1>6, <2>3
    <3> QED
      BY <2>1, <2>3, <3>2, <3>3
  <2> QED
    BY <2>2, <2>3
<1>9. m > 0 => out[m].cash = base + Total(Column(Cash, recs))
  <2>1. ASSUME m > 0 PROVE out[m].cash = base + Total(Column(Cash, recs))
    <3>1. m \in 1 .. m /\ m \in 0 .. m
      BY <1>1, <2>1
    <3>2. pre(m) = Column(Cash, recs)
      BY <1>1, <1>2 DEF Column
    <3>3. out[m].cash = base + Total(pre(m))
      BY <1>6, <3>1
    <3> HIDE DEF pre
    <3> QED
      BY <3>2, <3>3
  <2> QED
    BY <2>1
<1> HIDE DEF pre, out
<1>10. ASSUME NEW e \in Measures PROVE Total(Column(e, out)) = Total(Column(e, recs))
  <2>1. \A i \in 1 .. m : Effect(e, out[i]) = Effect(e, recs[i])
    <3> TAKE i \in 1 .. m
    <3>1. out[i].cash \in Int /\ out[i] = Stamped(recs[i], out[i].cash) /\ recs[i] \in Record
      BY <1>1, <1>6
    <3>2. Effect(e, Stamped(recs[i], out[i].cash)) = Effect(e, recs[i])
      BY <3>1, StampedEffect
    <3> QED
      BY <3>1, <3>2
  <2>2. Column(e, out) = Column(e, recs)
    BY <1>7, <2>1 DEF Column
  <2> QED
    BY <2>2
<1> QED
  BY <1>6, <1>7, <1>8, <1>9, <1>10 DEF out

-----------------------------------------------------------------------------
(* The update.                                                             *)

(* A log followed by the records of a batch.                               *)
LEMMA GoodWithBatch ==
  ASSUME NEW a, Good(a), NEW d \in Nat, NEW k \in Nat, NEW b, Batch(a, d, k, b),
         NEW u, IsAccount(u), u.m_trade_list = a.m_trade_list \o ReplayCash(a.m_cash, b.recs),
         u.m_cash = b.tm.m_cash, \A e \in Measures : Level(e, u) = Level(e, b.tm)
  PROVE  /\ Good(u)
         /\ LET recs == ReplayCash(a.m_cash, b.recs)
            IN recs \in Seq(Record) /\ \A i \in 1 .. Len(recs) : Recent(a, d, d, recs[i])
<1> DEFINE log == a.m_trade_list
           m == Len(log)
           recs == b.recs
           out == ReplayCash(a.m_cash, recs)
           new == u.m_trade_list
<1>1. IsAccount(a) /\ InOrder(log) /\ RunningCash(log) /\ Last(log).cash = a.m_cash /\ Story(a)
  BY DEF Good
<1>2. /\ log \in Seq(Record) /\ m \in Nat \ {0} /\ Last(log) = log[m]
      /\ lastDatetime(a) = log[m].datetime /\ lastDatetime(a) \in Nat /\ a.m_cash \in Int
  BY <1>1, LogFacts, AccountNumbers
<1>3. /\ recs \in Seq(Record) /\ InOrder(recs) /\ Len(recs) \in Nat
      /\ \A i \in 1 .. Len(recs) : Recent(a, d, k, recs[i])
  BY DEF Batch
<1>4. /\ out \in Seq(Record) /\ Len(out) = Len(recs)
      /\ \A i \in 1 .. Len(recs) :
           /\ out[i].cash \in Int /\ out[i] = Stamped(recs[i], out[i].cash)
           /\ out[i].cash = (IF i = 1 THEN a.m_cash ELSE out[i - 1].cash) + Effect(Cash, recs[i])
      /\ Len(recs) > 0 => out[Len(recs)].cash = a.m_cash + Total(Column(Cash, recs))
      /\ \A e \in Measures : Total(Column(e, out)) = Total(Column(e, recs))
  <2>1. \A i \in 1 .. Len(recs) : recs[i].business \in EventBusinesses /\ recs[i].cost = 0
    BY <1>3 DEF Recent
  <2> HIDE DEF recs
  <2> QED
    BY <1>2, <1>3, <2>1, ReplayFacts
<1> DEFINE n == Len(out)
<1> HIDE DEF log, m, recs, out
<1>5. ASSUME NEW i \in 1 .. n
      PROVE  /\ out[i].datetime = recs[i].datetime /\ out[i].business = recs[i].business
             /\ out[i].cost = recs[i].cost
             /\ out[i].datetime \in Nat /\ recs[i] \in Record /\ out[i] \in Record
             /\ Effect(Cash, out[i]) = Effect(Cash, recs[i])
             /\ Recent(a, d, d, out[i]) /\ lastDatetime(a) < out[i].datetime
  <2>1. i \in 1 .. Len(recs) /\ recs[i] \in Record /\ out[i] \in Record
    BY <1>3, <1>4
  <2>2. out[i].cash \in Int /\ out[i] = Stamped(recs[i], out[i].cash)
    BY <1>4, <2>1
  <2> DEFINE c == out[i].cash
             t == Stamped(recs[i], c)
  <2>3. t.datetime = recs[i].datetime /\ t.business = recs[i].business /\ t.cost = recs[i].cost
        /\ Effect(Cash, t) = Effect(Cash, recs[i])
    BY <2>1, <2>2, StampedFacts, StampedEffect, CashIsMeasure
  <2>4. out[i] = t
    BY <2>2
  <2> HIDE DEF c, t
  <2>5. out[i].datetime = recs[i].datetime /\ out[i].business = recs[i].business
        /\ out[i].cost = recs[i].cost /\ Effect(Cash, out[i]) = Effect(Cash, recs[i])
    BY <2>3, <2>4
  <2>6. Recent(a, d, k, recs[i]) /\ recs[i].datetime \in Nat
    BY <1>3, <2>1, RecordFields
  <2> QED
    BY <2>1, <2>5, <2>6 DEF Recent
<1>6. /\ new = log \o out /\ new \in Seq(Record) /\ Len(new) = m + n /\ n \in Nat
      /\ \A i \in 1 .. m : new[i] = log[i] /\ log[i] \in Record
      /\ \A i \in 1 .. n : new[m + i] = out[i]
  <2>1. new = log \o out
    BY DEF log, out, recs
  <2> HIDE DEF new
  <2>2. log \in Seq(Record) /\ m = Len(log) /\ out \in Seq(Record)
    BY <1>2, <1>4 DEF m
  <2> QED
    BY <2>1, <2>2
<1> HIDE DEF new, n
<1>7. ASSUME NEW i \in 1 .. m + n
      PROVE  i \in 1 .. m \/ (i > m /\ i - m \in 1 .. n /\ new[i] = out[i - m])
  <2>1. CASE i <= m
    BY <1>2, <2>1
  <2>2. CASE ~(i <= m)
    <3>1. i - m \in 1 .. n /\ m + (i - m) = i
      BY <1>2, <1>6, <2>2
    <3>2. new[m + (i - m)] = out[i - m]
      BY <1>6, <3>1
    <3> QED
      BY <1>2, <2>2, <3>1, <3>2
  <2> QED
    BY <2>1, <2>2
<1>8. InOrder(new)
  <2>1. ASSUME NEW i \in 1 .. m + n, NEW j \in 1 .. m + n, i <= j
        PROVE  new[i].datetime <= new[j].datetime
    <3>1. CASE i \in 1 .. m /\ j \in 1 .. m
      BY <1>1, <1>6, <2>1, <3>1 DEF InOrder, m
    <3>2. CASE i \in 1 .. m /\ (j > m /\ j - m \in 1 .. n /\ new[j] = out[j - m])
      <4>1. m \in 1 .. m /\ i <= m
        BY <1>2, <3>2
      <4>2. log[i].datetime <= log[m].datetime
        BY <1>1, <3>2, <4>1 DEF InOrder, m
      <4>3. log[i].datetime \in Nat
        BY <1>6, <3>2, RecordFields
      <4>4. lastDatetime(a) < out[j - m].datetime /\ out[j - m].datetime \in Nat
        BY <1>5, <3>2
      <4>5. new[i].datetime = log[i].datetime /\ new[j].datetime = out[j - m].datetime
        BY <1>6, <3>2
      <4>6. log[i].datetime <= lastDatetime(a) /\ lastDatetime(a) \in Nat
        BY <1>2, <4>2
      <4> DEFINE x == log[i].datetime
                 y == out[j - m].datetime
                 z == lastDatetime(a)
      <4>7. x \in Nat /\ y \in Nat /\ z \in Nat /\ x <= z /\ z < y
        BY <4>3, <4>4, <4>6
      <4> HIDE DEF x, y, z
      <4>8. x <= y
        BY <4>7
      <4> QED
        BY <4>5, <4>8 DEF x, y
    <3>3. CASE /\ i > m /\ i - m \in 1 .. n /\ new[i] = out[i - m]
               /\ j > m /\ j - m \in 1 .. n /\ new[j] = out[j - m]
      <4>1. i - m <= j - m /\ i - m \in 1 .. Len(recs) /\ j - m \in 1 .. Len(recs)
        BY <1>2, <1>4, <2>1, <3>3 DEF n
      <4>2. recs[i - m].datetime <= recs[j - m].datetime
        BY <1>3, <4>1 DEF InOrder
      <4> QED
        BY <1>5, <3>3, <4>2
    <3>4. ~(i > m /\ j \in 1 .. m)
      BY <1>2, <2>1
    <3> QED
      BY <1>7, <3>1, <3>2, <3>3, <3>4
  <2> QED
    BY <1>6, <2>1 DEF InOrder
<1>9. RunningCash(new)
  <2>1. new[1].cash = InitCash
    <3>1. 1 \in 1 .. m
      BY <1>2
    <3> QED
      BY <1>1, <1>6, <3>1 DEF RunningCash
  <2>2. ASSUME NEW i \in 1 .. m + n, i > 1
        PROVE  new[i].cash = new[i - 1].cash + Effect(Cash, new[i])
    <3>1. CASE i \in 1 .. m
      <4>1. i - 1 \in 1 .. m
        BY <1>2, <2>2, <3>1
      <4> QED
        BY <1>1, <1>6, <2>2, <3>1, <4>1 DEF RunningCash, m
    <3>2. CASE i > m /\ i - m \in 1 .. n /\ new[i] = out[i - m]
      <4>1. i - m \in 1 .. Len(recs)
        BY <1>4, <3>2 DEF n
      <4>2. out[i - m].cash = (IF i - m = 1 THEN a.m_cash ELSE out[(i - m) - 1].cash)
                              + Effect(Cash, recs[i - m])
        BY <1>4, <4>1
      <4>3. Effect(Cash, out[i - m]) = Effect(Cash, recs[i - m])
        BY <1>5, <3>2
      <4>4. CASE i - m = 1
        <5>1. i - 1 = m /\ m \in 1 .. m
          BY <1>2, <4>4
        <5>2. new[i - 1].cash = a.m_cash
          BY <1>1, <1>2, <1>6, <5>1
        <5> QED
          BY <3>2, <4>2, <4>3, <4>4, <5>2
      <4>5. CASE i - m # 1
        <5>1. (i - 1) - m \in 1 .. n /\ m + ((i - 1) - m) = i - 1 /\ (i - 1) - m = (i - m) - 1
          BY <1>2, <1>6, <3>2, <4>5
        <5>2. new[m + ((i - 1) - m)] = out[(i - 1) - m]
          BY <1>6, <5>1
        <5>3. new[i - 1] = out[(i - m) - 1]
          BY <5>1, <5>2
        <5> QED
          BY <3>2, <4>2, <4>3, <4>5, <5>3
      <4> QED
        BY <4>4, <4>5
    <3> QED
      BY <1>7, <3>1, <3>2
  <2> QED
    BY <1>6, <2>1, <2>2 DEF RunningCash
<1>10. ASSUME NEW e \in Measures
       PROVE  Level(e, u) = Level(e, a) + Total(Column(e, recs))
              /\ Total(Column(e, new)) = Total(Column(e, log)) + Total(Column(e, recs))
  <2>1. Level(e, u) = Level(e, a) + Total(Column(e, recs))
    BY DEF Batch, recs
  <2>2. Total(Column(e, log \o out)) = Total(Column(e, log)) + Total(Column(e, out))
    BY <1>2, <1>4, ColumnConcat
  <2> QED
    BY <1>4, <1>6, <2>1, <2>2
<1>11. Story(u)
  <2>1. ASSUME NEW e \in Measures PROVE Level(e, u) = Total(Column(e, new))
    <3>1. Level(e, a) = Total(Column(e, log))
      BY <1>1 DEF Story, log
    <3> QED
      BY <1>10, <3>1
  <2> QED
    BY <2>1 DEF Story, new
<1>12. Last(new).cash = u.m_cash
  <2>1. u.m_cash = a.m_cash + Total(Column(Cash, recs))
    <3>1. Level(Cash, u) = u.m_cash - InitCash /\ Level(Cash, a) = a.m_cash - InitCash
      BY DEF Level, Cash
    <3>2. Level(Cash, u) = Level(Cash, a) + Total(Column(Cash, recs))
      BY <1>10, CashIsMeasure
    <3>3. Total(Column(Cash, recs)) \in Int /\ u.m_cash \in Int /\ InitCash \in Int
      BY <1>3, ColumnTotalType, CashIsMeasure, AccountNumbers, ParameterAssumption
    <3> DEFINE t == Total(Column(Cash, recs))
    <3>4. u.m_cash - InitCash = (a.m_cash - InitCash) + t /\ t \in Int
      BY <3>1, <3>2, <3>3
    <3> HIDE DEF t
    <3>5. u.m_cash = a.m_cash + t
      <4>1. u.m_cash \in Int /\ a.m_cash \in Int /\ InitCash \in Int /\ t \in Int
        BY <1>2, <3>3, <3>4
      <4> DEFINE x == u.m_cash
                 y == a.m_cash
                 c == InitCash
      <4>2. x \in Int /\ y \in Int /\ c \in Int /\ x - c = (y - c) + t
        BY <3>4, <4>1
      <4> HIDE DEF x, y, c
      <4>3. x = y + t
        BY <3>4, <4>2
      <4> QED
        BY <4>3 DEF x, y
    <3> QED
      BY <3>5 DEF t
  <2>2. Last(new) = new[m + n]
    BY <1>6 DEF Last
  <2>3. CASE n = 0
    <3>1. m + n = m /\ m \in 1 .. m
      BY <1>2, <2>3
    <3>2. Last(new).cash = a.m_cash
      BY <1>1, <1>2, <1>6, <2>2, <3>1
    <3>3. recs = <<>>
      <4>1. recs \in Seq(Record) /\ Len(recs) = 0
        BY <1>3, <1>4, <2>3 DEF n
      <4> QED
        BY <4>1, EmptySeq
    <3>4. Total(Column(Cash, recs)) = 0
      BY <3>3, ColumnEmpty, CashIsMeasure
    <3> QED
      BY <1>2, <2>1, <3>2, <3>4
  <2>4. CASE n # 0
    <3>1. n \in 1 .. n /\ n > 0
      BY <1>6, <2>4
    <3>2. new[m + n] = out[n]
      BY <1>6, <3>1
    <3>3. out[n].cash = a.m_cash + Total(Column(Cash, recs))
      BY <1>4, <3>1 DEF n
    <3> QED
      BY <2>1, <2>2, <3>2, <3>3
  <2> QED
    BY <2>3, <2>4
<1>13. Good(u)
  BY <1>8, <1>9, <1>11, <1>12 DEF Good, new
<1>14. out \in Seq(Record) /\ \A i \in 1 .. Len(out) : Recent(a, d, d, out[i])
  BY <1>4, <1>5 DEF n
<1> QED
  BY <1>13, <1>14 DEF out, recs

LEMMA FrontierFacts ==
  ASSUME NEW a, IsAccount(a), NEW d \in Nat
  PROVE  /\ AdvanceFrontier(a, d) \in [Stocks -> Nat]
         /\ \A s \in Stocks :
              AdvanceFrontier(a, d)[s]
                = IF s \in AnyHeld(a) /\ a.m_tmp_weight_checked_until[s] < d + 1 THEN d + 1
                  ELSE a.m_tmp_weight_checked_until[s]
<1>1. ASSUME NEW s \in Stocks
      PROVE  /\ AdvanceFrontier(a, d)[s]
                  = IF s \in AnyHeld(a) /\ a.m_tmp_weight_checked_until[s] < d + 1 THEN d + 1
                    ELSE a.m_tmp_weight_checked_until[s]
             /\ a.m_tmp_weight_checked_until[s] \in Nat
  <2> DEFINE x == a.m_tmp_weight_checked_until[s]
  <2>1. x \in Nat
    BY DEF IsAccount
  <2>2. AdvanceFrontier(a, d)[s] = IF s \in AnyHeld(a) THEN Max({x, d + 1}) ELSE x
    BY DEF AdvanceFrontier, AnyHeld
  <2> HIDE DEF x
  <2>3. Max({x, d + 1}) = IF x >= d + 1 THEN x ELSE d + 1
    BY <2>1, MaxPair
  <2>4. AdvanceFrontier(a, d)[s] = IF s \in AnyHeld(a) /\ x < d + 1 THEN d + 1 ELSE x
    BY <2>1, <2>2, <2>3
  <2> QED
    BY <2>1, <2>4 DEF x
<1>2. AdvanceFrontier(a, d) = [s \in Stocks |-> AdvanceFrontier(a, d)[s]]
  BY DEF AdvanceFrontier
<1>3. \A s \in Stocks : AdvanceFrontier(a, d)[s] \in Nat
  BY <1>1
<1> DEFINE f == AdvanceFrontier(a, d)
<1>4. f = [s \in Stocks |-> f[s]] /\ \A s \in Stocks : f[s] \in Nat
  BY <1>2, <1>3
<1> HIDE DEF f
<1>5. f \in [Stocks -> Nat]
  BY <1>4
<1> QED
  BY <1>1, <1>5 DEF f

LEMMA UpdateFields ==
  ASSUME NEW a, Good(a), NEW d \in Nat, ~AlreadyUpdated(a, d),
         NEW f, DayByDay(f, a, d), Weighed(a, d) = f[MaxDay]
  PROVE  LET u == updateWithWeight(a, d)
             b == f[MaxDay]
         IN  /\ Good(u)
             /\ \E recs \in Seq(Record) : /\ u.m_trade_list = a.m_trade_list \o recs
                                          /\ \A i \in 1 .. Len(recs) : Recent(a, d, d, recs[i])
             /\ u.m_position = b.tm.m_position
             /\ u.m_short_position = b.tm.m_short_position
             /\ u.m_borrow_stock = b.tm.m_borrow_stock
             /\ u.m_last_update_datetime = d
             /\ u.m_tmp_weight_checked_until = AdvanceFrontier(a, d)
             /\ SameFrame(a, b.tm)
             /\ \A i \in 1 .. Len(b.recs) : b.recs[i].datetime <= lastDatetime(u)
<1> DEFINE b == f[MaxDay]
           out == ReplayCash(a.m_cash, b.recs)
           log == a.m_trade_list \o out
           until == AdvanceFrontier(a, d)
           u == updateWithWeight(a, d)
<1>1. MaxDay \in Nat /\ MaxDay \in 0 .. MaxDay
  BY ParameterAssumption
<1>2. Batch(a, d, MaxDay, b)
  BY <1>1 DEF DayByDay
<1>3. /\ IsAccount(b.tm) /\ SameFrame(a, b.tm) /\ b.recs \in Seq(Record)
      /\ \A i \in 1 .. Len(b.recs) : Recent(a, d, MaxDay, b.recs[i])
  BY <1>2 DEF Batch
<1>4. b.tm.m_trade_list = a.m_trade_list /\ IsAccount(a) /\ a.m_cash \in Int
      /\ a.m_trade_list \in Seq(Record) /\ a.m_trade_list # <<>>
  BY <1>3, AccountNumbers DEF SameFrame, Good, IsAccount
<1>5. u = [b.tm EXCEPT !.m_trade_list = @ \o out, !.m_tmp_weight_checked_until = until,
                       !.m_last_update_datetime = d]
  BY DEF updateWithWeight, Logged
<1>6. out \in Seq(Record) /\ Len(out) = Len(b.recs)
      /\ \A i \in 1 .. Len(b.recs) : out[i].datetime = b.recs[i].datetime
  <2>1. \A i \in 1 .. Len(b.recs) : b.recs[i].business \in EventBusinesses /\ b.recs[i].cost = 0
    BY <1>3 DEF Recent
  <2> HIDE DEF b
  <2>2. out \in Seq(Record) /\ Len(out) = Len(b.recs)
        /\ \A i \in 1 .. Len(b.recs) : out[i].cash \in Int /\ out[i] = Stamped(b.recs[i], out[i].cash)
    BY <1>3, <1>4, <2>1, ReplayFacts
  <2> HIDE DEF out
  <2>3. \A i \in 1 .. Len(b.recs) : b.recs[i] \in Record
    BY <1>3
  <2> QED
    BY <2>2, <2>3, StampedFacts
<1>7. until \in [Stocks -> Nat]
  BY <1>4, FrontierFacts
<1> DEFINE t == b.tm
<1> HIDE DEF b, out, until, u
<1>8. log \in Seq(Record) /\ log # <<>>
  BY <1>4, <1>6
<1> HIDE DEF log
<1>9. Shape(t) /\ t.m_trade_list = a.m_trade_list /\ IsAccount(t)
  BY <1>3, <1>4 DEF IsAccount
<1> HIDE DEF t
<1>10. u = [t EXCEPT !.m_trade_list = log, !.m_tmp_weight_checked_until = until,
                     !.m_last_update_datetime = d]
  BY <1>5, <1>9 DEF t, log, Shape, Fields
<1>11. /\ IsAccount(u) /\ u.m_trade_list = log /\ u.m_cash = t.m_cash
       /\ u.m_checkin_cash = t.m_checkin_cash /\ u.m_checkout_cash = t.m_checkout_cash
       /\ u.m_borrow_cash = t.m_borrow_cash
       /\ u.m_checkin_stock = t.m_checkin_stock /\ u.m_checkout_stock = t.m_checkout_stock
       /\ u.m_position = t.m_position /\ u.m_position_history = t.m_position_history
       /\ u.m_short_position = t.m_short_position /\ u.m_borrow_stock = t.m_borrow_stock
       /\ u.m_short_position_history = t.m_short_position_history
       /\ u.m_last_update_datetime = d /\ u.m_tmp_weight_checked_until = until
  BY <1>7, <1>8, <1>9, <1>10 DEF IsAccount, Shape, Fields
<1>12. \A e \in Measures : Level(e, u) = Level(e, t)
  <2>1. Net(u) = Net(t)
    BY <1>11 DEF Net
  <2>2. \A side, x : Num(u, side, x) = Num(t, side, x)
    BY <1>11 DEF Num, Held
  <2> QED
    BY <1>11, <2>1, <2>2 DEF Level
<1>13. Good(u) /\ \A i \in 1 .. Len(out) : Recent(a, d, d, out[i])
  BY <1>1, <1>2, <1>11, <1>12, GoodWithBatch DEF t, log, out
<1>14. \E recs \in Seq(Record) : /\ u.m_trade_list = a.m_trade_list \o recs
                                 /\ \A i \in 1 .. Len(recs) : Recent(a, d, d, recs[i])
  BY <1>6, <1>11, <1>13 DEF log
<1>15. ASSUME NEW i \in 1 .. Len(b.recs) PROVE b.recs[i].datetime <= lastDatetime(u)
  <2>1. /\ InOrder(log) /\ Len(log) \in Nat /\ lastDatetime(u) = log[Len(log)].datetime
    BY <1>11, <1>13, LogFacts DEF Good
  <2> DEFINE j == Len(a.m_trade_list) + i
  <2>2. j \in 1 .. Len(log) /\ log[j] = out[i] /\ Len(log) \in 1 .. Len(log)
    <3> DEFINE old == a.m_trade_list
    <3>1. old \in Seq(Record) /\ out \in Seq(Record) /\ log = old \o out /\ i \in 1 .. Len(out)
      BY <1>4, <1>6 DEF log
    <3>2. j = Len(old) + i
      OBVIOUS
    <3> HIDE DEF old, j
    <3> QED
      BY <3>1, <3>2
  <2> HIDE DEF j
  <2>3. log[j].datetime <= log[Len(log)].datetime
    BY <2>1, <2>2 DEF InOrder
  <2> QED
    BY <1>6, <2>1, <2>2, <2>3
<1> QED
  BY <1>3, <1>11, <1>13, <1>14, <1>15 DEF t, b, until, u

(* An event does not uncover a short position.                             *)
LEMMA DaysCover ==
  ASSUME NEW a, IsAccount(a), NEW d \in Nat, NEW f, DayByDay(f, a, d)
  PROVE  Covers(a, f[MaxDay].tm)
<1> SUFFICES ASSUME NEW s \in Stocks, Unsold(a, s) >= 0
             PROVE  Unsold(f[MaxDay].tm, s) >= 0
  BY DEF Covers
<1>0. MaxDay \in Nat /\ "debt" \in Sides /\ "short" \in Sides
  BY ParameterAssumption DEF Sides
<1>1. \A k \in 0 .. MaxDay : IsAccount(f[k].tm)
  BY DEF DayByDay, Batch
<1> DEFINE debt(k) == Num(f[k].tm, "debt", s)
           short(k) == Num(f[k].tm, "short", s)
           T == {k \in 0 .. MaxDay : debt(k) >= short(k)}
<1>2. \A k \in 0 .. MaxDay : /\ debt(k) \in Nat /\ short(k) \in Nat
                             /\ Unsold(f[k].tm, s) = debt(k) - short(k)
  BY <1>0, <1>1, NumType, UnsoldType
<1> HIDE DEF debt, short
<1>3. 0 \in T
  <2>1. f[0].tm = a /\ 0 \in 0 .. MaxDay
    BY <1>0 DEF DayByDay
  <2>2. Unsold(a, s) = debt(0) - short(0) /\ debt(0) \in Nat /\ short(0) \in Nat
    BY <1>2, <2>1
  <2> QED
    BY <2>1, <2>2
<1>4. ASSUME NEW k \in T, k < MaxDay PROVE k + 1 \in T
  <2>1. k + 1 \in 1 .. MaxDay /\ k + 1 \in 0 .. MaxDay /\ (k + 1) - 1 = k /\ k \in 0 .. MaxDay
    BY <1>0, <1>4
  <2>2. debt(k + 1) = OnDay(a, d, k + 1, s, debt(k))
        /\ short(k + 1) = OnDay(a, d, k + 1, s, short(k))
    <3>1. \A side \in Sides : Num(f[k + 1].tm, side, s)
                              = OnDay(a, d, k + 1, s, Num(f[(k + 1) - 1].tm, side, s))
      BY <2>1 DEF DayByDay
    <3> QED
      BY <1>0, <2>1, <3>1 DEF debt, short
  <2>3. debt(k) \in Nat /\ short(k) \in Nat /\ short(k) <= debt(k)
    BY <1>2, <2>1
  <2>4. CASE k + 1 \notin getWeight(a, s, d)
    BY <2>1, <2>2, <2>3, <2>4 DEF OnDay
  <2>5. CASE k + 1 \in getWeight(a, s, d)
    <3> DEFINE w == Weights[s][k + 1]
    <3>1. w \in ExRights
      BY <2>5, WindowFacts, EventFacts
    <3>2. debt(k + 1) = AfterEvent(debt(k), w) /\ short(k + 1) = AfterEvent(short(k), w)
      BY <2>2, <2>5 DEF OnDay
    <3> HIDE DEF w
    <3>3. AfterEvent(short(k), w) <= AfterEvent(debt(k), w)
          /\ AfterEvent(short(k), w) \in Nat /\ AfterEvent(debt(k), w) \in Nat
      BY <2>3, <3>1, AfterEventMonotone, AfterEventFacts
    <3> QED
      BY <2>1, <3>2, <3>3
  <2> QED
    BY <2>4, <2>5
<1>5. MaxDay \in T
  <2>1. T \subseteq 0 .. MaxDay /\ MaxDay \in 0 .. MaxDay
    BY <1>0
  <2> HIDE DEF T
  <2> QED
    BY <1>0, <1>3, <1>4, <2>1, BoundedInduction
<1> QED
  BY <1>2, <1>5

LEMMA UpdateIsUpdatedTo ==
  ASSUME NEW a, Good(a), NEW d \in Nat
  PROVE  UpdatedTo(a, updateWithWeight(a, d), d)
<1> DEFINE u == updateWithWeight(a, d)
<1>0. IsAccount(a) /\ a.m_trade_list \in Seq(Record)
  BY LogFacts DEF Good
<1>1. CASE AlreadyUpdated(a, d)
  <2>1. u = a
    BY <1>1 DEF updateWithWeight
  <2>2. <<>> \in Seq(Record) /\ a.m_trade_list = a.m_trade_list \o <<>> /\ Len(<<>>) = 0
    BY <1>0
  <2>3. Covers(a, a)
    BY DEF Covers
  <2>4. \A i \in 1 .. Len(<<>>) : Recent(a, d, d, <<>>[i])
    BY <2>2
  <2>5. UpdatedTo(a, a, d)
    BY <2>2, <2>3, <2>4 DEF UpdatedTo
  <2> QED
    BY <2>1, <2>5
<1>2. CASE ~AlreadyUpdated(a, d)
  <2>1. PICK f : DayByDay(f, a, d) /\ Weighed(a, d) = f[MaxDay]
    BY <1>0, WeighedFacts
  <2> DEFINE t == f[MaxDay].tm
  <2>2. /\ Good(u)
        /\ \E recs \in Seq(Record) : /\ u.m_trade_list = a.m_trade_list \o recs
                                     /\ \A i \in 1 .. Len(recs) : Recent(a, d, d, recs[i])
        /\ u.m_position = t.m_position /\ u.m_short_position = t.m_short_position
        /\ u.m_borrow_stock = t.m_borrow_stock /\ SameFrame(a, t)
    BY <1>2, <2>1, UpdateFields
  <2>3. Covers(a, t)
    BY <1>0, <2>1, DaysCover
  <2> HIDE DEF u, t
  <2>4. \A s : Unsold(u, s) = Unsold(t, s)
    BY <2>2 DEF Unsold
  <2>5. Covers(a, u)
    BY <2>3, <2>4 DEF Covers
  <2>6. UpdatedTo(a, u, d)
    BY <2>2, <2>5 DEF UpdatedTo, SameFrame
  <2> QED
    BY <2>6 DEF u
<1> QED
  BY <1>1, <1>2

-----------------------------------------------------------------------------
(* The new account.                                                        *)

LEMMA NoEntriesFacts ==
  /\ DOMAIN NoEntries = {} /\ NoEntries = [s \in DOMAIN NoEntries |-> NoEntries[s]]
  /\ Positions(NoEntries) /\ Debts(NoEntries)
  /\ OpenGain(NoEntries) = 0 /\ ClosedGain(<<>>) = 0 /\ LoanTotal(<<>>) = 0
  /\ \A s : NumberIn(NoEntries, s) = 0
<1>1. DOMAIN NoEntries = {} /\ NoEntries = [s \in DOMAIN NoEntries |-> NoEntries[s]]
  BY DEF NoEntries
<1>2. Positions(NoEntries) /\ Debts(NoEntries)
  BY <1>1 DEF Positions, Debts
<1>3. OpenGain(NoEntries) = 0
  <2>1. /\ Gains(NoEntries) \in Seq(Int) /\ Len(Gains(NoEntries)) = Len(StockSeq)
        /\ \A i \in 1 .. Len(StockSeq) : Gains(NoEntries)[i] = GainIn(NoEntries, StockSeq[i])
        /\ OpenGain(NoEntries) = Total(Gains(NoEntries))
    BY <1>2, GainsType
  <2>2. \A s : GainIn(NoEntries, s) = 0
    BY <1>1 DEF GainIn
  <2> DEFINE v == Gains(NoEntries)
  <2>3. v \in Seq(Int) /\ \A i \in 1 .. Len(v) : v[i] = 0
    BY <2>1, <2>2
  <2> HIDE DEF v
  <2>4. Total(v) = 0
    BY <2>3, TotalZeros
  <2> QED
    BY <2>1, <2>4 DEF v
<1>4. ClosedGain(<<>>) = 0
  <2>1. <<>> \in Seq(Int) /\ Len(<<>>) = 0 /\ [i \in DOMAIN <<>> |-> Gain(<<>>[i])] = <<>>
    OBVIOUS
  <2> QED
    BY <2>1, TotalEmpty DEF ClosedGain
<1>5. LoanTotal(<<>>) = 0
  <2>1. <<>> \in Seq(Int) /\ Len(<<>>) = 0 /\ [i \in DOMAIN <<>> |-> <<>>[i].value] = <<>>
    OBVIOUS
  <2> QED
    BY <2>1, TotalEmpty DEF LoanTotal
<1>6. \A s : NumberIn(NoEntries, s) = 0
  BY <1>1 DEF NumberIn
<1> QED
  BY <1>1, <1>2, <1>3, <1>4, <1>5, <1>6, ZenonT(40)

LEMMA InitRecordFacts ==
  /\ InitRecord \in Record /\ InitRecord.datetime = 0 /\ InitRecord.cash = InitCash
  /\ InitRecord.business = "INIT"
  /\ \A e \in Measures : Effect(e, InitRecord) = 0
<1>1. InitCash \in Nat /\ InitCash \in Int
  BY ParameterAssumption
<1>2. 0 \in Nat /\ "INIT" \in Businesses /\ NoStock \in Stocks \cup {NoStock} /\ 0 \in Int
  BY DEF Businesses
<1>3. /\ InitRecord \in Record /\ InitRecord.datetime = 0 /\ InitRecord.business = "INIT"
      /\ InitRecord.cash = InitCash /\ InitRecord.cost = 0 /\ InitRecord.stock = NoStock
  BY <1>1, <1>2 DEF InitRecord, TradeRecord, Record
<1> DEFINE r == InitRecord
<1> HIDE DEF r
<1>4. r.business = "INIT" /\ r.cost = 0 /\ r.stock = NoStock
  BY <1>3 DEF r
<1>5. CashEffect(r) = 0 /\ SignedCash(r) = 0 /\ DebtCost(r) = 0
  <2>1. CashEffect(r) = -r.cost
    BY <1>4 DEF CashEffect
  <2>2. r \in Record
    BY <1>3 DEF r
  <2>3. -r.cost = 0 - r.cost
    BY <2>2, RecordFields
  <2>4. CashEffect(r) = 0
    BY <1>4, <2>1, <2>3
  <2> QED
    BY <1>4, <2>4 DEF SignedCash, DebtCost
<1>6. \A s \in Stocks : \A plus, minus : Signed(r, s, plus, minus) = 0
  BY <1>4, NoStockSigned
<1>7. ASSUME NEW e \in Measures PROVE Effect(e, r) = 0
  <2>1. CASE e = Cash \/ e = <<"loan", NoStock>> \/ e = <<"cost", NoStock>>
    BY <1>5, <2>1, MeasureIs
  <2>2. ASSUME NEW own \in Sides, NEW x \in Stocks, e = <<own, x>> PROVE Effect(e, r) = 0
    <3>1. Effect(e, r) = Signed(r, x, Plus(own), Minus(own))
      BY <2>2, MeasureIs
    <3> QED
      BY <1>6, <3>1
  <2> QED
    BY <2>1, <2>2, MeasureCases
<1> QED
  BY <1>3, <1>7 DEF r

LEMMA NewAccountGood ==
  ASSUME NEW params
  PROVE  LET a == NewAccount(params)
         IN  /\ Good(a) /\ a.m_trade_list = <<InitRecord>> /\ lastDatetime(a) = 0
             /\ a.m_last_update_datetime = 0
             /\ \A s \in Stocks : a.m_tmp_weight_checked_until[s] = 0
             /\ \A s : Unsold(a, s) = 0
             /\ \A side \in Sides : \A s : Num(a, side, s) = 0
<1> DEFINE a == NewAccount(params)
           log == <<InitRecord>>
           until == [s \in Stocks |-> 0]
<1>1. /\ Shape(a) /\ a.m_cash = InitCash /\ a.m_checkin_cash = InitCash
      /\ a.m_checkout_cash = 0 /\ a.m_checkin_stock = 0 /\ a.m_checkout_stock = 0
      /\ a.m_borrow_cash = 0 /\ a.m_loan_list = <<>> /\ a.m_borrow_stock = NoEntries
      /\ a.m_trade_list = log /\ a.m_position = NoEntries /\ a.m_position_history = <<>>
      /\ a.m_short_position = NoEntries /\ a.m_short_position_history = <<>>
      /\ a.m_tmp_weight_checked_until = until /\ a.m_last_update_datetime = 0
  BY DEF NewAccount, Shape, Fields
<1>2. InitRecord \in Record /\ <<InitRecord>> \in Seq(Record) /\ Len(<<InitRecord>>) = 1
      /\ <<InitRecord>>[1] = InitRecord /\ <<InitRecord>> # <<>>
  BY InitRecordFacts
<1>3. InitCash \in Int
  BY ParameterAssumption
<1>4. until \in [Stocks -> Nat] /\ \A s \in Stocks : until[s] = 0
  OBVIOUS
<1>5. <<>> \in Seq(Loan) /\ <<>> \in Seq(Position)
  OBVIOUS
<1> HIDE DEF a, until
<1>6. IsAccount(a)
  BY <1>1, <1>2, <1>3, <1>4, <1>5, NoEntriesFacts DEF IsAccount
<1>7. Last(a.m_trade_list) = InitRecord /\ lastDatetime(a) = 0
  BY <1>1, <1>2, InitRecordFacts DEF Last, lastDatetime
<1>8. \A side \in Sides : \A s : Num(a, side, s) = 0
  BY <1>1, NoEntriesFacts DEF Num, Held
<1>9. Net(a) = InitCash
  <2>1. Net(a) = (InitCash - 0) + (0 - 0) + 0 + 0 + 0 + 0 + 0
    BY <1>1, NoEntriesFacts DEF Net
  <2> QED
    BY <1>3, <2>1
<1>10. ASSUME NEW e \in Measures PROVE Level(e, a) = 0
  <2>1. CASE e = Cash \/ e = <<"loan", NoStock>> \/ e = <<"cost", NoStock>>
    BY <1>1, <1>3, <1>9, <2>1 DEF Level, Cash
  <2>2. ASSUME NEW own \in Sides, NEW x \in Stocks, e = <<own, x>> PROVE Level(e, a) = 0
    BY <1>8, <2>2 DEF Level, Sides
  <2> QED
    BY <2>1, <2>2, MeasureCases
<1>11. Story(a)
  <2>1. ASSUME NEW e \in Measures PROVE Level(e, a) = Total(Column(e, a.m_trade_list))
    <3>1. Total(Column(e, <<InitRecord>>)) = Effect(e, InitRecord)
      BY <1>2, ColumnOne
    <3> QED
      BY <1>1, <1>10, <3>1, InitRecordFacts
  <2> QED
    BY <2>1 DEF Story
<1>12. InOrder(a.m_trade_list)
  <2>1. \A i, j \in 1 .. 1 : i = 1 /\ j = 1
    OBVIOUS
  <2>2. log[1].datetime <= log[1].datetime
    BY InitRecordFacts
  <2> QED
    BY <1>1, <1>2, <2>1, <2>2 DEF InOrder
<1>13. RunningCash(a.m_trade_list) /\ Last(a.m_trade_list).cash = a.m_cash
  <2>1. \A i \in 1 .. 1 : ~(i > 1)
    OBVIOUS
  <2> QED
    BY <1>1, <1>2, <1>7, <2>1, InitRecordFacts DEF RunningCash
<1>14. Good(a)
  BY <1>6, <1>11, <1>12, <1>13 DEF Good
<1>15. \A s : Unsold(a, s) = 0
  BY <1>1, NoEntriesFacts DEF Unsold
<1>16. \A s \in Stocks : a.m_tmp_weight_checked_until[s] = 0
  BY <1>1, <1>4
<1> QED
  BY <1>1, <1>7, <1>8, <1>14, <1>15, <1>16 DEF a

-----------------------------------------------------------------------------
(* What a call makes of a good account: the log is only added to, at its   *)
(* end.                                                                    *)

LEMMA UpdatedFacts ==
  ASSUME NEW a, Good(a), NEW d \in Nat, NEW u, UpdatedTo(a, u, d)
  PROVE  /\ Moves(a, u) /\ Covers(a, u)
         /\ lastDatetime(u) >= lastDatetime(a)
         /\ lastDatetime(u) = lastDatetime(a) \/ lastDatetime(u) <= d
         /\ Len(u.m_trade_list) >= Len(a.m_trade_list)
<1>1. Good(u) /\ Covers(a, u) /\ IsAccount(a) /\ IsAccount(u)
  BY DEF UpdatedTo, Good
<1>2. PICK recs \in Seq(Record) : /\ u.m_trade_list = a.m_trade_list \o recs
                                  /\ \A i \in 1 .. Len(recs) : Recent(a, d, d, recs[i])
  BY DEF UpdatedTo
<1> DEFINE log == a.m_trade_list
           new == u.m_trade_list
<1>3. /\ log \in Seq(Record) /\ Len(log) \in Nat \ {0} /\ lastDatetime(a) = log[Len(log)].datetime
      /\ lastDatetime(a) \in Nat /\ lastDatetime(u) \in Nat
      /\ lastDatetime(u) = new[Len(new)].datetime
  BY <1>1, LogFacts
<1>4. \A i \in 1 .. Len(recs) : /\ recs[i].datetime \in Nat
                                /\ recs[i].datetime > lastDatetime(a) /\ recs[i].datetime <= d
                                /\ recs[i].datetime >= lastDatetime(a)
  <2> TAKE i \in 1 .. Len(recs)
  <2>1. recs[i] \in Record /\ Recent(a, d, d, recs[i])
    BY <1>2
  <2>2. recs[i].datetime \in Nat
    BY <2>1, RecordFields
  <2> QED
    BY <1>3, <2>1, <2>2 DEF Recent
<1>9. Moves(a, u)
  BY <1>1, <1>2, <1>4 DEF Moves
<1> HIDE DEF log, new
<1>5. new = log \o recs /\ Len(new) = Len(log) + Len(recs) /\ Len(recs) \in Nat
  <2>1. new = log \o recs
    BY <1>2 DEF log, new
  <2> QED
    BY <1>3, <2>1
<1>6. CASE Len(recs) = 0
  <2>1. Len(new) = Len(log) /\ Len(log) \in 1 .. Len(log)
    BY <1>3, <1>5, <1>6
  <2>2. new[Len(new)] = log[Len(log)]
    BY <1>3, <1>5, <2>1
  <2>3. lastDatetime(u) = lastDatetime(a)
    BY <1>3, <2>2
  <2>4. Len(u.m_trade_list) >= Len(a.m_trade_list)
    BY <1>3, <1>5, <1>6 DEF log, new
  <2>5. lastDatetime(u) >= lastDatetime(a)
    BY <1>3, <2>3
  <2> QED
    BY <1>1, <1>9, <2>3, <2>4, <2>5
<1>7. CASE Len(recs) # 0
  <2>1. Len(recs) \in 1 .. Len(recs) /\ Len(new) >= Len(log)
    BY <1>3, <1>5, <1>7
  <2>2. new[Len(new)] = recs[Len(recs)]
    BY <1>3, <1>5, <2>1
  <2>3. lastDatetime(u) = recs[Len(recs)].datetime
    BY <1>3, <2>2
  <2>4. lastDatetime(u) > lastDatetime(a) /\ lastDatetime(u) <= d
    BY <1>4, <2>1, <2>3
  <2>5. lastDatetime(u) >= lastDatetime(a)
    BY <1>3, <2>4
  <2> QED
    BY <1>1, <1>9, <2>1, <2>4, <2>5 DEF log, new
<1> QED
  BY <1>6, <1>7

LEMMA UpdateReady ==
  ASSUME NEW a, NEW d, Ready(a, d)
  PROVE  LET u == updateWithWeight(a, d)
         IN  /\ Ready(u, d) /\ Moves(a, u) /\ Covers(a, u)
             /\ lastDatetime(u) >= lastDatetime(a)
             /\ Len(u.m_trade_list) >= Len(a.m_trade_list)
             /\ DOMAIN u.m_position = DOMAIN a.m_position
             /\ DOMAIN u.m_short_position = DOMAIN a.m_short_position
<1> DEFINE u == updateWithWeight(a, d)
<1>1. Good(a) /\ d \in Nat /\ d \in Days /\ d >= lastDatetime(a)
  BY DEF Ready
<1>2. UpdatedTo(a, u, d)
  BY <1>1, UpdateIsUpdatedTo
<1> HIDE DEF u
<1>3. /\ Moves(a, u) /\ Covers(a, u) /\ lastDatetime(u) >= lastDatetime(a)
      /\ lastDatetime(u) = lastDatetime(a) \/ lastDatetime(u) <= d
      /\ Len(u.m_trade_list) >= Len(a.m_trade_list)
  BY <1>1, <1>2, UpdatedFacts
<1>4. Good(u) /\ IsAccount(u)
  BY <1>3 DEF Moves, Good
<1>5. lastDatetime(u) \in Nat
  BY <1>4, LogFacts
<1>6. Ready(u, d)
  BY <1>1, <1>3, <1>4, <1>5 DEF Ready
<1> QED
  BY <1>2, <1>3, <1>6 DEF UpdatedTo, u

LEMMA LeadsMoves ==
  ASSUME NEW a, NEW d, Ready(a, d), NEW u, Ready(u, d), Moves(a, u), NEW b, Leads(u, b, d)
  PROVE  Moves(a, b)
<1>1. PICK one \in Seq(Record) : /\ u.m_trade_list = a.m_trade_list \o one
                                 /\ \A i \in 1 .. Len(one) : one[i].datetime >= lastDatetime(a)
  BY DEF Moves
<1>2. PICK two \in Seq(Record) : b.m_trade_list = u.m_trade_list \o two /\ OfDay(two, d)
  BY DEF Leads
<1> DEFINE log == a.m_trade_list
           both == one \o two
<1>3. log \in Seq(Record) /\ d >= lastDatetime(a)
  BY LogFacts DEF Ready, Good
<1> HIDE DEF log
<1>4. both \in Seq(Record) /\ Len(both) = Len(one) + Len(two)
      /\ Len(one) \in Nat /\ Len(two) \in Nat
      /\ \A i \in 1 .. Len(both) : both[i] = IF i <= Len(one) THEN one[i] ELSE two[i - Len(one)]
  OBVIOUS
<1>5. (log \o one) \o two = log \o both
  BY <1>3, ConcatAssociative
<1>6. \A i \in 1 .. Len(both) : both[i].datetime >= lastDatetime(a)
  <2> TAKE i \in 1 .. Len(both)
  <2>1. CASE i <= Len(one)
    <3>1. i \in 1 .. Len(one) /\ both[i] = one[i]
      BY <1>4, <2>1
    <3> QED
      BY <1>1, <3>1
  <2>2. CASE ~(i <= Len(one))
    <3>1. i - Len(one) \in 1 .. Len(two) /\ both[i] = two[i - Len(one)]
      BY <1>4, <2>2
    <3>2. both[i].datetime = d
      BY <1>2, <3>1 DEF OfDay
    <3> QED
      BY <1>3, <3>2
  <2> QED
    BY <2>1, <2>2
<1>7. b.m_trade_list = a.m_trade_list \o both
  BY <1>1, <1>2, <1>5 DEF log
<1>8. Good(b)
  BY DEF Leads
<1> HIDE DEF both
<1> QED
  BY <1>4, <1>6, <1>7, <1>8 DEF Moves

LEMMA SafeMoves ==
  ASSUME NEW a, NEW d, Ready(a, d), NEW b, Safe(updateWithWeight(a, d), b, d)
  PROVE  Moves(a, b) /\ Covers(a, b)
<1> DEFINE u == updateWithWeight(a, d)
<1>1. Ready(u, d) /\ Moves(a, u) /\ Covers(a, u)
  BY UpdateReady
<1>2. Leads(u, b, d) /\ Covers(u, b)
  BY DEF Safe
<1> HIDE DEF u
<1>3. Moves(a, b)
  BY <1>1, <1>2, LeadsMoves
<1> QED
  BY <1>1, <1>2, <1>3 DEF Covers

-----------------------------------------------------------------------------
(* The actions.                                                            *)

LEMMA CallReady ==
  ASSUME TMInv, NEW handler, NEW d \in Days, MayCall(handler, d)
  PROVE  /\ Called(d) /\ Ready(tm, d) /\ Ready(updateWithWeight(tm, d), d)
         /\ handler \in client.calls
         /\ \A s \in client.stocks : s \in Stocks
  BY UpdateReady, ProfileAssumption DEF MayCall, Ready, TMInv, Days, Called

LEMMA AmountsArePos ==
  /\ \A cash \in Cashes : cash \in Pos
  /\ \A n \in Numbers : n \in Pos
  BY ParameterAssumption DEF Pos

LEMMA CheckinHandled ==
  ASSUME TMInv, Checkin
  PROVE  Handled(tm')
<1>1. PICK d \in Days, cash \in Cashes :
         MayCall("checkin", d) /\ tm' = checkin(updateWithWeight(tm, d), d, cash)
  BY DEF Checkin
<1>2. Called(d) /\ Ready(tm, d) /\ Ready(updateWithWeight(tm, d), d)
      /\ cash \in Pos
  BY <1>1, CallReady, AmountsArePos
<1>3. Safe(updateWithWeight(tm, d), tm', d)
  BY <1>1, <1>2, SafeCheckin
<1> QED
  BY <1>2, <1>3 DEF Handled

LEMMA CheckoutHandled ==
  ASSUME TMInv, Checkout
  PROVE  Handled(tm')
<1>1. PICK d \in Days, cash \in Cashes :
         MayCall("checkout", d) /\ tm' = checkout(updateWithWeight(tm, d), d, cash)
  BY DEF Checkout
<1>2. Called(d) /\ Ready(tm, d) /\ Ready(updateWithWeight(tm, d), d)
      /\ cash \in Pos
  BY <1>1, CallReady, AmountsArePos
<1>3. Safe(updateWithWeight(tm, d), tm', d)
  BY <1>1, <1>2, SafeCheckout
<1> QED
  BY <1>2, <1>3 DEF Handled

LEMMA CheckinStockHandled ==
  ASSUME TMInv, CheckinStock
  PROVE  Handled(tm')
<1>1. PICK d \in Days, s \in client.stocks, n \in Numbers :
         MayCall("checkinStock", d) /\ tm' = checkinStock(updateWithWeight(tm, d), d, s, n)
  BY DEF CheckinStock
<1>2. Called(d) /\ Ready(tm, d) /\ Ready(updateWithWeight(tm, d), d)
      /\ s \in Stocks /\ n \in Pos
  BY <1>1, CallReady, AmountsArePos
<1>3. Safe(updateWithWeight(tm, d), tm', d)
  BY <1>1, <1>2, SafeCheckinStock
<1> QED
  BY <1>2, <1>3 DEF Handled

LEMMA CheckoutStockHandled ==
  ASSUME TMInv, CheckoutStock
  PROVE  Handled(tm')
<1>1. PICK d \in Days, s \in client.stocks, n \in Numbers :
         MayCall("checkoutStock", d) /\ tm' = checkoutStock(updateWithWeight(tm, d), d, s, n)
  BY DEF CheckoutStock
<1>2. Called(d) /\ Ready(tm, d) /\ Ready(updateWithWeight(tm, d), d)
      /\ s \in Stocks /\ n \in Pos
  BY <1>1, CallReady, AmountsArePos
<1>3. Safe(updateWithWeight(tm, d), tm', d)
  BY <1>1, <1>2, SafeCheckoutStock
<1> QED
  BY <1>2, <1>3 DEF Handled

LEMMA BorrowCashHandled ==
  ASSUME TMInv, BorrowCash
  PROVE  Handled(tm')
<1>1. PICK d \in Days, cash \in Cashes :
         MayCall("borrowCash", d) /\ tm' = borrowCash(updateWithWeight(tm, d), d, cash)
  BY DEF BorrowCash
<1>2. Called(d) /\ Ready(tm, d) /\ Ready(updateWithWeight(tm, d), d)
      /\ cash \in Pos
  BY <1>1, CallReady, AmountsArePos
<1>3. Safe(updateWithWeight(tm, d), tm', d)
  BY <1>1, <1>2, SafeBorrowCash
<1> QED
  BY <1>2, <1>3 DEF Handled

LEMMA ReturnCashHandled ==
  ASSUME TMInv, ReturnCash
  PROVE  Handled(tm')
<1>1. PICK d \in Days, cash \in Cashes :
         MayCall("returnCash", d) /\ tm' = returnCash(updateWithWeight(tm, d), d, cash)
  BY DEF ReturnCash
<1>2. Called(d) /\ Ready(tm, d) /\ Ready(updateWithWeight(tm, d), d)
      /\ cash \in Pos
  BY <1>1, CallReady, AmountsArePos
<1>3. Safe(updateWithWeight(tm, d), tm', d)
  BY <1>1, <1>2, SafeReturnCash
<1> QED
  BY <1>2, <1>3 DEF Handled

LEMMA BorrowStockHandled ==
  ASSUME TMInv, BorrowStock
  PROVE  Handled(tm')
<1>1. PICK d \in Days, s \in client.stocks, n \in Numbers :
         MayCall("borrowStock", d) /\ tm' = borrowStock(updateWithWeight(tm, d), d, s, n)
  BY DEF BorrowStock
<1>2. Called(d) /\ Ready(tm, d) /\ Ready(updateWithWeight(tm, d), d)
      /\ s \in Stocks /\ n \in Pos
  BY <1>1, CallReady, AmountsArePos
<1>3. Safe(updateWithWeight(tm, d), tm', d)
  BY <1>1, <1>2, SafeBorrowStock
<1> QED
  BY <1>2, <1>3 DEF Handled

(* A client's return uncovers no other stock.                              *)
LEMMA ReturnStockBrings ==
  ASSUME TMInv, NEW s \in client.stocks, ReturnStockOf(s)
  PROVE  s \in Stocks /\ Brings(tm') /\ CoversBut(tm, tm', s)
<1>1. PICK d \in Days, n \in Numbers :
         MayCall("returnStock", d) /\ tm' = returnStock(updateWithWeight(tm, d), d, s, n)
  BY DEF ReturnStockOf
<1> DEFINE u == updateWithWeight(tm, d)
           b == tm'
<1>2. Called(d) /\ Ready(tm, d) /\ Ready(u, d) /\ s \in Stocks /\ n \in Pos /\ Covers(tm, u)
  BY <1>1, CallReady, AmountsArePos, UpdateReady
<1> HIDE DEF b
<1>3. b = returnStock(u, d, s, n)
  BY <1>1 DEF b
<1>4. Leads(u, b, d) /\ \A t \in Stocks \ {s} : Unsold(b, t) = Unsold(u, t)
  BY <1>2, <1>3, LeadsReturnStock
<1>5. CoversBut(tm, b, s)
  BY <1>2, <1>4 DEF CoversBut, Covers
<1> QED
  BY <1>2, <1>4, <1>5 DEF Brings, b

LEMMA BuyHandled ==
  ASSUME TMInv, Buy
  PROVE  Handled(tm')
<1>1. PICK d \in Days, s \in client.stocks, n \in Numbers :
         MayCall("buy", d) /\ tm' = buy(updateWithWeight(tm, d), d, s, n)
  BY DEF Buy
<1>2. Called(d) /\ Ready(tm, d) /\ Ready(updateWithWeight(tm, d), d)
      /\ s \in Stocks /\ n \in Pos
  BY <1>1, CallReady, AmountsArePos
<1>3. Safe(updateWithWeight(tm, d), tm', d)
  BY <1>1, <1>2, SafeBuy
<1> QED
  BY <1>2, <1>3 DEF Handled

LEMMA SellShortHandled ==
  ASSUME TMInv, SellShort
  PROVE  Handled(tm')
<1>1. PICK d \in Days, s \in client.stocks, n \in Numbers :
         MayCall("sellShort", d) /\ tm' = sellShort(updateWithWeight(tm, d), d, s, n)
  BY DEF SellShort
<1>2. Called(d) /\ Ready(tm, d) /\ Ready(updateWithWeight(tm, d), d)
      /\ s \in Stocks /\ n \in Pos
  BY <1>1, CallReady, AmountsArePos
<1>3. Safe(updateWithWeight(tm, d), tm', d)
  BY <1>1, <1>2, SafeSellShort
<1> QED
  BY <1>2, <1>3 DEF Handled

LEMMA SellHandled ==
  ASSUME TMInv, Sell
  PROVE  Handled(tm')
<1>1. PICK d \in Days, s \in client.stocks, n \in Numbers \cup {MaxDouble} :
         /\ MayCall("sell", d) /\ s \in DOMAIN tm.m_position
         /\ tm' = sell(updateWithWeight(tm, d), d, s, n)
  BY DEF Sell
<1>2. Called(d) /\ Ready(tm, d) /\ Ready(updateWithWeight(tm, d), d)
      /\ (n \in Pos \/ n = MaxDouble)
  BY <1>1, CallReady, AmountsArePos
<1>3. s \in DOMAIN updateWithWeight(tm, d).m_position
  BY <1>1, <1>2, UpdateReady
<1>4. Safe(updateWithWeight(tm, d), tm', d)
  BY <1>1, <1>2, <1>3, SafeSell
<1> QED
  BY <1>2, <1>4 DEF Handled

LEMMA BuyShortHandled ==
  ASSUME TMInv, BuyShort
  PROVE  Handled(tm')
<1>1. PICK d \in Days, s \in client.stocks, n \in Numbers \cup {MaxDouble} :
         /\ MayCall("buyShort", d) /\ s \in DOMAIN tm.m_short_position
         /\ tm' = buyShort(updateWithWeight(tm, d), d, s, n)
  BY DEF BuyShort
<1>2. Called(d) /\ Ready(tm, d) /\ Ready(updateWithWeight(tm, d), d)
      /\ (n \in Pos \/ n = MaxDouble)
  BY <1>1, CallReady, AmountsArePos
<1>3. s \in DOMAIN updateWithWeight(tm, d).m_short_position
  BY <1>1, <1>2, UpdateReady
<1>4. Safe(updateWithWeight(tm, d), tm', d)
  BY <1>1, <1>2, <1>3, SafeBuyShort
<1> QED
  BY <1>2, <1>4 DEF Handled

LEMMA QueryHandled ==
  ASSUME TMInv, Query
  PROVE  Handled(tm')
<1>1. PICK d \in Days : MayCall("query", d) /\ tm' = updateWithWeight(tm, d)
  BY DEF Query
<1>2. Called(d) /\ Good(updateWithWeight(tm, d))
  BY <1>1, CallReady DEF Ready
<1> QED
  BY <1>1, <1>2, SafeSelf DEF Handled

(* The records a client brings are such as Book takes.                     *)
LEMMA StockRecordBrought ==
  ASSUME NEW d \in Days, NEW s \in Stocks, NEW n \in Numbers, NEW business \in StockBusinesses
  PROVE  LET r == StockRecord(d, s, n, business)
         IN  Brought(r) /\ r.datetime = d /\ r.stock = s /\ r.business = business
<1> DEFINE cost == IF business \in {"BUY", "SELL", "SELL_SHORT", "BUY_SHORT"} THEN TradeFee ELSE 0
           price == Price[d]
           r == TradeRecord(d, business, s, n, price, cost, 0)
<1>1. /\ d \in Nat /\ price \in Int /\ n \in Pos /\ n \in Int /\ TradeFee \in Int /\ 0 \in Int
      /\ s \in Stocks \cup {NoStock}
  BY PriceType, AmountsArePos, Fees DEF Pos
<1>2. business \in Businesses
  BY DEF StockBusinesses, Businesses
<1>3. cost \in Int
  BY <1>1
<1>4. business \in {"CHECKIN_STOCK", "CHECKOUT_STOCK"} => cost = 0
  OBVIOUS
<1> HIDE DEF cost, price
<1>5. /\ r \in Record /\ r.datetime = d /\ r.business = business /\ r.stock = s
      /\ r.number = n /\ r.cost = cost
  BY <1>1, <1>2, <1>3, TradeRecordFacts
<1>6. StockRecord(d, s, n, business) = r
  BY DEF StockRecord, cost, price
<1> HIDE DEF r
<1>7. Brought(r)
  BY <1>1, <1>4, <1>5 DEF Brought
<1> QED
  BY <1>5, <1>6, <1>7

LEMMA CashRecordBrought ==
  ASSUME NEW d \in Days, NEW cash \in Cashes, NEW business \in CashBusinesses
  PROVE  LET r == CashRecord(d, cash, business)
         IN  Brought(r) /\ r.datetime = d /\ r.business = business
<1> DEFINE cost == IF business = "BORROW_CASH" THEN LoanFee ELSE 0
           r == TradeRecord(d, business, NoStock, 0, cash, cost, 0)
<1>1. /\ d \in Nat /\ cash \in Pos /\ cash \in Int /\ LoanFee \in Int /\ 0 \in Int
      /\ NoStock \in Stocks \cup {NoStock}
  BY PriceType, AmountsArePos, Fees DEF Pos
<1>2. business \in Businesses
  BY DEF CashBusinesses, Businesses
<1>3. cost \in Int
  BY <1>1
<1> HIDE DEF cost
<1>4. /\ r \in Record /\ r.datetime = d /\ r.business = business /\ r.stock = NoStock
      /\ r.realPrice = cash
  BY <1>1, <1>2, <1>3 DEF TradeRecord, Record
<1>5. CashRecord(d, cash, business) = r
  BY DEF CashRecord, cost
<1> HIDE DEF r
<1>6. Brought(r)
  BY <1>1, <1>4 DEF Brought
<1> QED
  BY <1>4, <1>5, <1>6

LEMMA AddLeads ==
  ASSUME NEW a, NEW r, Brought(r), Ready(a, r.datetime)
  PROVE  Leads(updateWithWeight(a, r.datetime), addTradeRecord(a, r), r.datetime)
<1> DEFINE d == r.datetime
           u == updateWithWeight(a, d)
           b == addTradeRecord(a, r)
<1>1. Ready(u, d)
  BY UpdateReady
<1>2. r.business # "INIT" /\ ~(r.datetime < lastDatetime(a)) /\ Good(u) /\ IsAccount(u) /\ d \in Nat
  <2>1. IsAccount(a) /\ d \in Nat /\ d >= lastDatetime(a)
    BY DEF Ready, Good
  <2>2. lastDatetime(a) \in Nat
    BY <2>1, LogFacts
  <2>3. ~(d < lastDatetime(a))
    BY <2>1, <2>2
  <2> QED
    BY <1>1, <2>1, <2>3 DEF Brought, StockBusinesses, CashBusinesses, Ready, Good
<1> HIDE DEF u
<1>3. CASE r.business \in {"BUY", "CHECKIN_STOCK", "BORROW_STOCK", "SELL_SHORT"}
  <2> DEFINE v == DropFrontier(u, r.stock)
  <2>1. r.stock \in Stocks
    BY <1>3 DEF Brought, CashBusinesses
  <2>2. Quiet(u, v)
    BY <1>2, <2>1, DropQuiet
  <2>3. Leads(u, v, d)
    BY <1>2, <2>2, LeadsQuiet
  <2>4. Ready(v, d)
    BY <1>1, <1>2, <2>3, LeadsOn DEF Ready
  <2>5. Leads(v, Book(v, r), d)
    BY <2>4, BookLeads
  <2>6. Leads(u, Book(v, r), d)
    BY <1>2, <2>3, <2>5, LeadsTrans
  <2>7. b = Book(v, r)
    BY <1>2, <1>3 DEF addTradeRecord, u
  <2> HIDE DEF v, b
  <2> QED
    BY <2>6, <2>7 DEF u, b
<1>4. CASE r.business \notin {"BUY", "CHECKIN_STOCK", "BORROW_STOCK", "SELL_SHORT"}
  <2>1. Leads(u, Book(u, r), d)
    BY <1>1, BookLeads
  <2>2. b = Book(u, r)
    BY <1>2, <1>4 DEF addTradeRecord, u
  <2> HIDE DEF b
  <2> QED
    BY <2>1, <2>2 DEF u, b
<1> QED
  BY <1>3, <1>4

LEMMA AddTradeRecordBrings ==
  ASSUME TMInv, AddTradeRecord
  PROVE  /\ "addTradeRecord" \in client.calls
         /\ Brings(tm') \/ tm' = NewAccount(tm.params)
<1>1. PICK d \in Days :
         /\ MayCall("addTradeRecord", d)
         /\ \E r \in {InitRecord}
               \cup {StockRecord(d, s, n, business) :
                       s \in client.stocks, n \in Numbers, business \in StockBusinesses}
               \cup {CashRecord(d, cash, business) :
                       cash \in Cashes, business \in CashBusinesses} :
              tm' = addTradeRecord(tm, r)
  BY DEF AddTradeRecord, StockBusinesses, CashBusinesses
<1>2. Called(d) /\ Ready(tm, d) /\ "addTradeRecord" \in client.calls /\ \A s \in client.stocks : s \in Stocks
  BY <1>1, CallReady
<1>3. PICK r : /\ tm' = addTradeRecord(tm, r)
               /\ \/ r = InitRecord
                  \/ \E s \in client.stocks, n \in Numbers, business \in StockBusinesses :
                       r = StockRecord(d, s, n, business)
                  \/ \E cash \in Cashes, business \in CashBusinesses :
                       r = CashRecord(d, cash, business)
  BY <1>1
<1>4. CASE r = InitRecord
  BY <1>2, <1>3, <1>4, InitRecordFacts DEF addTradeRecord
<1>5. CASE \E s \in client.stocks, n \in Numbers, business \in StockBusinesses :
              r = StockRecord(d, s, n, business)
  <2>1. Brought(r) /\ r.datetime = d
    BY <1>2, <1>5, StockRecordBrought
  <2> QED
    BY <1>2, <1>3, <2>1, AddLeads DEF Brings
<1>6. CASE \E cash \in Cashes, business \in CashBusinesses : r = CashRecord(d, cash, business)
  <2>1. Brought(r) /\ r.datetime = d
    BY <1>6, CashRecordBrought
  <2> QED
    BY <1>2, <1>3, <2>1, AddLeads DEF Brings
<1> QED
  BY <1>3, <1>4, <1>5, <1>6

(* A loaded account has the books of the saved one.                        *)
LEMMA ReloadFacts ==
  ASSUME NEW a, Good(a), NEW b,
         b = [a EXCEPT !.m_last_update_datetime = 0,
                       !.m_tmp_weight_checked_until = [s \in Stocks |-> 0]]
  PROVE  /\ Good(b) /\ b.m_trade_list = a.m_trade_list
         /\ b.m_last_update_datetime = 0
         /\ \A s \in Stocks : b.m_tmp_weight_checked_until[s] = 0
         /\ b.m_position = a.m_position /\ b.m_short_position = a.m_short_position
         /\ b.m_borrow_stock = a.m_borrow_stock
<1> DEFINE until == [s \in Stocks |-> 0]
           zero == 0
<1>1. until \in [Stocks -> Nat] /\ (\A s \in Stocks : until[s] = 0) /\ zero \in Nat
  OBVIOUS
<1>2. IsAccount(a) /\ b = [a EXCEPT !.m_last_update_datetime = zero,
                                    !.m_tmp_weight_checked_until = until]
  BY DEF Good
<1> HIDE DEF until, zero
<1>3. /\ IsAccount(b) /\ b.m_trade_list = a.m_trade_list /\ b.m_cash = a.m_cash
      /\ b.m_checkin_cash = a.m_checkin_cash /\ b.m_checkout_cash = a.m_checkout_cash
      /\ b.m_borrow_cash = a.m_borrow_cash
      /\ b.m_checkin_stock = a.m_checkin_stock /\ b.m_checkout_stock = a.m_checkout_stock
      /\ b.m_position = a.m_position /\ b.m_position_history = a.m_position_history
      /\ b.m_short_position = a.m_short_position /\ b.m_borrow_stock = a.m_borrow_stock
      /\ b.m_short_position_history = a.m_short_position_history
      /\ b.m_last_update_datetime = zero
      /\ b.m_tmp_weight_checked_until = until
  BY <1>1, <1>2, ZenonT(40) DEF IsAccount, Shape, Fields
<1>4. \A e \in Measures : Level(e, b) = Level(e, a)
  <2>1. Net(b) = Net(a)
    BY <1>3 DEF Net
  <2>2. \A side, x : Num(b, side, x) = Num(a, side, x)
    BY <1>3 DEF Num, Held
  <2> QED
    BY <1>3, <2>1, <2>2 DEF Level
<1>5. Story(b)
  <2>1. ASSUME NEW e \in Measures PROVE Level(e, b) = Total(Column(e, b.m_trade_list))
    BY <1>3, <1>4 DEF Good, Story
  <2> QED
    BY <2>1 DEF Story
<1>6. Good(b)
  BY <1>3, <1>5 DEF Good
<1> QED
  BY <1>1, <1>3, <1>6 DEF zero

LEMMA ReloadMoves ==
  ASSUME TMInv, ReloadAccount
  PROVE  Moves(tm, tm') /\ Covers(tm, tm')
<1>1. Good(tm) /\ tm' = [tm EXCEPT !.m_last_update_datetime = 0,
                                   !.m_tmp_weight_checked_until = [s \in Stocks |-> 0]]
  BY DEF ReloadAccount, Reloaded, TMInv
<1> DEFINE b == tm'
<1>2. b = [tm EXCEPT !.m_last_update_datetime = 0,
                     !.m_tmp_weight_checked_until = [s \in Stocks |-> 0]]
  BY <1>1
<1> HIDE DEF b
<1>3. /\ Good(b) /\ b.m_trade_list = tm.m_trade_list
      /\ b.m_short_position = tm.m_short_position /\ b.m_borrow_stock = tm.m_borrow_stock
  BY <1>1, <1>2, ReloadFacts
<1>4. Covers(tm, b)
  <2>1. \A s : Unsold(b, s) = Unsold(tm, s)
    BY <1>3 DEF Unsold
  <2> QED
    BY <2>1 DEF Covers
<1>5. tm.m_trade_list \in Seq(Record)
  BY <1>1, LogFacts DEF Good
<1>6. <<>> \in Seq(Record) /\ b.m_trade_list = tm.m_trade_list \o <<>> /\ Len(<<>>) = 0
  BY <1>3, <1>5
<1>7. \A i \in 1 .. Len(<<>>) : <<>>[i].datetime >= lastDatetime(tm)
  BY <1>6
<1>8. Moves(tm, b)
  BY <1>3, <1>6, <1>7 DEF Moves
<1> QED
  BY <1>4, <1>8 DEF b

LEMMA TMCases ==
  ASSUME TMInv, TMNext
  PROVE  /\ client' = client
         /\ \/ Handled(tm')
            \/ ReloadAccount
            \/ AddTradeRecord /\ Brings(tm')
            \/ \E s \in Stocks : ReturnStockOf(s) /\ Brings(tm') /\ CoversBut(tm, tm', s)
            \/ tm' = NewAccount(tm.params)
<1>1. client' = client
  BY DEF TMNext, Checkin, Checkout, CheckinStock, CheckoutStock, BorrowCash, ReturnCash,
         BorrowStock, ReturnStock, ReturnStockOf, Buy, Sell, SellShort, BuyShort, AddTradeRecord, Query,
         ResetAccount, ReloadAccount
<1>2. ResetAccount => tm' = NewAccount(tm.params)
  BY DEF ResetAccount
<1>3. ReturnStock =>
        \E s \in Stocks : ReturnStockOf(s) /\ Brings(tm') /\ CoversBut(tm, tm', s)
  BY ReturnStockBrings DEF ReturnStock
<1> QED
  BY <1>1, <1>2, <1>3, CheckinHandled, CheckoutHandled, CheckinStockHandled, CheckoutStockHandled,
     BorrowCashHandled, ReturnCashHandled, BorrowStockHandled, BuyHandled,
     SellHandled, SellShortHandled, BuyShortHandled, QueryHandled, AddTradeRecordBrings
     DEF TMNext

LEMMA TMStep ==
  ASSUME TMInv, TMNext
  PROVE  /\ client' = client
         /\ \/ /\ Moves(tm, tm')
               /\ \/ Covers(tm, tm')
                  \/ AddTradeRecord
                  \/ \E s \in Stocks : ReturnStockOf(s) /\ CoversBut(tm, tm', s)
            \/ tm' = NewAccount(tm.params)
<1>1. Handled(tm') => Moves(tm, tm') /\ Covers(tm, tm')
  BY SafeMoves DEF Handled, Called
<1>2. Brings(tm') => Moves(tm, tm')
  BY UpdateReady, LeadsMoves DEF Brings, Called
<1> QED
  BY <1>1, <1>2, ReloadMoves, TMCases

-----------------------------------------------------------------------------
(* The answers about the past are totals of columns cut at a day.          *)

LEMMA PastType ==
  ASSUME NEW e \in Measures, NEW log \in Seq(Record), NEW d
  PROVE  /\ Past(e, log, d) \in Seq(Int) /\ Len(Past(e, log, d)) = Len(log)
         /\ \A i \in 1 .. Len(log) :
              Past(e, log, d)[i] = IF log[i].datetime > d THEN 0 ELSE Effect(e, log[i])
<1>1. \A i \in 1 .. Len(log) : Effect(e, log[i]) \in Int
  BY EffectType
<1>2. Len(log) \in Nat
  OBVIOUS
<1> DEFINE v == Past(e, log, d)
           m == Len(log)
<1>3. \A i \in 1 .. m : (IF log[i].datetime > d THEN 0 ELSE Effect(e, log[i])) \in Int
  BY <1>1
<1>4. v = [i \in 1 .. m |-> IF log[i].datetime > d THEN 0 ELSE Effect(e, log[i])]
  BY DEF Past
<1>5. v \in [1 .. m -> Int]
  BY <1>3, <1>4
<1>6. \A i \in 1 .. m : v[i] = IF log[i].datetime > d THEN 0 ELSE Effect(e, log[i])
  BY <1>4
<1>7. m \in Nat
  BY <1>2
<1> HIDE DEF v, m
<1>8. v \in Seq(Int) /\ Len(v) = m
  BY <1>5, <1>7
<1> QED
  BY <1>6, <1>8 DEF v, m

LEMMA ReplayIsPast ==
  ASSUME NEW a, IsAccount(a), NEW d, NEW s \in Stocks, NEW own \in Sides, NEW e,
         e = <<own, s>>
  PROVE  Replay(a, s, d, Plus(own), Minus(own)) = Total(Past(e, a.m_trade_list, d))
<1> DEFINE log == a.m_trade_list
           plus == Plus(own)
           minus == Minus(own)
<1>1. log \in Seq(Record)
  BY LogFacts
<1>2. e \in Measures
  BY DEF Measures
<1>3. \A r : Effect(e, r) = Signed(r, s, plus, minus)
  BY <1>2, MeasureIs
<1>4. Replay(a, s, d, plus, minus)
        = Total([i \in DOMAIN log |->
                   IF log[i].datetime > d THEN 0 ELSE Signed(log[i], s, plus, minus)])
  BY DEF Replay
<1> HIDE DEF log, plus, minus
<1>5. DOMAIN log = 1 .. Len(log)
  BY <1>1
<1>6. [i \in DOMAIN log |->
         IF log[i].datetime > d THEN 0 ELSE Signed(log[i], s, plus, minus)]
        = Past(e, log, d)
  BY <1>3, <1>5 DEF Past
<1>7. Replay(a, s, d, plus, minus) = Total(Past(e, log, d))
  BY <1>4, <1>6
<1> QED
  BY <1>7 DEF log, plus, minus

LEMMA AnswersArePast ==
  ASSUME NEW a, IsAccount(a), NEW d
  PROVE  /\ \A s \in Stocks :
              /\ getHoldNumber(a, s, d) = Total(Past(<<"long", s>>, a.m_trade_list, d))
              /\ getShortHoldNumber(a, s, d) = Total(Past(<<"short", s>>, a.m_trade_list, d))
              /\ getDebtNumber(a, s, d) = Total(Past(<<"debt", s>>, a.m_trade_list, d))
         /\ getDebtCash(a, d) = Total(Past(Owing, a.m_trade_list, d))
<1>1. "long" \in Sides /\ "short" \in Sides /\ "debt" \in Sides
  BY DEF Sides
<1>2. /\ Plus("long") = {"BUY", "GIFT", "CHECKIN_STOCK", "SUOGU"}
      /\ Minus("long") = {"SELL", "CHECKOUT_STOCK"}
      /\ Plus("short") = {"SELL_SHORT", "SHORT_ADJUST"} /\ Minus("short") = {"BUY_SHORT"}
      /\ Plus("debt") = {"BORROW_STOCK", "BORROW_ADJUST"} /\ Minus("debt") = {"RETURN_STOCK"}
  BY DEF Plus, Minus, TradedIn, Adjusted
<1>3. ASSUME NEW s \in Stocks
      PROVE  /\ getHoldNumber(a, s, d) = Total(Past(<<"long", s>>, a.m_trade_list, d))
             /\ getShortHoldNumber(a, s, d) = Total(Past(<<"short", s>>, a.m_trade_list, d))
             /\ getDebtNumber(a, s, d) = Total(Past(<<"debt", s>>, a.m_trade_list, d))
  <2>1. getHoldNumber(a, s, d) = Replay(a, s, d, Plus("long"), Minus("long"))
    BY <1>2 DEF getHoldNumber
  <2>2. getShortHoldNumber(a, s, d) = Replay(a, s, d, Plus("short"), Minus("short"))
    BY <1>2 DEF getShortHoldNumber
  <2>3. getDebtNumber(a, s, d) = Replay(a, s, d, Plus("debt"), Minus("debt"))
    BY <1>2 DEF getDebtNumber
  <2>4. ASSUME NEW own \in Sides
        PROVE  Replay(a, s, d, Plus(own), Minus(own)) = Total(Past(<<own, s>>, a.m_trade_list, d))
    BY ReplayIsPast
  <2> QED
    BY <1>1, <2>1, <2>2, <2>3, <2>4
<1>4. getDebtCash(a, d) = Total(Past(Owing, a.m_trade_list, d))
  <2> DEFINE log == a.m_trade_list
  <2>1. log \in Seq(Record)
    BY LogFacts
  <2>2. Owing \in Measures
    BY DEF Measures, Owing
  <2>3. \A r : Effect(Owing, r) = SignedCash(r)
    BY <2>2, MeasureIs DEF Owing
  <2>4. getDebtCash(a, d)
          = Total([i \in DOMAIN log |-> IF log[i].datetime > d THEN 0 ELSE SignedCash(log[i])])
    BY DEF getDebtCash
  <2> HIDE DEF log
  <2>5. DOMAIN log = 1 .. Len(log)
    BY <2>1
  <2>6. [i \in DOMAIN log |-> IF log[i].datetime > d THEN 0 ELSE SignedCash(log[i])]
          = Past(Owing, log, d)
    BY <2>3, <2>5 DEF Past
  <2> QED
    BY <2>4, <2>6 DEF log
<1> QED
  BY <1>3, <1>4

(* On the last day nothing is cut off.                                     *)
LEMMA PastIsAll ==
  ASSUME NEW a, Good(a), NEW e \in Measures
  PROVE  Total(Past(e, a.m_trade_list, lastDatetime(a))) = Level(e, a)
<1> DEFINE log == a.m_trade_list
           last == lastDatetime(a)
           n == Len(log)
<1>1. IsAccount(a) /\ InOrder(log) /\ Story(a)
  BY DEF Good
<1>2. log \in Seq(Record) /\ n \in Nat \ {0} /\ last = log[n].datetime
  BY <1>1, LogFacts
<1>3. \A i \in 1 .. n : log[i].datetime \in Nat
  BY <1>2, RecordFields
<1>4. \A i \in 1 .. n : log[i].datetime <= last
  BY <1>1, <1>2 DEF InOrder
<1>5. Level(e, a) = Total(Column(e, log))
  BY <1>1 DEF Story
<1>6. last \in Nat
  BY <1>2, <1>3
<1> HIDE DEF log, last
<1>7. \A i \in 1 .. n : ~(log[i].datetime > last)
  BY <1>3, <1>4, <1>6
<1>8. Past(e, log, last) = Column(e, log)
  BY <1>7 DEF Past, Column
<1>9. Total(Past(e, log, last)) = Level(e, a)
  BY <1>5, <1>8
<1> QED
  BY <1>9 DEF log, last

(* What is logged on a later day is cut off.                               *)
LEMMA PastIsFinal ==
  ASSUME NEW a, IsAccount(a), NEW b, Moves(a, b), NEW e \in Measures,
         NEW d \in Nat, d < lastDatetime(a)
  PROVE  Total(Past(e, b.m_trade_list, d)) = Total(Past(e, a.m_trade_list, d))
<1> DEFINE log == a.m_trade_list
           new == b.m_trade_list
           last == lastDatetime(a)
<1>1. PICK recs \in Seq(Record) :
         new = log \o recs /\ \A i \in 1 .. Len(recs) : recs[i].datetime >= last
  BY DEF Moves
<1>2. log \in Seq(Record) /\ last \in Nat /\ d < last
  BY LogFacts
<1> HIDE DEF log, new, last
<1>3. new \in Seq(Record) /\ Len(new) = Len(log) + Len(recs) /\ Len(log) \in Nat
      /\ Len(recs) \in Nat
      /\ (\A i \in 1 .. Len(log) : new[i] = log[i])
      /\ \A i \in 1 .. Len(recs) : new[Len(log) + i] = recs[i]
  BY <1>1, <1>2
<1> DEFINE v == Past(e, log, d)
           w == Past(e, recs, d)
           x == Past(e, new, d)
<1>4. /\ v \in Seq(Int) /\ Len(v) = Len(log)
      /\ \A i \in 1 .. Len(log) : v[i] = IF log[i].datetime > d THEN 0 ELSE Effect(e, log[i])
  BY <1>2, PastType
<1>5. /\ w \in Seq(Int) /\ Len(w) = Len(recs)
      /\ \A i \in 1 .. Len(recs) : w[i] = IF recs[i].datetime > d THEN 0 ELSE Effect(e, recs[i])
  BY PastType
<1>6. /\ x \in Seq(Int) /\ Len(x) = Len(new)
      /\ \A i \in 1 .. Len(new) : x[i] = IF new[i].datetime > d THEN 0 ELSE Effect(e, new[i])
  BY <1>3, PastType
<1> HIDE DEF v, w, x
<1>7. \A i \in 1 .. Len(v) : x[i] = v[i]
  <2>1. \A i \in 1 .. Len(log) : i \in 1 .. Len(new)
    BY <1>3
  <2> QED
    BY <1>3, <1>4, <1>6, <2>1
<1>8. \A i \in 1 .. Len(w) : x[Len(v) + i] = w[i]
  <2>1. \A i \in 1 .. Len(recs) : Len(log) + i \in 1 .. Len(new)
    BY <1>3
  <2>2. ASSUME NEW i \in 1 .. Len(recs) PROVE x[Len(log) + i] = w[i]
    <3>1. x[Len(log) + i] = IF recs[i].datetime > d THEN 0 ELSE Effect(e, recs[i])
      BY <1>3, <1>6, <2>1
    <3> QED
      BY <1>5, <3>1
  <2> QED
    BY <1>4, <1>5, <2>2
<1>9. Total(x) = Total(v) + Total(w)
  <2>1. Joined(x, v, w)
    BY <1>3, <1>4, <1>5, <1>6, <1>7, <1>8 DEF Joined
  <2> QED
    BY <1>4, <1>5, <2>1, TotalJoined
<1>10. Total(w) = 0
  <2>1. \A i \in 1 .. Len(recs) : recs[i].datetime \in Nat /\ recs[i].datetime >= last
    BY <1>1, RecordFields
  <2>2. \A i \in 1 .. Len(recs) : recs[i].datetime > d
    BY <1>2, <2>1
  <2>3. \A i \in 1 .. Len(w) : w[i] = 0
    BY <1>5, <2>2
  <2> QED
    BY <1>5, <2>3, TotalZeros
<1>11. Total(x) = Total(v)
  BY <1>4, <1>9, <1>10, TotalType
<1> QED
  BY <1>11 DEF log, new, v, x

LEMMA GoodHoldings ==
  ASSUME TMInv
  PROVE  HoldingsMatch
<1> DEFINE d == lastDatetime(tm)
<1>1. Good(tm) /\ IsAccount(tm)
  BY DEF TMInv, Good
<1>2. \A e \in Measures : Total(Past(e, tm.m_trade_list, d)) = Level(e, tm)
  BY <1>1, PastIsAll
<1>3. Owing \in Measures /\ \A own \in Sides, s \in Stocks : <<own, s>> \in Measures
  BY DEF Measures, Owing
<1>4. Level(Owing, tm) = tm.m_borrow_cash
  BY DEF Level, Owing
<1>5. \A own \in Sides, s \in Stocks : Level(<<own, s>>, tm) = Num(tm, own, s)
  BY DEF Level, Sides
<1>6. /\ \A s \in Stocks :
           /\ getHoldNumber(tm, s, d) = Total(Past(<<"long", s>>, tm.m_trade_list, d))
           /\ getShortHoldNumber(tm, s, d) = Total(Past(<<"short", s>>, tm.m_trade_list, d))
           /\ getDebtNumber(tm, s, d) = Total(Past(<<"debt", s>>, tm.m_trade_list, d))
      /\ getDebtCash(tm, d) = Total(Past(Owing, tm.m_trade_list, d))
  BY <1>1, AnswersArePast
<1>7. \A s : /\ Num(tm, "long", s) = NumberIn(tm.m_position, s)
             /\ Num(tm, "short", s) = NumberIn(tm.m_short_position, s)
             /\ Num(tm, "debt", s) = NumberIn(tm.m_borrow_stock, s)
  BY DEF Num, Held
<1>8. "long" \in Sides /\ "short" \in Sides /\ "debt" \in Sides
  BY DEF Sides
<1> HIDE DEF d
<1>9. \A s \in Stocks :
        /\ getHoldNumber(tm, s, d) = NumberIn(tm.m_position, s)
        /\ getShortHoldNumber(tm, s, d) = NumberIn(tm.m_short_position, s)
        /\ getDebtNumber(tm, s, d) = NumberIn(tm.m_borrow_stock, s)
  BY <1>2, <1>3, <1>5, <1>6, <1>7, <1>8
<1>10. getDebtCash(tm, d) = tm.m_borrow_cash
  BY <1>2, <1>3, <1>4, <1>6
<1> QED
  BY <1>9, <1>10 DEF HoldingsMatch, d

LEMMA GoodCash ==
  ASSUME TMInv
  PROVE  CashMatches
<1> DEFINE log == tm.m_trade_list
<1>1. RunningCash(log) /\ Last(log).cash = tm.m_cash /\ Len(log) \in Nat
  BY LogFacts DEF TMInv, Good
<1>2. \A r : Effect(Cash, r) = CashEffect(r)
  BY CashIsMeasure, MeasureIs
<1> HIDE DEF log
<1>3. ASSUME NEW i \in 2 .. Len(log)
      PROVE  log[i].cash = log[i - 1].cash + CashEffect(log[i])
  <2>1. i \in 1 .. Len(log) /\ i > 1
    BY <1>1
  <2> QED
    BY <1>1, <1>2, <2>1 DEF RunningCash
<1> QED
  BY <1>1, <1>3 DEF CashMatches, log

LEMMA GoodBooks ==
  ASSUME TMInv
  PROVE  BooksBalance
<1>1. Good(tm) /\ IsAccount(tm) /\ Story(tm)
  BY DEF TMInv, Good
<1> DEFINE log == tm.m_trade_list
           e == <<"cost", NoStock>>
<1>2. CashBalances
  <2>1. e \in Measures /\ \A r : Effect(e, r) = DebtCost(r)
    <3>1. e \in Measures
      BY DEF Measures
    <3> QED
      BY <3>1, MeasureIs
  <2>2. log \in Seq(Record)
    BY <1>1, LogFacts
  <2>3. Level(e, tm) = Net(tm) - tm.m_cash
    BY DEF Level
  <2>4. Level(e, tm) = Total(Column(e, log))
    BY <1>1, <2>1 DEF Story
  <2>5. DebtCosts(log) = Total(Column(e, log)) /\ Total(Column(e, log)) \in Int
    <3>1. DOMAIN log = 1 .. Len(log)
      BY <2>2
    <3> HIDE DEF e
    <3>2. [i \in DOMAIN log |-> DebtCost(log[i])] = Column(e, log)
      BY <2>1, <3>1 DEF Column
    <3> QED
      BY <2>1, <2>2, <3>2, ColumnTotalType DEF DebtCosts
  <2>6. Net(tm) \in Int /\ tm.m_cash \in Int
    BY <1>1, NetType, AccountNumbers
  <2>7. \A x, y, z \in Int : x - y = z => y = x - z
    OBVIOUS
  <2>8. tm.m_cash = Net(tm) - DebtCosts(log)
    BY <2>3, <2>4, <2>5, <2>6, <2>7
  <2>9. \A p, q, r, x, y, t, u, v \in Int :
          ((p + q + r + x + y + t + u) - v) = p + q + r + x + y + t + (u - v)
    OBVIOUS
  <2>10. /\ tm.m_checkin_cash - tm.m_checkout_cash \in Int
         /\ tm.m_checkin_stock - tm.m_checkout_stock \in Int
    BY <1>1, AccountNumbers
  <2>11. DebtCosts(log) \in Int
    BY <2>5
  <2> HIDE DEF e
  <2>12. Net(tm) - DebtCosts(log)
           = (tm.m_checkin_cash - tm.m_checkout_cash)
             + (tm.m_checkin_stock - tm.m_checkout_stock)
             + tm.m_borrow_cash
             + OpenGain(tm.m_position) + ClosedGain(tm.m_position_history)
             + OpenGain(tm.m_short_position)
             + (ClosedGain(tm.m_short_position_history) - DebtCosts(log))
    BY <1>1, <2>9, <2>10, <2>11, AccountNumbers DEF Net
  <2> QED
    BY <2>8, <2>12 DEF CashBalances
<1>3. DebtListsAddUp
  <2>1. /\ tm.m_loan_list \in Seq(Loan) /\ LoanTotal(tm.m_loan_list) = tm.m_borrow_cash
        /\ Debts(tm.m_borrow_stock)
    BY <1>1 DEF IsAccount
  <2>2. \A i \in DOMAIN tm.m_loan_list : tm.m_loan_list[i].value > 0
    <3>1. \A i \in DOMAIN tm.m_loan_list : tm.m_loan_list[i] \in Loan
      BY <2>1
    <3> QED
      BY <3>1 DEF Loan, Pos
  <2> QED
    BY <2>1, <2>2 DEF DebtListsAddUp, Debts
<1> QED
  BY <1>2, <1>3 DEF BooksBalance

-----------------------------------------------------------------------------
(* The theorems about the account.                                         *)

LEMMA TMInvInit == TMInit => TMInv
<1> SUFFICES ASSUME TMInit PROVE TMInv
  OBVIOUS
<1>1. PICK profile \in Profiles : client = profile /\ tm = NewAccount(profile.params)
  BY DEF TMInit
<1> QED
  BY <1>1, NewAccountGood DEF TMInv

LEMMA TMInvNext == TMInv /\ [TMNext]_TMvars => TMInv'
<1> SUFFICES ASSUME TMInv, [TMNext]_TMvars PROVE TMInv'
  OBVIOUS
<1>1. CASE TMNext
  <2>1. client' = client /\ (Moves(tm, tm') \/ tm' = NewAccount(tm.params))
    BY <1>1, TMStep
  <2>2. Good(tm')
    BY <2>1, NewAccountGood DEF Moves
  <2> QED
    BY <2>1, <2>2 DEF TMInv
<1>2. CASE UNCHANGED TMvars
  BY <1>2 DEF TMvars, TMInv
<1> QED
  BY <1>1, <1>2

(* Every member of the account keeps its type, every position and debt     *)
(* its sign and its sums, the log stays in date order with a running cash  *)
(* balance, and the log adds up to the account in every measure.           *)
THEOREM AccountIsGood == TMSpec => []TMInv
<1> QED
  BY TMInvInit, TMInvNext, PTL DEF TMSpec

(* The log and the account tell one story after every sequence of trades,  *)
(* loans, ex-rights updates, queries, records brought and reloads.         *)
THEOREM AccountMatchesLog == TMSpec => []LogMatchesAccount
<1>1. TMInv => LogMatchesAccount
  BY GoodHoldings, GoodCash DEF LogMatchesAccount
<1> QED
  BY <1>1, AccountIsGood, PTL

(* No handler creates or destroys money, and the lists of loans and of     *)
(* borrowed lots add up to the totals.                                     *)
THEOREM AccountBalances == TMSpec => []BooksBalance
<1>1. TMInv => BooksBalance
  BY GoodBooks
<1> QED
  BY <1>1, AccountIsGood, PTL

(* No step but a reset changes an answer about a day before the last one   *)
(* logged.                                                                 *)
THEOREM AnswersAreFinal == TMSpec => HistoryIsFinal
<1> DEFINE Final == \/ tm'.m_trade_list = <<InitRecord>>
                    \/ \A d \in 0 .. lastDatetime(tm) - 1 :
                         /\ \A s \in Stocks :
                              /\ getHoldNumber(tm', s, d) = getHoldNumber(tm, s, d)
                              /\ getShortHoldNumber(tm', s, d) = getShortHoldNumber(tm, s, d)
                              /\ getDebtNumber(tm', s, d) = getDebtNumber(tm, s, d)
                         /\ getDebtCash(tm', d) = getDebtCash(tm, d)
<1>1. ASSUME TMInv, [TMNext]_TMvars PROVE [Final]_tm
  <2>1. CASE UNCHANGED TMvars
    BY <2>1 DEF TMvars
  <2>2. CASE TMNext /\ tm' = NewAccount(tm.params)
    BY <2>2, NewAccountGood
  <2>3. CASE TMNext /\ Moves(tm, tm')
    <3>1. IsAccount(tm) /\ IsAccount(tm') /\ lastDatetime(tm) \in Nat
      BY <1>1, <2>3, LogFacts DEF TMInv, Good, Moves
    <3>2. ASSUME NEW d \in 0 .. lastDatetime(tm) - 1, NEW e \in Measures
          PROVE  Total(Past(e, tm'.m_trade_list, d)) = Total(Past(e, tm.m_trade_list, d))
      <4>1. d \in Nat /\ d < lastDatetime(tm)
        BY <3>1
      <4> QED
        BY <2>3, <3>1, <4>1, PastIsFinal
    <3>3. Owing \in Measures /\ \A s \in Stocks :
            <<"long", s>> \in Measures /\ <<"short", s>> \in Measures /\ <<"debt", s>> \in Measures
      BY DEF Measures, Owing, Sides
    <3>4. ASSUME NEW d \in 0 .. lastDatetime(tm) - 1
          PROVE  /\ \A s \in Stocks :
                      /\ getHoldNumber(tm', s, d) = getHoldNumber(tm, s, d)
                      /\ getShortHoldNumber(tm', s, d) = getShortHoldNumber(tm, s, d)
                      /\ getDebtNumber(tm', s, d) = getDebtNumber(tm, s, d)
                 /\ getDebtCash(tm', d) = getDebtCash(tm, d)
      <4> DEFINE a == tm
                 b == tm'
      <4>1. IsAccount(a) /\ IsAccount(b)
        BY <3>1
      <4>2. \A e \in Measures : Total(Past(e, b.m_trade_list, d)) = Total(Past(e, a.m_trade_list, d))
        BY <3>2
      <4> HIDE DEF a, b
      <4>3. /\ \A s \in Stocks :
                 /\ getHoldNumber(a, s, d) = Total(Past(<<"long", s>>, a.m_trade_list, d))
                 /\ getShortHoldNumber(a, s, d) = Total(Past(<<"short", s>>, a.m_trade_list, d))
                 /\ getDebtNumber(a, s, d) = Total(Past(<<"debt", s>>, a.m_trade_list, d))
            /\ getDebtCash(a, d) = Total(Past(Owing, a.m_trade_list, d))
        BY <4>1, AnswersArePast
      <4>4. /\ \A s \in Stocks :
                 /\ getHoldNumber(b, s, d) = Total(Past(<<"long", s>>, b.m_trade_list, d))
                 /\ getShortHoldNumber(b, s, d) = Total(Past(<<"short", s>>, b.m_trade_list, d))
                 /\ getDebtNumber(b, s, d) = Total(Past(<<"debt", s>>, b.m_trade_list, d))
            /\ getDebtCash(b, d) = Total(Past(Owing, b.m_trade_list, d))
        BY <4>1, AnswersArePast
      <4>5. /\ \A s \in Stocks :
                 /\ getHoldNumber(b, s, d) = getHoldNumber(a, s, d)
                 /\ getShortHoldNumber(b, s, d) = getShortHoldNumber(a, s, d)
                 /\ getDebtNumber(b, s, d) = getDebtNumber(a, s, d)
            /\ getDebtCash(b, d) = getDebtCash(a, d)
        BY <3>3, <4>2, <4>3, <4>4
      <4> QED
        BY <4>5 DEF a, b
    <3>5. Final
      BY <3>4
    <3> QED
      BY <3>5
  <2> QED
    BY <1>1, <2>1, <2>2, <2>3, TMStep
<1> QED
  BY <1>1, AccountIsGood, PTL DEF TMSpec, HistoryIsFinal

(* A step that uncovers a short position is a client's return of that very *)
(* stock, or brings a record made elsewhere.                               *)
THEOREM ShortsStayCovered == TMSpec => CoverLostOnlyByReturn
<1> DEFINE Kept == \A s \in Stocks :
                      Unsold(tm, s) >= 0 /\ Unsold(tm', s) < 0
                        => ReturnStockOf(s) \/ AddTradeRecord
<1>1. ASSUME TMInv, [TMNext]_TMvars PROVE [Kept]_tm
  <2>1. CASE UNCHANGED TMvars
    BY <2>1 DEF TMvars
  <2>2. CASE TMNext /\ tm' = NewAccount(tm.params)
    <3>1. \A s : Unsold(tm', s) = 0
      BY <2>2, NewAccountGood
    <3> QED
      BY <3>1
  <2>3. CASE TMNext /\ Moves(tm, tm')
             /\ (Covers(tm, tm') \/ \E t \in Stocks : ReturnStockOf(t) /\ CoversBut(tm, tm', t))
    <3>1. \A s : Unsold(tm', s) \in Int
      BY <2>3, UnsoldType DEF Moves, Good
    <3>2. ASSUME NEW s \in Stocks, Unsold(tm, s) >= 0, Unsold(tm', s) < 0
          PROVE  ReturnStockOf(s)
      <4>1. ~(Unsold(tm', s) >= 0)
        BY <3>1, <3>2
      <4>2. ~Covers(tm, tm')
        BY <3>2, <4>1 DEF Covers
      <4>3. PICK t \in Stocks : ReturnStockOf(t) /\ CoversBut(tm, tm', t)
        BY <2>3, <4>2
      <4>4. t = s
        BY <3>2, <4>1, <4>3 DEF CoversBut
      <4> QED
        BY <4>3, <4>4
    <3>3. Kept
      BY <3>2
    <3> QED
      BY <3>3
  <2>4. CASE AddTradeRecord
    BY <2>4
  <2> QED
    BY <1>1, <2>1, <2>2, <2>3, <2>4, TMStep
<1> QED
  BY <1>1, AccountIsGood, PTL DEF TMSpec, CoverLostOnlyByReturn

-----------------------------------------------------------------------------
(* The eager reference.                                                    *)

(* f is the recursive function of EagerHolding.                            *)
RunsHold(f, a, side, s) ==
  f = [i \in 0 .. MaxDay |-> IF i = 0 THEN 0 ELSE Turn(s, f[i - 1], i) + (Dealt(a, side, s, i) - Dealt(a, side, s, i - 1))]

LEMMA HoldRuns ==
  ASSUME NEW a, NEW side, NEW s
  PROVE  \E f : RunsHold(f, a, side, s) /\ \A k : Eager(a, side, s, k) = f[k]
<1> DEFINE m == MaxDay
           K(h) == [i \in 0 .. m |-> IF i = 0 THEN 0 ELSE Turn(s, h[i - 1], i) + (Dealt(a, side, s, i) - Dealt(a, side, s, i - 1))]
           Ok(f, n) == /\ f = [i \in 0 .. m |-> f[i]] /\ f[0] = 0
                       /\ \A i \in 1 .. n : f[i] = Turn(s, f[i - 1], i) + (Dealt(a, side, s, i) - Dealt(a, side, s, i - 1))
           T == {n \in 0 .. m : \E f : Ok(f, n)}
<1>1. m \in Nat
  BY ParameterAssumption
<1>2. 0 \in T
  <2> DEFINE f == [i \in 0 .. m |-> 0]
  <2>1. 0 \in 0 .. m
    BY <1>1
  <2>2. f[0] = 0 /\ f = [i \in 0 .. m |-> f[i]]
    BY <2>1
  <2> HIDE DEF f
  <2>3. Ok(f, 0)
    BY <2>2
  <2> QED
    BY <2>1, <2>3
<1>3. ASSUME NEW n \in T, n < m PROVE n + 1 \in T
  <2>1. PICK f : Ok(f, n)
    OBVIOUS
  <2>2. n \in 0 .. m /\ n + 1 \in 1 .. m /\ n \in Nat /\ n + 1 \in 0 .. m /\ (n + 1) - 1 = n
    BY <1>1, <1>3
  <2> DEFINE new == Turn(s, f[n], n + 1) + (Dealt(a, side, s, n + 1) - Dealt(a, side, s, (n + 1) - 1))
             g == [i \in 0 .. m |-> IF i = n + 1 THEN new ELSE f[i]]
  <2>9. \A i \in 0 .. n : i \in 0 .. m /\ i # n + 1
    BY <1>1, <2>2
  <2> HIDE DEF new, m, Ok, T
  <2>3. g = [i \in 0 .. m |-> g[i]] /\ g[n + 1] = new
        /\ \A i \in 0 .. n : g[i] = f[i]
    <3>1. g = [i \in 0 .. m |-> g[i]]
      OBVIOUS
    <3>2. g[n + 1] = new
      BY <2>2
    <3> QED
      BY <2>9, <3>1, <3>2
  <2> HIDE DEF g
  <2>4. f[0] = 0 /\ \A i \in 1 .. n : f[i] = Turn(s, f[i - 1], i) + (Dealt(a, side, s, i) - Dealt(a, side, s, i - 1))
    BY <2>1 DEF Ok
  <2>5. ASSUME NEW i \in 1 .. n + 1 PROVE g[i] = Turn(s, g[i - 1], i) + (Dealt(a, side, s, i) - Dealt(a, side, s, i - 1))
    <3>1. CASE i = n + 1
      <4>1. i - 1 = n /\ n \in 0 .. n
        BY <2>2, <3>1
      <4>2. g[i - 1] = f[n] /\ g[i] = new
        BY <2>3, <3>1, <4>1
      <4>3. new = Turn(s, f[n], i) + (Dealt(a, side, s, i) - Dealt(a, side, s, i - 1))
        BY <3>1 DEF new
      <4> QED
        BY <4>2, <4>3
    <3>2. CASE i # n + 1
      <4>1. i \in 1 .. n /\ i \in 0 .. n /\ i - 1 \in 0 .. n
        BY <2>2, <3>2
      <4>2. g[i - 1] = f[i - 1] /\ g[i] = f[i]
        BY <2>3, <4>1
      <4>3. f[i] = Turn(s, f[i - 1], i) + (Dealt(a, side, s, i) - Dealt(a, side, s, i - 1))
        BY <2>4, <4>1
      <4> QED
        BY <4>2, <4>3
    <3> QED
      BY <3>1, <3>2
  <2>6. g[0] = 0
    <3>1. 0 \in 0 .. n
      BY <2>2
    <3> QED
      BY <2>3, <2>4, <3>1
  <2>7. Ok(g, n + 1)
    BY <2>3, <2>5, <2>6 DEF Ok
  <2> QED
    BY <2>2, <2>7 DEF T
<1>4. m \in T
  <2>1. T \subseteq 0 .. m
    OBVIOUS
  <2>2. m \in 0 .. m
    BY <1>1
  <2> HIDE DEF T, m
  <2>3. T = 0 .. m
    BY <1>1, <1>2, <1>3, <2>1, BoundedInduction
  <2> QED
    BY <2>2, <2>3
<1>5. PICK f : Ok(f, m)
  BY <1>4
<1>6. f = K(f)
  <2>1. f = [i \in 0 .. m |-> f[i]]
    BY <1>5
  <2>2. ASSUME NEW i \in 0 .. m
        PROVE  f[i] = IF i = 0 THEN 0 ELSE Turn(s, f[i - 1], i) + (Dealt(a, side, s, i) - Dealt(a, side, s, i - 1))
    <3>1. CASE i = 0
      BY <1>5, <3>1
    <3>2. CASE i # 0
      <4>1. i \in 1 .. m
        BY <1>1, <3>2
      <4>2. f[i] = Turn(s, f[i - 1], i) + (Dealt(a, side, s, i) - Dealt(a, side, s, i - 1))
        BY <1>5, <4>1
      <4> QED
        BY <3>2, <4>2
    <3> QED
      BY <3>1, <3>2
  <2> HIDE DEF Ok, m
  <2> QED
    BY <2>1, <2>2
<1> DEFINE F == CHOOSE h : h = K(h)
<1>7. F = K(F)
  BY <1>6
<1>8. \A k : Eager(a, side, s, k) = F[k]
  BY DEF Eager, EagerHolding, Turn, Dealt
<1> HIDE DEF F
<1> QED
  BY <1>7, <1>8 DEF RunsHold

LEMMA AfterEventInt ==
  ASSUME NEW n \in Int, NEW w \in ExRights
  PROVE  AfterEvent(n, w) \in Int
<1> DEFINE g == AddGift(n, w)
           p == w.suogu[1]
           q == w.suogu[2]
<1>1. w.gift \in Int /\ p \in Int /\ q \in Nat \ {0}
  BY SuoguType DEF ExRights
<1>2. g \in Int
  <2> DEFINE m == n * w.gift
  <2>1. m \in Int
    BY <1>1, TimesInt
  <2>2. g = n + m
    BY DEF AddGift
  <2> HIDE DEF m, g
  <2> QED
    BY <2>1, <2>2
<1>3. AfterEvent(n, w) = IF p = 0 THEN g
                         ELSE IF p < q THEN CeilDiv(g * p, q)
                         ELSE (g * p) \div q
  BY DEF AfterEvent, Consolidate
<1> HIDE DEF g, p, q
<1>4. g * p \in Int
  BY <1>1, <1>2, TimesInt
<1>5. \A x \in Int : x \div q \in Int /\ CeilDiv(x, q) \in Int
  <2>1. \A x \in Int : x \div q \in Int
    BY <1>1
  <2>2. \A x \in Int : x + q - 1 \in Int
    BY <1>1
  <2> QED
    BY <2>1, <2>2 DEF CeilDiv
<1> QED
  BY <1>2, <1>3, <1>4, <1>5

LEMMA CutType ==
  ASSUME NEW log \in Seq(Record), NEW s, NEW d, NEW plus, NEW minus
  PROVE  /\ Cut(log, s, d, plus, minus) \in Seq(Int) /\ Len(Cut(log, s, d, plus, minus)) = Len(log)
         /\ \A i \in 1 .. Len(log) :
              Cut(log, s, d, plus, minus)[i]
                = IF log[i].datetime > d THEN 0 ELSE Signed(log[i], s, plus, minus)
<1> DEFINE v == Cut(log, s, d, plus, minus)
           m == Len(log)
<1>1. \A i \in 1 .. m : Signed(log[i], s, plus, minus) \in Int
  <2> TAKE i \in 1 .. m
  <2>1. log[i].number \in Int
    BY RecordFields
  <2>2. -log[i].number \in Int
    BY <2>1
  <2> QED
    BY <2>1, <2>2 DEF Signed
<1>2. m \in Nat /\ v = [i \in 1 .. m |->
                          IF log[i].datetime > d THEN 0 ELSE Signed(log[i], s, plus, minus)]
  BY DEF Cut
<1>3. \A i \in 1 .. m : v[i] = IF log[i].datetime > d THEN 0 ELSE Signed(log[i], s, plus, minus)
  BY <1>2
<1>4. v \in [1 .. m -> Int]
  BY <1>1, <1>2
<1> HIDE DEF v, m
<1>5. v \in Seq(Int) /\ Len(v) = m
  BY <1>2, <1>4
<1> QED
  BY <1>3, <1>5 DEF v, m

LEMMA ReplayExtends ==
  ASSUME NEW a, IsAccount(a), NEW b, NEW recs, Logs(a, b, recs), NEW s, NEW d, NEW plus, NEW minus
  PROVE  /\ Replay(a, s, d, plus, minus) \in Int
         /\ Replay(b, s, d, plus, minus)
              = Replay(a, s, d, plus, minus) + Total(Cut(recs, s, d, plus, minus))
<1> DEFINE log == a.m_trade_list
           new == b.m_trade_list
           v == Cut(log, s, d, plus, minus)
           w == Cut(recs, s, d, plus, minus)
           x == Cut(new, s, d, plus, minus)
<1>1. log \in Seq(Record) /\ recs \in Seq(Record) /\ new = log \o recs
  BY LogFacts DEF Logs
<1>2. Replay(a, s, d, plus, minus) = Total(v) /\ Replay(b, s, d, plus, minus) = Total(x)
  <2>1. DOMAIN log = 1 .. Len(log) /\ DOMAIN new = 1 .. Len(new)
    BY <1>1
  <2> QED
    BY <2>1 DEF Replay, Cut
<1> HIDE DEF log, new
<1>3. new \in Seq(Record) /\ Len(new) = Len(log) + Len(recs) /\ Len(log) \in Nat
      /\ Len(recs) \in Nat
      /\ (\A i \in 1 .. Len(log) : new[i] = log[i])
      /\ \A i \in 1 .. Len(recs) : new[Len(log) + i] = recs[i]
  BY <1>1
<1>4. /\ v \in Seq(Int) /\ Len(v) = Len(log)
      /\ \A i \in 1 .. Len(log) :
           v[i] = IF log[i].datetime > d THEN 0 ELSE Signed(log[i], s, plus, minus)
  BY <1>1, CutType
<1>5. /\ w \in Seq(Int) /\ Len(w) = Len(recs)
      /\ \A i \in 1 .. Len(recs) :
           w[i] = IF recs[i].datetime > d THEN 0 ELSE Signed(recs[i], s, plus, minus)
  BY <1>1, CutType
<1>6. /\ x \in Seq(Int) /\ Len(x) = Len(new)
      /\ \A i \in 1 .. Len(new) :
           x[i] = IF new[i].datetime > d THEN 0 ELSE Signed(new[i], s, plus, minus)
  <2>1. new \in Seq(Record)
    BY <1>3
  <2> QED
    BY <2>1, CutType
<1> HIDE DEF v, w, x
<1>7. \A i \in 1 .. Len(v) : x[i] = v[i]
  <2>1. \A i \in 1 .. Len(log) : i \in 1 .. Len(new)
    BY <1>3
  <2> QED
    BY <1>3, <1>4, <1>6, <2>1
<1>8. \A i \in 1 .. Len(w) : x[Len(v) + i] = w[i]
  <2>1. \A i \in 1 .. Len(recs) : Len(log) + i \in 1 .. Len(new)
    BY <1>3
  <2>2. ASSUME NEW i \in 1 .. Len(recs) PROVE x[Len(log) + i] = w[i]
    <3>1. x[Len(log) + i]
            = IF recs[i].datetime > d THEN 0 ELSE Signed(recs[i], s, plus, minus)
      BY <1>3, <1>6, <2>1
    <3> QED
      BY <1>5, <3>1
  <2> QED
    BY <1>4, <1>5, <2>2
<1>9. Joined(x, v, w)
  BY <1>3, <1>4, <1>5, <1>6, <1>7, <1>8 DEF Joined
<1>10. Total(x) = Total(v) + Total(w) /\ Total(v) \in Int
  BY <1>4, <1>5, <1>9, TotalJoined, TotalType
<1> QED
  BY <1>2, <1>10 DEF w

(* Records of events, or of a later day, change no trade total.            *)
LEMMA KeptSame ==
  ASSUME NEW a, IsAccount(a), NEW b, NEW recs, Logs(a, b, recs),
         NEW side \in Sides, NEW s, NEW k,
         \A i \in 1 .. Len(recs) : recs[i].business \in EventBusinesses \/ recs[i].datetime > k
  PROVE  Dealt(b, side, s, k) = Dealt(a, side, s, k) /\ Dealt(a, side, s, k) \in Int
<1> DEFINE w == Cut(recs, s, k, TradedIn(side), Minus(side))
<1>1. /\ w \in Seq(Int) /\ Len(w) = Len(recs)
      /\ \A i \in 1 .. Len(recs) :
           w[i] = IF recs[i].datetime > k THEN 0
                  ELSE Signed(recs[i], s, TradedIn(side), Minus(side))
  BY CutType DEF Logs
<1>2. \A r : r.business \in EventBusinesses => Signed(r, s, TradedIn(side), Minus(side)) = 0
  BY DEF Signed, EventBusinesses, TradedIn, Minus, Sides
<1>3. \A i \in 1 .. Len(w) : w[i] = 0
  BY <1>1, <1>2
<1> HIDE DEF w
<1>4. Total(w) = 0
  BY <1>1, <1>3, TotalZeros
<1>5. /\ Dealt(a, side, s, k) \in Int
      /\ Dealt(b, side, s, k) = Dealt(a, side, s, k) + Total(w)
  BY ReplayExtends DEF Dealt, w
<1> QED
  BY <1>4, <1>5

LEMMA KeptType ==
  ASSUME NEW a, IsAccount(a), NEW side, NEW s, NEW k
  PROVE  Dealt(a, side, s, k) \in Int
<1>1. a.m_trade_list \in Seq(Record)
  BY LogFacts
<1>2. Logs(a, a, <<>>)
  BY <1>1 DEF Logs
<1> QED
  BY <1>2, ReplayExtends DEF Dealt

(* From the last day of the log on there are no trades.                    *)
LEMMA KeptAfter ==
  ASSUME NEW a, Good(a), NEW side \in Sides, NEW s, NEW j \in Nat, NEW k \in Nat,
         lastDatetime(a) <= j, lastDatetime(a) <= k
  PROVE  Dealt(a, side, s, j) = Dealt(a, side, s, k)
<1> DEFINE log == a.m_trade_list
           plus == TradedIn(side)
           minus == Minus(side)
<1>1. /\ log \in Seq(Record) /\ Len(log) \in Nat \ {0} /\ InOrder(log)
      /\ lastDatetime(a) = log[Len(log)].datetime /\ lastDatetime(a) \in Nat
  BY LogFacts DEF Good
<1>2. ASSUME NEW i \in 1 .. Len(log) PROVE ~(log[i].datetime > j) /\ ~(log[i].datetime > k)
  <2>1. log[i].datetime \in Nat
    BY <1>1, RecordFields
  <2>2. log[i].datetime <= log[Len(log)].datetime
    BY <1>1 DEF InOrder
  <2> QED
    BY <1>1, <2>1, <2>2
<1> HIDE DEF log, plus, minus
<1>3. Cut(log, s, j, plus, minus) = Cut(log, s, k, plus, minus)
  BY <1>2 DEF Cut
<1>4. \A d : Replay(a, s, d, plus, minus) = Total(Cut(log, s, d, plus, minus))
  <2>1. DOMAIN log = 1 .. Len(log)
    BY <1>1
  <2> QED
    BY <2>1 DEF Replay, Cut, log
<1> QED
  BY <1>3, <1>4 DEF Dealt, plus, minus

LEMMA TurnType ==
  ASSUME NEW s \in Stocks, NEW n \in Int, NEW k
  PROVE  Turn(s, n, k) \in Int
  BY AfterEventInt, WeightsAssumption DEF Turn

LEMMA EagerFacts ==
  ASSUME NEW a, IsAccount(a), NEW side \in Sides, NEW s \in Stocks
  PROVE  /\ Eager(a, side, s, 0) = 0
         /\ \A k \in 1 .. MaxDay :
              Eager(a, side, s, k) = Turn(s, Eager(a, side, s, k - 1), k)
                                     + (Dealt(a, side, s, k) - Dealt(a, side, s, k - 1))
         /\ \A k \in 0 .. MaxDay : Eager(a, side, s, k) \in Int
<1>1. PICK f : RunsHold(f, a, side, s) /\ \A k : Eager(a, side, s, k) = f[k]
  BY HoldRuns
<1>2. MaxDay \in Nat
  BY ParameterAssumption
<1>3. f[0] = 0
  BY <1>1, <1>2 DEF RunsHold
<1>4. \A k \in 1 .. MaxDay : f[k] = Turn(s, f[k - 1], k)
                                    + (Dealt(a, side, s, k) - Dealt(a, side, s, k - 1))
  BY <1>1, <1>2 DEF RunsHold
<1>5. \A k : Dealt(a, side, s, k) \in Int
  BY KeptType
<1> DEFINE T == {k \in 0 .. MaxDay : f[k] \in Int}
<1>6. 0 \in T
  BY <1>2, <1>3
<1>7. ASSUME NEW k \in T, k < MaxDay PROVE k + 1 \in T
  <2>1. k + 1 \in 1 .. MaxDay /\ (k + 1) - 1 = k /\ f[k] \in Int
    BY <1>2, <1>7
  <2>2. f[k + 1] = Turn(s, f[k], k + 1) + (Dealt(a, side, s, k + 1) - Dealt(a, side, s, k))
    BY <1>4, <2>1
  <2>3. Turn(s, f[k], k + 1) \in Int
    BY <2>1, TurnType
  <2>4. f[k + 1] \in Int
    BY <1>5, <2>2, <2>3
  <2> QED
    BY <2>1, <2>4
<1>8. T = 0 .. MaxDay
  <2>1. T \subseteq 0 .. MaxDay
    OBVIOUS
  <2> HIDE DEF T
  <2> QED
    BY <1>2, <1>6, <1>7, <2>1, BoundedInduction
<1> QED
  BY <1>1, <1>3, <1>4, <1>8

(* Where the trades are the same the reference is the same.                *)
LEMMA EagerSame ==
  ASSUME NEW a, IsAccount(a), NEW b, IsAccount(b), NEW side \in Sides, NEW s \in Stocks,
         NEW m \in 0 .. MaxDay,
         \A k \in 0 .. m : Dealt(b, side, s, k) = Dealt(a, side, s, k)
  PROVE  \A k \in 0 .. m : Eager(b, side, s, k) = Eager(a, side, s, k)
<1> DEFINE T == {k \in 0 .. m : Eager(b, side, s, k) = Eager(a, side, s, k)}
<1>1. MaxDay \in Nat /\ m \in Nat /\ m <= MaxDay
  BY ParameterAssumption
<1>2. 0 \in T
  BY <1>1, EagerFacts
<1>3. ASSUME NEW k \in T, k < m PROVE k + 1 \in T
  <2>1. k + 1 \in 1 .. MaxDay /\ (k + 1) - 1 = k /\ k + 1 \in 0 .. m /\ k \in 0 .. m
    BY <1>1, <1>3
  <2>2. /\ Eager(a, side, s, k + 1) = Turn(s, Eager(a, side, s, k), k + 1)
                                      + (Dealt(a, side, s, k + 1) - Dealt(a, side, s, k))
        /\ Eager(b, side, s, k + 1) = Turn(s, Eager(b, side, s, k), k + 1)
                                      + (Dealt(b, side, s, k + 1) - Dealt(b, side, s, k))
    BY <2>1, EagerFacts
  <2> QED
    BY <1>3, <2>1, <2>2
<1>4. T = 0 .. m
  <2>1. T \subseteq 0 .. m
    OBVIOUS
  <2> HIDE DEF T
  <2> QED
    BY <1>1, <1>2, <1>3, <2>1, BoundedInduction
<1> QED
  BY <1>4

(* Without trades and with events that change nothing it stays.            *)
LEMMA EagerStays ==
  ASSUME NEW a, Good(a), NEW side \in Sides, NEW s \in Stocks, NEW j \in Nat, NEW m \in Nat,
         j <= m, m <= MaxDay, lastDatetime(a) <= j,
         \A k \in DOMAIN Weights[s] : j < k /\ k <= m =>
            AfterEvent(Eager(a, side, s, j), Weights[s][k]) = Eager(a, side, s, j)
  PROVE  Eager(a, side, s, m) = Eager(a, side, s, j)
<1> DEFINE x == Eager(a, side, s, j)
           T == {i \in 0 .. m - j : Eager(a, side, s, j + i) = x}
<1>1. /\ IsAccount(a) /\ MaxDay \in Nat /\ j \in 0 .. MaxDay /\ m - j \in Nat
      /\ lastDatetime(a) \in Nat
  BY ParameterAssumption, LogFacts DEF Good
<1>2. 0 \in T
  BY <1>1
<1>3. ASSUME NEW i \in T, i < m - j PROVE i + 1 \in T
  <2>1. /\ i \in Nat /\ i + 1 \in 0 .. m - j /\ j + (i + 1) \in 1 .. MaxDay
        /\ (j + (i + 1)) - 1 = j + i /\ j < j + (i + 1) /\ j + (i + 1) <= m
        /\ lastDatetime(a) <= j + i /\ lastDatetime(a) <= j + (i + 1)
        /\ j + i \in Nat /\ j + (i + 1) \in Nat /\ j + i \in 0 .. MaxDay
        /\ j + (i + 1) \in 0 .. MaxDay
    BY <1>1, <1>3
  <2> DEFINE k == j + (i + 1)
             l == j + i
  <2>2. k - 1 = l /\ k \in 1 .. MaxDay /\ j < k /\ k <= m /\ Eager(a, side, s, l) = x
    BY <1>3, <2>1
  <2>3. Dealt(a, side, s, k) = Dealt(a, side, s, l) /\ Dealt(a, side, s, k) \in Int
    BY <1>1, <2>1, KeptAfter, KeptType
  <2>4. x \in Int
    BY <1>1, EagerFacts
  <2> HIDE DEF k, l
  <2>5. Eager(a, side, s, k) = Turn(s, Eager(a, side, s, k - 1), k)
                               + (Dealt(a, side, s, k) - Dealt(a, side, s, k - 1))
    BY <1>1, <2>2, EagerFacts
  <2>6. Turn(s, x, k) = x
    BY <2>2 DEF Turn
  <2> HIDE DEF x
  <2>7. Eager(a, side, s, k) = x
    BY <2>2, <2>3, <2>4, <2>5, <2>6
  <2> QED
    BY <2>1, <2>7 DEF k
<1>4. T = 0 .. m - j
  <2>1. T \subseteq 0 .. m - j
    OBVIOUS
  <2> HIDE DEF T
  <2> QED
    BY <1>1, <1>2, <1>3, <2>1, BoundedInduction
<1>5. m - j \in 0 .. m - j /\ j + (m - j) = m
  BY <1>1
<1>6. m - j \in T
  BY <1>4, <1>5
<1>7. Eager(a, side, s, j + (m - j)) = x
  BY <1>6
<1> QED
  BY <1>5, <1>7

-----------------------------------------------------------------------------
(* The lazy update is as good as the eager reference.                      *)

LEMMA SettledUpTo ==
  ASSUME NEW a, Good(a), OnTime(a), NEW side \in Sides, NEW s \in Stocks, NEW d \in Nat,
         lastDatetime(a) <= d, d = lastDatetime(a) \/ d <= a.m_last_update_datetime
  PROVE  Eager(a, side, s, d) = Num(a, side, s)
<1> DEFINE l == lastDatetime(a)
<1>1. /\ l \in Nat /\ MaxDay \in Nat /\ d <= MaxDay /\ Settled(a, side, s)
      /\ \A k \in DOMAIN Weights[s] : k \in Nat
  BY ParameterAssumption, EventFacts DEF OnTime
<1>2. Eager(a, side, s, l) = Num(a, side, s)
  BY <1>1 DEF Settled
<1>3. \A k \in DOMAIN Weights[s] : l < k /\ k <= d =>
         AfterEvent(Eager(a, side, s, l), Weights[s][k]) = Eager(a, side, s, l)
  <2> SUFFICES ASSUME NEW k \in DOMAIN Weights[s], l < k, k <= d
               PROVE  AfterEvent(Num(a, side, s), Weights[s][k]) = Num(a, side, s)
    BY <1>2
  <2>1. k <= a.m_last_update_datetime
    BY <1>1 DEF OnTime
  <2> QED
    BY <1>1, <2>1 DEF Settled
<1> HIDE DEF l
<1>4. l <= d /\ lastDatetime(a) <= l
  BY <1>1 DEF l
<1>5. Eager(a, side, s, d) = Eager(a, side, s, l)
  BY <1>1, <1>3, <1>4, EagerStays
<1> QED
  BY <1>2, <1>5

LEMMA OnTimeIsRight ==
  ASSUME TMInv, OnTime(tm)
  PROVE  ExRightsExactlyOnce
<1> DEFINE l == lastDatetime(tm)
           u == tm.m_last_update_datetime
           d == Max({l, u})
<1>1. l \in Nat /\ u \in Nat /\ l \in Int /\ u \in Int
  BY ParameterAssumption DEF OnTime
<1>2. d = IF l >= u THEN l ELSE u
  BY <1>1, MaxPair
<1> HIDE DEF d
<1>3. d \in Nat /\ lastDatetime(tm) <= d /\ (d = lastDatetime(tm) \/ d <= tm.m_last_update_datetime)
  BY <1>1, <1>2
<1>4. \A side \in Sides, s \in Stocks : Eager(tm, side, s, d) = Num(tm, side, s)
  BY <1>3, SettledUpTo DEF TMInv
<1>5. ASSUME NEW s \in Stocks
      PROVE  /\ NumberIn(tm.m_position, s)
                  = EagerHolding(tm, s, d, {"BUY", "CHECKIN_STOCK"}, {"SELL", "CHECKOUT_STOCK"})
             /\ NumberIn(tm.m_short_position, s)
                  = EagerHolding(tm, s, d, {"SELL_SHORT"}, {"BUY_SHORT"})
             /\ NumberIn(tm.m_borrow_stock, s)
                  = EagerHolding(tm, s, d, {"BORROW_STOCK"}, {"RETURN_STOCK"})
  <2>1. /\ Eager(tm, "long", s, d) = Num(tm, "long", s)
        /\ Eager(tm, "short", s, d) = Num(tm, "short", s)
        /\ Eager(tm, "debt", s, d) = Num(tm, "debt", s)
    BY <1>4 DEF Sides
  <2> QED
    BY <2>1 DEF Eager, Num, Held, TradedIn, Minus
<1>6. EagerlyRight(d)
  BY <1>5 DEF EagerlyRight
<1> QED
  BY <1>6 DEF ExRightsExactlyOnce, d

(* The trades of a call change holding and reference alike.                *)
LEMMA CutIsColumn ==
  ASSUME NEW recs \in Seq(Record), NEW d, OfDay(recs, d), d \in Nat,
         NEW side \in Sides, NEW s \in Stocks
  PROVE  Cut(recs, s, d, TradedIn(side), Minus(side)) = Column(<<side, s>>, recs)
<1> DEFINE e == <<side, s>>
<1>1. e[1] = side /\ e[2] = s /\ side \notin {"cash", "loan", "cost"}
  BY DEF Sides
<1>2. ASSUME NEW i \in 1 .. Len(recs)
      PROVE  /\ ~(recs[i].datetime > d)
             /\ Signed(recs[i], s, TradedIn(side), Minus(side)) = Effect(e, recs[i])
  <2>1. recs[i].datetime = d /\ recs[i].business \notin EventBusinesses
    BY DEF OfDay
  <2>2. recs[i].business \in Plus(side) <=> recs[i].business \in TradedIn(side)
    BY <2>1 DEF Plus, Adjusted, EventBusinesses, Sides
  <2> QED
    BY <1>1, <2>1, <2>2 DEF Effect, Signed
<1> HIDE DEF e
<1> QED
  BY <1>2 DEF Cut, Column, e

LEMMA NumIsTotal ==
  ASSUME NEW a, Good(a), NEW side \in Sides, NEW s \in Stocks
  PROVE  Num(a, side, s) = Total(Column(<<side, s>>, a.m_trade_list))
<1> DEFINE e == <<side, s>>
<1>1. e \in Measures /\ e[1] = side /\ e[2] = s /\ side \notin {"cash", "loan", "cost"}
  BY DEF Measures, Sides
<1>2. Level(e, a) = Num(a, side, s)
  BY <1>1 DEF Level
<1> QED
  BY <1>1, <1>2 DEF Good, Story

LEMMA OnTimeLeads ==
  ASSUME NEW u, Good(u), OnTime(u), NEW d \in Days, u.m_last_update_datetime = d,
         lastDatetime(u) <= d, NEW b, Leads(u, b, d)
  PROVE  OnTime(b)
<1>1. PICK recs \in Seq(Record) : b.m_trade_list = u.m_trade_list \o recs /\ OfDay(recs, d)
  BY DEF Leads
<1>2. /\ IsAccount(u) /\ IsAccount(b) /\ Good(b) /\ Logs(u, b, recs)
      /\ d \in Nat /\ d > 0 /\ d \in 0 .. MaxDay /\ MaxDay \in Nat
  BY <1>1, ParameterAssumption DEF Good, Leads, Logs, Days
<1>3. /\ lastDatetime(u) \in 0 .. MaxDay /\ lastDatetime(b) \in {lastDatetime(u), d}
      /\ b.m_last_update_datetime = d
      /\ \A s \in Stocks : b.m_tmp_weight_checked_until[s] \in {0, u.m_tmp_weight_checked_until[s]}
      /\ \A s \in Stocks : u.m_tmp_weight_checked_until[s] <= d + 1
      /\ \A side \in Sides, s \in Stocks : Settled(u, side, s)
  BY DEF Leads, KeepsCalendar, OnTime
<1>4. \A s \in Stocks : b.m_tmp_weight_checked_until[s] <= d + 1
  BY <1>2, <1>3
<1>5. ASSUME NEW side \in Sides, NEW s \in Stocks PROVE Settled(b, side, s)
  <2> DEFINE e == <<side, s>>
  <2>1. e \in Measures
    BY DEF Measures
  <2>2. /\ Num(u, side, s) = Total(Column(e, u.m_trade_list))
        /\ Num(b, side, s) = Total(Column(e, b.m_trade_list))
    BY <1>2, NumIsTotal
  <2>3. CASE Len(recs) = 0
    <3>1. b.m_trade_list = u.m_trade_list
      <4>1. u.m_trade_list \in Seq(Record)
        BY <1>2 DEF IsAccount
      <4> QED
        BY <1>1, <2>3, <4>1
    <3>2. Num(b, side, s) = Num(u, side, s) /\ lastDatetime(b) = lastDatetime(u)
      BY <2>2, <3>1 DEF lastDatetime
    <3>3. \A k \in 0 .. MaxDay : Dealt(b, side, s, k) = Dealt(u, side, s, k)
      BY <3>1 DEF Dealt, Replay
    <3>4. Eager(b, side, s, lastDatetime(u)) = Eager(u, side, s, lastDatetime(u))
      BY <1>2, <1>3, <3>3, EagerSame
    <3>5. Settled(u, side, s)
      BY <1>3
    <3> QED
      BY <1>3, <3>2, <3>4, <3>5 DEF Settled
  <2>4. CASE Len(recs) # 0
    <3>1. lastDatetime(b) = d
      <4>1. /\ u.m_trade_list \in Seq(Record) /\ lastDatetime(b) = b.m_trade_list[Len(b.m_trade_list)].datetime
        BY <1>2, LogFacts DEF IsAccount
      <4> DEFINE log == u.m_trade_list
      <4> HIDE DEF log
      <4>2. log \in Seq(Record) /\ b.m_trade_list = log \o recs /\ Len(recs) \in 1 .. Len(recs)
        BY <1>1, <2>4, <4>1 DEF log
      <4>3. (log \o recs)[Len(log \o recs)] = recs[Len(recs)]
        BY <2>4, <4>2
      <4> QED
        BY <1>1, <4>1, <4>2, <4>3 DEF OfDay
    <3> DEFINE w == Cut(recs, s, d, TradedIn(side), Minus(side))
    <3>2. /\ Total(w) \in Int
          /\ Dealt(b, side, s, d) = Dealt(u, side, s, d) + Total(w)
      BY <1>2, CutType, TotalType, ReplayExtends DEF Dealt
    <3>3. Num(b, side, s) = Num(u, side, s) + Total(w)
      <4>1. w = Column(e, recs)
        BY <1>1, <1>2, CutIsColumn
      <4>2. u.m_trade_list \in Seq(Record)
        BY <1>2 DEF IsAccount
      <4>3. Total(Column(e, u.m_trade_list \o recs))
              = Total(Column(e, u.m_trade_list)) + Total(Column(e, recs))
        BY <2>1, <4>2, ColumnConcat
      <4> QED
        BY <1>1, <2>2, <4>1, <4>3
    <3> HIDE DEF w
    <3>4. \A k \in 0 .. d - 1 : Dealt(b, side, s, k) = Dealt(u, side, s, k)
      <4> SUFFICES ASSUME NEW k \in 0 .. d - 1 PROVE Dealt(b, side, s, k) = Dealt(u, side, s, k)
        OBVIOUS
      <4>1. \A i \in 1 .. Len(recs) : recs[i].datetime > k
        BY <1>1, <1>2 DEF OfDay
      <4> QED
        BY <1>2, <4>1, KeptSame
    <3>5. Eager(b, side, s, d - 1) = Eager(u, side, s, d - 1)
      <4>1. d - 1 \in 0 .. MaxDay /\ d - 1 \in 0 .. d - 1
        BY <1>2
      <4> QED
        BY <1>2, <3>4, <4>1, EagerSame
    <3>6. /\ Eager(u, side, s, d) = Turn(s, Eager(u, side, s, d - 1), d)
                                    + (Dealt(u, side, s, d) - Dealt(u, side, s, d - 1))
          /\ Eager(b, side, s, d) = Turn(s, Eager(b, side, s, d - 1), d)
                                    + (Dealt(b, side, s, d) - Dealt(b, side, s, d - 1))
          /\ Turn(s, Eager(u, side, s, d - 1), d) \in Int
      <4>1. d \in 1 .. MaxDay /\ d - 1 \in 0 .. MaxDay
        BY <1>2
      <4> QED
        BY <1>2, <4>1, EagerFacts, TurnType
    <3>7. Dealt(b, side, s, d - 1) = Dealt(u, side, s, d - 1)
      BY <1>2, <3>4
    <3>8. Eager(u, side, s, d) = Num(u, side, s)
      BY <1>2, SettledUpTo
    <3>9. Eager(b, side, s, d) = Eager(u, side, s, d) + Total(w)
      <4>1. Dealt(u, side, s, d) \in Int /\ Dealt(u, side, s, d - 1) \in Int
        BY <1>2, KeptType
      <4> DEFINE x == Turn(s, Eager(u, side, s, d - 1), d)
                 p == Dealt(u, side, s, d)
                 q == Dealt(u, side, s, d - 1)
                 t == Total(w)
                 eu == Eager(u, side, s, d)
                 eb == Eager(b, side, s, d)
      <4>2. x \in Int /\ p \in Int /\ q \in Int /\ t \in Int /\ eu = x + (p - q)
            /\ eb = x + ((p + t) - q)
        BY <3>2, <3>5, <3>6, <3>7, <4>1
      <4> HIDE DEF x, p, q, t, eu, eb
      <4>3. eb = eu + t
        BY <4>2
      <4> QED
        BY <4>3 DEF t, eu, eb
    <3>10. \A k \in DOMAIN Weights[s] : ~(d < k /\ k <= d)
      BY <1>2, EventFacts
    <3> QED
      BY <1>3, <3>1, <3>3, <3>8, <3>9, <3>10 DEF Settled
  <2> QED
    BY <2>3, <2>4
<1>6. lastDatetime(b) \in 0 .. MaxDay /\ b.m_last_update_datetime \in 0 .. MaxDay
  BY <1>2, <1>3
<1> QED
  BY <1>3, <1>4, <1>5, <1>6 DEF OnTime

(* On each day of an update every holding is the reference's.              *)
LEMMA InWindow ==
  ASSUME NEW a, IsAccount(a), NEW s \in Stocks, NEW d, NEW k \in DOMAIN Weights[s],
         lastDatetime(a) < k, a.m_tmp_weight_checked_until[s] <= k, k <= d
  PROVE  k \in getWeight(a, s, d)
<1>1. k \in Nat /\ lastDatetime(a) \in Nat /\ a.m_tmp_weight_checked_until[s] \in Nat
  BY EventFacts, LogFacts DEF IsAccount
<1>2. ScanStart(a, s) = IF lastDatetime(a) + 1 >= a.m_tmp_weight_checked_until[s]
                        THEN lastDatetime(a) + 1 ELSE a.m_tmp_weight_checked_until[s]
  BY <1>1, MaxPair DEF ScanStart
<1> QED
  BY <1>1, <1>2 DEF getWeight

LEMMA DaysAreEager ==
  ASSUME NEW a, Good(a), OnTime(a), NEW d \in Days, lastDatetime(a) <= d,
         NEW f, DayByDay(f, a, d), NEW side \in Sides, NEW s \in Stocks
  PROVE  \A k \in 0 .. d :
           /\ lastDatetime(a) <= k => Num(f[k].tm, side, s) = Eager(a, side, s, k)
           /\ lastDatetime(a) < k /\ k \in DOMAIN Weights[s]
                => Eager(a, side, s, k) = AfterEvent(Eager(a, side, s, k - 1), Weights[s][k])
<1> DEFINE l == lastDatetime(a)
           until == a.m_tmp_weight_checked_until[s]
           n == Num(a, side, s)
           N(k) == Num(f[k].tm, side, s)
           E(k) == Eager(a, side, s, k)
           P(k) == /\ l <= k => N(k) = E(k)
                   /\ k <= l \/ k < until => N(k) = n
           T == {k \in 0 .. d : P(k)}
<1>1. /\ IsAccount(a) /\ d \in Nat /\ d <= MaxDay /\ MaxDay \in Nat /\ l \in Nat /\ until \in Nat
      /\ a.m_last_update_datetime \in Nat /\ until <= a.m_last_update_datetime + 1
      /\ N(0) = n /\ E(l) = n
      /\ \A k \in DOMAIN Weights[s] : l < k /\ k <= a.m_last_update_datetime
                                      => AfterEvent(n, Weights[s][k]) = n
  BY ParameterAssumption, SMTT(30) DEF Good, IsAccount, OnTime, Settled, DayByDay, Days
<1>2. ASSUME NEW k \in 0 .. d, k < d
      PROVE  N(k + 1) = OnDay(a, d, k + 1, s, N(k))
  <2>1. k + 1 \in 1 .. MaxDay /\ (k + 1) - 1 = k
    BY <1>1, <1>2
  <2>2. N(k + 1) = OnDay(a, d, k + 1, s, Num(f[(k + 1) - 1].tm, side, s))
    BY <2>1 DEF DayByDay
  <2> QED
    BY <2>1, <2>2
<1>3. ASSUME NEW k \in 0 .. d, k < d, l <= k
      PROVE  E(k + 1) = Turn(s, E(k), k + 1)
  <2>1. k \in Nat /\ k + 1 \in Nat /\ k + 1 \in 1 .. MaxDay /\ (k + 1) - 1 = k
        /\ l <= k + 1 /\ k \in 0 .. MaxDay
    BY <1>1, <1>3
  <2>2. Dealt(a, side, s, k) = Dealt(a, side, s, k + 1) /\ Dealt(a, side, s, k) \in Int
    BY <1>1, <1>3, <2>1, KeptAfter, KeptType
  <2>3. E(k + 1) = Turn(s, Eager(a, side, s, (k + 1) - 1), k + 1)
                   + (Dealt(a, side, s, k + 1) - Dealt(a, side, s, (k + 1) - 1))
    BY <1>1, <2>1, EagerFacts
  <2>4. Turn(s, E(k), k + 1) \in Int
    BY <1>1, <2>1, EagerFacts, TurnType
  <2> QED
    BY <2>1, <2>2, <2>3, <2>4
<1>4. ASSUME NEW k \in 0 .. d, k \in getWeight(a, s, d)
      PROVE  l < k /\ until <= k /\ k \in DOMAIN Weights[s]
  BY <1>1, <1>4, WindowFacts
<1>5. ASSUME NEW k \in DOMAIN Weights[s], l < k, until <= k, k <= d
      PROVE  k \in getWeight(a, s, d)
  BY <1>1, <1>5, InWindow
<1> HIDE DEF l, until, n, N, E
<1>6. 0 \in T
  BY <1>1
<1>7. ASSUME NEW k \in T, k < d PROVE k + 1 \in T
  <2>1. k \in 0 .. d /\ P(k) /\ k + 1 \in 0 .. d /\ k \in Nat
    BY <1>1, <1>7
  <2>2. CASE k + 1 <= l
    <3>1. k + 1 \notin getWeight(a, s, d)
      BY <1>1, <1>4, <2>1, <2>2
    <3>2. N(k + 1) = N(k)
      BY <1>2, <1>7, <2>1, <3>1 DEF OnDay
    <3>3. k <= l /\ (l <= k + 1 => k + 1 = l)
      BY <1>1, <2>1, <2>2
    <3> QED
      BY <1>1, <2>1, <3>2, <3>3
  <2>3. CASE ~(k + 1 <= l)
    <3>1. l <= k /\ l < k + 1 /\ N(k) = E(k) /\ E(k + 1) = Turn(s, E(k), k + 1)
      BY <1>1, <1>3, <1>7, <2>1, <2>3
    <3>2. N(k + 1) = OnDay(a, d, k + 1, s, N(k))
      BY <1>2, <1>7, <2>1
    <3>3. k + 1 < until => N(k) = n
      BY <1>1, <2>1
    <3>4. CASE k + 1 \in getWeight(a, s, d)
      <4>1. until <= k + 1 /\ k + 1 \in DOMAIN Weights[s]
        BY <1>4, <2>1, <3>4
      <4>2. N(k + 1) = E(k + 1)
        BY <3>1, <3>2, <3>4, <4>1 DEF OnDay, Turn
      <4>3. ~(k + 1 < until)
        BY <1>1, <2>1, <4>1
      <4> QED
        BY <2>1, <2>3, <4>2, <4>3
    <3>5. CASE k + 1 \notin getWeight(a, s, d) /\ k + 1 \notin DOMAIN Weights[s]
      <4>1. N(k + 1) = N(k) /\ E(k + 1) = E(k)
        BY <3>1, <3>2, <3>5 DEF OnDay, Turn
      <4> QED
        BY <2>1, <2>3, <3>1, <3>3, <4>1
    <3>6. CASE k + 1 \notin getWeight(a, s, d) /\ k + 1 \in DOMAIN Weights[s]
      <4>1. k + 1 < until
        BY <1>1, <1>5, <2>1, <3>1, <3>6
      <4>2. N(k) = n /\ k + 1 <= a.m_last_update_datetime
        BY <1>1, <2>1, <3>3, <4>1
      <4>3. AfterEvent(n, Weights[s][k + 1]) = n
        BY <1>1, <3>1, <3>6, <4>2
      <4>4. N(k + 1) = N(k) /\ E(k + 1) = n
        BY <3>1, <3>2, <3>6, <4>2, <4>3 DEF OnDay, Turn
      <4> QED
        BY <2>1, <2>3, <4>2, <4>4
    <3> QED
      BY <3>4, <3>5, <3>6
  <2> QED
    BY <2>2, <2>3
<1>8. T = 0 .. d
  <2>1. T \subseteq 0 .. d
    OBVIOUS
  <2> HIDE DEF T
  <2> QED
    BY <1>1, <1>6, <1>7, <2>1, BoundedInduction
<1>9. ASSUME NEW k \in 0 .. d, l < k, k \in DOMAIN Weights[s]
      PROVE  E(k) = AfterEvent(E(k - 1), Weights[s][k])
  <2>1. k - 1 \in 0 .. d /\ k - 1 < d /\ l <= k - 1 /\ (k - 1) + 1 = k
    BY <1>1, <1>9
  <2>2. E((k - 1) + 1) = Turn(s, E(k - 1), (k - 1) + 1)
    BY <1>3, <2>1
  <2> QED
    BY <1>9, <2>1, <2>2 DEF Turn
<1>10. \A k \in 0 .. d : P(k)
  BY <1>8
<1> QED
  BY <1>9, <1>10 DEF l, N, E

(* After the last day logged no holding changes.                           *)
LEMMA LateDaysQuiet ==
  ASSUME NEW a, IsAccount(a), NEW d, NEW f, DayByDay(f, a, d), NEW l \in Nat,
         \A i \in 1 .. Len(f[MaxDay].recs) : f[MaxDay].recs[i].datetime <= l,
         NEW side \in Sides, NEW s \in Stocks
  PROVE  \A k \in 0 .. MaxDay : l <= k => Num(f[k].tm, side, s) = Num(f[MaxDay].tm, side, s)
<1> DEFINE e == <<side, s>>
           m == MaxDay
           N(k) == Num(f[k].tm, side, s)
           Before(k) == \A i \in 1 .. Len(f[k].recs) : f[k].recs[i].datetime <= l
           T == {j \in 0 .. m : Before(m - j) /\ (l <= m - j => N(m - j) = N(m))}
<1>0. m \in Nat /\ m - 0 = m
  BY ParameterAssumption
<1>1. e \in Measures /\ e[1] = side /\ e[2] = s /\ side \notin {"cash", "loan", "cost"}
  BY DEF Measures, Sides
<1>2. ASSUME NEW k \in 0 .. m
      PROVE  /\ f[k].recs \in Seq(Record) /\ Len(f[k].recs) \in Nat
             /\ N(k) = Level(e, a) + Total(Column(e, f[k].recs))
  <2>1. Batch(a, d, k, f[k])
    BY DEF DayByDay
  <2>2. Level(e, f[k].tm) = N(k)
    BY <1>1 DEF Level
  <2> QED
    BY <1>1, <2>1, <2>2 DEF Batch
<1>3. ASSUME NEW k \in 1 .. m, Before(k)
      PROVE  Before(k - 1) /\ (l <= k - 1 => N(k - 1) = N(k))
  <2> DEFINE x == f[k - 1].recs
             y == f[k].recs
  <2>1. k \in 0 .. m /\ k - 1 \in 0 .. m
    BY <1>0
  <2>2. Grows(x, y, k)
    BY DEF DayByDay
  <2>3. /\ x \in Seq(Record) /\ y \in Seq(Record) /\ Len(x) \in Nat /\ Len(y) \in Nat
        /\ N(k - 1) = Level(e, a) + Total(Column(e, x))
        /\ N(k) = Level(e, a) + Total(Column(e, y))
        /\ \A i \in 1 .. Len(y) : y[i].datetime <= l
    BY <1>2, <1>3, <2>1
  <2> HIDE DEF x, y, N
  <2>4. /\ Len(x) <= Len(y) /\ (\A i \in 1 .. Len(x) : y[i] = x[i])
        /\ \A i \in 1 .. Len(y) : i > Len(x) => y[i].datetime = k
    BY <2>2 DEF Grows
  <2>5. \A i \in 1 .. Len(x) : x[i].datetime <= l
    BY <2>3, <2>4
  <2>6. ASSUME l <= k - 1 PROVE N(k - 1) = N(k)
    <3>1. Len(y) = Len(x)
      <4>1. CASE Len(y) > Len(x)
        <5>1. Len(y) \in 1 .. Len(y)
          BY <2>3, <4>1
        <5>2. y[Len(y)].datetime = k /\ y[Len(y)].datetime <= l
          BY <2>3, <2>4, <4>1, <5>1
        <5> QED
          BY <1>0, <2>6, <5>2
      <4> QED
        BY <2>3, <2>4, <4>1
    <3>2. Column(e, y) = Column(e, x)
      BY <2>4, <3>1 DEF Column
    <3> QED
      BY <2>3, <3>2
  <2> QED
    BY <2>5, <2>6 DEF x
<1> HIDE DEF N
<1>4. 0 \in T
  BY <1>0
<1>5. ASSUME NEW j \in T, j < m PROVE j + 1 \in T
  <2>1. /\ j \in 0 .. m /\ j + 1 \in 0 .. m /\ m - j \in 1 .. m /\ m - (j + 1) = (m - j) - 1
        /\ Before(m - j) /\ (l <= m - j => N(m - j) = N(m)) /\ m - j \in Nat
    BY <1>0, <1>5
  <2> HIDE DEF Before
  <2>2. Before((m - j) - 1) /\ (l <= (m - j) - 1 => N((m - j) - 1) = N(m - j))
    BY <1>3, <2>1
  <2>3. l <= (m - j) - 1 => l <= m - j
    BY <1>0, <2>1
  <2> QED
    BY <2>1, <2>2, <2>3
<1>6. T = 0 .. m
  <2>1. T \subseteq 0 .. m
    OBVIOUS
  <2> HIDE DEF T
  <2> QED
    BY <1>0, <1>4, <1>5, <2>1, BoundedInduction
<1>7. ASSUME NEW k \in 0 .. m, l <= k PROVE N(k) = N(m)
  <2>1. m - k \in 0 .. m /\ m - (m - k) = k
    BY <1>0
  <2>2. m - k \in T
    BY <1>6, <2>1
  <2> QED
    BY <1>7, <2>1, <2>2
<1> QED
  BY <1>7 DEF N

LEMMA OnTimeUpdate ==
  ASSUME NEW a, Good(a), OnTime(a), NEW d \in Days, lastDatetime(a) <= d, ~AlreadyUpdated(a, d)
  PROVE  LET u == updateWithWeight(a, d) IN OnTime(u) /\ u.m_last_update_datetime = d
<1> DEFINE u == updateWithWeight(a, d)
           l == lastDatetime(a)
           new == lastDatetime(u)
<1>1. /\ IsAccount(a) /\ d \in Nat /\ d \in 0 .. MaxDay /\ MaxDay \in Nat /\ l \in Nat
      /\ a.m_last_update_datetime \in Nat /\ a.m_last_update_datetime < d
  BY ParameterAssumption DEF Good, OnTime, Days, AlreadyUpdated
<1>2. PICK f : DayByDay(f, a, d) /\ Weighed(a, d) = f[MaxDay]
  BY <1>1, WeighedFacts
<1> DEFINE t == f[MaxDay].tm
<1>3. /\ Good(u)
      /\ \E recs \in Seq(Record) : /\ u.m_trade_list = a.m_trade_list \o recs
                                   /\ \A i \in 1 .. Len(recs) : Recent(a, d, d, recs[i])
      /\ u.m_position = t.m_position /\ u.m_short_position = t.m_short_position
      /\ u.m_borrow_stock = t.m_borrow_stock
      /\ u.m_last_update_datetime = d
      /\ u.m_tmp_weight_checked_until = AdvanceFrontier(a, d)
      /\ \A i \in 1 .. Len(f[MaxDay].recs) : f[MaxDay].recs[i].datetime <= new
  BY <1>1, <1>2, UpdateFields
<1>4. UpdatedTo(a, u, d)
  BY <1>1, UpdateIsUpdatedTo
<1> HIDE DEF u
<1>5. new \in Nat /\ l <= new /\ new <= d /\ IsAccount(u)
  BY <1>1, <1>3, <1>4, LogFacts, UpdatedFacts DEF Good
<1>6. \A side, s : Num(u, side, s) = Num(t, side, s)
  BY <1>3 DEF Num, Held
<1>7. \A s \in Stocks : u.m_tmp_weight_checked_until[s] <= d + 1
  <2> SUFFICES ASSUME NEW s \in Stocks PROVE u.m_tmp_weight_checked_until[s] <= d + 1
    OBVIOUS
  <2>1. /\ a.m_tmp_weight_checked_until[s] <= a.m_last_update_datetime + 1
        /\ a.m_tmp_weight_checked_until[s] \in Nat
    BY <1>1 DEF OnTime, IsAccount
  <2>2. u.m_tmp_weight_checked_until[s] \in {d + 1, a.m_tmp_weight_checked_until[s]}
    <3>1. AdvanceFrontier(a, d)[s]
            = IF s \in AnyHeld(a) /\ a.m_tmp_weight_checked_until[s] < d + 1 THEN d + 1
              ELSE a.m_tmp_weight_checked_until[s]
      BY <1>1, FrontierFacts
    <3> QED
      BY <1>3, <3>1
  <2> QED
    BY <1>1, <2>1, <2>2
<1>8. ASSUME NEW side \in Sides, NEW s \in Stocks PROVE Settled(u, side, s)
  <2> DEFINE n == Num(u, side, s)
             E(k) == Eager(a, side, s, k)
  <2>1. \A k \in 0 .. MaxDay : Eager(u, side, s, k) = E(k)
    <3>1. PICK recs \in Seq(Record) : /\ u.m_trade_list = a.m_trade_list \o recs
                                      /\ \A i \in 1 .. Len(recs) : Recent(a, d, d, recs[i])
      BY <1>3
    <3>2. Logs(a, u, recs) /\ \A i \in 1 .. Len(recs) : recs[i].business \in EventBusinesses
      BY <3>1 DEF Logs, Recent
    <3>3. \A k \in 0 .. MaxDay : Dealt(u, side, s, k) = Dealt(a, side, s, k)
      BY <1>1, <3>2, KeptSame
    <3>4. MaxDay \in 0 .. MaxDay
      BY <1>1
    <3> QED
      BY <1>1, <1>5, <3>3, <3>4, EagerSame
  <2>2. ASSUME NEW k \in 0 .. d, new <= k PROVE n = E(k)
    <3>1. k \in 0 .. MaxDay /\ l <= k
      BY <1>1, <1>5, <2>2
    <3>2. Num(f[k].tm, side, s) = Num(t, side, s)
      <4>1. /\ IsAccount(a) /\ DayByDay(f, a, d) /\ new \in Nat
            /\ \A i \in 1 .. Len(f[MaxDay].recs) : f[MaxDay].recs[i].datetime <= new
        BY <1>1, <1>2, <1>3, <1>5
      <4> HIDE DEF new
      <4>2. \A j \in 0 .. MaxDay : new <= j => Num(f[j].tm, side, s) = Num(f[MaxDay].tm, side, s)
        BY <4>1, LateDaysQuiet
      <4> QED
        BY <2>2, <3>1, <4>2
    <3>3. Num(f[k].tm, side, s) = E(k)
      BY <1>1, <1>2, <3>1, DaysAreEager
    <3> QED
      BY <1>6, <3>2, <3>3
  <2>3. ASSUME NEW k \in DOMAIN Weights[s], new < k, k <= d
        PROVE  AfterEvent(n, Weights[s][k]) = n
    <3>1. k \in 0 .. d /\ k - 1 \in 0 .. d /\ new <= k /\ new <= k - 1 /\ l < k
      BY <1>1, <1>5, <2>3, EventFacts
    <3>2. n = E(k) /\ n = E(k - 1)
      BY <2>2, <3>1
    <3>3. E(k) = AfterEvent(E(k - 1), Weights[s][k])
      BY <1>1, <1>2, <3>1, DaysAreEager
    <3> QED
      BY <3>2, <3>3
  <2>4. n = Eager(u, side, s, new)
    BY <1>1, <1>5, <2>1, <2>2
  <2> QED
    BY <1>3, <2>3, <2>4 DEF Settled
<1>9. new \in 0 .. MaxDay
  BY <1>1, <1>5
<1> QED
  BY <1>1, <1>3, <1>7, <1>8, <1>9 DEF OnTime, u

LEMMA OnTimeCall ==
  ASSUME TMInv, OnTime(tm), Chronological, NEW d, Called(d), NEW b,
         Leads(updateWithWeight(tm, d), b, d)
  PROVE  OnTime(b)
<1> DEFINE u == updateWithWeight(tm, d)
<1>1. /\ Good(tm) /\ d \in Days /\ d \in Nat /\ lastDatetime(tm) <= d
      /\ tm.m_last_update_datetime <= d /\ tm.m_last_update_datetime \in Nat
      /\ Good(u) /\ lastDatetime(u) <= d /\ Leads(u, b, d)
  <2>1. lastDatetime(tm) \in Nat /\ lastDatetime(u) \in Nat
    BY LogFacts DEF Called, Ready, Good
  <2> QED
    BY <2>1, ParameterAssumption DEF Called, Ready, OnTime
<1>2. OnTime(u) /\ u.m_last_update_datetime = d
  <2>1. CASE AlreadyUpdated(tm, d)
    <3>1. u = tm /\ tm.m_last_update_datetime = d
      BY <1>1, <2>1 DEF updateWithWeight, AlreadyUpdated
    <3> QED
      BY <3>1
  <2>2. CASE ~AlreadyUpdated(tm, d)
    BY <1>1, <2>2, OnTimeUpdate
  <2> QED
    BY <2>1, <2>2
<1> HIDE DEF u
<1> QED
  BY <1>1, <1>2, OnTimeLeads

LEMMA OnTimeReload ==
  ASSUME TMInv, OnTime(tm), ReloadAccount
  PROVE  OnTime(tm')
<1> DEFINE b == tm'
<1>1. b = [tm EXCEPT !.m_last_update_datetime = 0,
                     !.m_tmp_weight_checked_until = [s \in Stocks |-> 0]]
  BY DEF ReloadAccount, Reloaded
<1> HIDE DEF b
<1>2. Good(tm) /\ IsAccount(tm)
  BY DEF TMInv, Good
<1>3. /\ Good(b) /\ b.m_trade_list = tm.m_trade_list
      /\ b.m_last_update_datetime = 0
      /\ \A s \in Stocks : b.m_tmp_weight_checked_until[s] = 0
      /\ b.m_position = tm.m_position /\ b.m_short_position = tm.m_short_position
      /\ b.m_borrow_stock = tm.m_borrow_stock
  BY <1>1, <1>2, ReloadFacts
<1>4. lastDatetime(b) = lastDatetime(tm) /\ lastDatetime(tm) \in Nat /\ MaxDay \in Nat
      /\ lastDatetime(tm) \in 0 .. MaxDay
  BY <1>3, ParameterAssumption DEF lastDatetime, OnTime
<1>5. ASSUME NEW side \in Sides, NEW s \in Stocks PROVE Settled(b, side, s)
  <2>1. Num(b, side, s) = Num(tm, side, s)
    BY <1>3 DEF Num, Held
  <2>2. \A k \in 0 .. MaxDay : Dealt(b, side, s, k) = Dealt(tm, side, s, k)
    BY <1>3 DEF Dealt, Replay
  <2>3. Eager(b, side, s, lastDatetime(tm)) = Eager(tm, side, s, lastDatetime(tm))
    BY <1>2, <1>3, <1>4, <2>2, EagerSame DEF Good
  <2>4. Settled(tm, side, s)
    BY DEF OnTime
  <2>5. \A k \in DOMAIN Weights[s] : ~(lastDatetime(b) < k /\ k <= 0)
    BY <1>4, EventFacts
  <2> QED
    BY <1>3, <1>4, <2>1, <2>3, <2>4, <2>5 DEF Settled
<1>6. 0 \in 0 .. MaxDay /\ 0 <= 0 + 1
  BY <1>4
<1>7. OnTime(b)
  BY <1>3, <1>4, <1>5, <1>6 DEF OnTime
<1> QED
  BY <1>7 DEF b

LEMMA OnTimeNew ==
  ASSUME NEW params
  PROVE  OnTime(NewAccount(params))
<1> DEFINE a == NewAccount(params)
<1>1. /\ Good(a) /\ lastDatetime(a) = 0 /\ a.m_last_update_datetime = 0
      /\ \A s \in Stocks : a.m_tmp_weight_checked_until[s] = 0
      /\ \A side \in Sides : \A s : Num(a, side, s) = 0
  BY NewAccountGood
<1> HIDE DEF a
<1>2. ASSUME NEW side \in Sides, NEW s \in Stocks PROVE Settled(a, side, s)
  <2>1. Eager(a, side, s, 0) = 0
    BY <1>1, EagerFacts DEF Good
  <2>2. \A k \in DOMAIN Weights[s] : ~(0 < k /\ k <= 0)
    BY EventFacts
  <2> QED
    BY <1>1, <2>1, <2>2 DEF Settled
<1>3. 0 \in 0 .. MaxDay /\ 0 <= 0 + 1
  BY ParameterAssumption
<1>4. OnTime(a)
  BY <1>1, <1>2, <1>3 DEF OnTime
<1> QED
  BY <1>4 DEF a

(* Every ex-rights event up to the last update has reached every holding   *)
(* exactly once and in its place among the trades, when the calls come in  *)
(* date order: nothing is lost or counted twice by the lazy update, its    *)
(* frontiers, its early return or a reload that forgets both.              *)
THEOREM EventsReachOnce == Chronological => (TMSpec => []ExRightsExactlyOnce)
<1> SUFFICES ASSUME Chronological PROVE TMSpec => []ExRightsExactlyOnce
  OBVIOUS
<1> DEFINE Inv == TMInv /\ OnTime(tm)
<1>1. TMInit => Inv
  <2> SUFFICES ASSUME TMInit PROVE OnTime(tm)
    BY TMInvInit
  <2>1. PICK profile \in Profiles : tm = NewAccount(profile.params)
    BY DEF TMInit
  <2> QED
    BY <2>1, OnTimeNew
<1>2. Inv /\ [TMNext]_TMvars => Inv'
  <2> SUFFICES ASSUME TMInv, OnTime(tm), [TMNext]_TMvars PROVE OnTime(tm)'
    BY TMInvNext
  <2>1. CASE UNCHANGED TMvars
    <3>1. tm' = tm
      BY <2>1 DEF TMvars
    <3>2. OnTime(tm')
      BY <3>1
    <3> QED
      BY <3>2
  <2>2. CASE TMNext
    <3>1. Handled(tm') \/ Brings(tm') => OnTime(tm')
      <4>1. ASSUME NEW d, Called(d), Leads(updateWithWeight(tm, d), tm', d) PROVE OnTime(tm')
        BY <4>1, OnTimeCall
      <4> QED
        BY <4>1 DEF Handled, Brings, Safe
    <3>2. OnTime(tm')
      BY <2>2, <3>1, TMCases, OnTimeReload, OnTimeNew
    <3> QED
      BY <3>2
  <2> QED
    BY <2>1, <2>2
<1>3. Inv => ExRightsExactlyOnce
  BY OnTimeIsRight
<1> QED
  BY <1>1, <1>2, <1>3, PTL DEF TMSpec

-----------------------------------------------------------------------------
(* The aggregate.  No position is left in neither pool, no sub-system is   *)
(* driven twice in a stage, and the sweep of the open leaves no holder     *)
(* behind that it could sell.                                              *)

(* Types, and what of the pools is always so.                              *)
TypeInv ==
  /\ param \in Params
  /\ sub \in [Subs -> SubState]
  /\ running \subseteq Subs /\ forceSell \subseteq Subs
  /\ delisted \subseteq Subs /\ quoted \subseteq Subs
  /\ stage \in {"open", "close"}

Exclusive == running \cap forceSell = {}

NoSENoPools == ~param.has_se => running = {} /\ forceSell = {}

(* Under forced liquidation, what a member of the force-sell pool that was *)
(* never refused has queued: nothing after an open, and after a close      *)
(* nothing if it holds.                                                    *)
QueuesInForceSell ==
  param.sell_at_not_selected =>
    \A s \in forceSell \ refused :
      /\ stage = "open" => sub[s].pending = {} /\ (s \in quoted => ~Holds(s))
      /\ stage = "close" /\ Holds(s) => sub[s].pending = {}

IInv == /\ TypeInv /\ Exclusive /\ NoSENoPools
        /\ QueuesInForceSell /\ HoldingsFollowed /\ DrivenOnce

----------------------------------------------------------------------------
(* The sub-systems.                                                        *)

LEMMA FilledTyped ==
  ASSUME NEW c \in SubState, NEW side \in RequestLists, NEW d \in Filled(c, side)
  PROVE  d \in SubState
BY DEF SubState, Filled, RequestLists

LEMMA WithoutTyped ==
  ASSUME NEW c \in SubState, NEW sides
  PROVE  Without(c, sides) \in SubState
BY DEF SubState, Without

LEMMA FirstIsList == ASSUME NEW c PROVE FirstPending(c) \in RequestLists
BY DEF FirstPending, RequestLists

LEMMA OpenedTyped ==
  ASSUME NEW c \in SubState, NEW d \in Opened(c)
  PROVE  d \in SubState
<1>1. CASE d = c
  BY <1>1
<1>2. CASE d \in Served(c, FirstPending(c))
  <2>1. PICK e \in Filled(c, FirstPending(c)) : d = Without(e, {FirstPending(c)})
    BY <1>2 DEF Served
  <2> QED
    BY <2>1, FirstIsList, FilledTyped, WithoutTyped
<1> QED
  BY <1>1, <1>2 DEF Opened

LEMMA TradedTyped ==
  ASSUME NEW c \in SubState, NEW side \in RequestLists, NEW t, NEW d \in Traded(c, side, t)
  PROVE  d \in SubState
<1>1. CASE d = c
  BY <1>1
<1>2. CASE d = [c EXCEPT !.pending = @ \cup {side}]
  BY <1>2 DEF SubState
<1>3. CASE d \in {Without(e, {side} \cap ShortSides) : e \in Filled(c, side)}
  BY <1>3, FilledTyped, WithoutTyped
<1> QED
  BY <1>1, <1>2, <1>3 DEF Traded

LEMMA ClosedTyped ==
  ASSUME NEW c \in SubState, NEW t, NEW d \in Closed(c, t)
  PROVE  d \in SubState
<1> DEFINE kept == Without(c, EntrySides)
<1>0. kept \in SubState
  BY WithoutTyped
<1>1. CASE d \in ForcedExit(c, t)
  <2>1. d \in Traded(kept, "sell", t) \/ d \in Traded(kept, "buyShort", t) \/ d = kept
    BY <1>1 DEF ForcedExit
  <2> QED
    BY <2>1, <1>0, TradedTyped DEF RequestLists
<1>2. CASE \E side \in RequestLists : d \in Traded(c, side, t)
  BY <1>2, TradedTyped
<1>3. d = c \/ d \in ForcedExit(c, t) \/ \E side \in RequestLists : d \in Traded(c, side, t)
  BY DEF Closed, RequestLists
<1> QED
  BY <1>1, <1>2, <1>3

(* With nothing queued the open changes nothing.                           *)
LEMMA OpenedIdle ==
  ASSUME NEW c, c.pending = {}, NEW d \in Opened(c)
  PROVE  d = c
BY DEF Opened, Served

(* A flat sub-system with nothing queued does not hold and queue at once   *)
(* after a close.                                                          *)
LEMMA TradedFromIdle ==
  ASSUME NEW c \in SubState, c.pending = {}, ~c.long,
         NEW side \in RequestLists, NEW t, NEW d \in Traded(c, side, t), d.long
  PROVE  d.pending = {}
<1>1. CASE d = [c EXCEPT !.pending = @ \cup {side}]
  BY <1>1 DEF SubState
<1>2. CASE d \in {Without(e, {side} \cap ShortSides) : e \in Filled(c, side)}
  <2>1. PICK e \in Filled(c, side) : d = Without(e, {side} \cap ShortSides)
    BY <1>2
  <2>2. e \in SubState /\ e.pending = {}
    BY FilledTyped DEF Filled, RequestLists, SubState
  <2> QED
    BY <2>1, <2>2 DEF Without, SubState
<1>3. CASE d = c
  BY <1>3
<1> QED
  BY <1>1, <1>2, <1>3 DEF Traded

LEMMA ClosedFromIdle ==
  ASSUME NEW c \in SubState, c.pending = {}, ~c.long, NEW t, NEW d \in Closed(c, t), d.long
  PROVE  d.pending = {}
<1> DEFINE kept == Without(c, EntrySides)
<1>0. kept \in SubState /\ kept.pending = {} /\ ~kept.long
  BY WithoutTyped DEF Without, SubState
<1>1. CASE d \in ForcedExit(c, t)
  <2>1. d \in Traded(kept, "buyShort", t) \/ d = kept
    BY <1>1 DEF ForcedExit
  <2> QED
    BY <2>1, <1>0, TradedFromIdle DEF RequestLists
<1>2. CASE \E side \in RequestLists : d \in Traded(c, side, t)
  BY <1>2, TradedFromIdle
<1>3. d = c \/ d \in ForcedExit(c, t) \/ \E side \in RequestLists : d \in Traded(c, side, t)
  BY DEF Closed, RequestLists
<1> QED
  BY <1>1, <1>2, <1>3

LEMMA EachMember ==
  ASSUME NEW reach, NEW f \in Each(reach)
  PROVE  /\ f = [s \in Subs |-> f[s]]
         /\ \A s \in Subs : f[s] \in reach[s]
BY DEF Each

----------------------------------------------------------------------------
(* The open.                                                               *)

(* What an open makes of one sub-system: typed; left alone in neither pool,*)
(* and swept out if it is swept with nothing queued and not refused.       *)
OpenedAs(d, s, driven, bars, refusing) ==
  /\ d \in SubState
  /\ s \notin delisted /\ s \notin StillHeld /\ s \notin driven => d = sub[s]
  /\ s \notin driven /\ s \notin StillHeld /\ ~Holds(s) => ~d.long
  /\ param.sell_at_not_selected /\ s \in StillHeld \ refusing /\ sub[s].pending = {}
       => d.pending = {} /\ (s \in bars => ~d.long)

LEMMA OpenedByFacts ==
  ASSUME TypeInv, NEW bars \in SUBSET (Subs \ delisted), NEW s \in Subs,
         NEW first, NEW second, s \in StillHeld => s \notin second, NEW refusing,
         NEW d \in OpenedBy(s, first, second, bars, refusing)
  PROVE  OpenedAs(d, s, first \cup second, bars, refusing)
<1> DEFINE cs == {IF s \in StillHeld THEN Swept(c, s \in bars, s \notin refusing)
                  ELSE c : c \in Delisted(s, sub[s])}
           drive(xs, pool) ==
             IF s \in pool \cap bars THEN UNION {Opened(c) : c \in xs} ELSE xs
<1>0. d \in drive(drive(cs, first), second)
  BY DEF OpenedBy
<1>1. sub[s] \in SubState
  BY DEF TypeInv
<1>2. \A c \in Delisted(s, sub[s]) :
        /\ c \in SubState /\ c.pending = sub[s].pending
        /\ (~Holds(s) => ~c.long) /\ (s \notin delisted => c = sub[s])
  BY <1>1 DEF Delisted, SubState, Holds
<1>3. \A c \in cs :
        /\ c \in SubState /\ c.pending = sub[s].pending
        /\ s \notin StillHeld => (~Holds(s) => ~c.long) /\ (s \notin delisted => c = sub[s])
        /\ param.sell_at_not_selected /\ s \in StillHeld \ refusing /\ s \in bars
             => ~c.long
  BY <1>2 DEF Swept, SoldOut, SubState
<1>4. \A xs, pool : (\A c \in xs : c \in SubState) => \A c \in drive(xs, pool) : c \in SubState
  BY OpenedTyped
<1>5. d \in SubState
  <2>1. \A c \in drive(cs, first) : c \in SubState
    BY <1>3, <1>4
  <2> QED
    BY <2>1, <1>0, <1>4
<1>6. ASSUME s \notin first \cup second
      PROVE  d \in cs
  BY <1>0, <1>6
<1>7. ASSUME sub[s].pending = {}, s \notin second
      PROVE  d \in cs
  <2>1. \A c \in drive(cs, first) : c \in cs
    BY <1>3, <1>7, OpenedIdle
  <2> QED
    BY <2>1, <1>0, <1>7
<1> HIDE DEF cs, drive
<1> QED
  BY <1>3, <1>5, <1>6, <1>7 DEF OpenedAs

LEMMA DrivenInOnePool ==
  ASSUME NEW s \in Subs, NEW first, NEW second, NEW third,
         s \notin first \cap second, s \notin first \cap third, s \notin second \cap third
  PROVE  Driven(first, second, third)[s] <= 1
BY DEF Driven

LEMMA OpenStep ==
  ASSUME IInv, RunMomentOnOpen
  PROVE  IInv'
<1> PICK bars \in SUBSET (Subs \ delisted) :
       \E refusing \in SUBSET Sweeping(bars) : OpenDay(bars, refusing)
  BY DEF RunMomentOnOpen
<1> PICK refusing \in SUBSET Sweeping(bars) : OpenDay(bars, refusing)
  OBVIOUS
<1> DEFINE first  == IF param.has_se /\ FollowsForceSell THEN StillHeld ELSE {}
           left   == {s \in running : ~InDeadPosition(s)}
           second == IF param.has_se THEN left ELSE Subs
           reach  == [s \in Subs |-> OpenedBy(s, first, second, bars, refusing)]
<1>0. /\ stage = "close" /\ stage' = "open"
      /\ quoted' = bars /\ running' = left /\ forceSell' = StillHeld
      /\ sub' \in Each(reach) /\ drives' = Driven(first, second, {})
      /\ unfollowed' = {s \in unfollowed : sub'[s].long}
      /\ refused' = (refused \cap StillHeld) \cup refusing
      /\ param' = param /\ delisted' = delisted
  BY DEF OpenDay
<1>1. \A s \in Subs : sub'[s] \in OpenedBy(s, first, second, bars, refusing)
  <2>1. \A s \in Subs : sub'[s] \in reach[s]
    BY <1>0, EachMember
  <2> HIDE DEF first, second
  <2> QED
    BY <2>1
<1>2. sub' = [s \in Subs |-> sub'[s]]
  BY <1>0, EachMember
<1>3. StillHeld \subseteq forceSell
  BY DEF StillHeld, Watched
<1>4. left \subseteq running
  OBVIOUS
<1>5. TypeInv /\ Exclusive /\ NoSENoPools /\ QueuesInForceSell /\ HoldingsFollowed
  BY DEF IInv
<1>6. \A s \in Subs : s \in StillHeld => s \notin second
  BY <1>3, <1>5 DEF Exclusive, NoSENoPools
<1>7. \A s \in Subs : s \in first => s \in StillHeld
  OBVIOUS
<1>8. \A s \in Subs : OpenedAs(sub'[s], s, second, bars, refusing)
  <2> HIDE DEF first, second, left
  <2> TAKE s \in Subs
  <2>1. OpenedAs(sub'[s], s, first \cup second, bars, refusing)
    BY <1>1, <1>5, <1>6, OpenedByFacts
  <2> QED
    BY <2>1, <1>7 DEF OpenedAs
<1> HIDE DEF reach
<1>9. TypeInv'
  <2>1. sub' \in [Subs -> SubState]
    BY <1>2, <1>8 DEF OpenedAs
  <2> QED
    BY <2>1, <1>0, <1>3, <1>4, <1>5 DEF TypeInv
<1>10. Exclusive' /\ NoSENoPools'
  BY <1>0, <1>3, <1>4, <1>5 DEF Exclusive, NoSENoPools
<1>11. QueuesInForceSell'
  <2> SUFFICES ASSUME param.sell_at_not_selected, NEW s \in forceSell' \ refused'
               PROVE  sub'[s].pending = {} /\ (s \in bars => ~sub'[s].long)
    BY <1>0 DEF QueuesInForceSell, Holds
  <2>1. s \in StillHeld \ refusing /\ s \in forceSell \ refused /\ s \in Subs
    BY <1>0, <1>3, <1>5 DEF TypeInv
  <2>2. sub[s].pending = {}
    BY <2>1, <1>0, <1>5 DEF QueuesInForceSell, StillHeld
  <2> QED
    BY <2>1, <2>2, <1>8 DEF OpenedAs
<1>12. HoldingsFollowed'
  <2> SUFFICES ASSUME param.has_se, NEW s \in Subs, sub'[s].long
               PROVE  s \in running' \cup forceSell' \cup delisted' \cup unfollowed'
    BY <1>0 DEF HoldingsFollowed, Holds
  <2>1. CASE s \in second
    BY <2>1, <1>0
  <2>2. CASE s \in StillHeld
    BY <2>2, <1>0
  <2>3. CASE s \notin second /\ s \notin StillHeld
    <3>1. Holds(s)
      BY <2>3, <1>8 DEF OpenedAs
    <3>2. s \in running \cup forceSell \cup delisted \cup unfollowed
      BY <3>1, <1>5 DEF HoldingsFollowed
    <3>3. s \in running \cup forceSell => s \in delisted
      BY <2>3, <3>1 DEF StillHeld, Watched, InDeadPosition
    <3> QED
      BY <3>2, <3>3, <1>0
  <2> QED
    BY <2>1, <2>2, <2>3
<1>13. DrivenOnce'
  BY <1>0, <1>6, <1>7, DrivenInOnePool DEF DrivenOnce
<1> QED
  BY <1>9, <1>10, <1>11, <1>12, <1>13 DEF IInv

----------------------------------------------------------------------------
(* The close.                                                              *)

LEMMA ClosedInTyped ==
  ASSUME NEW s \in Subs, NEW cs, \A c \in cs : c \in SubState, NEW pool,
         NEW d \in ClosedIn(s, cs, pool)
  PROVE  d \in SubState
<1>1. CASE d \in cs
  BY <1>1
<1>2. CASE \E c \in cs : d \in Closed(c, terms)
  BY <1>2, ClosedTyped
<1> QED
  BY <1>1, <1>2 DEF ClosedIn

LEMMA NotDriven ==
  ASSUME NEW s, NEW cs, NEW pool, s \notin pool
  PROVE  ClosedIn(s, cs, pool) = cs
BY DEF ClosedIn

(* Without a selector there are no pools to keep.                          *)
LEMMA CloseWithoutSEStep ==
  ASSUME IInv, RunMomentOnClose, CloseWithoutSE
  PROVE  IInv'
<1> DEFINE reach == [s \in Subs |-> ClosedIn(s, {sub[s]}, Subs)]
<1>0. TypeInv /\ NoSENoPools /\ ~param.has_se
  BY DEF IInv, CloseWithoutSE
<1>1. /\ sub' \in Each(reach) /\ drives' = Driven({}, Subs, {}) /\ UNCHANGED pools
      /\ stage' = "close" /\ param' = param /\ delisted' = delisted /\ quoted' = quoted
  BY DEF RunMomentOnClose, CloseWithoutSE
<1>2. \A s \in Subs : sub'[s] \in SubState
  <2> TAKE s \in Subs
  <2>1. sub'[s] \in ClosedIn(s, {sub[s]}, Subs)
    BY <1>1, EachMember
  <2>2. \A c \in {sub[s]} : c \in SubState
    BY <1>0 DEF TypeInv
  <2> QED
    BY <2>1, <2>2, ClosedInTyped
<1>3. TypeInv'
  <2>1. sub' = [s \in Subs |-> sub'[s]]
    BY <1>1, EachMember
  <2>2. sub' \in [Subs -> SubState]
    BY <2>1, <1>2
  <2> QED
    BY <2>2, <1>0, <1>1 DEF TypeInv, pools
<1>4. running' = {} /\ forceSell' = {}
  BY <1>0, <1>1 DEF NoSENoPools, pools
<1>5. Exclusive' /\ NoSENoPools' /\ QueuesInForceSell' /\ HoldingsFollowed'
  BY <1>0, <1>1, <1>4 DEF Exclusive, NoSENoPools, QueuesInForceSell, HoldingsFollowed
<1>6. DrivenOnce'
  BY <1>1, DrivenInOnePool DEF DrivenOnce
<1> QED
  BY <1>3, <1>5, <1>6 DEF IInv

(* On other days the pools stay as they are.                               *)
LEMMA CloseOtherDayStep ==
  ASSUME IInv, RunMomentOnClose, CloseOtherDay
  PROVE  IInv'
<1> DEFINE first == IF FollowsForceSell THEN forceSell ELSE {}
           reach == [s \in Subs |-> ClosedIn(s, ClosedIn(s, {sub[s]}, first), running)]
<1>0. TypeInv /\ Exclusive /\ NoSENoPools /\ QueuesInForceSell /\ HoldingsFollowed
  BY DEF IInv
<1>1. /\ sub' \in Each(reach) /\ drives' = Driven(first, running, {}) /\ UNCHANGED pools
      /\ stage = "open" /\ stage' = "close"
      /\ param' = param /\ delisted' = delisted /\ quoted' = quoted
      /\ unfollowed' = {s \in unfollowed \ running' : sub'[s].long}
      /\ refused' = refused \cap forceSell'
  BY DEF RunMomentOnClose, CloseOtherDay
<1>2. \A s \in Subs : sub'[s] \in ClosedIn(s, ClosedIn(s, {sub[s]}, first), running)
  <2>1. \A s \in Subs : sub'[s] \in reach[s]
    BY <1>1, EachMember
  <2> HIDE DEF first
  <2> QED
    BY <2>1
<1>3. sub' = [s \in Subs |-> sub'[s]]
  BY <1>1, EachMember
<1>4. first \subseteq forceSell
  OBVIOUS
<1> HIDE DEF first, reach
<1>5. \A s \in Subs : sub'[s] \in SubState
  <2> TAKE s \in Subs
  <2>1. \A c \in {sub[s]} : c \in SubState
    BY <1>0 DEF TypeInv
  <2>2. \A c \in ClosedIn(s, {sub[s]}, first) : c \in SubState
    BY <2>1, ClosedInTyped
  <2>3. sub'[s] \in ClosedIn(s, ClosedIn(s, {sub[s]}, first), running)
    BY <1>2
  <2> QED
    BY <2>2, <2>3, ClosedInTyped
<1>6. \A s \in Subs : s \notin running => sub'[s] \in ClosedIn(s, {sub[s]}, first)
  BY <1>2, NotDriven
<1>7. \A s \in Subs : s \notin running /\ s \notin forceSell => sub'[s] = sub[s]
  <2> TAKE s \in Subs
  <2>1. s \notin forceSell => ClosedIn(s, {sub[s]}, first) = {sub[s]}
    BY <1>4, NotDriven
  <2> QED
    BY <2>1, <1>6
<1>8. TypeInv'
  <2>1. sub' \in [Subs -> SubState]
    BY <1>3, <1>5
  <2> QED
    BY <2>1, <1>0, <1>1 DEF TypeInv, pools
<1>9. Exclusive' /\ NoSENoPools'
  BY <1>0, <1>1 DEF Exclusive, NoSENoPools, pools
<1>10. QueuesInForceSell'
  <2> SUFFICES ASSUME param.sell_at_not_selected, NEW s \in forceSell \ refused,
                      sub'[s].long
               PROVE  sub'[s].pending = {}
    BY <1>1 DEF QueuesInForceSell, pools, Holds
  <2>1. s \in Subs /\ s \notin running /\ sub[s] \in SubState
    BY <1>0 DEF TypeInv, Exclusive
  <2>2. sub[s].pending = {} /\ (s \in quoted => ~sub[s].long)
    BY <1>0, <1>1 DEF QueuesInForceSell, Holds
  <2>3. sub'[s] \in ClosedIn(s, {sub[s]}, first)
    BY <1>6, <2>1
  <2>4. sub'[s] = sub[s] \/ (s \in quoted /\ sub'[s] \in Closed(sub[s], terms))
    BY <2>3 DEF ClosedIn
  <2> QED
    BY <2>1, <2>2, <2>4, ClosedFromIdle
<1>11. HoldingsFollowed'
  BY <1>0, <1>1, <1>7 DEF HoldingsFollowed, Holds, pools
<1>12. DrivenOnce'
  BY <1>0, <1>1, <1>4, DrivenInOnePool DEF DrivenOnce, Exclusive
<1> QED
  BY <1>8, <1>9, <1>10, <1>11, <1>12 DEF IInv

(* On a rebalancing day sub-systems move between the pools.                *)
LEMMA CloseAdjustDayStep ==
  ASSUME IInv, RunMomentOnClose, NEW selected \in SUBSET Subs, CloseAdjustDay(selected)
  PROVE  IInv'
<1> DEFINE removed == running \ selected
           left    == LeftInForceSell(selected)
           first   == IF param.keep_watch_force_sell /\ ~param.sell_at_not_selected
                      THEN left ELSE {}
           second  == (running \ removed) \cup selected
           last    == {s \in removed : Holds(s)}
           start(s) == {IF s \in removed THEN Removed(sub[s]) ELSE sub[s]}
           driven(s) == ClosedIn(s, ClosedIn(s, start(s), first), second)
           ends(s) == IF s \in removed THEN UNION {LastOf(s, c) : c \in driven(s)}
                      ELSE driven(s)
           reach   == [s \in Subs |-> ends(s)]
           third   == IF param.sell_at_not_selected THEN {} ELSE last
<1>0. TypeInv /\ Exclusive /\ NoSENoPools /\ QueuesInForceSell /\ HoldingsFollowed
  BY DEF IInv
<1>1. /\ sub' \in Each(reach) /\ drives' = Driven(first, second, third)
      /\ running' = second /\ forceSell' = left \cup HandedOver(removed, sub')
      /\ param.has_se /\ stage = "open" /\ stage' = "close"
      /\ param' = param /\ delisted' = delisted /\ quoted' = quoted
      /\ unfollowed' = {s \in unfollowed \ running' : sub'[s].long}
      /\ refused' = refused \cap forceSell'
  BY DEF RunMomentOnClose, CloseAdjustDay
<1>2. \A s \in Subs : sub'[s] \in ends(s)
  <2>1. \A s \in Subs : sub'[s] \in reach[s]
    BY <1>1, EachMember
  <2> HIDE DEF ends
  <2> QED
    BY <2>1
<1>3. sub' = [s \in Subs |-> sub'[s]]
  BY <1>1, EachMember
(* Which pools a sub-system can be in.                                     *)
<1>4. /\ first \subseteq left /\ left \subseteq forceSell /\ third \subseteq removed
      /\ removed \subseteq running /\ removed \cap second = {} /\ left \cap second = {}
      /\ left \cap removed = {} /\ second \subseteq Subs
      /\ param.sell_at_not_selected => first = {}
  BY <1>0 DEF LeftInForceSell, Exclusive, TypeInv
<1>5. \A s \in Subs : s \in running \cup forceSell => s \in removed \cup left \cup second
  BY DEF LeftInForceSell
<1>6. \A s \in Subs : \A c \in start(s) : c \in SubState
  BY <1>0, WithoutTyped DEF TypeInv, Removed
<1> HIDE DEF start, first, left, second, third, reach
<1>7. \A s \in Subs : \A c \in driven(s) : c \in SubState
  <2> TAKE s \in Subs
  <2>1. \A c \in ClosedIn(s, start(s), first) : c \in SubState
    BY <1>6, ClosedInTyped
  <2> QED
    BY <2>1, ClosedInTyped
<1>8. \A s \in Subs : s \notin first \cup second => driven(s) = start(s)
  BY NotDriven
<1> HIDE DEF driven
<1>9. \A s \in Subs : sub'[s] \in SubState
  <2> TAKE s \in Subs
  <2>1. CASE s \notin removed
    BY <2>1, <1>2, <1>7
  <2>2. CASE s \in removed
    <3>1. PICK c \in driven(s) : sub'[s] \in LastOf(s, c)
      BY <2>2, <1>2
    <3>2. c \in SubState
      BY <1>7
    <3>3. CASE \E accepted \in BOOLEAN : sub'[s] = c \/ sub'[s] = SoldOut(c, accepted)
      BY <3>2, <3>3 DEF SoldOut, SubState
    <3>4. CASE sub'[s] \in ClosedIn(s, {c}, {s})
      BY <3>2, <3>4, ClosedInTyped
    <3> QED
      BY <3>1, <3>3, <3>4 DEF LastOf
  <2> QED
    BY <2>1, <2>2
<1>10. TypeInv'
  <2>1. sub' \in [Subs -> SubState]
    BY <1>3, <1>9
  <2>2. forceSell' \subseteq Subs
    BY <1>0, <1>1, <1>4 DEF TypeInv, HandedOver
  <2> QED
    BY <2>1, <2>2, <1>0, <1>1, <1>4 DEF TypeInv
<1>11. Exclusive' /\ NoSENoPools'
  BY <1>1, <1>4 DEF Exclusive, NoSENoPools, HandedOver
<1>12. QueuesInForceSell'
  <2> SUFFICES ASSUME param.sell_at_not_selected, NEW s \in forceSell' \ refused',
                      sub'[s].long
               PROVE  sub'[s].pending = {}
    BY <1>1 DEF QueuesInForceSell, Holds
  <2>1. s \in Subs /\ s \notin second /\ s \notin first /\ (s \in left \/ s \in removed)
    BY <1>0, <1>1, <1>4 DEF HandedOver, TypeInv
  <2>2. driven(s) = start(s)
    BY <2>1, <1>8
  <2>3. CASE s \in left
    <3>1. sub'[s] = sub[s]
      BY <2>1, <2>2, <2>3, <1>2, <1>4 DEF start
    <3>2. s \in forceSell \ refused
      BY <2>3, <1>1, <1>4
    <3> QED
      BY <3>1, <3>2, <1>0, <1>1 DEF QueuesInForceSell
  <2>4. CASE s \in removed
    <3>1. start(s) = {Removed(sub[s])}
      BY <2>4 DEF start
    <3>2. sub'[s] \in LastOf(s, Removed(sub[s]))
      BY <3>1, <2>1, <2>2, <2>4, <1>2
    <3>3. Removed(sub[s]).pending = {} /\ Removed(sub[s]) \in SubState
      BY <1>0, <2>1 DEF Removed, Without, SubState, TypeInv
    <3> QED
      BY <3>2, <3>3 DEF LastOf, SoldOut, SubState
  <2> QED
    BY <2>1, <2>3, <2>4
<1>13. HoldingsFollowed'
  <2> SUFFICES ASSUME NEW s \in Subs, sub'[s].long
               PROVE  s \in running' \cup forceSell' \cup delisted' \cup unfollowed'
    BY DEF HoldingsFollowed, Holds
  <2>1. CASE s \in removed
    BY <2>1, <1>1 DEF HandedOver
  <2>2. CASE s \in left \cup second
    BY <2>2, <1>1
  <2>3. CASE s \notin removed \cup left \cup second
    <3>1. driven(s) = start(s)
      BY <2>3, <1>4, <1>8
    <3>2. sub'[s] = sub[s]
      BY <3>1, <2>3, <1>2 DEF start
    <3>3. s \in delisted \/ s \in unfollowed
      BY <3>2, <2>3, <1>0, <1>1, <1>5 DEF HoldingsFollowed, Holds
    <3> QED
      BY <3>3, <2>3, <1>1
  <2> QED
    BY <2>1, <2>2, <2>3
<1>14. DrivenOnce'
  BY <1>1, <1>4, DrivenInOnePool DEF DrivenOnce
<1> QED
  BY <1>10, <1>11, <1>12, <1>13, <1>14 DEF IInv

----------------------------------------------------------------------------
(* The theorems.                                                           *)

LEMMA Initial == Init => IInv
<1> SUFFICES ASSUME Init PROVE IInv
  OBVIOUS
<1>1. TypeInv
  BY DEF Init, TypeInv, FreshSub, SubState
<1>2. Exclusive /\ NoSENoPools /\ QueuesInForceSell
  BY DEF Init, Exclusive, NoSENoPools, QueuesInForceSell
<1>3. HoldingsFollowed /\ DrivenOnce
  BY DEF Init, HoldingsFollowed, DrivenOnce, Holds, FreshSub
<1> QED
  BY <1>1, <1>2, <1>3 DEF IInv

(* Delisting, loading and resetting between the days.                      *)
LEMMA BetweenDays ==
  ASSUME IInv, Reload \/ Reset \/ \E s \in Subs : Delist(s)
  PROVE  IInv'
<1>0. /\ TypeInv /\ Exclusive /\ NoSENoPools
      /\ QueuesInForceSell /\ HoldingsFollowed /\ DrivenOnce
  BY DEF IInv
<1>1. CASE Reload
  <2>1. TypeInv'
    BY <1>0, <1>1 DEF Reload, TypeInv
  <2>2. Exclusive' /\ NoSENoPools' /\ QueuesInForceSell'
    BY <1>1 DEF Reload, Exclusive, NoSENoPools, QueuesInForceSell
  <2>3. HoldingsFollowed' /\ DrivenOnce'
    BY <1>0, <1>1 DEF Reload, HoldingsFollowed, Holds, DrivenOnce
  <2> QED
    BY <2>1, <2>2, <2>3 DEF IInv
<1>2. CASE Reset
  <2>1. TypeInv'
    BY <1>0, <1>2 DEF Reset, TypeInv, FreshSub, SubState
  <2>2. Exclusive' /\ NoSENoPools' /\ QueuesInForceSell'
    BY <1>2 DEF Reset, Exclusive, NoSENoPools, QueuesInForceSell
  <2>3. HoldingsFollowed' /\ DrivenOnce'
    BY <1>2 DEF Reset, HoldingsFollowed, Holds, FreshSub, DrivenOnce
  <2> QED
    BY <2>1, <2>2, <2>3 DEF IInv
<1>3. ASSUME NEW s \in Subs, Delist(s)
      PROVE  IInv'
  <2>1. TypeInv'
    BY <1>0, <1>3 DEF Delist, TypeInv
  <2>2. Exclusive' /\ NoSENoPools' /\ QueuesInForceSell'
    BY <1>0, <1>3 DEF Delist, Exclusive, NoSENoPools, QueuesInForceSell, Holds
  <2>3. HoldingsFollowed' /\ DrivenOnce'
    BY <1>0, <1>3 DEF Delist, HoldingsFollowed, Holds, DrivenOnce
  <2> QED
    BY <2>1, <2>2, <2>3 DEF IInv
<1> QED
  BY <1>1, <1>2, <1>3

LEMMA Step == IInv /\ [Next]_vars => IInv'
<1> SUFFICES ASSUME IInv, [Next]_vars PROVE IInv'
  OBVIOUS
<1>1. CASE RunMomentOnOpen
  BY <1>1, OpenStep
<1>2. CASE RunMomentOnClose
  <2>1. CASE CloseWithoutSE
    BY <1>2, <2>1, CloseWithoutSEStep
  <2>2. CASE CloseOtherDay
    BY <1>2, <2>2, CloseOtherDayStep
  <2>3. CASE \E selected \in SUBSET Subs : CloseAdjustDay(selected)
    BY <1>2, <2>3, CloseAdjustDayStep
  <2> QED
    BY <1>2, <2>1, <2>2, <2>3 DEF RunMomentOnClose
<1>3. CASE Reload \/ Reset \/ \E s \in Subs : Delist(s)
  BY <1>3, BetweenDays
<1>4. CASE UNCHANGED vars
  BY <1>4 DEF vars, IInv, TypeInv, Exclusive, NoSENoPools, QueuesInForceSell,
              HoldingsFollowed, DrivenOnce, Holds
<1> QED
  BY <1>1, <1>2, <1>3, <1>4 DEF Next

(* The invariant holds in every behaviour.                                 *)
THEOREM Inductive == Spec => []IInv
BY Initial, Step, PTL DEF Spec

(* Whatever the selector picks and the sub-systems trade, and whichever    *)
(* bars are missing: with a selector every position is in one of the       *)
(* pools, unless its stock is delisted or the pools were lost.             *)
THEOREM Followed == Spec => []HoldingsFollowed
<1>1. IInv => HoldingsFollowed
  BY DEF IInv
<1> QED
  BY <1>1, Inductive, PTL

(* _runModeCClose and the drive of the open reach every sub-system at most *)
(* once in a stage.                                                        *)
THEOREM Once == Spec => []DrivenOnce
<1>1. IInv => DrivenOnce
  BY DEF IInv
<1> QED
  BY <1>1, Inductive, PTL

(* The sweep of the open leaves no holder with a bar in the force-sell     *)
(* pool, but those it could not sell for the size of their position.       *)
THEOREM SweptOut == Spec => []SweepEndsFlat
<1>1. IInv => SweepEndsFlat
  BY DEF IInv, QueuesInForceSell, SweepEndsFlat, TypeInv
<1> QED
  BY <1>1, Inductive, PTL
=============================================================================
