---------------------------- MODULE System_proofs ----------------------------
(***************************************************************************)
(* Proofs about the trading system of one stock, for any parameters, sizes *)
(* and prices: no entry waits while the environment or the condition is    *)
(* invalid; a position found in an invalid environment is on its way out;  *)
(* the take-profit levels are ratchets; and to the aggregate that drives   *)
(* it the system is the sub-system of the contract.                        *)
(***************************************************************************)
EXTENDS System, SequenceTheorems, WellFoundedInduction, TLAPS

(* The request lists are one list for each side; what a request holds is   *)
(* left open.                                                              *)
FourLists(rs) == rs = [s \in Sides |-> rs[s]]

IInv == FourLists(requests) /\ EntriesVoidWhileInvalid

LEMMA InitIInv == Init => IInv
BY DEF Init, IInv, FourLists, EntriesVoidWhileInvalid, NoRequests, Sides

(* A step that empties lists, or leaves them, keeps the entries void.      *)
LEMMA OnlyEmptied ==
  ASSUME IInv, FourLists(requests'),
         \A s \in Sides : requests'[s] \in {requests[s], <<>>},
         UNCHANGED <<m_pre_ev_valid, m_pre_cn_valid>>
  PROVE  IInv'
<1>1. /\ "buy" \in Sides /\ "sellShort" \in Sides
      /\ requests'["buy"] \in {requests["buy"], <<>>}
      /\ requests'["sellShort"] \in {requests["sellShort"], <<>>}
  BY DEF Sides
<1>2. EntriesVoidWhileInvalid'
  BY <1>1 DEF IInv, EntriesVoidWhileInvalid
<1>3. QED
  BY <1>2 DEF IInv

(* Serving at the open, whichever list is first, never adds a request.     *)
LEMMA Emptying ==
  ASSUME IInv, NEW side, requests' = [requests EXCEPT ![side] = <<>>]
  PROVE  /\ FourLists(requests')
         /\ \A s \in Sides : requests'[s] \in {requests[s], <<>>}
BY DEF IInv, FourLists

LEMMA OpenStep == ASSUME IInv, RunMomentOnOpen PROVE IInv'
<1>1. \/ requests' = requests
      \/ \E side : requests' = [requests EXCEPT ![side] = <<>>]
  BY DEF RunMomentOnOpen, ProcessRequest, Serve
<1>2. /\ FourLists(requests')
      /\ \A s \in Sides : requests'[s] \in {requests[s], <<>>}
  BY <1>1, Emptying DEF IInv
<1>3. QED
  BY <1>2, OnlyEmptied DEF RunMomentOnOpen

LEMMA AggregateStep ==
  ASSUME IInv,
         \/ SellForce \/ PfProcessDelayRequest("sell") \/ PfProcessDelayRequest("buy")
         \/ ClearDelayBuyRequest \/ ClearDelaySellRequest
  PROVE  IInv'
<1>1. UNCHANGED <<m_pre_ev_valid, m_pre_cn_valid>>
  BY DEF SellForce, PfProcessDelayRequest, ClearDelayBuyRequest, ClearDelaySellRequest
<1>2. /\ FourLists(requests')
      /\ \A s \in Sides : requests'[s] \in {requests[s], <<>>}
  <2>1. CASE SellForce
    BY <2>1 DEF SellForce, IInv
  <2>2. CASE PfProcessDelayRequest("sell") \/ PfProcessDelayRequest("buy")
    BY <2>2, Emptying DEF PfProcessDelayRequest, Serve, IInv
  <2>3. CASE ClearDelayBuyRequest
    BY <2>3 DEF ClearDelayBuyRequest, IInv, FourLists
  <2>4. CASE ClearDelaySellRequest
    BY <2>4 DEF ClearDelaySellRequest, IInv, FourLists
  <2>5. QED
    BY <2>1, <2>2, <2>3, <2>4
<1>3. QED
  BY <1>1, <1>2, OnlyEmptied

-----------------------------------------------------------------------------
(* What one trade at the close does to the list of its side: it may add a  *)
(* request, or empty it.                                                   *)
AtClose(from, n) == [from |-> from, number |-> n, count |-> 0]

TradesList(from, old, new) ==
  new = old \/ new = <<>> \/ \E n : new = Append(old, AtClose(from, n))

LEMMA TradeLists ==
  ASSUME NEW side \in Sides, NEW from, NEW b, NEW rs, NEW p,
         FourLists(rs), Trade(side, from, b, rs, p)
  PROVE  /\ FourLists(requests')
         /\ \A s \in Sides \ {side} : requests'[s] = rs[s]
         /\ TradesList(from, rs[side], requests'[side])
<1>1. \/ requests' = rs
      \/ requests' = [rs EXCEPT ![side] = <<>>]
      \/ \E n : requests' = Submit(rs, side, AtClose(from, n))
  BY Zenon DEF Trade, AtClose
<1>2. CASE requests' = rs
  BY <1>2 DEF TradesList
<1>3. ASSUME NEW list, TradesList(from, rs[side], list),
             requests' = [rs EXCEPT ![side] = list]
      PROVE  /\ FourLists(requests')
             /\ \A s \in Sides \ {side} : requests'[s] = rs[s]
             /\ TradesList(from, rs[side], requests'[side])
  <2>1. /\ FourLists([rs EXCEPT ![side] = list])
        /\ [rs EXCEPT ![side] = list][side] = list
        /\ \A s \in Sides \ {side} : [rs EXCEPT ![side] = list][s] = rs[s]
    BY DEF FourLists
  <2>2. QED
    BY <1>3, <2>1, Zenon
<1>4. CASE \E n : requests' = Submit(rs, side, AtClose(from, n))
  <2> PICK n : requests' = Submit(rs, side, AtClose(from, n))
    BY <1>4
  <2> DEFINE list == Append(rs[side], AtClose(from, n))
  <2>1. requests' = [rs EXCEPT ![side] = list]
    BY DEF Submit
  <2>2. TradesList(from, rs[side], list)
    BY DEF TradesList
  <2> HIDE DEF list
  <2>3. QED
    BY <1>3, <2>1, <2>2, Zenon
<1>5. CASE requests' = [rs EXCEPT ![side] = <<>>]
  <2>1. TradesList(from, rs[side], <<>>)
    BY DEF TradesList
  <2>2. QED
    BY <1>3, <1>5, <2>1, Zenon
<1>6. QED
  BY <1>1, <1>2, <1>4, <1>5

(* A forced exit throws the waiting entries away first, and trades on the  *)
(* other side.                                                             *)
LEMMA ForcedExit ==
  ASSUME IInv, NEW from, NEW p, ForceExit(from, p)
  PROVE  /\ FourLists(requests')
         /\ requests'["buy"] = <<>> /\ requests'["sellShort"] = <<>>
<1> DEFINE kept == DropPendingEntries(requests)
<1>1. FourLists(kept) /\ kept["buy"] = <<>> /\ kept["sellShort"] = <<>>
  BY DEF IInv, FourLists, DropPendingEntries, Sides
<1>2. \/ Trade("sell", from, book, kept, p)
      \/ Trade("buyShort", from, book, kept, p)
      \/ requests' = kept
  BY DEF ForceExit
<1> HIDE DEF kept
<1>3. \A side \in {"sell", "buyShort"} : Trade(side, from, book, kept, p) =>
        /\ FourLists(requests')
        /\ requests'["buy"] = kept["buy"] /\ requests'["sellShort"] = kept["sellShort"]
  BY <1>1, TradeLists DEF Sides
<1>4. QED
  BY <1>1, <1>2, <1>3

(* An environment that turns valid opens a position; it was invalid, so no *)
(* other entry waits.                                                      *)
LEMMA EnvironmentOpens ==
  ASSUME IInv, ~m_pre_ev_valid, NEW p,
         Trade("buy", "environment", book, requests, p)
  PROVE  /\ FourLists(requests')
         /\ requests'["sellShort"] = <<>>
         /\ \A i \in DOMAIN requests'["buy"] : requests'["buy"][i].from = "environment"
<1>1. FourLists(requests) /\ requests["buy"] = <<>> /\ requests["sellShort"] = <<>>
  BY DEF IInv, EntriesVoidWhileInvalid
<1>2. "buy" \in Sides /\ "sellShort" \in Sides \ {"buy"}
  BY DEF Sides
<1>3. /\ FourLists(requests')
      /\ \A s \in Sides \ {"buy"} : requests'[s] = requests[s]
      /\ TradesList("environment", <<>>, requests'["buy"])
  BY <1>1, <1>2, TradeLists
<1>4. ASSUME NEW n
      PROVE  \A i \in DOMAIN Append(<<>>, AtClose("environment", n)) :
               Append(<<>>, AtClose("environment", n))[i].from = "environment"
  BY DEF AtClose
<1>5. \A i \in DOMAIN requests'["buy"] : requests'["buy"][i].from = "environment"
  <2>1. CASE requests'["buy"] = <<>>
    BY <2>1
  <2>2. CASE \E n : requests'["buy"] = Append(<<>>, AtClose("environment", n))
    BY <1>4, <2>2
  <2>3. QED
    BY <1>3, <2>1, <2>2 DEF TradesList
<1>6. QED
  BY <1>1, <1>2, <1>3, <1>5

LEMMA AnyTrade ==
  ASSUME FourLists(requests), NEW side \in Sides, NEW from, NEW b, NEW p,
         Trade(side, from, b, requests, p)
  PROVE  FourLists(requests')
BY TradeLists

LEMMA CloseStep == ASSUME IInv, RunMomentOnClose PROVE IInv'
<1>1. PICK ev \in BOOLEAN, cn \in BOOLEAN, p \in Prices :
        /\ m_pre_ev_valid' = ev /\ m_pre_cn_valid' = cn
        /\ Decide(ev, cn, p)
  BY DEF RunMomentOnClose
<1>2. FourLists(requests)
  BY DEF IInv
<1>3. CASE \E from : ForceExit(from, p)
  BY <1>3, ForcedExit DEF IInv, EntriesVoidWhileInvalid
<1>4. CASE /\ ev /\ ~m_pre_ev_valid
           /\ Trade("buy", "environment", book, requests, p)
  BY <1>1, <1>4, EnvironmentOpens DEF IInv, EntriesVoidWhileInvalid
<1>5. CASE /\ ev /\ cn
           /\ \/ \E side \in Sides : \E from, b : Trade(side, from, b, requests, p)
              \/ requests' = requests
  BY <1>1, <1>2, <1>5, AnyTrade DEF IInv, EntriesVoidWhileInvalid
<1>6. \/ \E from : ForceExit(from, p)
      \/ ev /\ ~m_pre_ev_valid /\ Trade("buy", "environment", book, requests, p)
      \/ /\ ev /\ cn
         /\ \/ Trade("buy", "condition", book, requests, p)
            \/ BuySignal(p) \/ SellSignal(p) \/ Exits(p)
  BY <1>1 DEF Decide
<1>7. ASSUME BuySignal(p) \/ SellSignal(p) \/ Exits(p)
      PROVE  \/ \E side \in Sides : \E from, b : Trade(side, from, b, requests, p)
             \/ requests' = requests
  BY <1>7 DEF BuySignal, SellSignal, Exits, LongExits, ShortExits, Sides
<1>8. QED
  BY <1>3, <1>4, <1>5, <1>6, <1>7 DEF Sides

-----------------------------------------------------------------------------
THEOREM Invariance == Spec => []IInv
<1>1. IInv /\ [Next]_vars => IInv'
  <2> SUFFICES ASSUME IInv, [Next]_vars PROVE IInv'
    OBVIOUS
  <2>1. CASE Reset
    BY <2>1 DEF Reset, NoRequests, Sides, IInv, FourLists, EntriesVoidWhileInvalid
  <2>2. CASE UNCHANGED vars
    BY <2>2 DEF vars, IInv, EntriesVoidWhileInvalid
  <2>3. QED
    BY <2>1, <2>2, OpenStep, CloseStep, AggregateStep DEF Next
<1>2. QED
  BY <1>1, InitIInv, PTL DEF Spec

(* For any parameters, sizes, prices, bars and interventions of an         *)
(* aggregate: while the environment or the condition is invalid no entry   *)
(* waits for a later open, but the one the environment itself asked for.   *)
THEOREM EntriesVoid == Spec => []EntriesVoidWhileInvalid
<1>1. IInv => EntriesVoidWhileInvalid
  BY DEF IInv
<1>2. QED
  BY <1>1, Invariance, PTL

-----------------------------------------------------------------------------
(* A set of numbers with 0 that is closed under successor has them all.    *)
LEMMA SetInduction ==
  ASSUME NEW T, T \subseteq Nat, 0 \in T, \A n \in T : n + 1 \in T
  PROVE  T = Nat
<1> DEFINE R == OpToRel(<, Nat)
<1>1. IsWellFoundedOn(R, Nat)
  BY NatLessThanWellFounded
<1>2. SUFFICES ASSUME Nat \ T # {} PROVE FALSE
  OBVIOUS
<1>3. \E x \in Nat \ T : \A y \in Nat \ T : ~ (<<y, x>> \in R)
  <2>1. Nat \ T \subseteq Nat
    OBVIOUS
  <2> HIDE DEF R
  <2>2. QED
    BY <1>1, <1>2, <2>1, WFMin
<1>4. PICK x \in Nat \ T : \A y \in Nat \ T : ~ (<<y, x>> \in R)
  BY <1>3
<1>5. x # 0 /\ x - 1 \in Nat /\ (x - 1) + 1 = x
  OBVIOUS
<1>6. x - 1 \notin T
  BY <1>5
<1>7. <<x - 1, x>> \in R
  BY <1>5 DEF OpToRel
<1>8. QED
  BY <1>4, <1>5, <1>6, <1>7

(* The book: sizes within the bound, and a level while, and only while,    *)
(* there is a position.                                                    *)
Positions == [long : 0 .. MaxHold, short : 0 .. MaxHold,
              m_lastTakeProfit : Nat, m_lastShortTakeProfit : Nat]
Good == {b \in Positions : /\ b.long = 0 <=> b.m_lastTakeProfit = 0
                           /\ b.short = 0 <=> b.m_lastShortTakeProfit = 0}
Request == [from : Parts, number : Nat, count : Nat]
Lists   == [Sides -> Seq(Request)]

(* What trades of one side do to a book, one or many.                      *)
Toward(side, b, c) ==
  /\ side \in {"buy", "sell"} =>
       c.short = b.short /\ c.m_lastShortTakeProfit = b.m_lastShortTakeProfit
  /\ side \in {"sellShort", "buyShort"} =>
       c.long = b.long /\ c.m_lastTakeProfit = b.m_lastTakeProfit
  /\ side = "buy"  => c.long >= b.long /\ c.m_lastTakeProfit >= b.m_lastTakeProfit
  /\ side = "sell" => /\ c.long <= b.long
                      /\ c.long > 0 => c.m_lastTakeProfit = b.m_lastTakeProfit
  /\ side = "sellShort" =>
       /\ c.short >= b.short
       /\ b.short > 0 => c.m_lastShortTakeProfit <= b.m_lastShortTakeProfit
  /\ side = "buyShort" =>
       /\ c.short <= b.short
       /\ c.short > 0 => c.m_lastShortTakeProfit = b.m_lastShortTakeProfit

LEMMA TowardTwice ==
  ASSUME NEW side, NEW b \in Good, NEW c \in Good, NEW d \in Good,
         Toward(side, b, c), Toward(side, c, d)
  PROVE  Toward(side, b, d)
BY SystemAssumption DEF Toward, Good, Positions

LEMMA TowardSelf == ASSUME NEW side, NEW b \in Good PROVE Toward(side, b, b)
BY SystemAssumption DEF Toward, Good, Positions

LEMMA TradedIs ==
  ASSUME NEW b, NEW n, NEW p
  PROVE  /\ Traded("buy", b, n, p) = IF n = 0 THEN b ELSE Bought(b, n, p)
         /\ Traded("sell", b, n, p) = IF n = 0 THEN b ELSE Sold(b, n)
         /\ Traded("sellShort", b, n, p) = IF n = 0 THEN b ELSE SoldShort(b, n, p)
         /\ Traded("buyShort", b, n, p) = IF n = 0 THEN b ELSE Covered(b, n)
BY Zenon DEF Traded

LEMMA FillsAre ==
  ASSUME NEW b, NEW n
  PROVE  /\ Fills("buy", b, n)
              = {0} \cup {m \in Sizes : m = Aligned(n) /\ ~ Refused(m) /\ b.long + m <= MaxHold}
         /\ Fills("sell", b, n)
              = {IF n = All THEN b.long ELSE IF Refused(n) \/ n > b.long THEN 0 ELSE n}
         /\ Fills("buyShort", b, n) = {0} \cup {m \in {CoverSize(b, n)} : ~ Refused(m)}
         /\ Fills("sellShort", b, n)
              = {0} \cup {m \in Sizes : m = n /\ ~ Refused(m) /\ b.short + m <= MaxHold}
BY Zenon DEF Fills

LEMMA AsksAre ==
  ASSUME NEW b, NEW req, ~ param.delay_use_current_price
  PROVE  /\ RequestAsks("buy", b, req)
              = IF req.number = 0 THEN {0} ELSE Asked("buy", req.from)
         /\ RequestAsks("sell", b, req) = {Least(req.number, b.long)}
         /\ RequestAsks("sellShort", b, req) = {req.number}
         /\ RequestAsks("buyShort", b, req) = {req.number}
BY Zenon DEF RequestAsks

(* The four trades.                                                        *)
LEMMA BoughtGood ==
  ASSUME NEW b \in Good, NEW n \in Nat \ {0}, NEW p \in Prices, b.long + n <= MaxHold
  PROVE  Bought(b, n, p) \in Good /\ Toward("buy", b, Bought(b, n, p))
<1> DEFINE c == Bought(b, n, p)
<1>1. p \in Nat /\ p > 0 /\ MaxHold \in Nat
  BY SystemAssumption
<1>2. b \in Positions /\ b.long \in Nat /\ b.m_lastTakeProfit \in Nat
  BY SystemAssumption DEF Good, Positions
<1>3. /\ c.long = b.long + n /\ c.short = b.short
      /\ c.m_lastTakeProfit = Greatest(b.m_lastTakeProfit, p)
      /\ c.m_lastShortTakeProfit = b.m_lastShortTakeProfit
  BY <1>2 DEF Bought, Positions
<1>4. Greatest(b.m_lastTakeProfit, p) \in Nat \ {0}
      /\ Greatest(b.m_lastTakeProfit, p) >= b.m_lastTakeProfit
  BY <1>1, <1>2 DEF Greatest
<1>5. b.long + n \in 1 .. MaxHold
  BY <1>1, <1>2
<1>6. c \in Positions
  <2>1. Greatest(b.m_lastTakeProfit, p) \in Nat /\ b.long + n \in 0 .. MaxHold
    BY <1>4, <1>5
  <2>2. QED
    BY <1>2, <2>1 DEF Bought, Positions
<1> HIDE DEF c
<1>7. QED
  <2>1. c \in Good
    BY <1>2, <1>3, <1>4, <1>5, <1>6 DEF Good
  <2>2. Toward("buy", b, c)
    BY <1>1, <1>2, <1>3, <1>4 DEF Toward
  <2>3. QED
    BY <2>1, <2>2 DEF c

LEMMA SoldGood ==
  ASSUME NEW b \in Good, NEW n \in Nat, n <= b.long
  PROVE  /\ n # 0 => Sold(b, n) \in Good /\ Toward("sell", b, Sold(b, n))
         /\ Sold(b, n).long = b.long - n
<1> DEFINE c == Sold(b, n)
           r == IF b.long = n THEN 0 ELSE b.m_lastTakeProfit
<1>1. MaxHold \in Nat
  BY SystemAssumption
<1>2. b \in Positions /\ b.long \in 0 .. MaxHold /\ b.m_lastTakeProfit \in Nat
  BY DEF Good, Positions
<1>3. /\ c.long = b.long - n /\ c.short = b.short
      /\ c.m_lastTakeProfit = r
      /\ c.m_lastShortTakeProfit = b.m_lastShortTakeProfit
  BY <1>2 DEF Sold, Positions
<1>4. r \in Nat /\ b.long - n \in 0 .. MaxHold
  BY <1>1, <1>2
<1>5. c \in Positions
  BY <1>2, <1>4 DEF Sold, Positions
<1>6. c.long = 0 <=> c.m_lastTakeProfit = 0
  BY <1>1, <1>2, <1>3 DEF Good
<1> HIDE DEF c
<1>7. c \in Good
  BY <1>3, <1>5, <1>6 DEF Good
<1>8. Toward("sell", b, c)
  BY <1>1, <1>2, <1>3 DEF Toward
<1>9. QED
  BY <1>3, <1>7, <1>8 DEF c

LEMMA SoldShortGood ==
  ASSUME NEW b \in Good, NEW n \in Nat \ {0}, NEW p \in Prices, b.short + n <= MaxHold
  PROVE  SoldShort(b, n, p) \in Good /\ Toward("sellShort", b, SoldShort(b, n, p))
<1> DEFINE c == SoldShort(b, n, p)
           r == IF b.m_lastShortTakeProfit = 0 \/ p < b.m_lastShortTakeProfit
                THEN p ELSE b.m_lastShortTakeProfit
<1>1. p \in Nat /\ p > 0 /\ MaxHold \in Nat
  BY SystemAssumption
<1>2. b \in Positions /\ b.short \in 0 .. MaxHold /\ b.m_lastShortTakeProfit \in Nat
  BY DEF Good, Positions
<1>3. /\ c.short = b.short + n /\ c.long = b.long
      /\ c.m_lastShortTakeProfit = r
      /\ c.m_lastTakeProfit = b.m_lastTakeProfit
  BY <1>2 DEF SoldShort, Positions
<1>4. r \in Nat \ {0} /\ (b.m_lastShortTakeProfit # 0 => r <= b.m_lastShortTakeProfit)
  BY <1>1, <1>2
<1>5. b.short + n \in 1 .. MaxHold
  BY <1>1, <1>2
<1>6. c \in Positions
  <2>1. r \in Nat /\ b.short + n \in 0 .. MaxHold
    BY <1>4, <1>5
  <2>2. QED
    BY <1>2, <2>1 DEF SoldShort, Positions
<1> HIDE DEF c, r
<1>7. c \in Good
  BY <1>3, <1>4, <1>5, <1>6 DEF Good
<1>8. b.short > 0 => b.m_lastShortTakeProfit # 0
  BY <1>2 DEF Good
<1>9. Toward("sellShort", b, c)
  BY <1>1, <1>2, <1>3, <1>4, <1>8 DEF Toward
<1>10. QED
  BY <1>7, <1>9 DEF c

LEMMA CoveredGood ==
  ASSUME NEW b \in Good, NEW n \in Nat \ {0}, n <= b.short
  PROVE  Covered(b, n) \in Good /\ Toward("buyShort", b, Covered(b, n))
<1> DEFINE c == Covered(b, n)
           r == IF b.short = n THEN 0 ELSE b.m_lastShortTakeProfit
<1>1. MaxHold \in Nat
  BY SystemAssumption
<1>2. b \in Positions /\ b.short \in 0 .. MaxHold /\ b.m_lastShortTakeProfit \in Nat
  BY DEF Good, Positions
<1>3. /\ c.short = b.short - n /\ c.long = b.long
      /\ c.m_lastShortTakeProfit = r
      /\ c.m_lastTakeProfit = b.m_lastTakeProfit
  BY <1>2 DEF Covered, Positions
<1>4. r \in Nat /\ b.short - n \in 0 .. MaxHold
  BY <1>1, <1>2
<1>5. c \in Positions
  BY <1>2, <1>4 DEF Covered, Positions
<1>6. c.short = 0 <=> c.m_lastShortTakeProfit = 0
  BY <1>1, <1>2, <1>3 DEF Good
<1> HIDE DEF c
<1>7. c \in Good
  BY <1>3, <1>5, <1>6 DEF Good
<1>8. Toward("buyShort", b, c)
  BY <1>1, <1>2, <1>3 DEF Toward
<1>9. QED
  BY <1>7, <1>8 DEF c

(* Whatever size is asked for, a trade keeps the book good and goes one    *)
(* way.                                                                    *)
LEMMA OneTrade ==
  ASSUME NEW side \in Sides, NEW b \in Good, NEW asked \in SUBSET Nat, NEW p \in Prices,
         NEW c \in Outcomes(side, b, asked, p)
  PROVE  c \in Good /\ Toward(side, b, c)
<1>1. PICK a \in asked : \E n \in Fills(side, b, a) : c = Traded(side, b, n, p)
  BY DEF Outcomes
<1>2. PICK n \in Fills(side, b, a) : c = Traded(side, b, n, p)
  BY <1>1
<1>3. /\ b.long \in 0 .. MaxHold /\ b.short \in 0 .. MaxHold /\ MaxHold \in Nat /\ a \in Nat
  BY SystemAssumption DEF Good, Positions
<1>4. CASE side = "buy"
  <2>1. n = 0 \/ (n \in Sizes /\ b.long + n <= MaxHold)
    BY <1>2, <1>4, FillsAre
  <2>2. c = IF n = 0 THEN b ELSE Bought(b, n, p)
    BY <1>2, <1>4, TradedIs
  <2>3. CASE n = 0
    BY <1>4, <2>2, <2>3, TowardSelf
  <2>4. CASE n # 0
    BY <1>3, <1>4, <2>1, <2>2, <2>4, BoughtGood DEF Sizes
  <2>5. QED
    BY <2>3, <2>4
<1>5. CASE side = "sell"
  <2>1. n = IF a = All THEN b.long ELSE IF Refused(a) \/ a > b.long THEN 0 ELSE a
    BY <1>2, <1>5, FillsAre
  <2>2. n \in Nat /\ n <= b.long
    BY <1>3, <2>1 DEF All
  <2>3. c = IF n = 0 THEN b ELSE Sold(b, n)
    BY <1>2, <1>5, TradedIs
  <2>4. CASE n = 0
    BY <1>5, <2>3, <2>4, TowardSelf
  <2>5. CASE n # 0
    BY <1>5, <2>2, <2>3, <2>5, SoldGood
  <2>6. QED
    BY <2>4, <2>5
<1>6. CASE side = "sellShort"
  <2>1. n = 0 \/ (n \in Sizes /\ b.short + n <= MaxHold)
    BY <1>2, <1>6, FillsAre
  <2>2. c = IF n = 0 THEN b ELSE SoldShort(b, n, p)
    BY <1>2, <1>6, TradedIs
  <2>3. CASE n = 0
    BY <1>6, <2>2, <2>3, TowardSelf
  <2>4. CASE n # 0
    BY <1>3, <1>6, <2>1, <2>2, <2>4, SoldShortGood DEF Sizes
  <2>5. QED
    BY <2>3, <2>4
<1>7. CASE side = "buyShort"
  <2>1. n = 0 \/ n = CoverSize(b, a)
    BY <1>2, <1>7, FillsAre
  <2>2. n \in Nat /\ n <= b.short
    BY <1>3, <2>1 DEF CoverSize, Least
  <2>3. c = IF n = 0 THEN b ELSE Covered(b, n)
    BY <1>2, <1>7, TradedIs
  <2>4. CASE n = 0
    BY <1>7, <2>3, <2>4, TowardSelf
  <2>5. CASE n # 0
    BY <1>7, <2>2, <2>3, <2>5, CoveredGood
  <2>6. QED
    BY <2>4, <2>5
<1>8. QED
  BY <1>4, <1>5, <1>6, <1>7 DEF Sides

(* Asked to sell all there is, it does, unless it is asked by the number   *)
(* and the trade manager refuses that.                                     *)
LEMMA SellsAll ==
  ASSUME NEW b \in Good, NEW asked, NEW p, NEW c \in Outcomes("sell", b, asked, p),
         \A a \in asked : a = All \/ a = b.long
  PROVE  c.long = 0 \/ (c = b /\ Refused(b.long) /\ b.long \in asked)
<1>1. PICK a \in asked : \E n \in Fills("sell", b, a) : c = Traded("sell", b, n, p)
  BY DEF Outcomes
<1>2. PICK n \in Fills("sell", b, a) : c = Traded("sell", b, n, p)
  BY <1>1
<1>3. b.long \in Nat
  BY SystemAssumption DEF Good, Positions
<1>4. n = IF a = All THEN b.long ELSE IF Refused(a) \/ a > b.long THEN 0 ELSE a
  BY <1>2, FillsAre
<1>5. n = b.long \/ (n = 0 /\ Refused(b.long) /\ b.long \in asked)
  BY <1>1, <1>3, <1>4
<1>6. c = IF n = 0 THEN b ELSE Sold(b, n)
  BY <1>2, TradedIs
<1>7. CASE n = 0
  BY <1>5, <1>6, <1>7
<1>8. CASE n # 0
  <2>1. Sold(b, n).long = b.long - n
    BY <1>3, <1>5, <1>8, SoldGood
  <2>2. QED
    BY <1>3, <1>5, <1>6, <1>8, <2>1
<1>9. QED
  BY <1>7, <1>8

-----------------------------------------------------------------------------
LEMMA AsksAreNumbers ==
  ASSUME NEW side \in Sides, NEW b \in Good, NEW req \in Request
  PROVE  RequestAsks(side, b, req) \in SUBSET Nat
<1>1. MaxHold \in Nat /\ b.long \in Nat /\ req.number \in Nat
  BY SystemAssumption DEF Good, Positions, Request
<1>2. /\ Sizes \in SUBSET Nat /\ All \in Nat
      /\ Asked("buy", req.from) \in SUBSET Nat
  BY <1>1 DEF Sizes, All, Asked, Entries
<1>3. Least(req.number, b.long) \in Nat
  BY <1>1 DEF Least
<1>4. CASE param.delay_use_current_price
  BY <1>2, <1>4 DEF RequestAsks, Asked
<1>5. CASE ~ param.delay_use_current_price
  <2>1. /\ RequestAsks("buy", b, req)
             = IF req.number = 0 THEN {0} ELSE Asked("buy", req.from)
        /\ RequestAsks("sell", b, req) = {Least(req.number, b.long)}
        /\ RequestAsks("sellShort", b, req) = {req.number}
        /\ RequestAsks("buyShort", b, req) = {req.number}
    BY <1>5, AsksAre
  <2>2. \A s \in Sides : RequestAsks(s, b, req) \in SUBSET Nat
    BY <1>1, <1>2, <1>3, <2>1 DEF Sides
  <2>3. QED
    BY <2>2
<1>6. QED
  BY <1>4, <1>5

(* The books that trades of one side can make of this one.                 *)
Reached(side) == {c \in Good : Toward(side, book, c)}

LEMMA ServeOneReached ==
  ASSUME book \in Good, NEW side \in Sides, NEW b \in Reached(side), NEW req \in Request,
         NEW p \in Prices
  PROVE  ServeOne(side, b, req, p) \subseteq Reached(side)
<1>1. b \in Good /\ Toward(side, book, b)
  BY DEF Reached
<1>2. SUFFICES ASSUME NEW c \in ServeOne(side, b, req, p) PROVE c \in Reached(side)
  OBVIOUS
<1>3. c = b \/ c \in Outcomes(side, b, RequestAsks(side, b, req), p)
  BY DEF ServeOne
<1>4. c \in Good /\ Toward(side, b, c)
  BY <1>1, <1>3, AsksAreNumbers, OneTrade, TowardSelf
<1>5. QED
  BY <1>1, <1>4, TowardTwice DEF Reached

(* The books after the first i requests, f having them for one less.       *)
After(side, q, p, f, i) ==
  IF i = 0 THEN {book} ELSE UNION {ServeOne(side, b, q[i], p) : b \in f[i - 1]}

LEMMA ServedBooks ==
  ASSUME book \in Good, requests \in Lists, NEW side \in Sides, NEW p \in Prices
  PROVE  /\ Served(side, p) \subseteq Reached(side)
         /\ requests[side] # <<>> =>
              \A c \in Served(side, p) : \E b \in Reached(side) :
                c \in ServeOne(side, b, requests[side][Len(requests[side])], p)
<1> DEFINE q == requests[side]
           Y == SUBSET Reached(side)
           m == Len(q)
<1>1. q \in Seq(Request)
  BY DEF Lists
<1>2. m \in Nat /\ \A i \in 1 .. m : q[i] \in Request
  BY <1>1
<1>3. {book} \in Y
  BY TowardSelf DEF Reached
<1>4. ASSUME NEW y \in Y, NEW i \in 1 .. m
      PROVE  UNION {ServeOne(side, b, q[i], p) : b \in y} \in Y
  <2>1. \A b \in y : ServeOne(side, b, q[i], p) \subseteq Reached(side)
    <3> HIDE DEF q
    <3> QED
      BY <1>2, ServeOneReached
  <2>2. QED
    BY <2>1
<1> HIDE DEF Y, q, m
<1> DEFINE Ok(f, n) == f \in [0 .. n -> Y] /\ \A i \in 0 .. n : f[i] = After(side, q, p, f, i)
           Some(n) == \E f \in [0 .. n -> Y] : Ok(f, n)
           T == {n \in Nat : n <= m => Some(n)}
           K(f) == [i \in 0 .. m |-> After(side, q, p, f, i)]
<1>5. 0 \in T
  <2> DEFINE f == [i \in 0 .. 0 |-> {book}]
  <2>1. f \in [0 .. 0 -> Y] /\ \A i \in 0 .. 0 : f[i] = After(side, q, p, f, i)
    BY <1>3 DEF After
  <2>2. QED
    BY <2>1
<1>6. ASSUME NEW n \in T PROVE n + 1 \in T
  <2> SUFFICES ASSUME n + 1 <= m PROVE Some(n + 1)
    <3> HIDE DEF Some
    <3> QED
      OBVIOUS
  <2>1. n \in Nat /\ n <= m /\ n + 1 \in 1 .. m
    BY <1>2
  <2>2. PICK f \in [0 .. n -> Y] : Ok(f, n)
    BY <2>1
  <2> DEFINE last == UNION {ServeOne(side, b, q[n + 1], p) : b \in f[n]}
             g == [i \in 0 .. n + 1 |-> IF i <= n THEN f[i] ELSE last]
  <2>3. f[n] \in Y
    BY <2>1, <2>2
  <2>4. last \in Y
    BY <1>4, <2>1, <2>3
  <2>5. \A i \in 1 .. n : After(side, q, p, g, i) = After(side, q, p, f, i)
    <3> SUFFICES ASSUME NEW i \in 1 .. n
                 PROVE  After(side, q, p, g, i) = After(side, q, p, f, i)
      OBVIOUS
    <3>1. g[i - 1] = f[i - 1]
      BY <2>1
    <3> HIDE DEF g
    <3>2. QED
      BY <3>1 DEF After
  <2>6. After(side, q, p, g, n + 1) = last
    <3>1. g[(n + 1) - 1] = f[n] /\ n + 1 # 0
      BY <2>1
    <3> HIDE DEF g
    <3>2. QED
      BY <3>1 DEF After
  <2>7. g \in [0 .. n + 1 -> Y]
    <3> HIDE DEF last
    <3> QED
      BY <2>1, <2>2, <2>3, <2>4
  <2>8. ASSUME NEW i \in 0 .. n + 1 PROVE g[i] = After(side, q, p, g, i)
    <3>1. CASE i = 0
      <4>1. g[i] = f[0] /\ f[0] = {book}
        BY <2>1, <2>2, <3>1 DEF After
      <4> HIDE DEF g
      <4>2. QED
        BY <3>1, <4>1 DEF After
    <3>2. CASE i \in 1 .. n
      <4>1. g[i] = f[i] /\ f[i] = After(side, q, p, f, i)
        BY <2>1, <2>2, <3>2
      <4> HIDE DEF g
      <4>2. QED
        BY <2>5, <3>2, <4>1
    <3>3. CASE i = n + 1
      <4>1. g[i] = last
        BY <2>1, <3>3
      <4> HIDE DEF g, last
      <4>2. QED
        BY <2>6, <3>3, <4>1
    <3>4. QED
      BY <2>1, <3>1, <3>2, <3>3
  <2>9. QED
    BY <2>7, <2>8
<1>7. T = Nat
  <2>1. T \subseteq Nat
    OBVIOUS
  <2> HIDE DEF T
  <2>2. QED
    BY <1>5, <1>6, <2>1, SetInduction
<1>8. Some(m)
  <2> HIDE DEF Some
  <2>1. m \in T
    BY <1>2, <1>7
  <2>2. QED
    BY <1>2, <2>1
<1>9. PICK f \in [0 .. m -> Y] : Ok(f, m)
  BY <1>8
<1>10. f = K(f)
  BY <1>9
<1> DEFINE F == CHOOSE h : h = K(h)
<1>11. F = K(F)
  BY <1>10
<1> HIDE DEF F
<1>12. \A i \in 0 .. m : F[i] = After(side, q, p, F, i)
  BY <1>11, Zenon
<1> DEFINE U == {n \in Nat : n <= m => F[n] \in Y}
<1>13. 0 \in U
  <2>1. 0 \in 0 .. m
    BY <1>2
  <2>2. F[0] = {book}
    BY <1>12, <2>1 DEF After
  <2>3. QED
    BY <1>3, <2>2
<1>14. ASSUME NEW n \in U PROVE n + 1 \in U
  <2> SUFFICES ASSUME n + 1 <= m PROVE F[n + 1] \in Y
    OBVIOUS
  <2>1. n \in Nat /\ F[n] \in Y /\ n + 1 \in 0 .. m /\ n + 1 \in 1 .. m
    BY <1>2
  <2>2. F[n + 1] = After(side, q, p, F, n + 1) /\ (n + 1) - 1 = n /\ n + 1 # 0
    BY <1>12, <2>1
  <2>3. F[n + 1] = UNION {ServeOne(side, b, q[n + 1], p) : b \in F[n]}
    BY <2>2 DEF After
  <2>4. QED
    BY <1>4, <2>1, <2>3
<1>15. U = Nat
  <2>1. U \subseteq Nat
    OBVIOUS
  <2> HIDE DEF U
  <2>2. QED
    BY <1>13, <1>14, <2>1, SetInduction
<1>16. Served(side, p) = F[m]
  BY DEF Served, F, After, m, q
<1>17. F[m] \in Y
  BY <1>2, <1>15
<1>18. ASSUME q # <<>>, NEW c \in F[m]
       PROVE  \E b \in Reached(side) : c \in ServeOne(side, b, q[m], p)
  <2>1. m # 0
    BY <1>1, <1>18, EmptySeq DEF m
  <2>2. m \in 0 .. m /\ m - 1 \in Nat /\ m - 1 <= m
    BY <1>2, <2>1
  <2>3. F[m] = UNION {ServeOne(side, b, q[m], p) : b \in F[m - 1]}
    BY <1>12, <2>1, <2>2 DEF After
  <2>4. F[m - 1] \in Y
    BY <1>15, <2>2
  <2>5. PICK b \in F[m - 1] : c \in ServeOne(side, b, q[m], p)
    BY <1>18, <2>3
  <2>6. QED
    BY <2>4, <2>5 DEF Y
<1>19. QED
  BY <1>16, <1>17, <1>18 DEF Y, q, m

-----------------------------------------------------------------------------
(* A request that takes whatever is left of the position.                  *)
TakesAll(req) ==
  /\ req.from = "environment" /\ req.count = 0
  /\ param.delay_use_current_price \/ req.number >= book.long

SaleWaits ==
  requests["sell"] # <<>> /\ TakesAll(requests["sell"][Len(requests["sell"])])

OnItsWayOut ==
  /\ ~ m_pre_ev_valid /\ ~ param.disable_ev_force_clean_position
  /\ book.long > 0 /\ ~ cleared /\ ~ refused
  => SaleWaits

TypeOK == param \in Params /\ book \in Good /\ requests \in Lists

(* One step of the take-profit levels.                                     *)
Ratchets(b, c) ==
  /\ c.long = 0 <=> c.m_lastTakeProfit = 0
  /\ c.short = 0 <=> c.m_lastShortTakeProfit = 0
  /\ param.tp_monotonic =>
       /\ b.long > 0 /\ c.long > 0 => c.m_lastTakeProfit >= b.m_lastTakeProfit
       /\ b.short > 0 /\ c.short > 0 =>
            c.m_lastShortTakeProfit <= b.m_lastShortTakeProfit

LEMMA TowardRatchets ==
  ASSUME NEW side \in Sides, NEW b \in Good, NEW c \in Good, Toward(side, b, c)
  PROVE  Ratchets(b, c)
<1>1. /\ b.m_lastTakeProfit \in Nat /\ b.m_lastShortTakeProfit \in Nat
      /\ c.m_lastTakeProfit \in Nat /\ c.m_lastShortTakeProfit \in Nat
  BY DEF Good, Positions
<1>2. QED
  BY <1>1 DEF Ratchets, Toward, Good, Sides

LEMMA SameRatchets == ASSUME NEW b \in Good PROVE Ratchets(b, b)
BY DEF Ratchets, Good, Positions

(* Serving a list: the book goes one way, the list is emptied, and what    *)
(* takes all leaves nothing, or was refused.                               *)
LEMMA ServeDoes ==
  ASSUME TypeOK, NEW side \in Sides, NEW day, Serve(side, day)
  PROVE  /\ book' \in Good /\ requests' \in Lists
         /\ Toward(side, book, book')
         /\ \/ UNCHANGED <<book, requests>>
            \/ requests' = [requests EXCEPT ![side] = <<>>]
         /\ refused => refused'
         /\ side = "sell" /\ requests["sell"] # <<>>
            /\ ~ param.disable_ev_force_clean_position
            /\ TakesAll(requests["sell"][Len(requests["sell"])]) =>
              UNCHANGED <<book, requests>> \/ book'.long = 0 \/ refused'
<1>1. book \in Good /\ requests \in Lists
  BY DEF TypeOK
<1>2. CASE UNCHANGED <<book, requests, refused>>
  BY <1>1, <1>2, TowardSelf
<1>3. CASE /\ \E p \in Prices : book' \in Served(side, p)
           /\ requests' = [requests EXCEPT ![side] = <<>>]
           /\ refused' = \/ refused
                         \/ /\ side = "sell" /\ ~ param.delay_use_current_price
                            /\ book'.long > 0 /\ Refused(book'.long)
  <2>1. PICK p \in Prices : book' \in Served(side, p)
    BY <1>3
  <2>2. book' \in Reached(side)
    BY <1>1, <2>1, ServedBooks
  <2>3. book' \in Good /\ Toward(side, book, book')
    BY <2>2 DEF Reached
  <2>4. requests' \in Lists
    <3>1. <<>> \in Seq(Request)
      OBVIOUS
    <3> DEFINE S == Seq(Request)
    <3>2. requests \in [Sides -> S]
      BY <1>1 DEF Lists
    <3> HIDE DEF S
    <3>3. [requests EXCEPT ![side] = <<>>] \in [Sides -> S]
      BY <3>1, <3>2 DEF S
    <3>4. QED
      BY <1>3, <3>3 DEF Lists, S
  <2>5. ASSUME side = "sell", requests["sell"] # <<>>,
               ~ param.disable_ev_force_clean_position,
               TakesAll(requests["sell"][Len(requests["sell"])])
        PROVE  book'.long = 0 \/ refused'
    <3> DEFINE last == requests["sell"][Len(requests["sell"])]
    <3>1. PICK b \in Reached("sell") : book' \in ServeOne("sell", b, last, p)
      BY <1>1, <2>1, <2>5, ServedBooks
    <3>2. b \in Good /\ b.long <= book.long
      BY <3>1 DEF Reached, Toward
    <3>3. b.long \in Nat /\ book.long \in Nat /\ MaxDelayCount \in Nat
      BY <1>1, <3>2, SystemAssumption DEF Good, Positions
    <3>4. last.number \in Nat
      <4>1. requests["sell"] \in Seq(Request)
        BY <1>1 DEF Lists, Sides
      <4>2. Len(requests["sell"]) \in 1 .. Len(requests["sell"])
        BY <2>5, <4>1, EmptySeq
      <4>3. last \in Request
        BY <4>1, <4>2
      <4>4. QED
        BY <4>3 DEF Request
    <3>5. last.from = "environment" /\ last.count = 0
          /\ (param.delay_use_current_price \/ last.number >= book.long)
      BY <2>5 DEF TakesAll
    <3> HIDE DEF last
    <3>6. book' \in Outcomes("sell", b, RequestAsks("sell", b, last), p)
      <4>1. ~ (last.count > MaxDelayCount)
        BY <3>3, <3>5
      <4>2. QED
        BY <3>1, <4>1 DEF ServeOne
    <3>7. RequestAsks("sell", b, last)
            = IF param.delay_use_current_price THEN {All} ELSE {b.long}
      <4>1. CASE param.delay_use_current_price
        BY <2>5, <3>5, <4>1 DEF RequestAsks, Asked, Entries, ForcesOut
      <4>2. CASE ~ param.delay_use_current_price
        <5>1. RequestAsks("sell", b, last) = {Least(last.number, b.long)}
          BY <4>2, AsksAre
        <5>2. Least(last.number, b.long) = b.long
          BY <3>2, <3>3, <3>4, <3>5, <4>2 DEF Least
        <5>3. QED
          BY <4>2, <5>1, <5>2
      <4>3. QED
        BY <4>1, <4>2
    <3>8. All # b.long
      BY <3>2, SystemAssumption DEF All, Good, Positions
    <3>9. book'.long = 0
          \/ (~ param.delay_use_current_price /\ book' = b /\ Refused(b.long))
      BY <3>2, <3>6, <3>7, <3>8, SellsAll
    <3>10. CASE book'.long = 0
      BY <3>10
    <3>11. CASE book'.long # 0
      <4>1. book'.long > 0
        BY <2>3, <3>11 DEF Good, Positions
      <4>2. QED
        BY <1>3, <2>5, <3>9, <3>11, <4>1
    <3>12. QED
      BY <3>10, <3>11
  <2>6. QED
    BY <1>3, <2>3, <2>4, <2>5
<1>4. QED
  BY <1>2, <1>3 DEF Serve

LEMMA AskedNumbers ==
  ASSUME NEW side \in Sides, NEW from, NEW b \in Good
  PROVE  Asked(side, from) \in SUBSET Nat /\ SubmittedSizes(side, from, b) \in SUBSET Nat
<1>1. MaxHold \in Nat /\ b.long \in Nat
  BY SystemAssumption DEF Good, Positions
<1>2. Asked(side, from) \in SUBSET Nat
  BY <1>1 DEF Asked, Sizes, All
<1>3. QED
  BY <1>1, <1>2 DEF SubmittedSizes

(* One trade at the close.                                                 *)
LEMMA TradeDoes ==
  ASSUME NEW side \in Sides, NEW from \in Parts, NEW b \in Good, NEW rs \in Lists,
         NEW p \in Prices, Trade(side, from, b, rs, p)
  PROVE  book' \in Good /\ requests' \in Lists /\ Toward(side, b, book')
<1>1. rs \in [Sides -> Seq(Request)]
  BY DEF Lists
<1> DEFINE S == Seq(Request)
<1>2. <<>> \in S
  OBVIOUS
<1>3. CASE book' = b /\ requests' = rs
  BY <1>3, TowardSelf
<1>4. CASE /\ book' = b
           /\ \E n \in SubmittedSizes(side, from, b) :
                requests' = Submit(rs, side, [from |-> from, number |-> n, count |-> 0])
  <2>1. PICK n \in SubmittedSizes(side, from, b) :
               requests' = Submit(rs, side, [from |-> from, number |-> n, count |-> 0])
    BY <1>4
  <2>2. [from |-> from, number |-> n, count |-> 0] \in Request
    BY <2>1, AskedNumbers DEF Request
  <2> DEFINE s == Append(rs[side], [from |-> from, number |-> n, count |-> 0])
  <2>3. s \in S
    BY <1>1, <2>2
  <2>4. requests' = [rs EXCEPT ![side] = s]
    BY <2>1 DEF Submit
  <2> HIDE DEF S, s
  <2>5. requests' \in [Sides -> S]
    BY <1>1, <2>3, <2>4 DEF S
  <2>6. QED
    BY <1>4, <2>5, TowardSelf DEF Lists, S
<1>5. CASE /\ book' \in Outcomes(side, b, Asked(side, from), p)
           /\ requests' = IF side \in Shorts THEN [rs EXCEPT ![side] = <<>>] ELSE rs
  <2>1. book' \in Good /\ Toward(side, b, book')
    BY <1>5, AskedNumbers, OneTrade
  <2> HIDE DEF S
  <2>2. requests' \in [Sides -> S]
    BY <1>1, <1>2, <1>5 DEF S
  <2>3. QED
    BY <2>1, <2>2 DEF Lists, S
<1>6. QED
  BY <1>3, <1>4, <1>5, Zenon DEF Trade

-----------------------------------------------------------------------------
(* What every step leaves: good books, request lists, and the ratchets.    *)
Steps == book' \in Good /\ requests' \in Lists /\ Ratchets(book, book')

LEMMA TradeSteps ==
  ASSUME TypeOK, NEW side \in Sides, NEW from \in Parts, NEW rs \in Lists,
         NEW p \in Prices, Trade(side, from, book, rs, p)
  PROVE  Steps
<1>1. book \in Good
  BY DEF TypeOK
<1>2. book' \in Good /\ requests' \in Lists /\ Toward(side, book, book')
  BY <1>1, TradeDoes
<1>3. QED
  BY <1>1, <1>2, TowardRatchets DEF Steps

LEMMA NothingSteps == ASSUME TypeOK, UNCHANGED book, requests' \in Lists PROVE Steps
BY SameRatchets DEF TypeOK, Steps

LEMMA DroppedLists ==
  ASSUME NEW rs \in Lists, NEW s \in Sides
  PROVE  [rs EXCEPT ![s] = <<>>] \in Lists
<1> DEFINE S == Seq(Request)
<1>1. <<>> \in S /\ rs \in [Sides -> S]
  BY DEF Lists
<1> HIDE DEF S
<1>2. [rs EXCEPT ![s] = <<>>] \in [Sides -> S]
  BY <1>1
<1>3. QED
  BY <1>2 DEF Lists, S

LEMMA KeptLists ==
  ASSUME NEW rs \in Lists PROVE DropPendingEntries(rs) \in Lists
<1>1. [rs EXCEPT !["buy"] = <<>>] \in Lists
  BY DroppedLists DEF Sides
<1> DEFINE t == [rs EXCEPT !["buy"] = <<>>]
<1>2. DropPendingEntries(rs) = [t EXCEPT !["sellShort"] = <<>>]
  BY DEF DropPendingEntries
<1> HIDE DEF t
<1>3. t \in Lists
  BY <1>1 DEF t
<1>4. QED
  BY <1>2, <1>3, DroppedLists DEF Sides

LEMMA ForceExitSteps ==
  ASSUME TypeOK, NEW from \in Parts, NEW p \in Prices, ForceExit(from, p)
  PROVE  Steps
<1> DEFINE kept == DropPendingEntries(requests)
<1>1. kept \in Lists
  BY KeptLists DEF TypeOK
<1>2. \/ Trade("sell", from, book, kept, p)
      \/ Trade("buyShort", from, book, kept, p)
      \/ UNCHANGED book /\ requests' = kept
  BY DEF ForceExit
<1> HIDE DEF kept
<1>3. "sell" \in Sides /\ "buyShort" \in Sides
  BY DEF Sides
<1>4. QED
  BY <1>1, <1>2, <1>3, TradeSteps, NothingSteps

(* Raising the level of a long position, or lowering that of a short one,  *)
(* touches nothing else.                                                   *)
SameHeld(b, c) == c.long = b.long /\ c.short = b.short

LEMMA RaisedGood ==
  ASSUME TypeOK, NEW level \in Prices, book.long > 0
  PROVE  LET b == [book EXCEPT !.m_lastTakeProfit = RaisedLevel(level)]
         IN  /\ b \in Good /\ SameHeld(book, b)
             /\ b.m_lastShortTakeProfit = book.m_lastShortTakeProfit
             /\ param.tp_monotonic => b.m_lastTakeProfit >= book.m_lastTakeProfit
<1> DEFINE r == RaisedLevel(level)
           b == [book EXCEPT !.m_lastTakeProfit = r]
<1>1. /\ book \in Good /\ book \in Positions /\ book.long \in Nat /\ level \in Nat \ {0}
      /\ book.m_lastTakeProfit \in Nat /\ book.m_lastTakeProfit # 0
  BY SystemAssumption DEF TypeOK, Good, Positions
<1>2. r \in Nat \ {0} /\ (param.tp_monotonic => r >= book.m_lastTakeProfit)
  BY <1>1 DEF RaisedLevel, Greatest
<1>3. /\ b \in Positions /\ b.long = book.long /\ b.short = book.short
      /\ b.m_lastTakeProfit = r /\ b.m_lastShortTakeProfit = book.m_lastShortTakeProfit
  <2> HIDE DEF r
  <2> QED
    BY <1>1, <1>2 DEF Positions
<1> HIDE DEF b, r
<1>4. b \in Good /\ SameHeld(book, b)
  BY <1>1, <1>2, <1>3 DEF Good, SameHeld
<1>5. QED
  BY <1>2, <1>3, <1>4 DEF b, r

LEMMA LoweredGood ==
  ASSUME TypeOK, NEW level \in Prices, book.short > 0
  PROVE  LET b == [book EXCEPT !.m_lastShortTakeProfit = LoweredLevel(level)]
         IN  /\ b \in Good /\ SameHeld(book, b)
             /\ b.m_lastTakeProfit = book.m_lastTakeProfit
             /\ param.tp_monotonic => b.m_lastShortTakeProfit <= book.m_lastShortTakeProfit
<1> DEFINE r == LoweredLevel(level)
           b == [book EXCEPT !.m_lastShortTakeProfit = r]
<1>1. /\ book \in Good /\ book \in Positions /\ book.short \in Nat /\ level \in Nat \ {0}
      /\ book.m_lastShortTakeProfit \in Nat /\ book.m_lastShortTakeProfit # 0
  BY SystemAssumption DEF TypeOK, Good, Positions
<1>2. r \in Nat \ {0} /\ (param.tp_monotonic => r <= book.m_lastShortTakeProfit)
  BY <1>1 DEF LoweredLevel, Least
<1>3. /\ b \in Positions /\ b.long = book.long /\ b.short = book.short
      /\ b.m_lastShortTakeProfit = r /\ b.m_lastTakeProfit = book.m_lastTakeProfit
  <2> HIDE DEF r
  <2> QED
    BY <1>1, <1>2 DEF Positions
<1> HIDE DEF b, r
<1>4. b \in Good /\ SameHeld(book, b)
  BY <1>1, <1>2, <1>3 DEF Good, SameHeld
<1>5. QED
  BY <1>2, <1>3, <1>4 DEF b, r

(* The level is raised, and then, perhaps, the position is sold.           *)
LEMMA LongExitSteps ==
  ASSUME TypeOK, NEW p \in Prices, book.long > 0, LongExits(p)
  PROVE  Steps
<1>1. book \in Good /\ requests \in Lists /\ "sell" \in Sides /\ "other" \in Parts
  BY DEF TypeOK, Sides, Parts
<1>2. CASE Trade("sell", "other", book, requests, p)
  BY <1>1, <1>2, TradeSteps
<1>3. CASE UNCHANGED <<book, requests>>
  BY <1>1, <1>3, NothingSteps
<1>4. ASSUME NEW level \in Prices,
             LET r == RaisedLevel(level)
                 b == [book EXCEPT !.m_lastTakeProfit = r]
             IN  \/ book' = b /\ UNCHANGED requests
                 \/ p <= r /\ Trade("sell", "other", b, requests, p)
      PROVE  Steps
  <2> DEFINE b == [book EXCEPT !.m_lastTakeProfit = RaisedLevel(level)]
  <2>1. /\ b \in Good /\ SameHeld(book, b)
        /\ b.m_lastShortTakeProfit = book.m_lastShortTakeProfit
        /\ param.tp_monotonic => b.m_lastTakeProfit >= book.m_lastTakeProfit
    BY <1>1, RaisedGood
  <2>2. (book' = b /\ UNCHANGED requests) \/ Trade("sell", "other", b, requests, p)
    BY <1>4
  <2> HIDE DEF b
  <2>3. book' \in Good /\ requests' \in Lists /\ Toward("sell", b, book')
    BY <1>1, <2>1, <2>2, TradeDoes, TowardSelf
  <2>4. Ratchets(book, book')
    <3>1. Ratchets(b, book')
      BY <1>1, <2>1, <2>3, TowardRatchets
    <3>2. /\ book.m_lastTakeProfit \in Nat /\ b.m_lastTakeProfit \in Nat
          /\ book'.m_lastTakeProfit \in Nat
      BY <1>1, <2>1, <2>3 DEF Good, Positions
    <3>3. QED
      BY <2>1, <3>1, <3>2 DEF Ratchets, SameHeld
  <2>5. QED
    BY <2>3, <2>4 DEF Steps
<1>5. QED
  BY <1>2, <1>3, <1>4 DEF LongExits

LEMMA ShortExitSteps ==
  ASSUME TypeOK, NEW p \in Prices, book.short > 0, ShortExits(p)
  PROVE  Steps
<1>1. book \in Good /\ requests \in Lists /\ "buyShort" \in Sides /\ "other" \in Parts
  BY DEF TypeOK, Sides, Parts
<1>2. CASE Trade("buyShort", "other", book, requests, p)
  BY <1>1, <1>2, TradeSteps
<1>3. CASE UNCHANGED <<book, requests>>
  BY <1>1, <1>3, NothingSteps
<1>4. ASSUME NEW level \in Prices,
             LET r == LoweredLevel(level)
                 b == [book EXCEPT !.m_lastShortTakeProfit = r]
             IN  \/ book' = b /\ UNCHANGED requests
                 \/ p >= r /\ Trade("buyShort", "other", b, requests, p)
      PROVE  Steps
  <2> DEFINE b == [book EXCEPT !.m_lastShortTakeProfit = LoweredLevel(level)]
  <2>1. /\ b \in Good /\ SameHeld(book, b)
        /\ b.m_lastTakeProfit = book.m_lastTakeProfit
        /\ param.tp_monotonic => b.m_lastShortTakeProfit <= book.m_lastShortTakeProfit
    BY <1>1, LoweredGood
  <2>2. (book' = b /\ UNCHANGED requests) \/ Trade("buyShort", "other", b, requests, p)
    BY <1>4
  <2> HIDE DEF b
  <2>3. book' \in Good /\ requests' \in Lists /\ Toward("buyShort", b, book')
    BY <1>1, <2>1, <2>2, TradeDoes, TowardSelf
  <2>4. Ratchets(book, book')
    <3>1. Ratchets(b, book')
      BY <1>1, <2>1, <2>3, TowardRatchets
    <3>2. /\ book.m_lastShortTakeProfit \in Nat /\ b.m_lastShortTakeProfit \in Nat
          /\ book'.m_lastShortTakeProfit \in Nat
      BY <1>1, <2>1, <2>3 DEF Good, Positions
    <3>3. QED
      BY <2>1, <3>1, <3>2 DEF Ratchets, SameHeld
  <2>5. QED
    BY <2>3, <2>4 DEF Steps
<1>5. QED
  BY <1>2, <1>3, <1>4 DEF ShortExits

LEMMA DecideSteps ==
  ASSUME TypeOK, NEW ev, NEW cn, NEW p \in Prices, Decide(ev, cn, p)
  PROVE  Steps
<1>1. /\ book \in Good /\ requests \in Lists
      /\ {"environment", "condition", "other"} \subseteq Parts
      /\ {"sell", "sellShort", "buy", "buyShort"} \subseteq Sides
  BY DEF TypeOK, Sides, Parts
<1>2. CASE ForceExit("environment", p) \/ ForceExit("condition", p)
  BY <1>1, <1>2, ForceExitSteps
<1>3. CASE \/ Trade("buy", "environment", book, requests, p)
           \/ Trade("buy", "condition", book, requests, p)
  BY <1>1, <1>3, TradeSteps
<1>4. CASE BuySignal(p)
  <2>1. \/ Trade("buyShort", "other", book, requests, p)
        \/ Trade("buy", "other", book, requests, p)
    BY <1>4 DEF BuySignal
  <2>2. QED
    BY <1>1, <2>1, TradeSteps
<1>5. CASE SellSignal(p)
  <2>1. \/ Trade("sell", "other", book, requests, p)
        \/ Trade("sellShort", "other", book, requests, p)
    BY <1>5 DEF SellSignal
  <2>2. QED
    BY <1>1, <2>1, TradeSteps
<1>6. CASE Exits(p)
  BY <1>1, <1>6, LongExitSteps, ShortExitSteps, NothingSteps DEF Exits
<1>7. QED
  BY <1>2, <1>3, <1>4, <1>5, <1>6 DEF Decide

-----------------------------------------------------------------------------
LEMMA FlattenedSame == ASSUME NEW b \in Good PROVE Flattened(b) = b
BY DEF Good, Positions, Flattened

(* A number is cut to lots, and is a number.                               *)
LEMMA AlignedIs == ASSUME NEW n \in Nat PROVE Aligned(n) \in Nat /\ Aligned(n) <= n
BY SystemAssumption DEF Aligned

LEMMA ForcedNumberIs ==
  ASSUME NEW n \in Nat, NEW held \in Nat PROVE ForcedNumber(n, held) \in Nat
BY AlignedIs DEF ForcedNumber

LEMMA SellForceDoes ==
  ASSUME TypeOK, SellForce
  PROVE  /\ requests' = requests /\ book' \in Good
         /\ \/ book.long > 0 /\ Toward("sell", book, book')
            \/ book.long = 0 /\ Toward("buyShort", book, book')
<1> DEFINE side == IF book.long > 0 THEN "sell" ELSE "buyShort"
           held == IF book.long > 0 THEN book.long ELSE book.short
<1>1. /\ book \in Good /\ book.long \in Nat /\ book.short \in Nat /\ MaxHold \in Nat
      /\ side \in Sides
  BY SystemAssumption DEF TypeOK, Good, Positions, Sides
<1>2. PICK n \in (Sizes \ {0}) \cup {All}, p \in Prices :
        \E b \in Outcomes(side, book, {ForcedNumber(n, held)}, p) :
          book' = IF b = book THEN book ELSE Flattened(b)
  BY DEF SellForce
<1>3. PICK b \in Outcomes(side, book, {ForcedNumber(n, held)}, p) :
        book' = IF b = book THEN book ELSE Flattened(b)
  BY <1>2
<1>4. n \in Nat /\ held \in Nat
  BY <1>1 DEF Sizes, All
<1>5. {ForcedNumber(n, held)} \in SUBSET Nat
  BY <1>4, ForcedNumberIs
<1> HIDE DEF side, held
<1>6. b \in Good /\ Toward(side, book, b)
  BY <1>1, <1>3, <1>5, OneTrade
<1>7. book' = b
  BY <1>3, <1>6, FlattenedSame
<1>8. QED
  BY <1>1, <1>6, <1>7 DEF SellForce, side

-----------------------------------------------------------------------------
SInv == IInv /\ TypeOK /\ OnItsWayOut

LEMMA FlatGood == Flat \in Good /\ NoRequests \in Lists
<1>1. 0 \in 0 .. MaxHold
  BY SystemAssumption
<1>2. Flat \in Good
  BY <1>1 DEF Flat, Good, Positions
<1> DEFINE S == Seq(Request)
<1>3. <<>> \in S
  OBVIOUS
<1> HIDE DEF S
<1>4. NoRequests \in [Sides -> S]
  BY <1>3 DEF NoRequests
<1>5. QED
  BY <1>2, <1>4 DEF Lists, S

LEMMA InitSInv == Init => SInv
<1> SUFFICES ASSUME Init PROVE SInv
  OBVIOUS
<1>1. IInv
  BY InitIInv
<1>2. TypeOK
  BY FlatGood DEF Init, TypeOK
<1>3. OnItsWayOut
  BY DEF Init, OnItsWayOut, Flat
<1>4. QED
  BY <1>1, <1>2, <1>3 DEF SInv

LEMMA ServeKeeps ==
  ASSUME SInv, NEW side \in Sides, NEW day, requests[side] # <<>>, Serve(side, day),
         UNCHANGED <<param, m_pre_ev_valid, cleared>>
  PROVE  Steps /\ OnItsWayOut'
<1>1. /\ TypeOK /\ OnItsWayOut
      /\ ~ m_pre_ev_valid => requests["buy"] = <<>>
      /\ requests \in Lists /\ book \in Good
  BY DEF SInv, IInv, EntriesVoidWhileInvalid, TypeOK
<1>2. /\ book' \in Good /\ requests' \in Lists
      /\ Toward(side, book, book')
      /\ \/ UNCHANGED <<book, requests>>
         \/ requests' = [requests EXCEPT ![side] = <<>>]
      /\ refused => refused'
      /\ side = "sell" /\ requests["sell"] # <<>>
         /\ ~ param.disable_ev_force_clean_position
         /\ TakesAll(requests["sell"][Len(requests["sell"])]) =>
              UNCHANGED <<book, requests>> \/ book'.long = 0 \/ refused'
  BY <1>1, ServeDoes
<1>3. Steps
  BY <1>1, <1>2, TowardRatchets DEF Steps
<1>4. CASE UNCHANGED <<book, requests>>
  BY <1>1, <1>2, <1>3, <1>4 DEF OnItsWayOut, SaleWaits, TakesAll
<1>5. CASE ~ UNCHANGED <<book, requests>>
  <2> SUFFICES ASSUME ~ m_pre_ev_valid, ~ param.disable_ev_force_clean_position,
                      book'.long > 0, ~ cleared, ~ refused'
               PROVE  /\ requests'["sell"] # <<>>
                      /\ TakesAll(requests["sell"][Len(requests["sell"])])
                      /\ book'.long = book.long /\ requests'["sell"] = requests["sell"]
    BY <1>3 DEF OnItsWayOut, SaleWaits, TakesAll
  <2>1. book.long \in Nat /\ book'.long \in Nat
    BY <1>1, <1>2 DEF Good, Positions
  <2>2. side # "buy"
    BY <1>1
  <2>3. side # "sell"
    <3> SUFFICES ASSUME side = "sell" PROVE FALSE
      OBVIOUS
    <3>1. book'.long <= book.long
      BY <1>2 DEF Toward
    <3>2. book.long > 0
      BY <2>1, <3>1
    <3>3. TakesAll(requests["sell"][Len(requests["sell"])])
      BY <1>1, <1>2, <3>2 DEF OnItsWayOut, SaleWaits
    <3>4. book'.long = 0
      BY <1>2, <1>5, <3>3
    <3>5. QED
      BY <3>4
  <2>4. book'.long = book.long
    BY <1>2, <2>2, <2>3 DEF Toward, Sides
  <2>5. requests'["sell"] = requests["sell"]
    BY <1>1, <1>2, <1>5, <2>3 DEF Lists, Sides
  <2>6. QED
    BY <1>1, <1>2, <2>4, <2>5 DEF OnItsWayOut, SaleWaits
<1>6. QED
  BY <1>4, <1>5

LEMMA OpenKeeps ==
  ASSUME SInv, RunMomentOnOpen PROVE Steps /\ OnItsWayOut'
<1>1. UNCHANGED <<param, m_pre_ev_valid, cleared>>
  BY DEF RunMomentOnOpen
<1>2. TypeOK /\ OnItsWayOut /\ requests \in Lists
  BY DEF SInv, TypeOK
<1>3. CASE UNCHANGED <<book, requests, refused>>
  BY <1>1, <1>2, <1>3, NothingSteps DEF OnItsWayOut, SaleWaits, TakesAll
<1>4. CASE ~ UNCHANGED <<book, requests, refused>>
  <2>1. requests[FirstPending] # <<>> /\ Serve(FirstPending, bar')
    BY <1>4 DEF RunMomentOnOpen, ProcessRequest
  <2>2. FirstPending \in Sides
    BY DEF FirstPending, Sides
  <2>3. QED
    BY <1>1, <2>1, <2>2, ServeKeeps
<1>5. QED
  BY <1>3, <1>4

(* A forced exit sells at once or queues a sale of everything, and the     *)
(* sale it queues is the last of its list.                                 *)
LEMMA ForcedOut ==
  ASSUME TypeOK, NEW p \in Prices, ForceExit("environment", p), param' = param,
         ~ param.disable_ev_force_clean_position
  PROVE  book'.long > 0 => SaleWaits'
<1> DEFINE kept == DropPendingEntries(requests)
<1>1. /\ kept \in Lists /\ book \in Good /\ "sell" \in Sides /\ "buyShort" \in Sides
      /\ "environment" \in Parts
  BY KeptLists DEF TypeOK, Sides, Parts
<1>2. book.long \in Nat /\ book.long <= MaxHold /\ MaxHold \in Nat
  BY <1>1, SystemAssumption DEF Good, Positions
<1>3. CASE book.long > 0
  <2>1. Trade("sell", "environment", book, kept, p)
    BY <1>3 DEF ForceExit
  <2> HIDE DEF kept
  <2>2. \/ /\ book' = book
           /\ \E n \in SubmittedSizes("sell", "environment", book) :
                requests' = Submit(kept, "sell", AtClose("environment", n))
        \/ book' \in Outcomes("sell", book, Asked("sell", "environment"), p)
    BY <2>1 DEF Trade, Shorts, AtClose
  <2>3. Asked("sell", "environment") = {All}
    BY DEF Asked, Entries, ForcesOut
  <2>4. CASE book' \in Outcomes("sell", book, Asked("sell", "environment"), p)
    <3>1. book'.long = 0
      BY <1>1, <1>2, <2>3, <2>4, SellsAll DEF All
    <3>2. QED
      BY <3>1
  <2>5. ASSUME book' = book, NEW n \in SubmittedSizes("sell", "environment", book),
               requests' = Submit(kept, "sell", AtClose("environment", n))
        PROVE  SaleWaits'
    <3>1. /\ kept["sell"] \in Seq(Request)
          /\ requests'["sell"] = Append(kept["sell"], AtClose("environment", n))
      BY <1>1, <2>5 DEF Lists, Submit
    <3>2. /\ requests'["sell"] # <<>>
          /\ requests'["sell"][Len(requests'["sell"])] = AtClose("environment", n)
      <4>1. n \in Nat
        BY <1>1, AskedNumbers
      <4>2. AtClose("environment", n) \in Request
        BY <1>1, <4>1 DEF AtClose, Request
      <4> DEFINE e == AtClose("environment", n)
      <4> HIDE DEF e
      <4>3. /\ Append(kept["sell"], e) # <<>>
            /\ Append(kept["sell"], e)[Len(Append(kept["sell"], e))] = e
        BY <3>1, <4>2, AppendProperties DEF e
      <4>4. QED
        BY <3>1, <4>3 DEF e
    <3>3. param.delay_use_current_price \/ n >= book.long
      BY <1>2, <2>3 DEF SubmittedSizes, All
    <3>4. QED
      BY <2>5, <3>2, <3>3 DEF SaleWaits, TakesAll, AtClose
  <2>6. QED
    BY <2>2, <2>4, <2>5
<1>4. CASE ~ (book.long > 0)
  <2>1. \/ Trade("buyShort", "environment", book, kept, p)
        \/ book' = book
    BY <1>4 DEF ForceExit
  <2> HIDE DEF kept
  <2>2. book'.long = book.long
    <3>1. CASE Trade("buyShort", "environment", book, kept, p)
      <4>1. Toward("buyShort", book, book')
        BY <1>1, <3>1, TradeDoes
      <4>2. QED
        BY <4>1 DEF Toward
    <3>2. QED
      BY <2>1, <3>1
  <2>3. QED
    BY <1>4, <2>2
<1>5. QED
  BY <1>3, <1>4

LEMMA CloseKeeps ==
  ASSUME SInv, RunMomentOnClose PROVE Steps /\ OnItsWayOut'
<1>1. PICK ev \in BOOLEAN, cn \in BOOLEAN, p \in Prices :
        m_pre_ev_valid' = ev /\ Decide(ev, cn, p)
  BY DEF RunMomentOnClose
<1>2. TypeOK /\ param' = param
  BY DEF SInv, RunMomentOnClose
<1>3. Steps
  BY <1>1, <1>2, DecideSteps
<1>4. CASE ev
  BY <1>1, <1>3, <1>4 DEF OnItsWayOut
<1>5. CASE ~ ev
  <2>1. ForceExit("environment", p)
    BY <1>1, <1>5 DEF Decide
  <2>2. ~ param.disable_ev_force_clean_position /\ book'.long > 0 => SaleWaits'
    BY <1>2, <2>1, ForcedOut
  <2>3. QED
    BY <1>2, <1>3, <2>2 DEF OnItsWayOut
<1>6. QED
  BY <1>4, <1>5

LEMMA AggregateKeeps ==
  ASSUME SInv,
         \/ SellForce \/ PfProcessDelayRequest("sell") \/ PfProcessDelayRequest("buy")
         \/ ClearDelayBuyRequest \/ ClearDelaySellRequest
  PROVE  Steps /\ OnItsWayOut'
<1>1. TypeOK /\ OnItsWayOut /\ book \in Good /\ requests \in Lists
  BY DEF SInv, TypeOK
<1>2. CASE SellForce
  <2>1. /\ requests' = requests /\ book' \in Good
        /\ \/ book.long > 0 /\ Toward("sell", book, book')
           \/ book.long = 0 /\ Toward("buyShort", book, book')
    BY <1>1, <1>2, SellForceDoes
  <2>2. "sell" \in Sides /\ "buyShort" \in Sides
    BY DEF Sides
  <2>3. Steps
    BY <1>1, <2>1, <2>2, TowardRatchets DEF Steps
  <2>4. book.long \in Nat /\ book'.long \in Nat /\ book'.long <= book.long
    <3>1. book.long \in Nat /\ book'.long \in Nat
      BY <1>1, <2>1 DEF Good, Positions
    <3>2. QED
      BY <2>1, <3>1 DEF Toward
  <2>5. OnItsWayOut'
    <3> SUFFICES ASSUME ~ m_pre_ev_valid', ~ param.disable_ev_force_clean_position',
                        book'.long > 0, ~ cleared', ~ refused'
                 PROVE  /\ requests'["sell"] # <<>>
                        /\ TakesAll(requests["sell"][Len(requests["sell"])])'
      BY <2>1 DEF OnItsWayOut, SaleWaits
    <3>1. UNCHANGED <<param, m_pre_ev_valid, cleared, refused>>
      BY <1>2 DEF SellForce
    <3>2. book.long > 0
      BY <2>4
    <3> DEFINE last == requests["sell"][Len(requests["sell"])]
    <3>3. requests["sell"] # <<>> /\ TakesAll(last)
      BY <1>1, <3>1, <3>2 DEF OnItsWayOut, SaleWaits
    <3>4. (param.delay_use_current_price \/ last.number >= book'.long)
          /\ last.from = "environment" /\ last.count = 0
      <4>1. requests["sell"] \in Seq(Request) /\ Len(requests["sell"]) \in Nat
        BY <1>1 DEF Lists, Sides
      <4>2. Len(requests["sell"]) \in 1 .. Len(requests["sell"])
        BY <3>3, <4>1, EmptySeq
      <4>3. last \in Request
        BY <4>1, <4>2
      <4>4. last.number \in Nat
        BY <4>3 DEF Request
      <4> HIDE DEF last
      <4>5. QED
        BY <2>4, <3>3, <4>4 DEF TakesAll
    <3>5. QED
      BY <2>1, <3>1, <3>3, <3>4 DEF TakesAll
  <2>6. QED
    BY <2>3, <2>5
<1>3. CASE PfProcessDelayRequest("sell") \/ PfProcessDelayRequest("buy")
  <2>1. PICK side \in Sides : PfProcessDelayRequest(side)
    BY <1>3 DEF Sides
  <2>2. QED
    BY <2>1, ServeKeeps DEF PfProcessDelayRequest
<1>4. CASE ClearDelayBuyRequest
  <2> DEFINE rs == [requests EXCEPT !["buy"] = <<>>]
  <2>1. rs \in Lists /\ "buyShort" \in Sides
    BY <1>1, DroppedLists DEF Sides
  <2>2. requests' = [rs EXCEPT !["buyShort"] = <<>>]
    BY <1>4 DEF ClearDelayBuyRequest
  <2>3. requests'["sell"] = requests["sell"]
    BY <1>1, <1>4 DEF ClearDelayBuyRequest, Lists, Sides
  <2> HIDE DEF rs
  <2>4. requests' \in Lists
    BY <2>1, <2>2, DroppedLists
  <2>5. UNCHANGED <<param, book, m_pre_ev_valid, cleared, refused>>
    BY <1>4 DEF ClearDelayBuyRequest
  <2>6. Steps
    BY <1>1, <2>4, <2>5, NothingSteps
  <2>7. OnItsWayOut'
    BY <1>1, <2>3, <2>5 DEF OnItsWayOut, SaleWaits, TakesAll
  <2>8. QED
    BY <2>6, <2>7
<1>5. CASE ClearDelaySellRequest
  <2> DEFINE rs == [requests EXCEPT !["sell"] = <<>>]
  <2>1. rs \in Lists /\ "sellShort" \in Sides
    BY <1>1, DroppedLists DEF Sides
  <2>2. requests' = [rs EXCEPT !["sellShort"] = <<>>]
    BY <1>5 DEF ClearDelaySellRequest
  <2> HIDE DEF rs
  <2>3. requests' \in Lists
    BY <2>1, <2>2, DroppedLists
  <2>4. UNCHANGED book /\ cleared'
    BY <1>5 DEF ClearDelaySellRequest
  <2>5. Steps
    BY <1>1, <2>3, <2>4, NothingSteps
  <2>6. QED
    BY <2>4, <2>5 DEF OnItsWayOut
<1>6. QED
  BY <1>2, <1>3, <1>4, <1>5

LEMMA ResetKeeps == ASSUME SInv, Reset PROVE Steps /\ OnItsWayOut'
<1>1. book \in Good
  BY DEF SInv, TypeOK
<1>2. book' = Flat /\ requests' = NoRequests
  BY DEF Reset
<1>3. Ratchets(book, Flat)
  BY DEF Ratchets, Flat
<1>4. Steps
  BY <1>2, <1>3, FlatGood DEF Steps
<1>5. OnItsWayOut'
  BY <1>2 DEF OnItsWayOut, Flat
<1>6. QED
  BY <1>4, <1>5

(* Every step keeps the book good and the levels ratcheted.                *)
LEMMA EveryStep == ASSUME SInv, [Next]_vars PROVE Steps /\ SInv'
<1>1. CASE Next
  <2>1. Steps /\ OnItsWayOut'
    BY <1>1, OpenKeeps, CloseKeeps, AggregateKeeps, ResetKeeps DEF Next
  <2>2. param' = param
    BY <1>1 DEF Next, RunMomentOnOpen, RunMomentOnClose, SellForce,
                PfProcessDelayRequest, ClearDelayBuyRequest, ClearDelaySellRequest, Reset
  <2>3. TypeOK'
    BY <2>1, <2>2 DEF SInv, TypeOK, Steps
  <2>4. IInv'
    <3>1. IInv
      BY DEF SInv
    <3>2. CASE Reset
      BY <3>2 DEF Reset, NoRequests, Sides, IInv, FourLists, EntriesVoidWhileInvalid
    <3>3. QED
      BY <1>1, <3>1, <3>2, OpenStep, CloseStep, AggregateStep DEF Next
  <2>5. QED
    BY <2>1, <2>3, <2>4 DEF SInv
<1>2. CASE UNCHANGED vars
  <2>1. /\ TypeOK /\ requests \in Lists
        /\ UNCHANGED <<param, book, requests, m_pre_ev_valid, m_pre_cn_valid,
                       cleared, refused>>
    BY <1>2 DEF SInv, TypeOK, vars
  <2>2. Steps
    BY <2>1, NothingSteps
  <2>3. SInv'
    BY <2>1 DEF SInv, IInv, EntriesVoidWhileInvalid, TypeOK, OnItsWayOut, SaleWaits, TakesAll
  <2>4. QED
    BY <2>2, <2>3
<1>3. QED
  BY <1>1, <1>2

(* For any parameters, sizes and prices, over any number of bars and any   *)
(* interventions of an aggregate: the positions stay within their bounds   *)
(* with a take-profit level just while they are held, the lists hold       *)
(* requests, no entry waits while the environment or the condition is      *)
(* invalid, and what is long in an invalid environment that forces it out  *)
(* has, last in its list, a sale of everything, unless the aggregate       *)
(* cleared the sales or one was refused for its size since the last close. *)
THEOREM SystemInvariance == Spec => []SInv
<1>1. SInv /\ [Next]_vars => SInv'
  BY EveryStep
<1>2. QED
  BY <1>1, InitSInv, PTL DEF Spec

(* A long position found in an invalid environment is on its way out until *)
(* it is gone, whatever board, volume or delay keeps the sale back, unless *)
(* the aggregate cleared the sales or the trade manager refused one for    *)
(* its size, and then only until the next close.                           *)
THEOREM LiquidationIsPending == Spec => []LiquidationPending
<1>1. SInv => LiquidationPending
  BY DEF SInv, OnItsWayOut, SaleWaits, LiquidationPending
<1>2. QED
  BY <1>1, SystemInvariance, PTL

(* While a position is held its take-profit level never loosens, through   *)
(* add-ons, partial exits, delayed fills and forced sales, and there is a  *)
(* level just while there is a position.                                   *)
THEOREM LevelsAreRatchets == Spec => TakeProfitRatchet
<1> DEFINE A == /\ book'.long = 0 <=> book'.m_lastTakeProfit = 0
                /\ book'.short = 0 <=> book'.m_lastShortTakeProfit = 0
                /\ param.tp_monotonic =>
                     /\ book.long > 0 /\ book'.long > 0 =>
                          book'.m_lastTakeProfit >= book.m_lastTakeProfit
                     /\ book.short > 0 /\ book'.short > 0 =>
                          book'.m_lastShortTakeProfit <= book.m_lastShortTakeProfit
<1>1. SInv /\ [Next]_vars => [A]_vars
  BY EveryStep DEF Steps, Ratchets
<1>2. QED
  BY <1>1, SystemInvariance, PTL DEF Spec, TakeProfitRatchet

-----------------------------------------------------------------------------
(* How an aggregate sees a book and the lists that wait.                   *)
Row(l, s, waiting) == [long |-> l, short |-> s, pending |-> waiting]
View(b, waiting)   == Row(b.long > 0, b.short > 0, waiting)
Waits(rs)        == {s \in Sides : rs[s] # <<>>}
Delays           == [buy_delay |-> param.buy_delay, sell_delay |-> param.sell_delay,
                     support_borrow_stock |-> param.support_borrow_stock]
Seen             == View(book, Waits(requests))

LEMMA Rows ==
  ASSUME NEW l, NEW s, NEW W, NEW x
  PROVE  /\ Row(l, s, W).long = l /\ Row(l, s, W).short = s
         /\ Row(l, s, W).pending = W
         /\ [Row(l, s, W) EXCEPT !.long = x] = Row(x, s, W)
         /\ [Row(l, s, W) EXCEPT !.short = x] = Row(l, x, W)
         /\ [Row(l, s, W) EXCEPT !.pending = x] = Row(l, s, x)
BY DEF Row

LEMMA ViewIs ==
  ASSUME NEW b, NEW W
  PROVE  \E l, s \in BOOLEAN :
           (l <=> b.long > 0) /\ (s <=> b.short > 0) /\ View(b, W) = Row(l, s, W)
<1>1. (b.long > 0) \in BOOLEAN /\ (b.short > 0) \in BOOLEAN
  OBVIOUS
<1>2. WITNESS (b.long > 0) \in BOOLEAN, (b.short > 0) \in BOOLEAN
<1>3. QED
  BY Zenon DEF View

LEMMA ViewWithout ==
  ASSUME NEW b, NEW W, NEW S
  PROVE  Contract!Without(View(b, W), S) = View(b, W \ S)
BY DEF View, Row, Contract!Without

Added(c, S) == [c EXCEPT !.pending = @ \cup S]

LEMMA ViewAdded ==
  ASSUME NEW b, NEW W, NEW S
  PROVE  Added(View(b, W), S) = View(b, W \cup S)
BY DEF View, Row, Added

LEMMA ViewHeld ==
  ASSUME NEW b, NEW W
  PROVE  (View(b, W).long <=> b.long > 0) /\ (View(b, W).short <=> b.short > 0)
<1>1. PICK l \in BOOLEAN, s \in BOOLEAN :
        (l <=> b.long > 0) /\ (s <=> b.short > 0) /\ View(b, W) = Row(l, s, W)
  BY ViewIs
<1>2. QED
  BY <1>1, Rows

LEMMA FilledIs ==
  ASSUME NEW c
  PROVE  /\ Contract!Filled(c, "buy") = {c} \cup {[c EXCEPT !.long = TRUE]}
         /\ Contract!Filled(c, "sell") = {c} \cup {[c EXCEPT !.long = FALSE]}
         /\ Contract!Filled(c, "sellShort") = {c} \cup {[c EXCEPT !.short = TRUE]}
         /\ Contract!Filled(c, "buyShort") = {c} \cup {[c EXCEPT !.short = FALSE]}
BY Zenon DEF Contract!Filled

LEMMA FilledView ==
  ASSUME NEW side \in Sides, NEW b \in Good, NEW c \in Good, Toward(side, b, c), NEW W
  PROVE  View(c, W) \in Contract!Filled(View(b, W), side)
<1>1. /\ b.long \in Nat /\ b.short \in Nat /\ c.long \in Nat /\ c.short \in Nat
  BY DEF Good, Positions
<1>2. PICK l \in BOOLEAN, s \in BOOLEAN :
        (l <=> b.long > 0) /\ (s <=> b.short > 0) /\ View(b, W) = Row(l, s, W)
  BY ViewIs
<1>3. PICK x \in BOOLEAN, y \in BOOLEAN :
        (x <=> c.long > 0) /\ (y <=> c.short > 0) /\ View(c, W) = Row(x, y, W)
  BY ViewIs
<1>4. CASE side = "buy"
  <2>1. c.short = b.short /\ c.long >= b.long
    BY <1>4 DEF Toward
  <2>2. y = s /\ (x = l \/ x = TRUE)
    BY <1>1, <1>2, <1>3, <2>1
  <2>3. View(c, W) = View(b, W) \/ View(c, W) = [View(b, W) EXCEPT !.long = TRUE]
    BY <1>2, <1>3, <2>2, Rows
  <2>4. QED
    BY <1>4, <2>3, FilledIs
<1>5. CASE side = "sell"
  <2>1. c.short = b.short /\ c.long <= b.long
    BY <1>5 DEF Toward
  <2>2. y = s /\ (x = l \/ x = FALSE)
    BY <1>1, <1>2, <1>3, <2>1
  <2>3. View(c, W) = View(b, W) \/ View(c, W) = [View(b, W) EXCEPT !.long = FALSE]
    BY <1>2, <1>3, <2>2, Rows
  <2>4. QED
    BY <1>5, <2>3, FilledIs
<1>6. CASE side = "sellShort"
  <2>1. c.long = b.long /\ c.short >= b.short
    BY <1>6 DEF Toward
  <2>2. x = l /\ (y = s \/ y = TRUE)
    BY <1>1, <1>2, <1>3, <2>1
  <2>3. View(c, W) = View(b, W) \/ View(c, W) = [View(b, W) EXCEPT !.short = TRUE]
    BY <1>2, <1>3, <2>2, Rows
  <2>4. QED
    BY <1>6, <2>3, FilledIs
<1>7. CASE side = "buyShort"
  <2>1. c.long = b.long /\ c.short <= b.short
    BY <1>7 DEF Toward
  <2>2. x = l /\ (y = s \/ y = FALSE)
    BY <1>1, <1>2, <1>3, <2>1
  <2>3. View(c, W) = View(b, W) \/ View(c, W) = [View(b, W) EXCEPT !.short = FALSE]
    BY <1>2, <1>3, <2>2, Rows
  <2>4. QED
    BY <1>7, <2>3, FilledIs
<1>8. QED
  BY <1>4, <1>5, <1>6, <1>7 DEF Sides

LEMMA EmptiedWaits ==
  ASSUME NEW rs \in Lists, NEW side \in Sides
  PROVE  Waits([rs EXCEPT ![side] = <<>>]) = Waits(rs) \ {side}
BY DEF Lists, Waits

LEMMA AddedWaits ==
  ASSUME NEW rs \in Lists, NEW side \in Sides, NEW e \in Request
  PROVE  Waits([rs EXCEPT ![side] = Append(@, e)]) = Waits(rs) \cup {side}
<1>1. rs[side] \in Seq(Request)
  BY DEF Lists
<1>2. Append(rs[side], e) # <<>>
  BY <1>1, AppendProperties
<1> DEFINE s == Append(rs[side], e)
<1>3. s # <<>>
  BY <1>2
<1> HIDE DEF s
<1>4. Waits([rs EXCEPT ![side] = s]) = Waits(rs) \cup {side}
  BY <1>3 DEF Lists, Waits
<1>5. QED
  BY <1>4 DEF s

(* A trade at the close is one the aggregate reckons with.                 *)
LEMMA TradeSeen ==
  ASSUME NEW side \in Sides, NEW from \in Parts, NEW b \in Good, NEW rs \in Lists,
         NEW p \in Prices, Trade(side, from, b, rs, p)
  PROVE  Seen' \in Contract!Traded(View(b, Waits(rs)), side, Delays)
<1> DEFINE c == View(b, Waits(rs))
<1>1. /\ Delays.support_borrow_stock = param.support_borrow_stock
      /\ Contract!DelayOf(Delays, side)
           = IF side \in Purchases THEN param.buy_delay ELSE param.sell_delay
      /\ Contract!ShortSides = Shorts
  BY DEF Delays, Contract!DelayOf, Purchases, Contract!ShortSides, Shorts
<1>2. CASE side \in Shorts /\ ~ param.support_borrow_stock
  <2>1. Seen' = c
    BY <1>2 DEF Trade, Seen
  <2>2. Contract!Traded(c, side, Delays) = {c}
    BY <1>1, <1>2 DEF Contract!Traded
  <2>3. QED
    BY <2>1, <2>2
<1>3. CASE /\ ~ (side \in Shorts /\ ~ param.support_borrow_stock)
           /\ WaitsAtClose(side, bar)
  <2>1. book' = b
    BY <1>3 DEF Trade
  <2>2. PICK n \in SubmittedSizes(side, from, b) :
          requests' = Submit(rs, side, AtClose(from, n))
    BY <1>3 DEF Trade, AtClose
  <2>3. AtClose(from, n) \in Request
    BY <2>2, AskedNumbers DEF AtClose, Request
  <2>4. Waits(requests') = Waits(rs) \cup {side}
    BY <2>2, <2>3, AddedWaits DEF Submit
  <2>5. Seen' = Added(c, {side})
    <3>1. Seen' = View(b, Waits(rs) \cup {side})
      BY <2>1, <2>4 DEF Seen, View, Waits
    <3>2. QED
      BY <3>1, ViewAdded
  <2> HIDE DEF c
  <2>6. Added(c, {side}) \in Contract!Traded(c, side, Delays)
    BY <1>1, <1>3 DEF Contract!Traded, Added
  <2>7. QED
    BY <2>5, <2>6 DEF c
<1>4. CASE /\ ~ (side \in Shorts /\ ~ param.support_borrow_stock)
           /\ ~ WaitsAtClose(side, bar)
  <2>1. /\ book' \in Outcomes(side, b, Asked(side, from), p)
        /\ requests' = IF side \in Shorts THEN [rs EXCEPT ![side] = <<>>] ELSE rs
    BY <1>4, Zenon DEF Trade
  <2>2. book' \in Good /\ Toward(side, b, book')
    BY <2>1, AskedNumbers, OneTrade
  <2>3. ~ Contract!DelayOf(Delays, side)
    BY <1>1, <1>4 DEF WaitsAtClose
  <2>4. Waits(requests') = Waits(rs) \ ({side} \cap Shorts)
    BY <2>1, EmptiedWaits
  <2> DEFINE d == View(book', Waits(rs))
  <2>5. d \in Contract!Filled(c, side)
    BY <2>2, FilledView
  <2>6. Seen' = Contract!Without(d, {side} \cap Contract!ShortSides)
    <3>1. Seen' = View(book', Waits(requests'))
      BY DEF Seen, View, Waits
    <3>2. Contract!Without(d, {side} \cap Contract!ShortSides)
            = View(book', Waits(rs) \ ({side} \cap Contract!ShortSides))
      BY ViewWithout
    <3>3. QED
      BY <1>1, <2>4, <3>1, <3>2
  <2> HIDE DEF c, d
  <2>7. Contract!Without(d, {side} \cap Contract!ShortSides)
          \in Contract!Traded(c, side, Delays)
    BY <1>1, <1>4, <2>3, <2>5 DEF Contract!Traded
  <2>8. QED
    BY <2>6, <2>7 DEF c
<1>5. QED
  BY <1>2, <1>3, <1>4

LEMMA ForcedExitSeen ==
  ASSUME TypeOK, NEW from \in Parts, NEW p \in Prices, ForceExit(from, p)
  PROVE  Seen' \in Contract!ForcedExit(Seen, Delays)
<1> DEFINE kept == DropPendingEntries(requests)
           t == [requests EXCEPT !["buy"] = <<>>]
           k == Contract!Without(Seen, Contract!EntrySides)
<1>1. /\ kept \in Lists /\ book \in Good /\ requests \in Lists
      /\ {"buy", "sell", "sellShort", "buyShort"} \subseteq Sides
  BY KeptLists DEF TypeOK, Sides
<1>2. Waits(kept) = Waits(requests) \ Contract!EntrySides
  <2>1. t \in Lists /\ Waits(t) = Waits(requests) \ {"buy"}
    BY <1>1, DroppedLists, EmptiedWaits
  <2>2. kept = [t EXCEPT !["sellShort"] = <<>>]
    BY DEF DropPendingEntries
  <2> HIDE DEF t, kept
  <2>3. Waits(kept) = Waits(t) \ {"sellShort"}
    BY <1>1, <2>1, <2>2, EmptiedWaits
  <2>4. QED
    BY <2>1, <2>3 DEF Contract!EntrySides
<1>3. k = View(book, Waits(kept))
  BY <1>2, ViewWithout DEF Seen
<1>4. (Seen.long <=> book.long > 0) /\ (Seen.short <=> book.short > 0)
  BY ViewHeld DEF Seen
<1> HIDE DEF kept
<1>5. CASE book.long > 0
  <2>1. Trade("sell", from, book, kept, p)
    BY <1>5 DEF ForceExit, kept
  <2>2. Seen' \in Contract!Traded(k, "sell", Delays)
    BY <1>1, <1>3, <2>1, TradeSeen
  <2>3. QED
    BY <1>4, <1>5, <2>2 DEF Contract!ForcedExit
<1>6. CASE ~ (book.long > 0) /\ book.short > 0
  <2>1. Trade("buyShort", from, book, kept, p)
    BY <1>6 DEF ForceExit, kept
  <2>2. Seen' \in Contract!Traded(k, "buyShort", Delays)
    BY <1>1, <1>3, <2>1, TradeSeen
  <2>3. QED
    BY <1>4, <1>6, <2>2 DEF Contract!ForcedExit
<1>7. CASE ~ (book.long > 0) /\ ~ (book.short > 0)
  <2>1. UNCHANGED book /\ requests' = kept
    BY <1>7 DEF ForceExit, kept
  <2>2. Seen' = k
    BY <1>3, <2>1 DEF Seen, View, Waits
  <2>3. QED
    BY <1>4, <1>7, <2>2 DEF Contract!ForcedExit
<1>8. QED
  BY <1>5, <1>6, <1>7

-----------------------------------------------------------------------------
LEMMA SeenIs ==
  /\ Seen' = View(book', Waits(requests'))
  /\ UNCHANGED <<book, requests>> => Seen' = Seen
BY DEF Seen, View, Waits

LEMMA SameView ==
  ASSUME NEW b, NEW c, SameHeld(b, c), NEW W PROVE View(c, W) = View(b, W)
BY DEF SameHeld, View

(* An exit of a part sells the position, or covers it, on a book that only *)
(* its level tells from this one.                                          *)
LEMMA LongExitsSeen ==
  ASSUME TypeOK, NEW p \in Prices, book.long > 0, LongExits(p)
  PROVE  Seen' = Seen \/ Seen' \in Contract!Traded(Seen, "sell", Delays)
<1>1. book \in Good /\ requests \in Lists /\ "sell" \in Sides /\ "other" \in Parts
  BY DEF TypeOK, Sides, Parts
<1>2. CASE Trade("sell", "other", book, requests, p)
  BY <1>1, <1>2, TradeSeen DEF Seen
<1>3. CASE UNCHANGED <<book, requests>>
  BY <1>3, SeenIs
<1>4. ASSUME NEW level \in Prices,
             LET r == RaisedLevel(level)
                 b == [book EXCEPT !.m_lastTakeProfit = r]
             IN  \/ book' = b /\ UNCHANGED requests
                 \/ p <= r /\ Trade("sell", "other", b, requests, p)
      PROVE  Seen' = Seen \/ Seen' \in Contract!Traded(Seen, "sell", Delays)
  <2> DEFINE b == [book EXCEPT !.m_lastTakeProfit = RaisedLevel(level)]
  <2>1. b \in Good /\ SameHeld(book, b)
    BY <1>1, RaisedGood
  <2>2. (book' = b /\ UNCHANGED requests) \/ Trade("sell", "other", b, requests, p)
    BY <1>4
  <2> HIDE DEF b
  <2>3. View(b, Waits(requests)) = Seen
    BY <2>1, SameView DEF Seen
  <2>4. CASE book' = b /\ UNCHANGED requests
    BY <2>3, <2>4, SeenIs
  <2>5. CASE Trade("sell", "other", b, requests, p)
    BY <1>1, <2>1, <2>3, <2>5, TradeSeen
  <2>6. QED
    BY <2>2, <2>4, <2>5
<1>5. QED
  BY <1>2, <1>3, <1>4 DEF LongExits

LEMMA ShortExitsSeen ==
  ASSUME TypeOK, NEW p \in Prices, book.short > 0, ShortExits(p)
  PROVE  Seen' = Seen \/ Seen' \in Contract!Traded(Seen, "buyShort", Delays)
<1>1. book \in Good /\ requests \in Lists /\ "buyShort" \in Sides /\ "other" \in Parts
  BY DEF TypeOK, Sides, Parts
<1>2. CASE Trade("buyShort", "other", book, requests, p)
  BY <1>1, <1>2, TradeSeen DEF Seen
<1>3. CASE UNCHANGED <<book, requests>>
  BY <1>3, SeenIs
<1>4. ASSUME NEW level \in Prices,
             LET r == LoweredLevel(level)
                 b == [book EXCEPT !.m_lastShortTakeProfit = r]
             IN  \/ book' = b /\ UNCHANGED requests
                 \/ p >= r /\ Trade("buyShort", "other", b, requests, p)
      PROVE  Seen' = Seen \/ Seen' \in Contract!Traded(Seen, "buyShort", Delays)
  <2> DEFINE b == [book EXCEPT !.m_lastShortTakeProfit = LoweredLevel(level)]
  <2>1. b \in Good /\ SameHeld(book, b)
    BY <1>1, LoweredGood
  <2>2. (book' = b /\ UNCHANGED requests) \/ Trade("buyShort", "other", b, requests, p)
    BY <1>4
  <2> HIDE DEF b
  <2>3. View(b, Waits(requests)) = Seen
    BY <2>1, SameView DEF Seen
  <2>4. CASE book' = b /\ UNCHANGED requests
    BY <2>3, <2>4, SeenIs
  <2>5. CASE Trade("buyShort", "other", b, requests, p)
    BY <1>1, <2>1, <2>3, <2>5, TradeSeen
  <2>6. QED
    BY <2>2, <2>4, <2>5
<1>5. QED
  BY <1>2, <1>3, <1>4 DEF ShortExits

(* The branches of the close are those of the contract.                    *)
LEMMA CloseSeen ==
  ASSUME TypeOK, NEW ev, NEW cn, NEW p \in Prices, Decide(ev, cn, p)
  PROVE  Seen' \in Contract!Closed(Seen, Delays)
<1>1. /\ book \in Good /\ requests \in Lists
      /\ {"environment", "condition", "other"} \subseteq Parts
      /\ {"sell", "sellShort", "buy", "buyShort"} \subseteq Sides
  BY DEF TypeOK, Sides, Parts
<1>2. (Seen.long <=> book.long > 0) /\ (Seen.short <=> book.short > 0)
  BY ViewHeld DEF Seen
<1>3. \A side \in Sides, from \in Parts :
        Trade(side, from, book, requests, p) =>
          Seen' \in Contract!Traded(Seen, side, Delays)
  BY <1>1, TradeSeen DEF Seen
<1> DEFINE Cover == IF Seen.short THEN "buyShort" ELSE "buy"
           Sell  == IF Seen.long THEN "sell" ELSE "sellShort"
           Buys  == Contract!Traded(Seen, "buy", Delays)
           Covers == Contract!Traded(Seen, Cover, Delays)
           Sells == Contract!Traded(Seen, Sell, Delays)
           Forced == Contract!ForcedExit(Seen, Delays)
<1>4. Contract!Closed(Seen, Delays) = {Seen} \cup Forced \cup Buys \cup Covers \cup Sells
  BY DEF Contract!Closed
<1>5. CASE ForceExit("environment", p) \/ ForceExit("condition", p)
  <2>1. Seen' \in Forced
    BY <1>1, <1>5, ForcedExitSeen
  <2> HIDE DEF Buys, Covers, Sells, Forced
  <2>2. QED
    BY <1>4, <2>1
<1>6. CASE \/ Trade("buy", "environment", book, requests, p)
           \/ Trade("buy", "condition", book, requests, p)
  <2>1. Seen' \in Buys
    BY <1>1, <1>3, <1>6
  <2> HIDE DEF Buys, Covers, Sells, Forced
  <2>2. QED
    BY <1>4, <2>1
<1>7. CASE BuySignal(p)
  <2>1. Seen' \in Covers
    <3>1. CASE book.short > 0
      BY <1>1, <1>2, <1>3, <1>7, <3>1 DEF BuySignal
    <3>2. CASE ~ (book.short > 0)
      BY <1>1, <1>2, <1>3, <1>7, <3>2 DEF BuySignal
    <3>3. QED
      BY <3>1, <3>2
  <2> HIDE DEF Buys, Covers, Sells, Forced
  <2>2. QED
    BY <1>4, <2>1
<1>8. CASE SellSignal(p)
  <2>1. Seen' \in Sells
    <3>1. CASE book.long > 0
      BY <1>1, <1>2, <1>3, <1>8, <3>1 DEF SellSignal
    <3>2. CASE ~ (book.long > 0)
      BY <1>1, <1>2, <1>3, <1>8, <3>2 DEF SellSignal
    <3>3. QED
      BY <3>1, <3>2
  <2> HIDE DEF Buys, Covers, Sells, Forced
  <2>2. QED
    BY <1>4, <2>1
<1>9. CASE Exits(p)
  <2>1. Seen' = Seen \/ Seen' \in Sells \/ Seen' \in Covers
    <3>1. CASE book.long > 0
      BY <1>2, <1>9, <3>1, LongExitsSeen DEF Exits
    <3>2. CASE ~ (book.long > 0) /\ book.short > 0
      BY <1>2, <1>9, <3>2, ShortExitsSeen DEF Exits
    <3>3. CASE ~ (book.long > 0) /\ ~ (book.short > 0)
      BY <1>9, <3>3, SeenIs DEF Exits
    <3>4. QED
      BY <3>1, <3>2, <3>3
  <2> HIDE DEF Buys, Covers, Sells, Forced
  <2>2. QED
    BY <1>4, <2>1
<1>10. QED
  BY <1>5, <1>6, <1>7, <1>8, <1>9 DEF Decide

-----------------------------------------------------------------------------
(* A list is served, or waits.                                             *)
LEMMA ServeSeen ==
  ASSUME TypeOK, NEW side \in Sides, NEW day, requests[side] # <<>>, Serve(side, day)
  PROVE  Seen' = Seen \/ Seen' \in Contract!Served(Seen, side)
<1>1. book \in Good /\ requests \in Lists
  BY DEF TypeOK
<1>2. CASE UNCHANGED <<book, requests>>
  BY <1>2, SeenIs
<1>3. CASE ~ UNCHANGED <<book, requests>>
  <2>1. /\ requests' = [requests EXCEPT ![side] = <<>>]
        /\ book' \in Good /\ Toward(side, book, book')
    BY <1>3, ServeDoes
  <2> DEFINE d == View(book', Waits(requests))
  <2>2. d \in Contract!Filled(Seen, side)
    BY <1>1, <2>1, FilledView DEF Seen
  <2>3. Waits(requests') = Waits(requests) \ {side}
    BY <1>1, <2>1, EmptiedWaits
  <2>4. Seen' = Contract!Without(d, {side})
    BY <2>3, SeenIs, ViewWithout
  <2>5. side \in Seen.pending
    BY Rows DEF Seen, View, Waits
  <2> HIDE DEF d
  <2>6. QED
    BY <2>2, <2>4, <2>5 DEF Contract!Served
<1>4. QED
  BY <1>2, <1>3

LEMMA OpenSeen == ASSUME TypeOK, RunMomentOnOpen PROVE Seen' \in Contract!Opened(Seen)
<1>1. CASE UNCHANGED <<book, requests>>
  BY <1>1, SeenIs DEF Contract!Opened
<1>2. CASE ~ UNCHANGED <<book, requests>>
  <2>1. requests[FirstPending] # <<>> /\ Serve(FirstPending, bar')
    BY <1>2 DEF RunMomentOnOpen, ProcessRequest
  <2>2. FirstPending \in Sides
    BY DEF FirstPending, Sides
  <2>3. Seen.pending = Waits(requests)
    BY Rows DEF Seen, View
  <2>4. Contract!FirstPending(Seen) = FirstPending
    BY <2>3 DEF Contract!FirstPending, FirstPending, Waits, Sides
  <2>5. Seen' = Seen \/ Seen' \in Contract!Served(Seen, FirstPending)
    BY <2>1, <2>2, ServeSeen
  <2>6. QED
    BY <2>4, <2>5 DEF Contract!Opened
<1>3. QED
  BY <1>1, <1>2

LEMMA SellForceSeen ==
  ASSUME TypeOK, SellForce
  PROVE  Seen' \in Contract!Filled(Seen, IF Seen.long THEN "sell" ELSE "buyShort")
<1>1. book \in Good /\ "sell" \in Sides /\ "buyShort" \in Sides /\ book.long \in Nat
  BY DEF TypeOK, Sides, Good, Positions
<1>2. /\ requests' = requests /\ book' \in Good
      /\ \/ book.long > 0 /\ Toward("sell", book, book')
         \/ book.long = 0 /\ Toward("buyShort", book, book')
  BY SellForceDoes
<1>3. Seen' = View(book', Waits(requests)) /\ (Seen.long <=> book.long > 0)
  BY <1>2, SeenIs, ViewHeld DEF Seen
<1>4. CASE book.long > 0
  <2>1. Seen' \in Contract!Filled(Seen, "sell")
    BY <1>1, <1>2, <1>3, <1>4, FilledView DEF Seen
  <2>2. QED
    BY <1>3, <1>4, <2>1
<1>5. CASE ~ (book.long > 0)
  <2>1. Seen' \in Contract!Filled(Seen, "buyShort")
    BY <1>1, <1>2, <1>3, <1>5, FilledView DEF Seen
  <2>2. QED
    BY <1>3, <1>5, <2>1
<1>6. QED
  BY <1>4, <1>5

LEMMA ClearSeen ==
  ASSUME TypeOK, NEW s \in Sides, NEW t \in Sides, book' = book,
         requests' = [requests EXCEPT ![s] = <<>>, ![t] = <<>>]
  PROVE  Seen' = Contract!Without(Seen, {s, t})
<1> DEFINE rs == [requests EXCEPT ![s] = <<>>]
<1>1. rs \in Lists /\ Waits(rs) = Waits(requests) \ {s}
  BY DroppedLists, EmptiedWaits DEF TypeOK
<1>2. requests' = [rs EXCEPT ![t] = <<>>]
  OBVIOUS
<1> HIDE DEF rs
<1>3. Waits(requests') = Waits(rs) \ {t}
  BY <1>1, <1>2, EmptiedWaits
<1>4. Waits(requests') = Waits(requests) \ {s, t}
  BY <1>1, <1>3
<1>5. Seen' = View(book, Waits(requests) \ {s, t})
  BY <1>4, SeenIs
<1>6. Contract!Without(Seen, {s, t}) = View(book, Waits(requests) \ {s, t})
  BY ViewWithout DEF Seen
<1>7. QED
  BY <1>5, <1>6

-----------------------------------------------------------------------------
LEMMA FreshSeen == View(Flat, Waits(NoRequests)) = Contract!FreshSub
<1>1. Waits(NoRequests) = {}
  BY DEF Waits, NoRequests
<1>2. PICK l \in BOOLEAN, s \in BOOLEAN :
        /\ (l <=> Flat.long > 0) /\ (s <=> Flat.short > 0)
        /\ View(Flat, Waits(NoRequests)) = Row(l, s, Waits(NoRequests))
  BY ViewIs
<1>3. l = FALSE /\ s = FALSE
  BY <1>2 DEF Flat
<1>4. QED
  BY <1>1, <1>2, <1>3 DEF Row, Contract!FreshSub

LEMMA InitContract == Init => Contract!Init
<1> SUFFICES ASSUME Init PROVE Contract!Init
  OBVIOUS
<1>1. Seen = Contract!FreshSub
  BY FreshSeen DEF Init, Seen
<1>2. param \in Setting
  BY SystemAssumption DEF Init
<1>3. Delays \in Contract!Terms
  BY <1>2 DEF Setting, Delays, Contract!Terms
<1>4. QED
  BY <1>1, <1>3 DEF Contract!Init, Seen, View, Row, Waits, Delays

(* Every step of the system is a step of the sub-system, or none.          *)
LEMMA StepContract ==
  ASSUME TypeOK, [Next]_vars
  PROVE  Delays' = Delays
         /\ \/ Seen' = Seen
            \/ Seen' \in Contract!Opened(Seen)
            \/ Seen' \in Contract!Closed(Seen, Delays)
            \/ Seen' \in Contract!Filled(Seen, IF Seen.long THEN "sell" ELSE "buyShort")
            \/ Seen' = Contract!Without(Seen, {"buy", "buyShort"})
            \/ Seen' = Contract!Without(Seen, {"sell", "sellShort"})
            \/ Seen' = Contract!FreshSub
            \/ \E side \in {"buy", "sell"} : Seen' \in Contract!Served(Seen, side)
<1>1. param' = param
  BY DEF vars, Next, RunMomentOnOpen, RunMomentOnClose, SellForce,
         PfProcessDelayRequest, ClearDelayBuyRequest, ClearDelaySellRequest, Reset
<1>2. Delays' = Delays
  BY <1>1 DEF Delays
<1>3. CASE RunMomentOnOpen
  BY <1>2, <1>3, OpenSeen
<1>4. CASE RunMomentOnClose
  <2>1. PICK ev \in BOOLEAN, cn \in BOOLEAN, p \in Prices : Decide(ev, cn, p)
    BY <1>4 DEF RunMomentOnClose
  <2>2. QED
    BY <1>2, <2>1, CloseSeen
<1>5. CASE SellForce
  BY <1>2, <1>5, SellForceSeen
<1>6. CASE PfProcessDelayRequest("sell") \/ PfProcessDelayRequest("buy")
  <2>1. PICK side \in {"buy", "sell"} : PfProcessDelayRequest(side)
    BY <1>6
  <2>2. side \in Sides
    BY DEF Sides
  <2>3. QED
    BY <1>2, <2>1, <2>2, ServeSeen DEF PfProcessDelayRequest
<1>7. CASE ClearDelayBuyRequest
  <2>1. Seen' = Contract!Without(Seen, {"buy", "buyShort"})
    BY <1>7, ClearSeen DEF ClearDelayBuyRequest, Sides
  <2>2. QED
    BY <1>2, <2>1
<1>8. CASE ClearDelaySellRequest
  <2>1. Seen' = Contract!Without(Seen, {"sell", "sellShort"})
    BY <1>8, ClearSeen DEF ClearDelaySellRequest, Sides
  <2>2. QED
    BY <1>2, <2>1
<1>9. CASE Reset
  <2>1. Seen' = Contract!FreshSub
    BY <1>9, FreshSeen, SeenIs DEF Reset
  <2>2. QED
    BY <1>2, <2>1
<1>10. CASE UNCHANGED vars
  BY <1>2, <1>10, SeenIs DEF vars
<1>11. QED
  BY <1>3, <1>4, <1>5, <1>6, <1>7, <1>8, <1>9, <1>10 DEF Next

LEMMA NextContract ==
  ASSUME TypeOK, [Next]_vars
  PROVE  [Contract!Next]_(Contract!cvars)
<1>1. \/ Seen' = Seen
      \/ Seen' \in Contract!Opened(Seen)
      \/ Seen' \in Contract!Closed(Seen, Delays)
      \/ Seen' \in Contract!Filled(Seen, IF Seen.long THEN "sell" ELSE "buyShort")
      \/ Seen' = Contract!Without(Seen, {"buy", "buyShort"})
      \/ Seen' = Contract!Without(Seen, {"sell", "sellShort"})
      \/ Seen' = Contract!FreshSub
      \/ \E side \in {"buy", "sell"} : Seen' \in Contract!Served(Seen, side)
  BY StepContract
<1>2. Delays' = Delays
  BY StepContract
<1>3. QED
  BY <1>1, <1>2, Zenon
     DEF Contract!Next, Contract!Open, Contract!Close, Contract!Force,
         Contract!Process, Contract!ClearDelayed, Contract!Reset, Contract!cvars,
         Seen, View, Row, Waits, Delays

(* Every step of a system, seen only by what it holds and owes and which   *)
(* of its lists wait, is a step of the sub-system an aggregate reckons     *)
(* with, or changes nothing it sees.                                       *)
THEOREM SystemImplements == Spec => ImplementsContract
<1>1. SInv => TypeOK
  BY DEF SInv
<1>2. TypeOK /\ [Next]_vars => [Contract!Next]_(Contract!cvars)
  BY NextContract
<1>3. QED
  BY <1>1, <1>2, InitContract, SystemInvariance, PTL
     DEF Spec, ImplementsContract, Contract!Spec
=============================================================================
