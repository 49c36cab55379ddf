---------------------------- MODULE TradeManager ----------------------------
(***************************************************************************)
(* The account of a backtest (trade_manage/TradeManager.cpp): cash, long   *)
(* positions, loans, borrowed stock, short positions, and the log of trade *)
(* records from which every question about the past is answered.           *)
(*                                                                         *)
(* Ex-rights events (dividends, bonus shares, consolidations) are applied  *)
(* LAZILY: no event reaches the account until some operation or query      *)
(* calls updateWithWeight with a later date.  A handler of the code is an  *)
(* operator from an account to the account it leaves, because buy, sell,   *)
(* sellShort and buyShort call other handlers half way through.            *)
(*                                                                         *)
(* Dates are day numbers, money and share counts are whole numbers, the    *)
(* margin rate 0.6 is the fraction 3/5, and no order broker is registered. *)
(***************************************************************************)
EXTENDS Integers, Sequences, SequencesExt, FiniteSetsExt

CONSTANTS
  StockSeq,      \* the stocks, in the order of their ids (the maps' order)
  Weights,       \* Weights[s]: the ex-rights events of s, by day
  Price,         \* Price[d]: the price of a trade on day d
  MaxDay,        \* the last day of the calendar
  InitCash,      \* m_init_cash
  Cashes,        \* the amounts passed to checkin, checkout, borrowCash, returnCash
  Numbers,       \* the share counts passed to the trades
  MaxDouble,     \* the number that means "everything" to sell and buyShort
  TradeFee,      \* the total of getBuyCost and of getSellCost
  LoanFee,       \* the total of getBorrowCashCost
  Profiles,      \* the kinds of client, see ProfileAssumption
  Chronological  \* TRUE: no call is dated before the last weight update

Stocks == ToSet(StockSeq)
Days   == 1 .. MaxDay

NoStock == "Null<Stock>"

ASSUME StockAssumption ==
  /\ StockSeq \in Seq(Stocks)
  /\ \A i, j \in DOMAIN StockSeq : StockSeq[i] = StockSeq[j] => i = j
  /\ NoStock \notin Stocks

(* An ex-rights event: `bonus` cash per share, `gift` shares per share     *)
(* (countAsGift and increasement together), and `suogu`, the consolidation *)
(* ratio as a fraction <<p, q>>, <<0, 1>> when there is none.              *)
ExRights == [bonus : Nat, gift : Nat, suogu : Nat \X (Nat \ {0})]

ASSUME WeightsAssumption ==
  \A s \in Stocks :
     /\ DOMAIN Weights[s] \subseteq Days
     /\ \A k \in DOMAIN Weights[s] : Weights[s][k] \in ExRights

ASSUME ParameterAssumption ==
  /\ MaxDay \in Nat /\ Price \in [Days -> Nat \ {0}]
  /\ InitCash \in Nat /\ TradeFee \in Nat /\ LoanFee \in Nat
  /\ Cashes \subseteq Nat \ {0} /\ Numbers \subseteq Nat \ {0}
  /\ MaxDouble \notin Numbers
  /\ Chronological \in BOOLEAN

(* A client calls the handlers in `calls` on the stocks in `stocks`, up to *)
(* day `lastDay`, until the trade log holds `records` records (both are    *)
(* bounds), with the parameters in `params` switched on.                   *)
ASSUME ProfileAssumption ==
  \A p \in Profiles :
     /\ p.params \subseteq {"support_borrow_cash", "support_borrow_stock"}
     /\ p.stocks \subseteq Stocks
     /\ p.lastDay \in Days /\ p.records \in Nat

VARIABLES
  tm,      \* the TradeManager object, a record of its members
  client   \* the kind of client that calls it

(* The sum of a sequence of numbers.                                       *)
Total(v) == LET sum[i \in 0 .. Len(v)] == IF i = 0 THEN 0 ELSE sum[i - 1] + v[i]
            IN sum[Len(v)]

----------------------------------------------------------------------------
(* Records, positions and the maps that hold them.                         *)

TradeRecord(datetime, business, stock, number, realPrice, cost, cash) ==
  [datetime |-> datetime, business |-> business, stock |-> stock,
   number |-> number, realPrice |-> realPrice, cost |-> cost, cash |-> cash]

InitRecord == TradeRecord(0, "INIT", NoStock, 0, InitCash, 0, InitCash)

NoEntries == [s \in {} |-> 0]
Put(map, s, value) == [x \in DOMAIN map \cup {s} |->
                         IF x = s THEN value ELSE map[x]]
Erase(map, s) == [x \in DOMAIN map \ {s} |-> map[x]]

lastDatetime(a) == Last(a.m_trade_list).datetime

PushRecord(a, d, business, s, n, price, cost) ==
  [a EXCEPT !.m_trade_list =
      Append(@, TradeRecord(d, business, s, n, price, cost, a.m_cash))]

(* The frontier of a stock is dropped when its holding grows; 0 is absent. *)
DropFrontier(a, s) == [a EXCEPT !.m_tmp_weight_checked_until[s] = 0]

----------------------------------------------------------------------------
(* updateWithWeight.                                                       *)

CeilDiv(x, y) == (x + y - 1) \div y

(* The share count an event leaves: bonus shares first, then the           *)
(* consolidation, which rounds a contraction up and truncates an expansion. *)
AddGift(n, w)  == n + n * w.gift
Consolidate(n, w) == LET p == w.suogu[1]
                         q == w.suogu[2]
                     IN IF p = 0 THEN n
                        ELSE IF p < q THEN CeilDiv(n * p, q)
                        ELSE (n * p) \div q
AfterEvent(n, w) == Consolidate(AddGift(n, w), w)

(* Mutants: today is scanned again; the last trade is ignored.             *)
ScanStartTooEarly(a, s) == Max({lastDatetime(a), a.m_tmp_weight_checked_until[s]})
ScanStartFrontierOnly(a, s) == a.m_tmp_weight_checked_until[s]

(* The days of the events of s not looked at yet: from the day after the   *)
(* last trade or from the stock's frontier, whichever is later, up to d.   *)
ScanStart(a, s) == Max({lastDatetime(a) + 1, a.m_tmp_weight_checked_until[s]})
getWeight(a, s, d) == {k \in DOMAIN Weights[s] : ScanStart(a, s) <= k /\ k <= d}

(* A position (long or short) after one event.  `paid` is 1 for a long     *)
(* position, which receives the dividend, and 0 for a short one.           *)
WeighPosition(pos, w, paid) ==
  LET gifted == AddGift(pos.number, w)
      total  == pos.totalNumber + (gifted - pos.number)
      number == AfterEvent(pos.number, w)
  IN [pos EXCEPT !.number = number,
                 !.totalNumber = IF number = gifted THEN total
                                 ELSE CeilDiv(total * number, gifted),
                 !.sellMoney = @ + paid * pos.number * w.bonus]

(* Mutants: the lots keep their numbers; a debt is always rounded down.    *)
WeighBorrowTotalOnly(bor, w) == [bor EXCEPT !.number = AfterEvent(@, w)]
WeighBorrowFloor(bor, w) ==
  LET gifted == AddGift(bor.number, w)
      number == IF w.suogu[1] = 0 THEN gifted
                ELSE (gifted * w.suogu[1]) \div w.suogu[2]
  IN IF number = bor.number THEN bor
     ELSE [number |-> number,
           unit   |-> bor.unit * bor.number,
           record_list |-> [i \in DOMAIN bor.record_list |->
              [bor.record_list[i] EXCEPT !.number = @ * number]]]

(* A borrow record after one event: every lot is scaled by the factor of   *)
(* the whole, which seldom is a whole number.  A lot of `number` stands    *)
(* for number / unit shares; one unit is shared by all lots of a record.   *)
WeighBorrow(bor, w) ==
  LET number == AfterEvent(bor.number, w)
  IN IF number = bor.number THEN bor
     ELSE [number |-> number,
           unit   |-> bor.unit * bor.number,
           record_list |-> [i \in DOMAIN bor.record_list |->
              [bor.record_list[i] EXCEPT !.number = @ * number]]]

(* The records an event of day k leaves of a holding of n shares of s.     *)
When(condition, record) == IF condition THEN <<record>> ELSE <<>>
EventRecords(s, n, k, dividend, gift, suogu) ==
  LET w       == Weights[s][k]
      added   == AddGift(n, w) - n
      changed == AfterEvent(n, w) - AddGift(n, w)
  IN When(dividend # "" /\ w.bonus # 0,
          TradeRecord(k, dividend, s, 0, n * w.bonus, 0, 0))
     \o When(added # 0, TradeRecord(k, gift, s, added, 0, 0, 0))
     \o When(changed # 0, TradeRecord(k, suogu, s, changed, 0, 0, 0))

(* The event of day k on the three kinds of holding of s.  A batch is the  *)
(* account under way and the buffer of its new records, cash still blank.  *)
WeighLong(b, s, k) ==
  LET pos == b.tm.m_position[s]
  IN [tm   |-> [b.tm EXCEPT
                  !.m_position[s] = WeighPosition(pos, Weights[s][k], 1),
                  !.m_cash        = @ + pos.number * Weights[s][k].bonus],
      recs |-> b.recs \o EventRecords(s, pos.number, k, "BONUS", "GIFT", "SUOGU")]

WeighDebt(b, s, k) ==
  LET owed == b.tm.m_borrow_stock[s]
  IN [tm   |-> [b.tm EXCEPT
                  !.m_borrow_stock[s] = WeighBorrow(owed, Weights[s][k]),
                  !.m_cash            = @ - owed.number * Weights[s][k].bonus],
      recs |-> b.recs \o EventRecords(s, owed.number, k, "DIVIDEND_COMPENSATION",
                                      "BORROW_ADJUST", "BORROW_ADJUST")]

WeighShort(b, s, k) ==
  LET pos == b.tm.m_short_position[s]
  IN [tm   |-> [b.tm EXCEPT
                  !.m_short_position[s] = WeighPosition(pos, Weights[s][k], 0)],
      recs |-> b.recs \o EventRecords(s, pos.number, k, "",
                                      "SHORT_ADJUST", "SHORT_ADJUST")]

WeighOne(a, d, side, k, s, b) ==
  IF k \notin getWeight(a, s, d) THEN b
  ELSE IF side = "long" /\ s \in DOMAIN b.tm.m_position THEN WeighLong(b, s, k)
  ELSE IF side = "debt" /\ s \in DOMAIN b.tm.m_borrow_stock THEN WeighDebt(b, s, k)
  ELSE IF side = "short" /\ s \in DOMAIN b.tm.m_short_position THEN WeighShort(b, s, k)
  ELSE b

(* The code goes through the maps one after the other and then sorts the   *)
(* buffer by date, keeping the order within a date; no holding depends on  *)
(* another, so this is to go from day to day, and on each day through the  *)
(* long positions, the debts and the short positions.                      *)
WeighSide(a, d, side, k, b) ==
  LET upTo[j \in 0 .. Len(StockSeq)] ==
        IF j = 0 THEN b ELSE WeighOne(a, d, side, k, StockSeq[j], upTo[j - 1])
  IN upTo[Len(StockSeq)]

WeighDay(a, d, k, b) ==
  WeighSide(a, d, "short", k,
            WeighSide(a, d, "debt", k, WeighSide(a, d, "long", k, b)))

Weighed(a, d) ==
  LET upTo[k \in 0 .. MaxDay] ==
        IF k = 0 THEN [tm |-> a, recs |-> <<>>] ELSE WeighDay(a, d, k, upTo[k - 1])
  IN upTo[MaxDay]

CashEffectOfEvent(r) == CASE r.business = "BONUS" -> r.realPrice
                          [] r.business = "DIVIDEND_COMPENSATION" -> -r.realPrice
                          [] OTHER -> 0

(* Mutant: each record keeps the account cash of before the batch.         *)
ReplayCashNever(cash_base, recs) ==
  [i \in DOMAIN recs |-> [recs[i] EXCEPT !.cash = cash_base]]

ReplayCash(cash_base, recs) ==
  [i \in DOMAIN recs |->
     [recs[i] EXCEPT !.cash =
        cash_base + Total([j \in 1 .. i |-> CashEffectOfEvent(recs[j])])]]

(* Every stock held, owed or short is now checked up to tomorrow.          *)
AdvanceFrontier(a, d) ==
  [s \in Stocks |->
     IF s \in DOMAIN a.m_position \cup DOMAIN a.m_borrow_stock
                \cup DOMAIN a.m_short_position
     THEN Max({a.m_tmp_weight_checked_until[s], d + 1})
     ELSE a.m_tmp_weight_checked_until[s]]

AlreadyUpdated(a, d) == d <= a.m_last_update_datetime

(* The account with the batch b entered in its log.                        *)
Logged(a, d, b) ==
  [b.tm EXCEPT !.m_trade_list = @ \o ReplayCash(a.m_cash, b.recs),
               !.m_tmp_weight_checked_until = AdvanceFrontier(a, d),
               !.m_last_update_datetime     = d]

updateWithWeight(a, d) ==
  IF AlreadyUpdated(a, d) THEN a ELSE Logged(a, d, Weighed(a, d))

----------------------------------------------------------------------------
(* Cash in and out, and the loans.                                         *)

checkin(a, d, cash) ==
  PushRecord([a EXCEPT !.m_cash = @ + cash, !.m_checkin_cash = @ + cash],
             d, "CHECKIN", NoStock, 0, cash, 0)

checkout(a, d, cash) ==
  IF cash > a.m_cash THEN a
  ELSE PushRecord([a EXCEPT !.m_cash = @ - cash, !.m_checkout_cash = @ + cash],
                  d, "CHECKOUT", NoStock, 0, cash, 0)

borrowCash(a, d, cash) ==
  PushRecord([a EXCEPT !.m_cash        = @ + cash - LoanFee,
                       !.m_borrow_cash = @ + cash,
                       !.m_loan_list   = Append(@, [datetime |-> d, value |-> cash])],
             d, "BORROW_CASH", NoStock, 0, cash, LoanFee)

(* The list of entries left when `amount` is taken from it, oldest first;  *)
(* `field` is what an entry counts: the value of a loan, the number of a   *)
(* borrowed lot.                                                           *)
Repay(list, amount, field) ==
  LET Before(i) == Total([j \in 1 .. i - 1 |-> list[j][field]])
      touched   == Min({i \in DOMAIN list : amount <= Before(i) + list[i][field]})
      left      == Before(touched) + list[touched][field] - amount
      rest      == SubSeq(list, touched + 1, Len(list))
  IN IF left = 0 THEN rest
     ELSE <<[list[touched] EXCEPT ![field] = left]>> \o rest

LoanTotal(loans) == Total([i \in DOMAIN loans |-> loans[i].value])

returnCash(a, d, cash) ==
  IF \/ cash > LoanTotal(a.m_loan_list)
     \/ cash > a.m_cash
  THEN a
  ELSE PushRecord([a EXCEPT !.m_cash        = @ - cash,
                            !.m_borrow_cash = @ - cash,
                            !.m_loan_list   = Repay(@, cash, "value")],
                  d, "RETURN_CASH", NoStock, 0, cash, 0)

----------------------------------------------------------------------------
(* Positions.                                                              *)

NewPosition(s, n, buyMoney, cost, sellMoney) ==
  [stock |-> s, number |-> n, totalNumber |-> n, buyMoney |-> buyMoney,
   totalCost |-> cost, sellMoney |-> sellMoney]

(* The map with n more shares of s, opened or added to.                    *)
Grow(map, s, n, buyMoney, cost, sellMoney) ==
  Put(map, s,
      IF s \notin DOMAIN map THEN NewPosition(s, n, buyMoney, cost, sellMoney)
      ELSE [map[s] EXCEPT !.number = @ + n, !.totalNumber = @ + n,
                          !.buyMoney = @ + buyMoney, !.totalCost = @ + cost,
                          !.sellMoney = @ + sellMoney])

(* Mutant: fees are not booked.                                            *)
ShrunkFree(pos, n, buyMoney, cost, sellMoney) ==
  [pos EXCEPT !.number = @ - n, !.buyMoney = @ + buyMoney,
              !.sellMoney = @ + sellMoney]

(* A position with n shares less; one that reaches 0 moves to the history. *)
Shrunk(pos, n, buyMoney, cost, sellMoney) ==
  [pos EXCEPT !.number = @ - n, !.buyMoney = @ + buyMoney,
              !.totalCost = @ + cost, !.sellMoney = @ + sellMoney]
KeepOpen(map, pos) ==
  IF pos.number = 0 THEN Erase(map, pos.stock) ELSE Put(map, pos.stock, pos)
Archived(history, pos) == IF pos.number = 0 THEN Append(history, pos) ELSE history

ShrinkLong(a, pos) ==
  [a EXCEPT !.m_position = KeepOpen(@, pos), !.m_position_history = Archived(@, pos)]
ShrinkShort(a, pos) ==
  [a EXCEPT !.m_short_position = KeepOpen(@, pos),
            !.m_short_position_history = Archived(@, pos)]

checkinStock(a, d, s, n) ==
  LET value == Price[d] * n
      b     == DropFrontier(a, s)
  IN [PushRecord(b, d, "CHECKIN_STOCK", s, n, Price[d], 0)
        EXCEPT !.m_position      = Grow(@, s, n, value, 0, 0),
               !.m_checkin_stock = @ + value]

checkoutStock(a, d, s, n) ==
  IF s \notin DOMAIN a.m_position THEN a
  ELSE IF n > a.m_position[s].number THEN a
  ELSE LET value == Price[d] * n
           pos   == Shrunk(a.m_position[s], n, 0, 0, value)
       IN [PushRecord(ShrinkLong(a, pos), d, "CHECKOUT_STOCK", s, n, Price[d], 0)
             EXCEPT !.m_checkout_stock = @ + value]

(* Automatic financing: borrow the shortfall and the cost of borrowing it. *)
(* Refused when the buying power is short; no loan is left behind then.    *)
BuyingPowerShort(a, money) ==
  5 * a.m_cash + 3 * (TradeFee + LoanFee) < 3 * (money + TradeFee)
BorrowGap(a, money) ==
  LET gap == money + TradeFee - a.m_cash
  IN IF a.m_cash + gap - LoanFee >= money + TradeFee THEN gap ELSE gap + LoanFee

Finance(a, d, money) ==
  IF "support_borrow_cash" \in a.params /\ a.m_cash < money + TradeFee
  THEN borrowCash(a, d, BorrowGap(a, money))
  ELSE a

buy(a, d, s, n) ==
  LET money == Price[d] * n
      b     == DropFrontier(a, s)
      c     == Finance(b, d, money)
      paid  == [c EXCEPT !.m_cash = @ - money - TradeFee]
  IN IF "support_borrow_cash" \in a.params /\ BuyingPowerShort(b, money) THEN b
     ELSE IF c.m_cash < money + TradeFee THEN c
     ELSE [PushRecord(paid, d, "BUY", s, n, Price[d], TradeFee)
             EXCEPT !.m_position = Grow(@, s, n, money, TradeFee, 0)]

(* A sale repays loans, at once and as far as the cash goes.               *)
AutoRepay(a, d) ==
  IF "support_borrow_cash" \in a.params /\ a.m_borrow_cash > 0 /\ a.m_cash > 0
  THEN returnCash(a, d, Min({a.m_borrow_cash, a.m_cash}))
  ELSE a

sell(a, d, s, n) ==
  LET held        == a.m_position[s]
      real_number == IF n = MaxDouble THEN held.number ELSE n
      money       == Price[d] * real_number
      pos         == Shrunk(held, real_number, 0, TradeFee, money)
      paid        == [a EXCEPT !.m_cash = @ + money - TradeFee]
  IN IF real_number > held.number THEN a
     ELSE AutoRepay(ShrinkLong(PushRecord(paid, d, "SELL", s, real_number,
                                          Price[d], TradeFee), pos), d)

----------------------------------------------------------------------------
(* Borrowed stock and short positions.                                     *)

LotTotal(lots) == Total([i \in DOMAIN lots |-> lots[i].number])

(* What is owed of s, with one lot more, and with n shares returned.       *)
Owed(map, s) == IF s \in DOMAIN map THEN map[s]
                ELSE [number |-> 0, unit |-> 1, record_list |-> <<>>]
WithLot(owed, d, n) ==
  [owed EXCEPT !.number = @ + n,
               !.record_list = Append(@, [datetime |-> d, number |-> n * owed.unit])]
GiveBack(map, s, n) ==
  LET left == Repay(map[s].record_list, n * map[s].unit, "number")
  IN IF left = <<>> THEN Erase(map, s)
     ELSE Put(map, s, [map[s] EXCEPT !.number = @ - n, !.record_list = left])

borrowStock(a, d, s, n) ==
  [PushRecord(DropFrontier(a, s), d, "BORROW_STOCK", s, n, Price[d], 0)
     EXCEPT !.m_borrow_stock = Put(@, s, WithLot(Owed(@, s), d, n))]

returnStock(a, d, s, n) ==
  IF s \notin DOMAIN a.m_borrow_stock THEN a
  ELSE IF n > a.m_borrow_stock[s].number THEN a
  ELSE [PushRecord(a, d, "RETURN_STOCK", s, n, Price[d], 0)
          EXCEPT !.m_borrow_stock = GiveBack(@, s, n)]

NumberIn(map, s) == IF s \in DOMAIN map THEN map[s].number ELSE 0
Unsold(a, s) == NumberIn(a.m_borrow_stock, s) - NumberIn(a.m_short_position, s)

(* Automatic borrowing: the unsold stock of the pool first, the shortfall  *)
(* as new debt.  Without a pool the whole number is borrowed.              *)
MarginShort(a, money) == 5 * a.m_cash < 3 * (money + TradeFee)
BorrowShortfall(a, s, n) ==
  IF s \notin DOMAIN a.m_borrow_stock \/ Unsold(a, s) = 0 THEN n
  ELSE Max({0, n - Unsold(a, s)})
RefusesToBorrow(a, d, s, n) ==
  /\ "support_borrow_stock" \in a.params
  /\ \/ MarginShort(a, Price[d] * n)
     \/ s \in DOMAIN a.m_borrow_stock /\ Unsold(a, s) < 0
AutoBorrow(a, d, s, n) ==
  IF "support_borrow_stock" \in a.params /\ BorrowShortfall(a, s, n) > 0
  THEN borrowStock(a, d, s, BorrowShortfall(a, s, n))
  ELSE a

sellShort(a, d, s, n) ==
  LET b     == DropFrontier(a, s)
      c     == AutoBorrow(b, d, s, n)
      sold  == Min({n, Unsold(c, s)})
      gross == Price[d] * sold
      paid  == [c EXCEPT !.m_cash = @ + gross - TradeFee]
  IN IF RefusesToBorrow(b, d, s, n) THEN b
     ELSE IF s \notin DOMAIN c.m_borrow_stock \/ Unsold(c, s) <= 0 THEN c
     ELSE [PushRecord(paid, d, "SELL_SHORT", s, sold, Price[d], TradeFee)
             EXCEPT !.m_short_position = Grow(@, s, sold, 0, TradeFee, gross)]

buyShort(a, d, s, n) ==
  LET short       == a.m_short_position[s]
      real_number == IF n = MaxDouble THEN short.number
                     ELSE Min({n, short.number})
      money       == Price[d] * real_number
      pos         == Shrunk(short, real_number, money, TradeFee, 0)
      paid        == [a EXCEPT !.m_cash = @ - money - TradeFee]
      covered     == ShrinkShort(PushRecord(paid, d, "BUY_SHORT", s, real_number,
                                            Price[d], TradeFee), pos)
  IN IF a.m_cash < money + TradeFee THEN a
     ELSE IF "support_borrow_stock" \in a.params
          THEN returnStock(covered, d, s, real_number)
     ELSE covered

----------------------------------------------------------------------------
(* addTradeRecord: a record made elsewhere is booked without the decisions *)
(* of the handler it came from.  What that handler borrowed or repaid on   *)
(* the way is a record of its own, and the records of ex-rights events are *)
(* not booked at all, since updateWithWeight makes them again.             *)

NewAccount(params) ==
  [params                     |-> params,
   m_cash                     |-> InitCash,
   m_checkin_cash             |-> InitCash,
   m_checkout_cash            |-> 0,
   m_checkin_stock            |-> 0,
   m_checkout_stock           |-> 0,
   m_borrow_cash              |-> 0,
   m_loan_list                |-> <<>>,
   m_borrow_stock             |-> NoEntries,
   m_trade_list               |-> <<InitRecord>>,
   m_position                 |-> NoEntries,
   m_position_history         |-> <<>>,
   m_short_position           |-> NoEntries,
   m_short_position_history   |-> <<>>,
   m_tmp_weight_checked_until |-> [s \in Stocks |-> 0],
   m_last_update_datetime     |-> 0]

Amount(r) == r.realPrice * r.number

LogAsBooked(a, r) ==
  [a EXCEPT !.m_trade_list = Append(@, [r EXCEPT !.cash = a.m_cash])]
Pay(a, r, sum) == LogAsBooked([a EXCEPT !.m_cash = @ + sum - r.cost], r)

add_buy_tr(a, r) ==
  IF a.m_cash < Amount(r) + r.cost THEN a
  ELSE [Pay(a, r, -Amount(r))
          EXCEPT !.m_position = Grow(@, r.stock, r.number, Amount(r), r.cost, 0)]

add_sell_tr(a, r) ==
  IF r.number > NumberIn(a.m_position, r.stock) THEN a
  ELSE ShrinkLong(Pay(a, r, Amount(r)),
                  Shrunk(a.m_position[r.stock], r.number, 0, r.cost, Amount(r)))

add_checkin_stock_tr(a, r) ==
  [LogAsBooked(a, r)
     EXCEPT !.m_position      = Grow(@, r.stock, r.number, Amount(r), 0, 0),
            !.m_checkin_stock = @ + Amount(r)]

add_checkout_stock_tr(a, r) ==
  IF r.number > NumberIn(a.m_position, r.stock) THEN a
  ELSE [ShrinkLong(LogAsBooked(a, r),
                   Shrunk(a.m_position[r.stock], r.number, 0, 0, Amount(r)))
          EXCEPT !.m_checkout_stock = @ + Amount(r)]

add_borrow_cash_tr(a, r) ==
  [Pay(a, r, r.realPrice)
     EXCEPT !.m_borrow_cash = @ + r.realPrice,
            !.m_loan_list   = Append(@, [datetime |-> r.datetime,
                                         value    |-> r.realPrice])]

add_return_cash_tr(a, r) ==
  IF \/ r.realPrice > LoanTotal(a.m_loan_list)
     \/ r.realPrice + r.cost > a.m_cash
  THEN a
  ELSE [Pay(a, r, -r.realPrice)
          EXCEPT !.m_borrow_cash = @ - r.realPrice,
                 !.m_loan_list   = Repay(@, r.realPrice, "value")]

add_borrow_stock_tr(a, r) ==
  [Pay(a, r, 0) EXCEPT !.m_borrow_stock =
     Put(@, r.stock, WithLot(Owed(@, r.stock), r.datetime, r.number))]

add_return_stock_tr(a, r) ==
  IF r.number > NumberIn(a.m_borrow_stock, r.stock) THEN a
  ELSE [Pay(a, r, 0) EXCEPT !.m_borrow_stock = GiveBack(@, r.stock, r.number)]

(* No stock need be borrowed: the record is taken at its word.             *)
add_sell_short_tr(a, r) ==
  [Pay(a, r, Amount(r)) EXCEPT !.m_short_position =
     Grow(@, r.stock, r.number, 0, r.cost, Amount(r))]

add_buy_short_tr(a, r) ==
  IF \/ r.number > NumberIn(a.m_short_position, r.stock)
     \/ a.m_cash < Amount(r) + r.cost
  THEN a
  ELSE ShrinkShort(Pay(a, r, -Amount(r)),
                   Shrunk(a.m_short_position[r.stock], r.number, Amount(r), r.cost, 0))

(* What a record does once the account is up to date; the records of       *)
(* ex-rights events fall under OTHER.                                      *)
Book(a, r) ==
  CASE r.business = "BUY"            -> add_buy_tr(a, r)
    [] r.business = "SELL"           -> add_sell_tr(a, r)
    [] r.business = "CHECKIN"        -> checkin(a, r.datetime, r.realPrice)
    [] r.business = "CHECKOUT"       -> checkout(a, r.datetime, r.realPrice)
    [] r.business = "CHECKIN_STOCK"  -> add_checkin_stock_tr(a, r)
    [] r.business = "CHECKOUT_STOCK" -> add_checkout_stock_tr(a, r)
    [] r.business = "BORROW_CASH"    -> add_borrow_cash_tr(a, r)
    [] r.business = "RETURN_CASH"    -> add_return_cash_tr(a, r)
    [] r.business = "BORROW_STOCK"   -> add_borrow_stock_tr(a, r)
    [] r.business = "RETURN_STOCK"   -> add_return_stock_tr(a, r)
    [] r.business = "SELL_SHORT"     -> add_sell_short_tr(a, r)
    [] r.business = "BUY_SHORT"      -> add_buy_short_tr(a, r)
    [] OTHER                         -> a

(* Mutant: a record does not bring the account up to its own date.         *)
addTradeRecordAsIs(a, r) ==
  IF r.business = "INIT" THEN NewAccount(a.params) ELSE Book(a, r)

addTradeRecord(a, r) ==
  IF r.business = "INIT" THEN NewAccount(a.params)
  ELSE IF r.datetime < lastDatetime(a) THEN a
  ELSE LET b == updateWithWeight(a, r.datetime)
       IN IF r.business \in {"BUY", "CHECKIN_STOCK", "BORROW_STOCK", "SELL_SHORT"}
          THEN Book(DropFrontier(b, r.stock), r)
          ELSE Book(b, r)

----------------------------------------------------------------------------
(* The object and its handlers as actions.                                 *)

TMInit == \E profile \in Profiles :
          /\ client = profile
          /\ tm = NewAccount(profile.params)

(* A call of `handler` dated d; a call dated before the last trade is      *)
(* refused before it does anything.                                        *)
MayCall(handler, d) ==
  /\ handler \in client.calls
  /\ d <= client.lastDay
  /\ Len(tm.m_trade_list) < client.records
  /\ Chronological => d >= tm.m_last_update_datetime
  /\ d >= lastDatetime(tm)

Checkin == \E d \in Days, cash \in Cashes :
  /\ MayCall("checkin", d)
  /\ tm' = checkin(updateWithWeight(tm, d), d, cash)
  /\ UNCHANGED client

Checkout == \E d \in Days, cash \in Cashes :
  /\ MayCall("checkout", d)
  /\ tm' = checkout(updateWithWeight(tm, d), d, cash)
  /\ UNCHANGED client

CheckinStock == \E d \in Days, s \in client.stocks, n \in Numbers :
  /\ MayCall("checkinStock", d)
  /\ tm' = checkinStock(updateWithWeight(tm, d), d, s, n)
  /\ UNCHANGED client

CheckoutStock == \E d \in Days, s \in client.stocks, n \in Numbers :
  /\ MayCall("checkoutStock", d)
  /\ tm' = checkoutStock(updateWithWeight(tm, d), d, s, n)
  /\ UNCHANGED client

BorrowCash == \E d \in Days, cash \in Cashes :
  /\ MayCall("borrowCash", d)
  /\ tm' = borrowCash(updateWithWeight(tm, d), d, cash)
  /\ UNCHANGED client

ReturnCash == \E d \in Days, cash \in Cashes :
  /\ MayCall("returnCash", d)
  /\ tm.m_loan_list # <<>>
  /\ d >= Last(tm.m_loan_list).datetime
  /\ tm' = returnCash(updateWithWeight(tm, d), d, cash)
  /\ UNCHANGED client

BorrowStock == \E d \in Days, s \in client.stocks, n \in Numbers :
  /\ MayCall("borrowStock", d)
  /\ tm' = borrowStock(updateWithWeight(tm, d), d, s, n)
  /\ UNCHANGED client

ReturnStockOf(s) == \E d \in Days, n \in Numbers :
  /\ MayCall("returnStock", d)
  /\ tm' = returnStock(updateWithWeight(tm, d), d, s, n)
  /\ UNCHANGED client
ReturnStock == \E s \in client.stocks : ReturnStockOf(s)

Buy == \E d \in Days, s \in client.stocks, n \in Numbers :
  /\ MayCall("buy", d)
  /\ tm' = buy(updateWithWeight(tm, d), d, s, n)
  /\ UNCHANGED client

(* sell and buyShort look for the position BEFORE the weight update.       *)
Sell == \E d \in Days, s \in client.stocks, n \in Numbers \cup {MaxDouble} :
  /\ MayCall("sell", d)
  /\ s \in DOMAIN tm.m_position
  /\ tm' = sell(updateWithWeight(tm, d), d, s, n)
  /\ UNCHANGED client

SellShort == \E d \in Days, s \in client.stocks, n \in Numbers :
  /\ MayCall("sellShort", d)
  /\ tm' = sellShort(updateWithWeight(tm, d), d, s, n)
  /\ UNCHANGED client

BuyShort == \E d \in Days, s \in client.stocks, n \in Numbers \cup {MaxDouble} :
  /\ MayCall("buyShort", d)
  /\ s \in DOMAIN tm.m_short_position
  /\ tm' = buyShort(updateWithWeight(tm, d), d, s, n)
  /\ UNCHANGED client

(* getHoldNumber, getShortHoldNumber, getDebtNumber, getDebtCash and cash  *)
(* change the account too: they bring it up to the date they ask about.    *)
Query == \E d \in Days :
  /\ MayCall("query", d)
  /\ tm' = updateWithWeight(tm, d)
  /\ UNCHANGED client

(* The records a client may bring: of any business, at the day's price and *)
(* with the cost the live handler would charge; the first one, INIT, starts *)
(* the account again.                                                      *)
StockRecord(d, s, n, business) ==
  TradeRecord(d, business, s, n, Price[d],
              IF business \in {"BUY", "SELL", "SELL_SHORT", "BUY_SHORT"}
              THEN TradeFee ELSE 0, 0)
CashRecord(d, cash, business) ==
  TradeRecord(d, business, NoStock, 0, cash,
              IF business = "BORROW_CASH" THEN LoanFee ELSE 0, 0)

AddTradeRecord == \E d \in Days :
  /\ MayCall("addTradeRecord", d)
  /\ \E r \in {InitRecord}
          \cup {StockRecord(d, s, n, business) :
                  s \in client.stocks, n \in Numbers,
                  business \in {"BUY", "SELL", "CHECKIN_STOCK", "CHECKOUT_STOCK",
                                "BORROW_STOCK", "RETURN_STOCK",
                                "SELL_SHORT", "BUY_SHORT"}}
          \cup {CashRecord(d, cash, business) :
                  cash \in Cashes,
                  business \in {"CHECKIN", "CHECKOUT", "BORROW_CASH", "RETURN_CASH"}} :
       tm' = addTradeRecord(tm, r)
  /\ UNCHANGED client

ResetAccount ==
  /\ "reset" \in client.calls
  /\ tm' = NewAccount(tm.params)
  /\ UNCHANGED client

(* Save and load: the date of the last update and the frontiers are not    *)
(* part of the archive; a loaded account starts with the constructor's.    *)
Reloaded(a) == [a EXCEPT !.m_last_update_datetime = 0,
                         !.m_tmp_weight_checked_until = [s \in Stocks |-> 0]]
ReloadAccount ==
  /\ "reload" \in client.calls
  /\ tm' = Reloaded(tm)
  /\ UNCHANGED client

TMNext ==
  \/ Checkin \/ Checkout \/ CheckinStock \/ CheckoutStock
  \/ BorrowCash \/ ReturnCash \/ BorrowStock \/ ReturnStock
  \/ Buy \/ Sell \/ SellShort \/ BuyShort \/ AddTradeRecord
  \/ Query \/ ResetAccount \/ ReloadAccount

TMvars == <<tm, client>>
TMSpec == TMInit /\ [][TMNext]_TMvars

----------------------------------------------------------------------------
(* The answers the account gives about the past: each replays the log up   *)
(* to the day asked about.                                                 *)

Signed(r, s, plus, minus) == IF r.stock # s THEN 0
                             ELSE IF r.business \in plus THEN r.number
                             ELSE IF r.business \in minus THEN -r.number
                             ELSE 0

Replay(a, s, d, plus, minus) ==
  LET log == a.m_trade_list
  IN Total([i \in DOMAIN log |->
              IF log[i].datetime > d THEN 0 ELSE Signed(log[i], s, plus, minus)])

(* Mutant: a replay that forgets consolidations.                           *)
getHoldNumberNoSuogu(a, s, d) ==
  Replay(a, s, d, {"BUY", "GIFT", "CHECKIN_STOCK"}, {"SELL", "CHECKOUT_STOCK"})

getHoldNumber(a, s, d) ==
  Replay(a, s, d, {"BUY", "GIFT", "CHECKIN_STOCK", "SUOGU"},
         {"SELL", "CHECKOUT_STOCK"})
getShortHoldNumber(a, s, d) ==
  Replay(a, s, d, {"SELL_SHORT", "SHORT_ADJUST"}, {"BUY_SHORT"})
getDebtNumber(a, s, d) ==
  Replay(a, s, d, {"BORROW_STOCK", "BORROW_ADJUST"}, {"RETURN_STOCK"})
SignedCash(r) == IF r.business = "BORROW_CASH" THEN r.realPrice
                 ELSE IF r.business = "RETURN_CASH" THEN -r.realPrice
                 ELSE 0
getDebtCash(a, d) ==
  LET log == a.m_trade_list
  IN Total([i \in DOMAIN log |->
              IF log[i].datetime > d THEN 0 ELSE SignedCash(log[i])])

----------------------------------------------------------------------------
(* Properties.                                                             *)

(* What the log says of the last day is what the account holds: long,      *)
(* short, stock owed and cash owed.                                        *)
HoldingsMatch ==
  LET d == lastDatetime(tm)
  IN /\ \A s \in Stocks :
          /\ getHoldNumber(tm, s, d) = NumberIn(tm.m_position, s)
          /\ getShortHoldNumber(tm, s, d) = NumberIn(tm.m_short_position, s)
          /\ getDebtNumber(tm, s, d) = NumberIn(tm.m_borrow_stock, s)
     /\ getDebtCash(tm, d) = tm.m_borrow_cash

(* What a record did to the cash.                                          *)
CashEffect(r) ==
  LET money == r.realPrice * r.number
  IN CASE r.business \in {"BUY", "BUY_SHORT"}   -> -money - r.cost
       [] r.business \in {"SELL", "SELL_SHORT"} -> money - r.cost
       [] r.business \in {"CHECKIN", "BORROW_CASH", "BONUS"} -> r.realPrice - r.cost
       [] r.business \in {"CHECKOUT", "RETURN_CASH", "DIVIDEND_COMPENSATION"}
            -> -r.realPrice - r.cost
       [] OTHER -> -r.cost

(* The cash column of the log is a running balance that ends at m_cash.    *)
CashMatches ==
  /\ \A i \in 2 .. Len(tm.m_trade_list) :
       tm.m_trade_list[i].cash =
         tm.m_trade_list[i - 1].cash + CashEffect(tm.m_trade_list[i])
  /\ Last(tm.m_trade_list).cash = tm.m_cash

(* The log and the account are one story: the branch of getHoldNumber and  *)
(* its siblings that replays the log agrees with the live one where they   *)
(* meet, and each record's cash, from which cash(date) and getFunds(date)  *)
(* answer, is the one before it changed by that record alone.              *)
LogMatchesAccount == HoldingsMatch /\ CashMatches

(* The lists that say whom the debts are owed to add up to the totals that *)
(* returnCash and returnStock are checked against, whatever the mix of     *)
(* partial repayments, automatic ones and ex-rights adjustments.           *)
DebtListsAddUp ==
  /\ LoanTotal(tm.m_loan_list) = tm.m_borrow_cash
  /\ \A i \in DOMAIN tm.m_loan_list : tm.m_loan_list[i].value > 0
  /\ \A s \in DOMAIN tm.m_borrow_stock :
       LotTotal(tm.m_borrow_stock[s].record_list)
         = tm.m_borrow_stock[s].number * tm.m_borrow_stock[s].unit

(* Double entry: the cash is what was paid in, plus what is owed, plus     *)
(* what every position, open or closed, brought in over what it cost, less *)
(* the fees and the dividends paid to lenders.  No handler creates or      *)
(* destroys money in the books the performance report is computed from.    *)
Gain(pos) == pos.sellMoney - pos.buyMoney - pos.totalCost
GainIn(map, s) == IF s \in DOMAIN map THEN Gain(map[s]) ELSE 0
OpenGain(map) == Total([i \in DOMAIN StockSeq |-> GainIn(map, StockSeq[i])])
ClosedGain(history) == Total([i \in DOMAIN history |-> Gain(history[i])])
DebtCost(r) ==
  IF r.business = "DIVIDEND_COMPENSATION" THEN r.realPrice
  ELSE IF r.business \in {"BORROW_CASH", "RETURN_CASH",
                          "BORROW_STOCK", "RETURN_STOCK"} THEN r.cost
  ELSE 0
DebtCosts(log) == Total([i \in DOMAIN log |-> DebtCost(log[i])])
CashBalances ==
  tm.m_cash =
    (tm.m_checkin_cash - tm.m_checkout_cash)
    + (tm.m_checkin_stock - tm.m_checkout_stock)
    + tm.m_borrow_cash
    + OpenGain(tm.m_position) + ClosedGain(tm.m_position_history)
    + OpenGain(tm.m_short_position) + ClosedGain(tm.m_short_position_history)
    - DebtCosts(tm.m_trade_list)

(* The ledgers balance, in cash and in debts.                              *)
BooksBalance == CashBalances /\ DebtListsAddUp

(* The account addTradeRecord makes of a's own log.                        *)
Rebuilt(a) ==
  LET log == a.m_trade_list
      upTo[i \in 0 .. Len(log)] ==
        IF i = 0 THEN NewAccount(a.params) ELSE addTradeRecord(upTo[i - 1], log[i])
  IN upTo[Len(log)]

(* An account rebuilt by addTradeRecord from its own log is the same        *)
(* account, in every position, debt, total and record, although the log    *)
(* was written by handlers that borrow and repay on their own and by lazy  *)
(* updates over several days, and the records of ex-rights events are      *)
(* ignored on the way (the comment at TradeManager.cpp:2619).  Only the    *)
(* memory of how far ex-rights events were looked for may differ.          *)
RebuiltFromLog == Reloaded(Rebuilt(tm)) = Reloaded(tm)

(* The reference for the lazy update: the holding at the end of a day is   *)
(* yesterday's, changed by today's ex-rights event and then by today's     *)
(* trades, day by day, with no cache, frontier or log of adjustments.      *)
EagerHolding(a, s, day, plus, minus) ==
  LET Event(n, d)  == IF d \in DOMAIN Weights[s] THEN AfterEvent(n, Weights[s][d])
                      ELSE n
      Trades(d)    == Replay(a, s, d, plus, minus) - Replay(a, s, d - 1, plus, minus)
      hold[d \in 0 .. MaxDay] ==
        IF d = 0 THEN 0 ELSE Event(hold[d - 1], d) + Trades(d)
  IN hold[day]

EagerlyRight(day) ==
  \A s \in Stocks :
     /\ NumberIn(tm.m_position, s)
          = EagerHolding(tm, s, day, {"BUY", "CHECKIN_STOCK"},
                         {"SELL", "CHECKOUT_STOCK"})
     /\ NumberIn(tm.m_short_position, s)
          = EagerHolding(tm, s, day, {"SELL_SHORT"}, {"BUY_SHORT"})
     /\ NumberIn(tm.m_borrow_stock, s)
          = EagerHolding(tm, s, day, {"BORROW_STOCK"}, {"RETURN_STOCK"})

(* Every ex-rights event up to the last update has reached every holding   *)
(* exactly once, in date order with the trades around it, when calls come  *)
(* in date order: the lazy update with its frontiers and early return is   *)
(* as good as an eager one, and a reload, which forgets both, makes no     *)
(* event count again.                                                      *)
ExRightsExactlyOnce ==
  EagerlyRight(Max({lastDatetime(tm), tm.m_last_update_datetime}))

(* History is final: no step changes what the log answers for a day before *)
(* its last date, except a reset, which starts a new log.                  *)
HistoryIsFinal ==
  [][\/ tm'.m_trade_list = <<InitRecord>>
     \/ \A d \in 0 .. lastDatetime(tm) - 1 :
          /\ \A s \in Stocks :
               /\ getHoldNumber(tm', s, d) = getHoldNumber(tm, s, d)
               /\ getShortHoldNumber(tm', s, d) = getShortHoldNumber(tm, s, d)
               /\ getDebtNumber(tm', s, d) = getDebtNumber(tm, s, d)
          /\ getDebtCash(tm', d) = getDebtCash(tm, d)]_tm

(* A short position stays covered by borrowed stock (the comment at        *)
(* TradeManager.cpp:1128 calls anything else an inconsistent account).  A  *)
(* step that uncovers stock s is a client's own returnStock of s, which    *)
(* does not look at the short position, or brings a record made elsewhere. *)
(* Neither sellShort, with or without automatic borrowing, nor buyShort,   *)
(* whose automatic return may take away no more than the sale bought back, *)
(* nor an ex-rights event does, which rounds debt and short separately.    *)
CoverLostOnlyByReturn ==
  [][\A s \in Stocks :
       Unsold(tm, s) >= 0 /\ Unsold(tm', s) < 0
         => ReturnStockOf(s) \/ AddTradeRecord]_tm
====
