----------------------------- MODULE TradeBooks -----------------------------
(***************************************************************************)
(* What the books of an account say: the terms in which TradeManager is    *)
(* proved correct.  Nothing here models code.  The log TELLS the account   *)
(* when the effects of its records sum to the account in every measure     *)
(* (Story); every handler appends records whose effects are what it did    *)
(* (Entry, Leads), and the ex-rights update one record per adjusted number *)
(* (Struck, Batch), so that Good is inductive.  OnTime adds that no event  *)
(* is late or counted twice.                                               *)
(***************************************************************************)
EXTENDS TradeManager

----------------------------------------------------------------------------
(* What an account is: every member in its type, every holding with        *)
(* shares, the lists of loans and of lots with their sums.                 *)

Pos == Nat \ {0}
Fields ==
  {"params", "m_cash", "m_checkin_cash", "m_checkout_cash", "m_checkin_stock",
   "m_checkout_stock", "m_borrow_cash", "m_loan_list", "m_borrow_stock",
   "m_trade_list", "m_position", "m_position_history", "m_short_position",
   "m_short_position_history", "m_tmp_weight_checked_until",
   "m_last_update_datetime"}
Shape(a) == a = [f \in Fields |-> a[f]]
Position == [stock : Stocks, number : Nat, totalNumber : Int,
             buyMoney : Int, totalCost : Int, sellMoney : Int]
Positions(map) ==
  /\ map = [s \in DOMAIN map |-> map[s]]
  /\ DOMAIN map \subseteq Stocks
  /\ \A s \in DOMAIN map : map[s] \in Position /\ map[s].stock = s /\ map[s].number > 0
Loan == [datetime : Nat, value : Pos]
Lot  == [datetime : Nat, number : Pos]
Debt == [number : Pos, unit : Pos, record_list : Seq(Lot)]
Debts(map) ==
  /\ map = [s \in DOMAIN map |-> map[s]]
  /\ DOMAIN map \subseteq Stocks
  /\ \A s \in DOMAIN map :
       /\ map[s] \in Debt
       /\ LotTotal(map[s].record_list) = map[s].number * map[s].unit

(* The records of the log; those of ex-rights events are set apart.        *)
EventBusinesses == {"BONUS", "GIFT", "SUOGU", "DIVIDEND_COMPENSATION",
                    "BORROW_ADJUST", "SHORT_ADJUST"}
Businesses == EventBusinesses \cup
  {"INIT", "CHECKIN", "CHECKOUT", "CHECKIN_STOCK", "CHECKOUT_STOCK", "BORROW_CASH",
   "RETURN_CASH", "BORROW_STOCK", "RETURN_STOCK", "BUY", "SELL", "SELL_SHORT",
   "BUY_SHORT"}
Record == [datetime : Nat, business : Businesses, stock : Stocks \cup {NoStock},
           number : Int, realPrice : Int, cost : Int, cash : Int]
IsAccount(a) ==
  /\ Shape(a)
  /\ a.m_cash \in Int /\ a.m_borrow_cash \in Int
  /\ a.m_checkin_cash \in Int /\ a.m_checkout_cash \in Int
  /\ a.m_checkin_stock \in Int /\ a.m_checkout_stock \in Int
  /\ a.m_loan_list \in Seq(Loan) /\ LoanTotal(a.m_loan_list) = a.m_borrow_cash
  /\ Debts(a.m_borrow_stock)
  /\ a.m_trade_list \in Seq(Record) /\ a.m_trade_list # <<>>
  /\ Positions(a.m_position) /\ a.m_position_history \in Seq(Position)
  /\ Positions(a.m_short_position) /\ a.m_short_position_history \in Seq(Position)
  /\ a.m_tmp_weight_checked_until \in [Stocks -> Nat]
  /\ a.m_last_update_datetime \in Nat

----------------------------------------------------------------------------
(* What a record tells of the account. A measure is a holding of a stock   *)
(* (long, short or owed), the cash, the loans, or the costs no position    *)
(* carries.                                                                *)

Sides == {"long", "short", "debt"}
Held(a, side) == IF side = "long" THEN a.m_position
                 ELSE IF side = "short" THEN a.m_short_position
                 ELSE a.m_borrow_stock
Num(a, side, s) == NumberIn(Held(a, side), s)

(* The businesses that add to a holding, by trade and by ex-rights event,  *)
(* and those that take from it.                                            *)
TradedIn(side) == IF side = "long" THEN {"BUY", "CHECKIN_STOCK"}
                  ELSE IF side = "short" THEN {"SELL_SHORT"}
                  ELSE {"BORROW_STOCK"}
Adjusted(side) == IF side = "long" THEN {"GIFT", "SUOGU"}
                  ELSE IF side = "short" THEN {"SHORT_ADJUST"}
                  ELSE {"BORROW_ADJUST"}
Minus(side) == IF side = "long" THEN {"SELL", "CHECKOUT_STOCK"}
               ELSE IF side = "short" THEN {"BUY_SHORT"}
               ELSE {"RETURN_STOCK"}
Plus(side) == TradedIn(side) \cup Adjusted(side)
Measures == (Sides \X Stocks) \cup ({"cash", "loan", "cost"} \X {NoStock})

(* What record r does to measure e, and what the account has of it.        *)
Effect(e, r) ==
  IF e[1] = "cash" THEN CashEffect(r)
  ELSE IF e[1] = "loan" THEN SignedCash(r)
  ELSE IF e[1] = "cost" THEN DebtCost(r)
  ELSE Signed(r, e[2], Plus(e[1]), Minus(e[1]))

(* The right hand side of CashBalances without the costs.                  *)
Net(a) == (a.m_checkin_cash - a.m_checkout_cash)
          + (a.m_checkin_stock - a.m_checkout_stock)
          + a.m_borrow_cash
          + OpenGain(a.m_position) + ClosedGain(a.m_position_history)
          + OpenGain(a.m_short_position) + ClosedGain(a.m_short_position_history)
Level(e, a) ==
  IF e[1] = "cash" THEN a.m_cash - InitCash
  ELSE IF e[1] = "loan" THEN a.m_borrow_cash
  ELSE IF e[1] = "cost" THEN Net(a) - a.m_cash
  ELSE Num(a, e[1], e[2])
Column(e, log) == [i \in 1 .. Len(log) |-> Effect(e, log[i])]
Cash == <<"cash", NoStock>>

(* The log in date order, with a running balance, tells it all.            *)
InOrder(log) == \A i, j \in 1 .. Len(log) :
                  i <= j => log[i].datetime <= log[j].datetime
RunningCash(log) ==
  /\ log[1].cash = InitCash
  /\ \A i \in 1 .. Len(log) : i > 1 => log[i].cash = log[i - 1].cash + Effect(Cash, log[i])
Story(a) == \A e \in Measures : Level(e, a) = Total(Column(e, a.m_trade_list))
Good(a) == /\ IsAccount(a)
           /\ InOrder(a.m_trade_list)
           /\ RunningCash(a.m_trade_list)
           /\ Last(a.m_trade_list).cash = a.m_cash
           /\ Story(a)

----------------------------------------------------------------------------
(* The handlers. Only ex-rights updates advance the calendar; a handler    *)
(* may drop the frontier of a stock.                                       *)

KeepsCalendar(a, b) ==
  /\ b.m_last_update_datetime = a.m_last_update_datetime
  /\ \A s \in Stocks : b.m_tmp_weight_checked_until[s]
                         \in {0, a.m_tmp_weight_checked_until[s]}

(* b is a with one more record, and has changed as that record tells.      *)
Entry(a, b, r) ==
  /\ IsAccount(b)
  /\ r \in Record
  /\ b.m_trade_list = Append(a.m_trade_list, r)
  /\ r.cash = b.m_cash
  /\ \A e \in Measures : Level(e, b) = Level(e, a) + Effect(e, r)
  /\ KeepsCalendar(a, b)

(* An account with the same books.                                         *)
Quiet(a, b) ==
  /\ IsAccount(b)
  /\ b.m_trade_list = a.m_trade_list /\ b.m_cash = a.m_cash
  /\ \A e \in Measures : Level(e, b) = Level(e, a)
  /\ KeepsCalendar(a, b)

(* The gains of a map of positions, stock by stock.                        *)
Gains(map) == [i \in DOMAIN StockSeq |-> GainIn(map, StockSeq[i])]
Grown(pos, n, buyMoney, cost, sellMoney) ==
  [pos EXCEPT !.number = @ + n, !.totalNumber = @ + n, !.buyMoney = @ + buyMoney,
              !.totalCost = @ + cost, !.sellMoney = @ + sellMoney]

(* The amounts of a list whose entries count them in a field.              *)
Amounts(list, field) == [i \in DOMAIN list |-> list[i][field]]

(* The entries of a list that Repay can take from.                         *)
Counting(list, field, E) ==
  /\ list \in Seq(E)
  /\ \A x \in E : x[field] \in Pos
  /\ \A x \in E, n \in Pos : [x EXCEPT ![field] = n] \in E /\ [x EXCEPT ![field] = n][field] = n

(* The right hand side of CashBalances in its three parts.                 *)
CashPart(a) == (a.m_checkin_cash - a.m_checkout_cash) + a.m_borrow_cash
LongPart(a) == ((a.m_checkin_stock - a.m_checkout_stock) + OpenGain(a.m_position))
               + ClosedGain(a.m_position_history)
ShortPart(a) == OpenGain(a.m_short_position) + ClosedGain(a.m_short_position_history)

(* The four kinds of booking of a record r.                                *)
CashBooked(a, r, in, out, borrowed, loans) ==
  [a EXCEPT !.m_cash = r.cash, !.m_trade_list = Append(@, r),
            !.m_checkin_cash = in, !.m_checkout_cash = out,
            !.m_borrow_cash = borrowed, !.m_loan_list = loans]
LongBooked(a, r, in, out, map, history) ==
  [a EXCEPT !.m_cash = r.cash, !.m_trade_list = Append(@, r),
            !.m_checkin_stock = in, !.m_checkout_stock = out,
            !.m_position = map, !.m_position_history = history]
ShortBooked(a, r, map, history) ==
  [a EXCEPT !.m_cash = r.cash, !.m_trade_list = Append(@, r),
            !.m_short_position = map, !.m_short_position_history = history]
DebtBooked(a, r, map) ==
  [a EXCEPT !.m_cash = r.cash, !.m_trade_list = Append(@, r),
            !.m_borrow_stock = map]

(* A position with fewer shares, closed when none is left.                 *)
Moved(map, history, new, older, s, n, gain) ==
  /\ Positions(new) /\ older \in Seq(Position)
  /\ NumberIn(new, s) = NumberIn(map, s) - n
  /\ \A x : x # s => NumberIn(new, x) = NumberIn(map, x)
  /\ OpenGain(new) + ClosedGain(older) = (OpenGain(map) + ClosedGain(history)) + gain

(* A handler enters one record of its business, of n shares of s.          *)
Posts(a, b, d, business) ==
  \E r : /\ Entry(a, b, r)
         /\ r.datetime = d /\ r.business = business /\ r.number \in Nat
PostsOf(a, b, d, business, s, n) ==
  \E r : /\ Entry(a, b, r) /\ r.datetime = d /\ r.business = business
         /\ r.stock = s /\ r.number = n
Stamped(r, cash) == [r EXCEPT !.cash = cash]

(* A record booked on a is its stamp, entered.                             *)
Books(a, b, r) == \E cash \in Int : Entry(a, b, Stamped(r, cash))

(* A handler only adds records of its day, none of an ex-rights event.     *)
OfDay(recs, d) == \A i \in 1 .. Len(recs) : recs[i].datetime = d
                                            /\ recs[i].business \notin EventBusinesses
Leads(a, b, d) ==
  /\ Good(b) /\ KeepsCalendar(a, b)
  /\ lastDatetime(b) \in {lastDatetime(a), d}
  /\ \E recs \in Seq(Record) : /\ b.m_trade_list = a.m_trade_list \o recs
                               /\ OfDay(recs, d)

(* No short position loses its cover, or none but that of s.               *)
Covers(a, b) == \A s \in Stocks : Unsold(a, s) >= 0 => Unsold(b, s) >= 0
CoversBut(a, b, s) == \A t \in Stocks \ {s} : Unsold(a, t) >= 0 => Unsold(b, t) >= 0
Safe(a, b, d) == Leads(a, b, d) /\ Covers(a, b)

(* An account that may be called on day d.                                 *)
Ready(a, d) == Good(a) /\ d \in Days /\ d \in Nat /\ d >= lastDatetime(a)

(* The records a client may bring to addTradeRecord.                       *)
StockBusinesses == {"BUY", "SELL", "CHECKIN_STOCK", "CHECKOUT_STOCK", "BORROW_STOCK",
                    "RETURN_STOCK", "SELL_SHORT", "BUY_SHORT"}
CashBusinesses == {"CHECKIN", "CHECKOUT", "BORROW_CASH", "RETURN_CASH"}
Brought(r) ==
  /\ r \in Record /\ r.datetime \in Days
  /\ \/ /\ r.business \in StockBusinesses /\ r.stock \in Stocks /\ r.number \in Pos
        /\ r.business \in {"CHECKIN_STOCK", "CHECKOUT_STOCK"} => r.cost = 0
     \/ /\ r.business \in CashBusinesses /\ r.stock = NoStock /\ r.realPrice \in Pos

----------------------------------------------------------------------------
(* The ex-rights update. The records an event leaves of a holding of n of  *)
(* s.                                                                      *)

Dividend(side) == IF side = "long" THEN "BONUS"
                  ELSE IF side = "short" THEN ""
                  ELSE "DIVIDEND_COMPENSATION"
Gift(side) == IF side = "long" THEN "GIFT"
              ELSE IF side = "short" THEN "SHORT_ADJUST"
              ELSE "BORROW_ADJUST"
Suogu(side) == IF side = "long" THEN "SUOGU"
               ELSE IF side = "short" THEN "SHORT_ADJUST"
               ELSE "BORROW_ADJUST"
SideRecords(side, s, n, k) ==
  EventRecords(s, n, k, Dividend(side), Gift(side), Suogu(side))

(* What an event w does to a measure of the account through a holding of n. *)
SideEffect(e, side, s, n, w) ==
  IF e = <<side, s>> THEN AfterEvent(n, w) - n
  ELSE IF e = Cash THEN IF side = "long" THEN n * w.bonus
                        ELSE IF side = "debt" THEN 0 - n * w.bonus
                        ELSE 0
  ELSE IF e[1] = "cost" /\ side = "debt" THEN n * w.bonus
  ELSE 0

(* A record of an event of day k.                                          *)
EventOf(r, k) == r.datetime = k /\ r.business \in EventBusinesses /\ r.cost = 0

(* The parts an event leaves alone.                                        *)
SameFrame(a, b) ==
  /\ b.m_trade_list = a.m_trade_list
  /\ b.m_last_update_datetime = a.m_last_update_datetime
  /\ b.m_tmp_weight_checked_until = a.m_tmp_weight_checked_until
  /\ DOMAIN b.m_position = DOMAIN a.m_position
  /\ DOMAIN b.m_borrow_stock = DOMAIN a.m_borrow_stock
  /\ DOMAIN b.m_short_position = DOMAIN a.m_short_position

(* b is the account a after the event w on its holding of n shares of s.   *)
Struck(a, b, side, s, n, w) ==
  /\ IsAccount(b) /\ SameFrame(a, b)
  /\ \A e \in Measures : Level(e, b) = Level(e, a) + SideEffect(e, side, s, n, w)

(* A record of an event of a day after the account's last trade, not after *)
(* day k.                                                                  *)
Recent(a, d, k, r) ==
  /\ r.business \in EventBusinesses /\ r.cost = 0
  /\ lastDatetime(a) < r.datetime /\ r.datetime <= k /\ r.datetime <= d

(* b is the account a under way on day k of an update to d, with the       *)
(* records so far: they tell what the events have changed.                 *)
Batch(a, d, k, b) ==
  /\ b = [tm |-> b.tm, recs |-> b.recs]
  /\ IsAccount(b.tm) /\ SameFrame(a, b.tm)
  /\ b.recs \in Seq(Record)
  /\ \A i \in 1 .. Len(b.recs) : Recent(a, d, k, b.recs[i])
  /\ InOrder(b.recs)
  /\ \A e \in Measures : Level(e, b.tm) = Level(e, a) + Total(Column(e, b.recs))

(* What day k of an update makes of a holding of n shares of s.            *)
OnDay(a, d, k, s, n) ==
  IF k \in getWeight(a, s, d) THEN AfterEvent(n, Weights[s][k]) ELSE n

(* The records y are the records x and then some of day k.                 *)
Grows(x, y, k) == /\ Len(x) <= Len(y)
                  /\ \A i \in 1 .. Len(x) : y[i] = x[i]
                  /\ \A i \in 1 .. Len(y) : i > Len(x) => y[i].datetime = k

(* The batches of an update, day by day.                                   *)
DayByDay(f, a, d) ==
  /\ \A k \in 0 .. MaxDay : Batch(a, d, k, f[k])
  /\ f[0].tm = a
  /\ \A k \in 1 .. MaxDay, side \in Sides, s \in Stocks :
        Num(f[k].tm, side, s) = OnDay(a, d, k, s, Num(f[k - 1].tm, side, s))
  /\ \A k \in 1 .. MaxDay : Grows(f[k - 1].recs, f[k].recs, k)

(* u is a brought up to day d.                                             *)
UpdatedTo(a, u, d) ==
  /\ Good(u) /\ Covers(a, u)
  /\ DOMAIN u.m_position = DOMAIN a.m_position
  /\ DOMAIN u.m_short_position = DOMAIN a.m_short_position
  /\ \E recs \in Seq(Record) : /\ u.m_trade_list = a.m_trade_list \o recs
                               /\ \A i \in 1 .. Len(recs) : Recent(a, d, d, recs[i])

(* The stocks held, owed or short.                                         *)
AnyHeld(a) == (DOMAIN a.m_position \cup DOMAIN a.m_borrow_stock) \cup DOMAIN a.m_short_position

----------------------------------------------------------------------------
(* The invariants. A step only adds to the log, at its end.                *)

Moves(a, b) ==
  /\ Good(b)
  /\ \E recs \in Seq(Record) :
        /\ b.m_trade_list = a.m_trade_list \o recs
        /\ \A i \in 1 .. Len(recs) : recs[i].datetime >= lastDatetime(a)

(* The inductive invariant of the account.                                 *)
TMInv == Good(tm) /\ client \in Profiles

(* A call dated d is let through; it brings the account up to d and then   *)
(* does what its handler does.                                             *)
Called(d) == /\ Ready(tm, d) /\ Ready(updateWithWeight(tm, d), d)
             /\ Chronological => d >= tm.m_last_update_datetime

(* b is what some handler, or addTradeRecord, makes of the account.        *)
Handled(b) == \E d : Called(d) /\ Safe(updateWithWeight(tm, d), b, d)
Brings(b) == \E d : Called(d) /\ Leads(updateWithWeight(tm, d), b, d)

(* The effects of the records up to day d.                                 *)
Past(e, log, d) == [i \in 1 .. Len(log) |->
                      IF log[i].datetime > d THEN 0 ELSE Effect(e, log[i])]
Owing == <<"loan", NoStock>>

(* The eager reference: what the trades up to day k add up to, what the    *)
(* event of day k makes of n shares, and the holding the reference has at  *)
(* its end.                                                                *)
Dealt(a, side, s, k) == Replay(a, s, k, TradedIn(side), Minus(side))
Turn(s, n, k) == IF k \in DOMAIN Weights[s] THEN AfterEvent(n, Weights[s][k]) ELSE n
Eager(a, side, s, k) == EagerHolding(a, s, k, TradedIn(side), Minus(side))

(* The trades of s in a log, up to day d.                                  *)
Cut(log, s, d, plus, minus) ==
  [i \in 1 .. Len(log) |->
     IF log[i].datetime > d THEN 0 ELSE Signed(log[i], s, plus, minus)]

(* b has the log of a and then recs.                                       *)
Logs(a, b, recs) == recs \in Seq(Record) /\ b.m_trade_list = a.m_trade_list \o recs

(* Every holding is the reference's on the last day of the log, the events *)
(* between then and the last update change nothing, and no frontier is     *)
(* beyond the day after that update.                                       *)
Settled(a, side, s) ==
  /\ Num(a, side, s) = Eager(a, side, s, lastDatetime(a))
  /\ \A k \in DOMAIN Weights[s] :
       lastDatetime(a) < k /\ k <= a.m_last_update_datetime
         => AfterEvent(Num(a, side, s), Weights[s][k]) = Num(a, side, s)
OnTime(a) ==
  /\ lastDatetime(a) \in 0 .. MaxDay /\ a.m_last_update_datetime \in 0 .. MaxDay
  /\ \A s \in Stocks : a.m_tmp_weight_checked_until[s] <= a.m_last_update_datetime + 1
  /\ \A side \in Sides, s \in Stocks : Settled(a, side, s)
=============================================================================
