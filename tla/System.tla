------------------------------- MODULE System -------------------------------
(***************************************************************************)
(* The trading system of one stock (trade_sys/system/System.cpp): on every *)
(* bar the requests delayed so far are served at the open, and at the      *)
(* close the environment, the condition, the signal and the exits decide   *)
(* on one trade, which is made now or delayed.                             *)
(*                                                                         *)
(* The parts a system is built from are external.  The environment, the    *)
(* condition and the signal answer anything; the money manager asks for    *)
(* any size, or for everything when the environment or the condition       *)
(* forces an exit; the trade manager refuses a size below a lot or above   *)
(* the maximum and, short of cash, any purchase.  Prices are not adjusted, *)
(* valid and taken from a small set, and no ex-rights event changes a      *)
(* position; a trade is given up for a passed stop-loss level like for a   *)
(* refusal.                                                                *)
(***************************************************************************)
EXTENDS Naturals, Sequences

CONSTANTS
  Params,          \* the parameter settings a system may be created with
  MaxDelayCount,   \* the parameter max_delay_count
  MinTrade,        \* the lot, minTradeNumber of the stock
  MaxTrade,        \* the most of one order, maxTradeNumber of the stock
  Prices,          \* bound: the prices
  MaxHold,         \* bound: the size of a position
  MaxRequests,     \* bound: how many requests wait together
  Bars             \* bound: the kinds of bars

(* A bar: one price or a range of prices; on a board of one price the move *)
(* from the close before, if there is one; whether there was any volume.   *)
Bar == [onePrice : BOOLEAN, move : {"up", "down", "none", "first"}, volume : BOOLEAN]

(* What of a system's parameters and parts matters here.                   *)
Setting == [ev : BOOLEAN, cn : BOOLEAN, buy_delay : BOOLEAN, sell_delay : BOOLEAN,
            can_trade_when_high_eq_low : BOOLEAN, support_borrow_stock : BOOLEAN,
            delay_use_current_price : BOOLEAN, ev_open_position : BOOLEAN,
            cn_open_position : BOOLEAN, tp_monotonic : BOOLEAN,
            ignore_sell_sg : BOOLEAN,
            disable_ev_force_clean_position : BOOLEAN,
            disable_cn_force_clean_position : BOOLEAN]

ASSUME SystemAssumption ==
  /\ Params \subseteq Setting
  /\ {MaxDelayCount, MaxTrade, MaxHold, MaxRequests} \subseteq Nat
  /\ MinTrade \in Nat \ {0}
  /\ Prices \subseteq Nat \ {0}
  /\ Bars \subseteq Bar

VARIABLES
  param,           \* the parameters and which of the parts EV, CN are there
  book,            \* the positions of the stock and the take-profit ratchets
  requests,        \* the four request lists
  m_pre_ev_valid, m_pre_cn_valid,
  bar,             \* the current bar
  stage,           \* what was done last: the bar's open or its close
  cleared,         \* history: sells were cleared since the last close
  refused          \* history: what is held could not be sold for its size,
                   \* since the last close

vars == <<param, book, requests, m_pre_ev_valid, m_pre_cn_valid, bar, stage,
          cleared, refused>>

Sides     == {"sell", "sellShort", "buy", "buyShort"}
Entries   == {"buy", "sellShort"}
Purchases == {"buy", "buyShort"}
Shorts    == {"sellShort", "buyShort"}
Parts     == {"environment", "condition", "other"}

All   == MaxHold + 1                    \* MAX_DOUBLE: the whole position
Sizes == 0 .. MaxHold

NoBar == [onePrice |-> FALSE, move |-> "none", volume |-> FALSE]

Flat       == [long |-> 0, short |-> 0,
               m_lastTakeProfit |-> 0, m_lastShortTakeProfit |-> 0]
NoRequests == [s \in Sides |-> <<>>]

Init ==
  /\ param \in Params
  /\ book = Flat /\ requests = NoRequests
  /\ m_pre_ev_valid = ~param.ev /\ m_pre_cn_valid = ~param.cn
  /\ bar = NoBar /\ stage = "new" /\ cleared = FALSE /\ refused = FALSE

Least(a, b)    == IF a < b THEN a ELSE b
Greatest(a, b) == IF a > b THEN a ELSE b

Waiting == Len(requests["sell"]) + Len(requests["sellShort"])
           + Len(requests["buy"]) + Len(requests["buyShort"])

----------------------------------------------------------------------------
(* What a trade does to the book.                                          *)

Bought(b, n, p) ==
  [b EXCEPT !.long = @ + n, !.m_lastTakeProfit = Greatest(@, p)]

(* Mutant: any sale resets the ratchet.                                    *)
SoldAndReset(b, n) == [b EXCEPT !.long = @ - n, !.m_lastTakeProfit = 0]

Sold(b, n) ==
  [b EXCEPT !.long = @ - n,
            !.m_lastTakeProfit = IF b.long = n THEN 0 ELSE @]

SoldShort(b, n, p) ==
  [b EXCEPT !.short = @ + n,
            !.m_lastShortTakeProfit = IF @ = 0 \/ p < @ THEN p ELSE @]

Covered(b, n) ==
  [b EXCEPT !.short = @ - n,
            !.m_lastShortTakeProfit = IF b.short = n THEN 0 ELSE @]

Traded(side, b, n, p) ==
  IF n = 0 THEN b
  ELSE CASE side = "buy"       -> Bought(b, n, p)
         [] side = "sell"      -> Sold(b, n)
         [] side = "sellShort" -> SoldShort(b, n, p)
         [] side = "buyShort"  -> Covered(b, n)

CoverSize(b, n) == Least(n, b.short)

(* The whole lots in a size.                                               *)
Aligned(n) == n - (n % MinTrade)

(* The sizes the trade manager refuses in any order: less than a lot, or   *)
(* more than the maximum, unless the order is for everything.              *)
Refused(n) == n # All /\ (n < MinTrade \/ n > MaxTrade)

(* The sizes that can come of an order for n: a purchase is cut to lots, a *)
(* cover to the position; the trade manager rejects a sale of more than    *)
(* the position, and refuses what the cash does not pay for.               *)
Fills(side, b, n) ==
  CASE side = "sell" ->
         {IF n = All THEN b.long ELSE IF Refused(n) \/ n > b.long THEN 0 ELSE n}
    [] side = "buyShort" ->
         {0} \cup {m \in {CoverSize(b, n)} : ~Refused(m)}
    [] side = "buy" ->
         {0} \cup {m \in Sizes : m = Aligned(n) /\ ~Refused(m) /\ b.long + m <= MaxHold}
    [] side = "sellShort" ->
         {0} \cup {m \in Sizes : m = n /\ ~Refused(m) /\ b.short + m <= MaxHold}

(* The environment and the condition force an exit unless the money        *)
(* manager was told otherwise.                                             *)
ForcesOut(from) ==
  \/ from = "environment" /\ ~param.disable_ev_force_clean_position
  \/ from = "condition" /\ ~param.disable_cn_force_clean_position

(* The sizes the money manager may ask for: lots or the maximum to enter,  *)
(* everything when forced out, and otherwise anything, a sale cut to the   *)
(* maximum and not to lots.                                                *)
Asked(side, from) ==
  IF side \in Entries
  THEN {n \in Sizes : n <= MaxTrade /\ (n = Aligned(n) \/ n = MaxTrade)}
  ELSE IF ForcesOut(from) THEN {All}
  ELSE {All} \cup {n \in Sizes : side = "sell" => n <= MaxTrade}

Outcomes(side, b, asked, p) ==
  {Traded(side, b, n, p) : n \in UNION {Fills(side, b, a) : a \in asked}}

----------------------------------------------------------------------------
(* When a trade waits: a one-price board at its limit, or no volume.       *)

Locked(side, day) ==
  /\ day.onePrice
  /\ day.move \in {"first", IF side \in Purchases THEN "up" ELSE "down"}

(* At the open, for the requests of a side.                                *)
WaitsAtOpen(side, day) ==
  \/ ~day.volume
  \/ ~param.can_trade_when_high_eq_low /\ Locked(side, day)

(* At the close, for a new trade; on a one-price board that may be traded  *)
(* the volume is not looked at.                                            *)
WaitsAtClose(side, day) ==
  \/ IF side \in Purchases THEN param.buy_delay ELSE param.sell_delay
  \/ /\ ~(day.onePrice /\ param.can_trade_when_high_eq_low)
     /\ \/ Locked(side, day)
        \/ ~day.volume
        \/ side = "sellShort" /\ day.onePrice

----------------------------------------------------------------------------
(* The request lists.                                                      *)

(* Mutant: no second request of a side.                                    *)
SubmitOne(rs, side, req) ==
  IF rs[side] = <<>> THEN [rs EXCEPT ![side] = <<req>>] ELSE rs

(* The size put into a request, if it will be used: a sale below the stop  *)
(* is for what is held now.                                                *)
SubmittedSizes(side, from, b) ==
  IF param.delay_use_current_price THEN {0}
  ELSE Asked(side, from) \cup (IF side = "sell" THEN {b.long} ELSE {})

Submit(rs, side, req) == [rs EXCEPT ![side] = Append(@, req)]

(* Mutant: the queued short sales survive.                                 *)
DropBuys(rs) == [rs EXCEPT !["buy"] = <<>>]

DropPendingEntries(rs) == [rs EXCEPT !["buy"] = <<>>, !["sellShort"] = <<>>]

(* The sizes a request may be filled with: by the prices of the fill, or   *)
(* as decided when it was submitted, a sale cut to the position and a      *)
(* purchase re-sized when the cash does not fit.                           *)
RequestAsks(side, b, req) ==
  IF param.delay_use_current_price THEN Asked(side, req.from)
  ELSE CASE side = "sell" -> {Least(req.number, b.long)}
         [] side = "buy"  -> IF req.number = 0 THEN {0} ELSE Asked("buy", req.from)
         [] OTHER         -> {req.number}

ServeOne(side, b, req, p) ==
  IF req.count > MaxDelayCount THEN {b}
  ELSE Outcomes(side, b, RequestAsks(side, b, req), p)

(* The books that can result from serving a whole list: every request      *)
(* leaves it, filled or not.                                               *)
Served(side, p) ==
  LET books[i \in 0 .. Len(requests[side])] ==
        IF i = 0 THEN {book}
        ELSE UNION {ServeOne(side, b, requests[side][i], p) : b \in books[i - 1]}
  IN  books[Len(requests[side])]

(* A list that waits for one more bar stays as it is.  A sale sized when   *)
(* it was asked for is sold by its number, also when that is all there is, *)
(* and is gone when the trade manager refuses the number.                  *)
Serve(side, day) ==
  IF WaitsAtOpen(side, day) THEN UNCHANGED <<book, requests, refused>>
  ELSE /\ \E p \in Prices : book' \in Served(side, p)
       /\ requests' = [requests EXCEPT ![side] = <<>>]
       /\ refused' = \/ refused
                     \/ /\ side = "sell" /\ ~param.delay_use_current_price
                        /\ book'.long > 0 /\ Refused(book'.long)

(* One list per bar, the cash generating side first.                       *)
FirstPending ==
  IF requests["sell"] # <<>>           THEN "sell"
  ELSE IF requests["sellShort"] # <<>> THEN "sellShort"
  ELSE IF requests["buy"] # <<>>       THEN "buy"
  ELSE "buyShort"

ProcessRequest(day) ==
  IF requests[FirstPending] = <<>> THEN UNCHANGED <<book, requests, refused>>
  ELSE Serve(FirstPending, day)

(* The first bar has no close before it.  A bar with inconsistent prices   *)
(* is left out, at its open.                                               *)
RunMomentOnOpen ==
  /\ stage # "open"
  /\ stage' = "open"
  /\ bar' \in {b \in Bars : b.move = "first" <=> stage = "new"}
  /\ \/ ProcessRequest(bar')
     \/ UNCHANGED <<book, requests, refused>>
  /\ UNCHANGED <<param, m_pre_ev_valid, m_pre_cn_valid, cleared>>

----------------------------------------------------------------------------
(* The close: one trade on the book b, with the lists rs, at the price p.  *)

Trade(side, from, b, rs, p) ==
  IF side \in Shorts /\ ~param.support_borrow_stock
  THEN book' = b /\ requests' = rs
  ELSE IF WaitsAtClose(side, bar)
  THEN /\ book' = b
       /\ \E n \in SubmittedSizes(side, from, b) :
            requests' = Submit(rs, side, [from |-> from, number |-> n, count |-> 0])
  ELSE /\ book' \in Outcomes(side, b, Asked(side, from), p)
       /\ requests' = IF side \in Shorts THEN [rs EXCEPT ![side] = <<>>] ELSE rs

(* The environment or the condition is invalid: leave the position.        *)
ForceExit(from, p) ==
  LET kept == DropPendingEntries(requests)
  IN IF book.long > 0       THEN Trade("sell", from, book, kept, p)
     ELSE IF book.short > 0 THEN Trade("buyShort", from, book, kept, p)
     ELSE UNCHANGED book /\ requests' = kept

(* The stop-loss or the goal is reached, or the take-profit level is       *)
(* ratcheted and then reached.                                             *)
RaisedLevel(level) ==
  IF param.tp_monotonic THEN Greatest(level, book.m_lastTakeProfit) ELSE level

LongExits(p) ==
  \/ Trade("sell", "other", book, requests, p)
  \/ UNCHANGED <<book, requests>>
  \/ \E level \in Prices :
       LET r == RaisedLevel(level)
           b == [book EXCEPT !.m_lastTakeProfit = r]
       IN \/ book' = b /\ UNCHANGED requests
          \/ p <= r /\ Trade("sell", "other", b, requests, p)

LoweredLevel(level) ==
  IF param.tp_monotonic /\ book.m_lastShortTakeProfit > 0
  THEN Least(level, book.m_lastShortTakeProfit) ELSE level

ShortExits(p) ==
  \/ Trade("buyShort", "other", book, requests, p)
  \/ UNCHANGED <<book, requests>>
  \/ \E level \in Prices :
       LET r == LoweredLevel(level)
           b == [book EXCEPT !.m_lastShortTakeProfit = r]
       IN \/ book' = b /\ UNCHANGED requests
          \/ p >= r /\ Trade("buyShort", "other", b, requests, p)

BuySignal(p) ==
  Trade(IF book.short > 0 THEN "buyShort" ELSE "buy", "other", book, requests, p)

SellSignal(p) ==
  Trade(IF book.long > 0 THEN "sell" ELSE "sellShort", "other", book, requests, p)

Exits(p) ==
  IF book.long > 0       THEN LongExits(p)
  ELSE IF book.short > 0 THEN ShortExits(p)
  ELSE UNCHANGED <<book, requests>>

(* The branches of the close, in their order.                              *)
Decide(ev, cn, p) ==
  IF ~ev THEN ForceExit("environment", p)
  ELSE IF param.ev /\ ~m_pre_ev_valid /\ param.ev_open_position
  THEN Trade("buy", "environment", book, requests, p)
  ELSE IF ~cn THEN ForceExit("condition", p)
  ELSE IF param.cn /\ ~m_pre_cn_valid /\ param.cn_open_position
  THEN Trade("buy", "condition", book, requests, p)
  ELSE \/ BuySignal(p)
       \/ ~param.ignore_sell_sg /\ SellSignal(p)
       \/ Exits(p)

RunMomentOnClose ==
  /\ stage = "open"
  /\ stage' = "close"
  /\ \E ev, cn \in BOOLEAN, p \in Prices :
       /\ param.ev \/ ev
       /\ param.cn \/ cn
       /\ m_pre_ev_valid' = ev /\ m_pre_cn_valid' = cn
       /\ Decide(ev, cn, p)
  /\ Waiting' <= MaxRequests
  /\ cleared' = FALSE /\ refused' = FALSE
  /\ UNCHANGED <<param, bar>>

----------------------------------------------------------------------------
(* What an aggregate system does to its sub-systems.                       *)

Flattened(b) ==
  [b EXCEPT !.m_lastTakeProfit      = IF b.long  = 0 THEN 0 ELSE @,
            !.m_lastShortTakeProfit = IF b.short = 0 THEN 0 ELSE @]

(* A forced sale is cut to lots, unless less than a lot would be left, and *)
(* is made by its number: the trade manager may refuse it.                 *)
ForcedNumber(n, held) ==
  IF n >= held \/ held - Aligned(n) < MinTrade THEN held ELSE Aligned(n)

SellForce ==
  /\ stage # "new"
  /\ \E n \in (Sizes \ {0}) \cup {All}, p \in Prices :
       LET side == IF book.long > 0 THEN "sell" ELSE "buyShort"
           held == IF book.long > 0 THEN book.long ELSE book.short
       IN  \E b \in Outcomes(side, book, {ForcedNumber(n, held)}, p) :
             book' = IF b = book THEN book ELSE Flattened(b)
  /\ UNCHANGED <<param, requests, m_pre_ev_valid, m_pre_cn_valid, bar, stage,
                 cleared, refused>>

PfProcessDelayRequest(side) ==
  /\ stage # "new"
  /\ requests[side] # <<>>
  /\ Serve(side, bar)
  /\ UNCHANGED <<param, m_pre_ev_valid, m_pre_cn_valid, bar, stage, cleared>>

ClearDelayBuyRequest ==
  /\ requests' = [requests EXCEPT !["buy"] = <<>>, !["buyShort"] = <<>>]
  /\ UNCHANGED <<param, book, m_pre_ev_valid, m_pre_cn_valid, bar, stage, cleared, refused>>

ClearDelaySellRequest ==
  /\ requests' = [requests EXCEPT !["sell"] = <<>>, !["sellShort"] = <<>>]
  /\ cleared' = TRUE
  /\ UNCHANGED <<param, book, m_pre_ev_valid, m_pre_cn_valid, bar, stage, refused>>

(* reset() of a system that owns its account.                              *)
Reset ==
  /\ book' = Flat /\ requests' = NoRequests
  /\ m_pre_ev_valid' = ~param.ev /\ m_pre_cn_valid' = ~param.cn
  /\ bar' = NoBar /\ stage' = "new" /\ cleared' = FALSE /\ refused' = FALSE
  /\ UNCHANGED param

Next ==
  \/ RunMomentOnOpen \/ RunMomentOnClose
  \/ SellForce \/ PfProcessDelayRequest("sell") \/ PfProcessDelayRequest("buy")
  \/ ClearDelayBuyRequest \/ ClearDelaySellRequest \/ Reset

Spec == Init /\ [][Next]_vars

----------------------------------------------------------------------------
(* Properties.                                                             *)

(* "The entry intent is void once the environment or the condition turns   *)
(* invalid" (line 633): no entry waits for a later open while one of them  *)
(* is invalid, but the one the environment itself asked for.               *)
EntriesVoidWhileInvalid ==
  /\ ~m_pre_ev_valid => requests["buy"] = <<>> /\ requests["sellShort"] = <<>>
  /\ ~m_pre_cn_valid =>
       /\ requests["sellShort"] = <<>>
       /\ \A i \in DOMAIN requests["buy"] : requests["buy"][i].from = "environment"

(* A long position found in an invalid environment is on its way out until *)
(* it is gone: limit boards, days without volume and requests queued       *)
(* before do not make the system forget it.  A sale sized when it was      *)
(* asked for may be refused for what is left, an odd lot or more than the  *)
(* maximum (lines 1356, 1365); the next close asks for it again.           *)
LiquidationPending ==
  ~m_pre_ev_valid /\ ~param.disable_ev_force_clean_position /\ book.long > 0 =>
    requests["sell"] # <<>> \/ cleared \/ refused

(* The take-profit levels are ratchets (docs/en/trade_sys/system.rst:293): *)
(* while a position is held its level never loosens, through add-ons,      *)
(* partial exits and delayed fills, and it is zero when, and only when,    *)
(* there is no position.                                                   *)
TakeProfitRatchet ==
  [][/\ book'.long = 0 <=> book'.m_lastTakeProfit = 0
     /\ book'.short = 0 <=> book'.m_lastShortTakeProfit = 0
     /\ param.tp_monotonic =>
          /\ book.long > 0 /\ book'.long > 0 =>
               book'.m_lastTakeProfit >= book.m_lastTakeProfit
          /\ book.short > 0 /\ book'.short > 0 =>
               book'.m_lastShortTakeProfit <= book.m_lastShortTakeProfit]_vars

(* To an aggregate the system is the sub-system of SubSystemContract:      *)
(* seen only by what is held, what is owed and which lists wait, it never  *)
(* does what the aggregate does not reckon with, a second list served at   *)
(* one open or an entry kept through a forced exit.                        *)
Contract == INSTANCE SubSystemContract
  WITH terms <- [buy_delay |-> param.buy_delay, sell_delay |-> param.sell_delay,
                 support_borrow_stock |-> param.support_borrow_stock],
       sub <- [long |-> book.long > 0, short |-> book.short > 0,
               pending |-> {s \in Sides : requests[s] # <<>>}]

ImplementsContract == Contract!Spec

=============================================================================
