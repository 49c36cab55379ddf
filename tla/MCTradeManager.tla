--------------------------- MODULE MCTradeManager ---------------------------
(* Small instances of TradeManager: two stocks, one paying a dividend with *)
(* bonus shares in a contraction and expanding a day later, which round up *)
(* and down, the other paying bonus shares.                                *)
EXTENDS TradeBooks

Event(bonus, gift, p, q) ==
  [bonus |-> bonus, gift |-> gift, suogu |-> <<p, q>>]

MCStockSeq == <<"A", "B">>
MCWeights  == [s \in {"A", "B"} |->
                 IF s = "A" THEN [d \in {2, 3} |-> IF d = 2 THEN Event(1, 1, 2, 3)
                                                   ELSE Event(0, 0, 3, 2)]
                 ELSE [d \in {2} |-> Event(0, 1, 0, 1)]]
MCPrice    == [d \in 1 .. 4 |-> IF d < 3 THEN 2 ELSE 1]

Profile(calls, stocks, lastDay, records, params) ==
  [calls |-> calls, stocks |-> stocks, lastDay |-> lastDay,
   records |-> records, params |-> params]

LongCalls   == {"checkout", "checkinStock", "checkoutStock", "buy", "sell",
                "query", "reset", "reload"}
MarginCalls == {"checkin", "borrowCash", "returnCash", "borrowStock",
                "returnStock", "buy", "sell", "sellShort", "buyShort", "query"}

MCProfiles ==
  {Profile(LongCalls, {"A", "B"}, 4, 4, {})}
  \cup {Profile({"addTradeRecord", "query"}, {"A"}, 2, 4, {})}
  \cup {Profile(MarginCalls, {"A"}, 2, 5, params) :
          params \in {{}, {"support_borrow_cash"}}}
  \cup {Profile(MarginCalls, {"A"}, 3, 5, {"support_borrow_stock"})}
====
