------------------------- MODULE SubSystemContract -------------------------
(***************************************************************************)
(* The contract of a sub-system towards the aggregate that drives it, over *)
(* the view SubSystem takes of it: at the open it serves one of its lists, *)
(* at the close it makes at most one trade, and in between the aggregate   *)
(* sells its position or clears its lists.  System implements it.          *)
(***************************************************************************)
EXTENDS SubSystem

VARIABLES
  terms,           \* which trades are delayed, and whether stock is borrowed
  sub              \* the sub-system

cvars == <<terms, sub>>

Terms == [buy_delay : BOOLEAN, sell_delay : BOOLEAN, support_borrow_stock : BOOLEAN]

Init == terms \in Terms /\ sub = FreshSub

Open  == sub' \in Opened(sub)
Close == sub' \in Closed(sub, terms)

(* A forced sale of a part, or the cover of a book that is only short.     *)
Force == sub' \in Filled(sub, IF sub.long THEN "sell" ELSE "buyShort")

Process(side) == sub' \in Served(sub, side)

ClearDelayed == \/ sub' = Without(sub, {"buy", "buyShort"})
                \/ sub' = Without(sub, {"sell", "sellShort"})

Reset == sub' = FreshSub

Next ==
  /\ Open \/ Close \/ Force \/ ClearDelayed \/ Reset
     \/ \E side \in {"buy", "sell"} : Process(side)
  /\ UNCHANGED terms

Spec == Init /\ [][Next]_cvars
=============================================================================
