--------------------------- MODULE MCMultiSystem ---------------------------
(* Small instances of MultiSystem: every combination of the switches with  *)
(* a selector, and one setting without; no stock is borrowed.              *)
EXTENDS MultiSystem

Settings ==
  [has_se : {TRUE}, trade_on_close : BOOLEAN, sell_at_not_selected : BOOLEAN,
   keep_watch_force_sell : BOOLEAN, support_borrow_stock : {FALSE}]

ForcedAtClose == [has_se |-> TRUE, trade_on_close |-> TRUE, sell_at_not_selected |-> TRUE,
                  keep_watch_force_sell |-> FALSE, support_borrow_stock |-> FALSE]

NoSelector == [ForcedAtClose EXCEPT !.has_se = FALSE]

AllSettings == Settings \cup {NoSelector}
=============================================================================
