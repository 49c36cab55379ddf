------------------------------ MODULE MCSystem ------------------------------
(* Small instances of System: the default setting, which delays every      *)
(* trade, and settings that trade at the close, with fills sized when they *)
(* were asked for or when they are made.                                   *)
EXTENDS System

Default == [ev |-> TRUE, cn |-> TRUE, buy_delay |-> TRUE, sell_delay |-> TRUE,
            can_trade_when_high_eq_low |-> FALSE, support_borrow_stock |-> TRUE,
            delay_use_current_price |-> TRUE, ev_open_position |-> FALSE,
            cn_open_position |-> TRUE, tp_monotonic |-> TRUE,
            ignore_sell_sg |-> FALSE, disable_ev_force_clean_position |-> FALSE,
            disable_cn_force_clean_position |-> FALSE]

AtClose == [Default EXCEPT !.buy_delay = FALSE, !.sell_delay = FALSE,
                           !.ev_open_position = TRUE,
                           !.can_trade_when_high_eq_low = TRUE,
                           !.disable_cn_force_clean_position = TRUE]

Sized == [Default EXCEPT !.delay_use_current_price = FALSE, !.sell_delay = FALSE,
                         !.support_borrow_stock = FALSE, !.tp_monotonic = FALSE,
                         !.ignore_sell_sg = TRUE]

Bare == [Default EXCEPT !.ev = FALSE, !.cn = FALSE, !.buy_delay = FALSE,
                        !.cn_open_position = FALSE]

AllSettings == {Default, AtClose, Sized, Bare}

Board(move, volume) == [onePrice |-> TRUE, move |-> move, volume |-> volume]
Spread(move, volume) == [onePrice |-> FALSE, move |-> move, volume |-> volume]

(* A first bar, a normal one, the limit boards, a board at the last close, *)
(* and a suspended day.                                                    *)
Days == {Spread("first", TRUE), Spread("none", TRUE), Board("first", TRUE),
         Board("up", TRUE), Board("down", TRUE), Board("none", TRUE),
         Board("none", FALSE)}
=============================================================================
