----------------------------- MODULE SubSystem -----------------------------
(***************************************************************************)
(* What an aggregate system sees of a sub-system that trades one stock     *)
(* (trade_sys/system/System.cpp): whether it holds the stock, whether it   *)
(* owes it, and which of its request lists are not empty.  Sizes, prices   *)
(* and the parts that decide are left out: every operator gives all the    *)
(* states that can come of a call.  System implements them, see            *)
(* SubSystemContract.                                                      *)
(***************************************************************************)
EXTENDS Naturals

RequestLists == {"sell", "sellShort", "buy", "buyShort"}
ShortSides   == {"sellShort", "buyShort"}
EntrySides   == {"buy", "sellShort"}

SubState == [long : BOOLEAN, short : BOOLEAN, pending : SUBSET RequestLists]

FreshSub == [long |-> FALSE, short |-> FALSE, pending |-> {}]

(* A trade of a side is filled, in part, in full or not at all; a sale     *)
(* needs something to sell.                                                *)
Filled(c, side) ==
  {c} \cup CASE side = "buy"       -> {[c EXCEPT !.long = TRUE]}
             [] side = "sell"      -> {[c EXCEPT !.long = FALSE]}
             [] side = "sellShort" -> {[c EXCEPT !.short = TRUE]}
             [] side = "buyShort"  -> {[c EXCEPT !.short = FALSE]}

Without(c, sides) == [c EXCEPT !.pending = @ \ sides]

(* One list is served per bar, the cash generating side first; what is in  *)
(* it leaves it, unless the bar cannot be traded.                          *)
FirstPending(c) ==
  IF "sell" \in c.pending           THEN "sell"
  ELSE IF "sellShort" \in c.pending THEN "sellShort"
  ELSE IF "buy" \in c.pending       THEN "buy"
  ELSE "buyShort"

Served(c, side) ==
  IF side \in c.pending THEN {Without(d, {side}) : d \in Filled(c, side)} ELSE {}

Opened(c) == {c} \cup Served(c, FirstPending(c))

(* One trade at the close: it is put off to the next open when the side is *)
(* delayed or the bar cannot be traded.  A trade of the short side clears  *)
(* its list.                                                               *)
DelayOf(terms, side) ==
  IF side \in {"buy", "buyShort"} THEN terms.buy_delay ELSE terms.sell_delay

Traded(c, side, terms) ==
  IF side \in ShortSides /\ ~terms.support_borrow_stock THEN {c}
  ELSE {[c EXCEPT !.pending = @ \cup {side}]}
       \cup IF DelayOf(terms, side) THEN {}
            ELSE {Without(d, {side} \cap ShortSides) : d \in Filled(c, side)}

(* Forced out by the environment or the condition: the entries are void.   *)
ForcedExit(c, terms) ==
  LET kept == Without(c, EntrySides)
  IN IF c.long       THEN Traded(kept, "sell", terms)
     ELSE IF c.short THEN Traded(kept, "buyShort", terms)
     ELSE {kept}

(* Nothing to do; forced out; a part builds a position; a signal or an     *)
(* exit.                                                                   *)
Closed(c, terms) ==
  {c} \cup ForcedExit(c, terms)
      \cup Traded(c, "buy", terms)
      \cup Traded(c, IF c.short THEN "buyShort" ELSE "buy", terms)
      \cup Traded(c, IF c.long THEN "sell" ELSE "sellShort", terms)

(* sellForceOnOpen and sellForceOnClose for the whole position: any bar    *)
(* will do, whatever its board and its volume, but the account refuses a   *)
(* position below the lot or above the maximum of one trade.               *)
SoldOut(c, accepted) == IF accepted THEN [c EXCEPT !.long = FALSE] ELSE c
=============================================================================
