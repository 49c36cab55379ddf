---------------------------- MODULE MultiSystem ----------------------------
(***************************************************************************)
(* The aggregate trading system in mode C, the shared account              *)
(* (trade_sys/system/imp/MultiSystem.cpp): the selector admits sub-systems *)
(* to the running pool on rebalancing days; one that is no longer selected *)
(* and still holds goes to the force-sell pool, where it is sold out,      *)
(* watched or left alone.  Sub-systems trade on the account themselves;    *)
(* what they do is SubSystem's.                                            *)
(*                                                                         *)
(* The pools are sets: their order decides only who gets the shared cash   *)
(* first, and any purchase may fail for cash.  Every sub-system has a      *)
(* stock of its own.                                                       *)
(***************************************************************************)
EXTENDS SubSystem

CONSTANTS
  Subs,            \* the sub-systems
  Params           \* the settings the aggregate may be created with

ASSUME MultiSystemAssumption ==
  Params \subseteq [has_se : BOOLEAN, trade_on_close : BOOLEAN,
                    sell_at_not_selected : BOOLEAN,
                    keep_watch_force_sell : BOOLEAN,
                    support_borrow_stock : BOOLEAN]

VARIABLES
  param,           \* the settings
  sub,             \* the sub-systems
  running,         \* m_running_set, m_running_order
  forceSell,       \* m_force_sell_list
  delisted,        \* the sub-systems whose stock has had its last bar
  quoted,          \* the sub-systems whose stock has a bar today
  stage,           \* what was done last: the day's open or its close
  drives,          \* history: how often each was driven in the last stage
  unfollowed,      \* history: what was held when the pools were lost
  refused          \* history: members of the force-sell pool that a sweep could
                   \* not sell for the size of their position

pools == <<running, forceSell>>
vars == <<param, sub, running, forceSell, delisted, quoted, stage, drives, unfollowed,
          refused>>

Init ==
  /\ param \in Params
  /\ sub = [s \in Subs |-> FreshSub]
  /\ running = {} /\ forceSell = {} /\ delisted = {} /\ quoted = {}
  /\ stage = "close"
  /\ drives = [s \in Subs |-> 0]
  /\ unfollowed = {} /\ refused = {}

Holds(s) == sub[s].long

(* readyForRun: the sub-systems delay their trades when the aggregate does *)
(* not trade at the close.                                                 *)
terms == [buy_delay |-> ~param.trade_on_close, sell_delay |-> ~param.trade_on_close,
          support_borrow_stock |-> param.support_borrow_stock]

(* The force-sell pool is driven along: sold out at the open, or watched.  *)
FollowsForceSell == param.sell_at_not_selected \/ param.keep_watch_force_sell

(* The states of all the sub-systems, given those that each can reach.     *)
Each(reach) ==
  {f \in [Subs -> UNION {reach[s] : s \in Subs}] : \A s \in Subs : f[s] \in reach[s]}

(* Drives count for the sub-systems driven in the pools of a stage.        *)
Driven(first, second, third) ==
  LET once(pool, s) == IF s \in pool THEN 1 ELSE 0
  IN [s \in Subs |-> once(first, s) + once(second, s) + once(third, s)]

----------------------------------------------------------------------------
(* The open of a day.                                                      *)

(* _forceSellDelisted: a position in a stock past its last bar is sold at  *)
(* the last close, if the window still has one; a short is covered, if the *)
(* cash allows.                                                            *)
Delisted(s, c) ==
  IF s \in delisted
  THEN {[c EXCEPT !.long = FALSE, !.short = owed] : owed \in {FALSE, c.short}} \cup {c}
  ELSE {c}

(* Its system leaves the pools, whether it could be sold or not.           *)
InDeadPosition(s) == s \in delisted /\ (sub[s].long \/ sub[s].short)

Watched == {s \in forceSell : ~InDeadPosition(s)}

(* Mutant: the sweep asks for a sale like any other, which may come to     *)
(* nothing.                                                                *)
SweptByRequest(c, hasBar, accepted) ==
  IF param.sell_at_not_selected /\ hasBar THEN [c EXCEPT !.pending = @ \cup {"sell"}]
  ELSE c

(* The sweep: who holds no more leaves; who holds is sold, if there is a   *)
(* bar and the account accepts a sale of that size.                        *)
Swept(c, hasBar, accepted) ==
  IF param.sell_at_not_selected /\ hasBar THEN SoldOut(c, accepted) ELSE c

StillHeld == {s \in Watched : Holds(s)}

(* Whom the sweep tries to sell.                                           *)
Sweeping(bars) == IF param.sell_at_not_selected THEN StillHeld \cap bars ELSE {}

(* What the open makes of sub-system s when the pools first and second are *)
(* driven, each through its bar.                                           *)
OpenedBy(s, first, second, bars, refusing) ==
  LET swept  == {IF s \in StillHeld THEN Swept(c, s \in bars, s \notin refusing) ELSE c :
                   c \in Delisted(s, sub[s])}
      drive(cs, pool) == IF s \in pool \cap bars THEN UNION {Opened(c) : c \in cs} ELSE cs
  IN drive(drive(swept, first), second)

OpenDay(bars, refusing) ==
  LET first  == IF param.has_se /\ FollowsForceSell THEN StillHeld ELSE {}
      left   == {s \in running : ~InDeadPosition(s)}
      second == IF param.has_se THEN left ELSE Subs
  IN /\ stage = "close" /\ stage' = "open"
     /\ quoted' = bars
     /\ running' = left
     /\ forceSell' = StillHeld
     /\ sub' \in Each([s \in Subs |-> OpenedBy(s, first, second, bars, refusing)])
     /\ drives' = Driven(first, second, {})
     /\ unfollowed' = {s \in unfollowed : sub'[s].long}
     /\ refused' = (refused \cap StillHeld) \cup refusing
     /\ UNCHANGED <<param, delisted>>

RunMomentOnOpen ==
  \E bars \in SUBSET (Subs \ delisted) : \E refusing \in SUBSET Sweeping(bars) :
    OpenDay(bars, refusing)

----------------------------------------------------------------------------
(* The close of a day.                                                     *)

(* Driven at the close once in each of the pools it is in.                 *)
ClosedIn(s, cs, pool) ==
  IF s \in pool \cap quoted THEN UNION {Closed(c, terms) : c \in cs} ELSE cs

CloseWithoutSE ==
  /\ ~param.has_se
  /\ sub' \in Each([s \in Subs |-> ClosedIn(s, {sub[s]}, Subs)])
  /\ drives' = Driven({}, Subs, {})
  /\ UNCHANGED pools

(* Not a rebalancing day: the pools stay, the force-sell pool is driven if *)
(* it is followed, then the running pool.                                  *)
CloseOtherDay ==
  LET first == IF FollowsForceSell THEN forceSell ELSE {}
  IN /\ param.has_se
     /\ sub' \in Each([s \in Subs |-> ClosedIn(s, ClosedIn(s, {sub[s]}, first), running)])
     /\ drives' = Driven(first, running, {})
     /\ UNCHANGED pools

(* Mutant: the queued requests of a removed sub-system survive.            *)
RemovedAsIs(c) == c

(* _clearSubSystemAccounts, when the forced liquidation is on.             *)
Removed(c) ==
  IF param.sell_at_not_selected THEN Without(c, RequestLists) ELSE c

(* Mutant: as in the engine before this one, the stale entry stays behind. *)
StaleEntries(selected) == forceSell

(* Being admitted takes a sub-system out of the force-sell pool.           *)
LeftInForceSell(selected) == forceSell \ (selected \ running)

(* A removed sub-system that still holds is sold out, if it has a bar and  *)
(* the account accepts the sale, or driven one last time.                  *)
LastOf(s, c) ==
  IF ~c.long THEN {c}
  ELSE IF param.sell_at_not_selected
    THEN {IF s \in quoted THEN SoldOut(c, accepted) ELSE c : accepted \in BOOLEAN}
  ELSE ClosedIn(s, {c}, {s})

(* Mutant: only while it is followed.                                      *)
HandedOverIfFollowed(removed, after) ==
  {s \in removed : after[s].long /\ FollowsForceSell}

(* Who still holds after that is handed to the force-sell pool.            *)
HandedOver(removed, after) == {s \in removed : after[s].long}

CloseAdjustDay(selected) ==
  LET removed == running \ selected
      left    == LeftInForceSell(selected)
      first   == IF param.keep_watch_force_sell /\ ~param.sell_at_not_selected
                 THEN left ELSE {}
      second  == (running \ removed) \cup selected
      last    == {s \in removed : Holds(s)}
      start(s) == {IF s \in removed THEN Removed(sub[s]) ELSE sub[s]}
      driven(s) == ClosedIn(s, ClosedIn(s, start(s), first), second)
  IN /\ param.has_se
     /\ running' = second
     /\ sub' \in Each([s \in Subs |-> IF s \in removed
                                      THEN UNION {LastOf(s, c) : c \in driven(s)}
                                      ELSE driven(s)])
     /\ forceSell' = left \cup HandedOver(removed, sub')
     /\ drives' = Driven(first, second, IF param.sell_at_not_selected THEN {} ELSE last)

RunMomentOnClose ==
  /\ stage = "open" /\ stage' = "close"
  /\ \/ CloseWithoutSE
     \/ CloseOtherDay
     \/ \E selected \in SUBSET Subs : CloseAdjustDay(selected)
  /\ unfollowed' = {s \in unfollowed \ running' : sub'[s].long}
  /\ refused' = refused \cap forceSell'
  /\ UNCHANGED <<param, delisted, quoted>>

----------------------------------------------------------------------------
(* Between the days.                                                       *)

(* A stock has its last bar.                                               *)
Delist(s) ==
  /\ stage = "close"
  /\ delisted' = delisted \cup {s}
  /\ s \notin delisted
  /\ UNCHANGED <<param, sub, running, forceSell, quoted, stage, drives, unfollowed,
                 refused>>

(* The aggregate is saved and loaded, and continues with run(reset=false): *)
(* the sub-systems and the account are restored, the pools are not.        *)
Reload ==
  /\ stage = "close"
  /\ running' = {} /\ forceSell' = {}
  /\ unfollowed' = {s \in Subs : Holds(s)} /\ refused' = {}
  /\ UNCHANGED <<param, sub, delisted, quoted, stage, drives>>

Reset ==
  /\ stage = "close"
  /\ sub' = [s \in Subs |-> FreshSub]
  /\ running' = {} /\ forceSell' = {} /\ delisted' = {} /\ quoted' = {}
  /\ drives' = [s \in Subs |-> 0] /\ unfollowed' = {} /\ refused' = {}
  /\ UNCHANGED <<param, stage>>

Next ==
  \/ RunMomentOnOpen \/ RunMomentOnClose
  \/ Reload \/ Reset
  \/ \E s \in Subs : Delist(s)

(* Every day that was opened is closed, and a stock that is not delisted   *)
(* has a bar on one day after another.                                     *)
Fairness ==
  /\ WF_vars(RunMomentOnClose)
  /\ \A s \in Subs :
       SF_vars(\E bars \in SUBSET (Subs \ delisted) :
                 /\ s \in bars \cup delisted
                 /\ \E refusing \in SUBSET Sweeping(bars) : OpenDay(bars, refusing))

Spec == Init /\ [][Next]_vars /\ Fairness

----------------------------------------------------------------------------
(* Properties.                                                             *)

(* "The two pools stay mutually exclusive" (line 3660), so that a          *)
(* sub-system is driven once in a stage, whichever pools it passes through *)
(* on that day.                                                            *)
DrivenOnce == \A s \in Subs : drives[s] <= 1

(* With a selector, no position is left in neither pool: whatever was sold *)
(* in part, could not be sold, or was bought after all, its sub-system is  *)
(* admitted or waits in the force-sell pool, unless its stock is delisted  *)
(* or the pools were lost when the aggregate was loaded.                   *)
HoldingsFollowed ==
  param.has_se =>
    \A s \in Subs : Holds(s) => s \in running \cup forceSell \cup delisted \cup unfollowed

(* What cannot be sold on the removal day is swept at every following open *)
(* (docs/en/trade_portfolio/portfolio.rst:201): after an open no member of *)
(* the force-sell pool with a bar still holds, although it is driven after *)
(* the sweep, with the requests it has.  That document has it swept "until *)
(* flat"; a member whose position the account refuses to sell, because it  *)
(* is below the lot or above the maximum of one trade, stays as it is, and *)
(* what it queues then may be filled behind a later sweep: it is excepted  *)
(* from its first refusal until it leaves the pool.                        *)
SweepEndsFlat ==
  stage = "open" /\ param.sell_at_not_selected =>
    \A s \in (forceSell \cap quoted) \ refused : ~Holds(s)

(* With the forced liquidation on, a removed position is gone in the end,  *)
(* or its sub-system admitted again or out of the pool, or the account     *)
(* refused the sale for the size of the position.                          *)
ForcedOut ==
  \A s \in Subs :
    param.sell_at_not_selected /\ s \in forceSell
      ~> ~Holds(s) \/ s \notin forceSell \/ s \in refused

=============================================================================
