--------------------------- MODULE MCTimerManager ---------------------------
(* The requests of TimerManager's clients in a small calendar. *)
EXTENDS TimerManager

Endless == 99

\* addDurationFunc and addFuncAtTimeEveryDay.
Twice(d)    == [start_date |-> 0, end_date |-> Endless, start_time |-> 0,
                end_time |-> 0, repeat |-> 2, duration |-> d]
EveryDay(t) == [start_date |-> 0, end_date |-> Endless, start_time |-> -1,
                end_time |-> t, repeat |-> Endless, duration |-> 0]

\* addFunc with the window 1..2 and an interval of two moments.
InWindow    == [start_date |-> 0, end_date |-> Endless, start_time |-> 1,
                end_time |-> 2, repeat |-> Endless, duration |-> 2]

ServiceParams == {Twice(1), EveryDay(0), InWindow}
=============================================================================
