------------------------ MODULE TimerManager_proofs ------------------------
(***************************************************************************)
(* Proofs about TimerManager, for any calendar, any requests and any       *)
(* number of timers and restarts: the types, that the queue and the table  *)
(* of timers agree, that no timer runs more often than it was asked to,    *)
(* that a removed one runs at most once more, and that a stopped service   *)
(* is quiet.                                                               *)
(***************************************************************************)
EXTENDS TimerManager, FiniteSetTheorems, WellFoundedInduction, TLAPS

----------------------------------------------------------------------------
(* The inductive invariant.                                                *)

(* Where the user thread, the detection thread and the pool can be at once.*)
Phases ==
  /\ m_stop <=> upc \in {"stopped", "notify", "join", "pool"}
  /\ upc \in {"stopped", "rebuild", "launch", "pool"} => pc = "none"
  /\ extended => m_tg # "null" /\ upc # "pool"
  /\ ~extended =>
       /\ upc \in {"stopped", "rebuild"} => m_tg = "null"
       /\ upc \in {"launch", "started", "notify", "join"} => m_tg = "up"
       /\ upc = "pool" => m_tg # "null"
  /\ m_tg = "null" => jobs = 0 /\ worker = "none"

IInv == TypeOK /\ EntriesMatchTimers /\ RunsAsAsked /\ Phases

----------------------------------------------------------------------------
(* Moments are integers.                                                   *)

LEMMA StartOfDayType ==
  ASSUME NEW t \in Int PROVE StartOfDay(t) \in Int /\ t % DayLen \in Int
BY TimerAssumption DEF StartOfDay

LEMMA IntoWindowType ==
  ASSUME NEW p \in Params, NEW t \in Int PROVE IntoWindow(p, t) \in Int
<1>1. /\ p.start_time \in Int /\ p.end_time \in Int /\ p.duration \in Nat
  BY TimerAssumption DEF ParamSet
<1>2. StartOfDay(t) \in Int /\ t % DayLen \in Int
  BY StartOfDayType
<1>3. DayLen \in Int
  BY TimerAssumption
<1>4. CASE ~Windowed(p)
  BY <1>4 DEF IntoWindow
<1>5. CASE Windowed(p)
  <2>1. p.duration > 0
    BY <1>5, <1>1, TimerAssumption DEF Windowed, DailyAt
  <2> DEFINE gap == (t % DayLen) - p.start_time
  <2>2. gap \in Int
    BY <1>1, <1>2
  <2>3. gap \div p.duration \in Int
    BY <2>1, <2>2, <1>1
  <2>4. OnGrid(p, t) \in Int
    <3> HIDE DEF gap
    <3>1. StartOfDay(t) + p.start_time + p.duration * (gap \div p.duration + 1) \in Int
      BY <1>1, <1>2, <2>3
    <3> QED BY <3>1 DEF OnGrid, gap
  <2> QED BY <2>4, <1>1, <1>2, <1>3, <1>5 DEF IntoWindow
<1> QED BY <1>4, <1>5

LEMMA FirstMomentType ==
  ASSUME now \in Nat, NEW p \in Params PROVE FirstMoment(p) \in Int
<1>1. /\ p.start_date \in Nat /\ p.start_time \in Int /\ p.end_time \in Int
      /\ p.duration \in Nat /\ DayLen \in Int
  BY TimerAssumption DEF ParamSet
<1>2. StartOfDay(now) \in Int
  BY StartOfDayType
<1>3. CASE DailyAt(p)
  BY <1>1, <1>2, <1>3 DEF FirstMoment
<1>4. CASE ~DailyAt(p)
  <2>1. /\ p.start_date + p.start_time + p.duration \in Int
        /\ now + p.duration \in Int
    BY <1>1
  <2>2. /\ IntoWindow(p, p.start_date + p.start_time + p.duration) \in Int
        /\ IntoWindow(p, now + p.duration) \in Int
    BY <2>1, IntoWindowType
  <2> QED BY <2>2, <1>4 DEF FirstMoment
<1> QED BY <1>3, <1>4

LEMMA NextMomentType ==
  ASSUME now \in Nat, NEW p \in Params, NEW t \in Int
  PROVE  NextMoment(p, t) \in Int
<1>1. /\ p.start_time \in Int /\ p.end_time \in Int
      /\ p.duration \in Nat /\ DayLen \in Int
  BY TimerAssumption DEF ParamSet
<1>2. StartOfDay(now) \in Int /\ StartOfDay(t) \in Int
  BY StartOfDayType
<1> QED BY <1>1, <1>2 DEF NextMoment

----------------------------------------------------------------------------
(* A new id is free, since fewer than MaxId of MaxId + 1 ids are in use.   *)

LEMMA SmallestExists ==
  ASSUME NEW S \in SUBSET Nat, S # {}
  PROVE  \E n \in S : \A m \in S : n <= m
<1>1. PICK n \in S : \A m \in S : ~(<<m, n>> \in OpToRel(<, Nat))
  BY NatLessThanWellFounded, WFMin
<1>2. \A m \in S : ~(m < n)
  BY <1>1 DEF OpToRel
<1> QED BY <1>2

LEMMA SomeIdFree ==
  ASSUME Cardinality(Used) < MaxId PROVE \E id \in Ids : id \notin Used
<1>1. Used \subseteq Ids
  BY DEF Used
<1>2. Cardinality(Ids) = MaxId + 1
  BY TimerAssumption, FS_Interval DEF Ids
<1>3. Used # Ids
  BY <1>2, TimerAssumption
<1> QED BY <1>1, <1>3

LEMMA ModInRange ==
  ASSUME NEW a \in Int, NEW b \in Nat \ {0} PROVE a % b \in 0 .. b - 1
OBVIOUS

LEMMA AfterReaches ==
  ASSUME NEW cur \in Ids \cup {-1}, NEW id \in Ids
  PROVE  \E n \in 1 .. MaxId + 1 : After(cur, n) = id
<1> DEFINE N == MaxId + 1
<1>0. N \in Nat \ {0} /\ cur \in Int /\ cur >= -1 /\ cur < N /\ id \in 0 .. N - 1
  BY TimerAssumption DEF Ids
<1>1. CASE id > cur
  <2>1. id - cur \in 1 .. N
    BY <1>0, <1>1
  <2>2. (cur + (id - cur)) % N = id
    BY <1>0
  <2> QED BY <2>1, <2>2 DEF After
<1>2. CASE id <= cur
  <2>1. id - cur + N \in 1 .. N
    BY <1>0, <1>2
  <2>2. (cur + (id - cur + N)) % N = id
    BY <1>0
  <2> QED BY <2>1, <2>2 DEF After
<1> QED BY <1>0, <1>1, <1>2

LEMMA NewIdIsFree ==
  ASSUME m_current_timer_id \in Ids \cup {-1}, Cardinality(Used) < MaxId
  PROVE  NewTimerId \in Ids \ Used
<1> DEFINE S == {n \in 1 .. MaxId + 1 : After(m_current_timer_id, n) \notin Used}
<1>1. S # {}
  BY SomeIdFree, AfterReaches
<1>2. S \in SUBSET Nat
  BY TimerAssumption
<1>3. PICK n \in S : \A m \in S : n <= m
  <2> HIDE DEF S
  <2> QED BY <1>1, <1>2, SmallestExists
<1>4. /\ n \in 1 .. MaxId + 1
      /\ After(m_current_timer_id, n) \notin Used
      /\ \A m \in 1 .. n - 1 : After(m_current_timer_id, m) \in Used
  BY <1>3, TimerAssumption
<1>5. PICK k \in 1 .. MaxId + 1 :
        /\ NewTimerId = After(m_current_timer_id, k)
        /\ After(m_current_timer_id, k) \notin Used
  BY <1>4 DEF NewTimerId
<1>6. After(m_current_timer_id, k) \in Ids
  <2>1. m_current_timer_id + k \in Int /\ MaxId + 1 \in Nat \ {0}
    BY TimerAssumption DEF Ids
  <2>2. (m_current_timer_id + k) % (MaxId + 1) \in 0 .. (MaxId + 1) - 1
    BY <2>1, ModInRange
  <2> QED BY <2>2, TimerAssumption DEF After, Ids
<1> QED BY <1>5, <1>6

----------------------------------------------------------------------------
(* Taking an entry from the queue.                                         *)

LEMMA PoppedEntries ==
  ASSUME TypeOK, EntriesMatchTimers, NEW id \in Ids, NEW k \in DOMAIN m_queue[id]
  PROVE  /\ id \in Used /\ k = 1 /\ Len(m_queue[id]) = 1
         /\ Popped(id, k) = [m_queue EXCEPT ![id] = <<>>]
         /\ m_queue[id][k] \in Int
<1>1. m_queue[id] \in Seq(Int) /\ Len(m_queue[id]) \in Nat
  BY DEF TypeOK
<1>2. k \in 1 .. Len(m_queue[id])
  BY <1>1
<1>3. Len(m_queue[id]) <= IF id \in Used THEN 1 ELSE 0
  BY DEF EntriesMatchTimers
<1>4. id \in Used /\ k = 1 /\ Len(m_queue[id]) = 1
  <2>1. k \in Int /\ 1 <= k /\ k <= Len(m_queue[id])
    BY <1>1, <1>2
  <2>2. id \in Used
    BY <2>1, <1>1, <1>3
  <2>3. Len(m_queue[id]) <= 1
    BY <2>2, <1>3
  <2> DEFINE n == Len(m_queue[id])
  <2>4. n \in Nat /\ n <= 1 /\ k <= n /\ 1 <= k /\ k \in Int
    BY <1>1, <2>1, <2>3
  <2> HIDE DEF n
  <2>5. k = 1 /\ n = 1
    BY <2>4
  <2> QED BY <2>2, <2>5 DEF n
<1>5. Without(m_queue[id], k) = <<>>
  BY <1>1, <1>4 DEF Without
<1>6. Popped(id, k) = [m_queue EXCEPT ![id] = <<>>]
  BY <1>5, TypeOK DEF Popped, TypeOK
<1>7. m_queue[id][k] \in Int
  BY <1>1, <1>2
<1> QED BY <1>4, <1>6, <1>7

(* The timer behind an entry.                                              *)
LEMMA UsedTimer ==
  ASSUME TypeOK, NEW id \in Used
  PROVE  /\ id \in Ids /\ m_timers[id] \in Timers
         /\ m_timers[id].p \in Params
         /\ m_timers[id].repeat_num \in Nat /\ m_timers[id].runs \in Nat
BY DEF TypeOK, Used, Timers


----------------------------------------------------------------------------
(* Initially, and steps that leave the timers alone.                       *)

LEMMA Initially == Init => IInv
<1> SUFFICES ASSUME Init PROVE IInv
  OBVIOUS
<1>1. TypeOK
  <2>1. 0 \in 0 .. MaxAdds /\ 0 \in 0 .. MaxStarts /\ DayLen \in Nat
    BY TimerAssumption
  <2>2. NoMoments \in [Ids -> Seq(Int)]
    BY DEF NoMoments
  <2> QED BY <2>1, <2>2 DEF Init, TypeOK
<1>2. Used = {}
  BY DEF Init, Used
<1>3. EntriesMatchTimers /\ RunsAsAsked
  BY <1>2 DEF Init, EntriesMatchTimers, RunsAsAsked, NoMoments
<1>4. Phases
  BY DEF Init, Phases
<1> QED BY <1>1, <1>3, <1>4 DEF IInv

(* What these two parts say depends on the timers only.                    *)
LEMMA TableKept ==
  ASSUME IInv, UNCHANGED table, upc' \in {"launch", "started"} => upc \in {"launch", "started"}
  PROVE  EntriesMatchTimers' /\ RunsAsAsked'
<1>1. Used' = Used
  BY DEF table, Used
<1> QED BY <1>1 DEF IInv, EntriesMatchTimers, RunsAsAsked, table

LEMMA QuietSteps ==
  ASSUME IInv, \/ Tick \/ AddFuncNotifies \/ StartBegins \/ StartLaunches
               \/ StopNotifies \/ StopJoins \/ StopsPool \/ StopEnds
               \/ DetectLooks \/ DetectWaits \/ DetectWaitsFor \/ TimesOut
               \/ WakesSpuriously \/ WorkerPops \/ CallbackEnds
               \/ OwnerStopsPool \/ UNCHANGED vars
  PROVE  IInv'
<1> USE DEF table, poolVars, detectVars, userVars, clientVars, WakeDetector, Asleep,
            WorkerJoined
<1>1. UNCHANGED table /\ (upc' \in {"launch", "started"} => upc \in {"launch", "started"})
  BY DEF Tick, AddFuncNotifies, StartBegins, StartLaunches, StopNotifies, StopJoins,
         StopsPool, StopEnds, DetectLooks, DetectWaits, DetectWaitsFor, TimesOut,
         WakesSpuriously, WorkerPops, CallbackEnds, OwnerStopsPool, vars
<1>2. EntriesMatchTimers' /\ RunsAsAsked'
  BY <1>1, TableKept
<1>3. TypeOK'
  <2> USE DEF IInv, TypeOK
  <2>0. CASE Tick
    <3>1. now' \in Nat
      BY <2>0 DEF Tick
    <3> QED BY <2>0, <3>1 DEF Tick
  <2>1. CASE AddFuncNotifies
    BY <2>1 DEF AddFuncNotifies
  <2>11. CASE UNCHANGED vars
    BY <2>11 DEF vars
  <2>2. CASE StartBegins
    <3>1. starts' \in 0 .. MaxStarts
      BY <2>2, TimerAssumption DEF StartBegins
    <3> QED BY <2>2, <3>1 DEF StartBegins
  <2>22. CASE StartLaunches
    BY <2>22 DEF StartLaunches
  <2>3. CASE StopNotifies \/ StopJoins \/ StopsPool \/ StopEnds
    BY <2>3 DEF StopNotifies, StopJoins, StopsPool, StopEnds
  <2>4. CASE DetectLooks \/ DetectWaits \/ DetectWaitsFor \/ TimesOut \/ WakesSpuriously
    BY <2>4 DEF DetectLooks, DetectWaits, DetectWaitsFor, TimesOut, WakesSpuriously
  <2>5. CASE WorkerPops \/ CallbackEnds \/ OwnerStopsPool
    BY <2>5 DEF WorkerPops, CallbackEnds, OwnerStopsPool
  <2> QED BY <2>0, <2>1, <2>11, <2>2, <2>22, <2>3, <2>4, <2>5
<1>4. Phases'
  <2> USE DEF IInv, TypeOK, Phases
  <2>1. CASE Tick \/ AddFuncNotifies \/ UNCHANGED vars
    BY <2>1 DEF Tick, AddFuncNotifies, vars
  <2>2. CASE StartBegins \/ StartLaunches
    BY <2>2 DEF StartBegins, StartLaunches
  <2>3. CASE StopNotifies \/ StopJoins \/ StopsPool
    BY <2>3 DEF StopNotifies, StopJoins, StopsPool
  <2>4. CASE StopEnds
    BY <2>4 DEF StopEnds
  <2>5. CASE DetectLooks \/ DetectWaits \/ DetectWaitsFor \/ TimesOut \/ WakesSpuriously
    BY <2>5 DEF DetectLooks, DetectWaits, DetectWaitsFor, TimesOut, WakesSpuriously
  <2>6. CASE WorkerPops \/ CallbackEnds \/ OwnerStopsPool
    BY <2>6 DEF WorkerPops, CallbackEnds, OwnerStopsPool
  <2> QED BY <2>1, <2>2, <2>3, <2>4, <2>5, <2>6
<1> QED BY <1>2, <1>3, <1>4 DEF IInv

----------------------------------------------------------------------------
(* Clients.                                                                *)

LEMMA AddFuncKeeps ==
  ASSUME IInv, NEW p \in Params, AddFunc(p) PROVE IInv'
<1> DEFINE id == NewTimerId
           t  == [p |-> p, repeat_num |-> p.repeat, runs |-> 0]
<1> USE DEF poolVars, detectVars, userVars
<1>1. id \in Ids \ Used
  BY NewIdIsFree DEF IInv, TypeOK, AddFunc
<1>2. FirstMoment(p) \in Int
  BY FirstMomentType DEF IInv, TypeOK
<1>3. p.repeat \in Nat \ {0} /\ t \in Timers
  BY TimerAssumption DEF ParamSet, Timers
<1>4. t # NoTimer
  BY <1>3, TimerAssumption
<1>5. m_queue[id] = <<>>
  BY <1>1 DEF IInv, TypeOK, EntriesMatchTimers
<1> HIDE DEF id
<1>6. /\ m_queue' = [m_queue EXCEPT ![id] = <<FirstMoment(p)>>]
      /\ m_timers' = [m_timers EXCEPT ![id] = t]
      /\ m_current_timer_id' = id
      /\ adds < MaxAdds /\ adds' = adds + 1 /\ adding' = TRUE
      /\ UNCHANGED <<now, poolVars, detectVars, userVars>>
  BY <1>1, <1>5 DEF AddFunc, id, IInv, TypeOK
<1>7. Used' = Used \cup {id}
  BY <1>1, <1>4, <1>6 DEF Used, IInv, TypeOK
<1>8. TypeOK'
  <2>1. m_timers' \in [Ids -> Timers \cup {NoTimer}]
    BY <1>1, <1>3, <1>6 DEF IInv, TypeOK
  <2>2. m_queue' \in [Ids -> Seq(Int)]
    BY <1>1, <1>2, <1>6 DEF IInv, TypeOK
  <2>3. adds' \in 0 .. MaxAdds
    BY <1>6, TimerAssumption DEF IInv, TypeOK
  <2> QED BY <1>1, <1>6, <2>1, <2>2, <2>3 DEF IInv, TypeOK
<1>9. EntriesMatchTimers'
  BY <1>1, <1>6, <1>7 DEF IInv, TypeOK, EntriesMatchTimers
<1>10. RunsAsAsked'
  BY <1>1, <1>3, <1>6, <1>7 DEF IInv, TypeOK, RunsAsAsked
<1>11. Phases'
  BY <1>6 DEF IInv, Phases
<1> QED BY <1>8, <1>9, <1>10, <1>11 DEF IInv

LEMMA RemoveTimerKeeps ==
  ASSUME IInv, NEW id \in Ids, RemoveTimer(id) PROVE IInv'
<1> DEFINE t == [m_timers[id] EXCEPT !.repeat_num = 0]
<1> USE DEF poolVars, detectVars, userVars, clientVars
<1>0. TypeOK /\ id \in Used
  BY DEF IInv, RemoveTimer
<1>1. /\ m_timers[id] \in Timers /\ m_timers[id].p \in Params
      /\ m_timers[id].repeat_num \in Nat /\ m_timers[id].runs \in Nat
  BY <1>0, UsedTimer
<1>2. /\ t \in Timers /\ t # NoTimer
      /\ t.p = m_timers[id].p /\ t.runs = m_timers[id].runs /\ t.repeat_num = 0
  BY <1>1, TimerAssumption DEF Timers
<1> HIDE DEF t
<1>3. m_timers' = [m_timers EXCEPT ![id] = t]
  BY <1>0 DEF RemoveTimer, t, TypeOK
<1>4. Used' = Used
  BY <1>0, <1>2, <1>3 DEF Used, TypeOK
<1>5. TypeOK'
  <2>1. m_timers' \in [Ids -> Timers \cup {NoTimer}]
    BY <1>0, <1>2, <1>3 DEF TypeOK
  <2> QED BY <1>0, <2>1 DEF RemoveTimer, TypeOK
<1>6. EntriesMatchTimers'
  BY <1>4 DEF RemoveTimer, IInv, EntriesMatchTimers
<1>7. RunsAsAsked'
  <2> SUFFICES ASSUME NEW i \in Used, m_timers'[i].p.repeat # Infinite
               PROVE  /\ m_timers'[i].runs + m_timers'[i].repeat_num <= m_timers'[i].p.repeat
                      /\ m_timers'[i].runs < m_timers'[i].p.repeat
    BY <1>4 DEF RunsAsAsked
  <2>1. CASE i = id
    <3>1. m_timers'[i] = t
      BY <1>0, <1>3, <2>1 DEF TypeOK
    <3>2. m_timers[id].runs < m_timers[id].p.repeat
      BY <3>1, <1>0, <1>2 DEF IInv, RunsAsAsked
    <3>3. m_timers[id].p.repeat \in Nat
      BY <1>1, TimerAssumption DEF ParamSet
    <3> QED BY <3>1, <3>2, <3>3, <1>1, <1>2
  <2>2. CASE i # id
    <3>1. m_timers'[i] = m_timers[i]
      BY <1>0, <1>3, <2>2 DEF TypeOK, Used
    <3> QED BY <3>1 DEF IInv, RunsAsAsked
  <2> QED BY <2>1, <2>2
<1>8. Phases'
  BY DEF RemoveTimer, IInv, Phases
<1> QED BY <1>5, <1>6, <1>7, <1>8 DEF IInv

----------------------------------------------------------------------------
(* start() and stop().                                                     *)

LEMMA StartRebuildsKeeps ==
  ASSUME IInv, StartRebuilds PROVE IInv'
<1> USE DEF poolVars, detectVars, clientVars
<1>0. TypeOK /\ Valid \subseteq Used /\ Used \subseteq Ids
  BY DEF IInv, Valid, Used
<1>1. m_timers' = [id \in Ids |-> IF id \in Valid THEN m_timers[id] ELSE NoTimer]
  BY DEF StartRebuilds
<1>2. Used' = Valid
  BY <1>0, <1>1 DEF Used
<1>3. \A id \in Valid : FirstMoment(m_timers[id].p) \in Int
  BY <1>0, UsedTimer, FirstMomentType DEF TypeOK
<1>4. m_queue' = [id \in Ids |->
        IF id \in Valid THEN <<FirstMoment(m_timers[id].p)>> ELSE <<>>]
  BY DEF StartRebuilds, Rebuilt
<1>5. TypeOK'
  <2>1. m_timers' \in [Ids -> Timers \cup {NoTimer}]
    BY <1>0, <1>1, UsedTimer
  <2>2. m_queue' \in [Ids -> Seq(Int)]
    BY <1>3, <1>4
  <2> QED BY <2>1, <2>2, <1>0 DEF StartRebuilds, TypeOK
<1>6. EntriesMatchTimers'
  BY <1>0, <1>2, <1>4 DEF EntriesMatchTimers
<1>7. RunsAsAsked'
  BY <1>0, <1>1, <1>2 DEF IInv, RunsAsAsked
<1>8. Phases'
  BY DEF StartRebuilds, IInv, Phases
<1> QED BY <1>5, <1>6, <1>7, <1>8 DEF IInv

LEMMA StopMarksKeeps ==
  ASSUME IInv, StopMarks PROVE IInv'
<1> USE DEF poolVars, detectVars, clientVars
<1>1. Used' = Used
  BY DEF StopMarks, Used
<1>2. TypeOK'
  BY DEF StopMarks, IInv, TypeOK, NoMoments
<1>3. EntriesMatchTimers'
  BY <1>1 DEF StopMarks, EntriesMatchTimers, NoMoments
<1>4. RunsAsAsked'
  BY <1>1 DEF StopMarks, IInv, RunsAsAsked
<1>5. Phases'
  BY DEF StopMarks, IInv, Phases
<1> QED BY <1>2, <1>3, <1>4, <1>5 DEF IInv

----------------------------------------------------------------------------
(* The detection thread takes an entry.                                    *)

LEMMA DetectDropsKeeps ==
  ASSUME IInv, NEW id \in Ids, DetectDrops(id) PROVE IInv'
<1> USE DEF poolVars, userVars, clientVars
<1>0. TypeOK /\ EntriesMatchTimers
  BY DEF IInv
<1>1. m_queue' = [m_queue EXCEPT ![id] = <<>>]
  BY <1>0, PoppedEntries DEF DetectDrops
<1>2. m_timers' = [m_timers EXCEPT ![id] = NoTimer]
  BY DEF DetectDrops
<1>3. Used' = Used \ {id}
  BY <1>0, <1>2 DEF Used, TypeOK
<1>4. TypeOK'
  BY <1>1, <1>2 DEF DetectDrops, IInv, TypeOK
<1>5. EntriesMatchTimers'
  BY <1>0, <1>1, <1>3 DEF DetectDrops, EntriesMatchTimers, TypeOK
<1>6. RunsAsAsked'
  BY <1>0, <1>2, <1>3 DEF IInv, RunsAsAsked, TypeOK, Used
<1>7. Phases'
  BY DEF DetectDrops, IInv, Phases, TypeOK
<1> QED BY <1>4, <1>5, <1>6, <1>7 DEF IInv

LEMMA RequestBounds ==
  ASSUME NEW p \in Params
  PROVE  p.repeat \in Nat \ {0} /\ p.repeat <= Infinite
<1>1. p \in ParamSet
  BY TimerAssumption
<1>2. \A q \in Params : q.repeat <= Infinite
  BY TimerAssumption
<1> QED BY <1>1, <1>2 DEF ParamSet

(* What is left of a timer that goes on keeps its account.                 *)
LEMMA AccountKept ==
  ASSUME NEW t \in Timers, Left(t) > 0,
         t.p.repeat # Infinite =>
           t.runs + t.repeat_num <= t.p.repeat /\ t.runs < t.p.repeat
  PROVE  /\ Left(t) \in Nat /\ Counted(t) \in Nat
         /\ t.p.repeat # Infinite =>
              /\ Counted(t) + Left(t) <= t.p.repeat
              /\ Counted(t) < t.p.repeat
<1>0. t.p \in Params /\ t.repeat_num \in Nat /\ t.runs \in Nat
  BY DEF Timers
<1>1. /\ t.repeat_num \in Nat /\ t.runs \in Nat
      /\ t.p.repeat \in Nat /\ t.p.repeat <= Infinite /\ Infinite \in Nat
  <2>1. t.p.repeat \in Nat \ {0} /\ t.p.repeat <= Infinite
    BY <1>0, RequestBounds
  <2> QED BY <1>0, <2>1, TimerAssumption
<1>2. CASE t.p.repeat = Infinite
  BY <1>1, <1>2 DEF Left, Counted
<1>3. CASE t.p.repeat # Infinite
  <2>1. t.repeat_num # Infinite
    BY <1>1, <1>3
  <2>2. Left(t) = t.repeat_num - 1 /\ Counted(t) = t.runs + 1
    BY <2>1, <1>3 DEF Left, Counted
  <2> QED BY <2>2, <1>1, <1>3
<1> QED BY <1>2, <1>3

LEMMA DetectFiresKeeps ==
  ASSUME IInv, NEW id \in Ids, DetectFires(id) PROVE IInv'
<1> DEFINE t == m_timers[id]
<1> USE DEF userVars, clientVars
<1>0. TypeOK /\ EntriesMatchTimers /\ id \in Used
  BY DEF IInv, DetectFires
<1>1. PICK k \in DOMAIN m_queue[id] :
        LET next == NextMoment(t.p, m_queue[id][k])
        IN  IF Finished(t, next)
            THEN /\ m_timers' = [m_timers EXCEPT ![id] = NoTimer]
                 /\ m_queue' = Popped(id, k)
            ELSE /\ m_timers' = [m_timers EXCEPT ![id].repeat_num = Left(t),
                                                 ![id].runs = Counted(t)]
                 /\ m_queue' = [Popped(id, k) EXCEPT ![id] = Append(@, next)]
  BY DEF DetectFires
<1> DEFINE next == NextMoment(t.p, m_queue[id][k])
<1>2. /\ t \in Timers /\ t.p \in Params
  BY <1>0, UsedTimer
<1>3. Popped(id, k) = [m_queue EXCEPT ![id] = <<>>] /\ m_queue[id][k] \in Int
  BY <1>0, PoppedEntries
<1>4. next \in Int
  BY <1>0, <1>2, <1>3, NextMomentType DEF TypeOK
<1>5. Phases'
  BY DEF DetectFires, IInv, Phases, TypeOK
<1>6. TypeOK' /\ EntriesMatchTimers' /\ RunsAsAsked'
  <2>1. CASE Finished(t, next)
    <3>1. /\ m_timers' = [m_timers EXCEPT ![id] = NoTimer]
          /\ m_queue' = [m_queue EXCEPT ![id] = <<>>]
      BY <1>1, <1>3, <2>1
    <3>2. Used' = Used \ {id}
      BY <1>0, <3>1 DEF Used, TypeOK
    <3>3. TypeOK'
      <4>1. m_timers' \in [Ids -> Timers \cup {NoTimer}]
        BY <1>0, <3>1 DEF TypeOK
      <4>2. m_queue' \in [Ids -> Seq(Int)]
        BY <1>0, <3>1 DEF TypeOK
      <4> QED BY <4>1, <4>2, <1>0 DEF DetectFires, TypeOK
    <3>4. EntriesMatchTimers'
      BY <1>0, <3>1, <3>2 DEF DetectFires, EntriesMatchTimers, TypeOK
    <3>5. RunsAsAsked'
      BY <1>0, <3>1, <3>2 DEF IInv, RunsAsAsked, TypeOK, Used
    <3> QED BY <3>3, <3>4, <3>5
  <2>2. CASE ~Finished(t, next)
    <3> DEFINE u == [t EXCEPT !.repeat_num = Left(t), !.runs = Counted(t)]
    <3>0. t.p.repeat # Infinite =>
            t.runs + t.repeat_num <= t.p.repeat /\ t.runs < t.p.repeat
      BY <1>0 DEF IInv, RunsAsAsked
    <3>1. Left(t) > 0
      <4>1. t.repeat_num \in Int /\ Infinite \in Int
        BY <1>2, TimerAssumption DEF Timers
      <4>2. Left(t) \in Int
        BY <4>1 DEF Left
      <4> QED BY <2>2, <4>2 DEF Finished
    <3>2. /\ Left(t) \in Nat /\ Counted(t) \in Nat
          /\ t.p.repeat # Infinite =>
               /\ Counted(t) + Left(t) <= t.p.repeat
               /\ Counted(t) < t.p.repeat
      BY <1>2, <3>0, <3>1, AccountKept
    <3>3. /\ u \in Timers /\ u # NoTimer /\ u.p = t.p
          /\ u.repeat_num = Left(t) /\ u.runs = Counted(t)
      BY <1>2, <3>2, TimerAssumption DEF Timers
    <3> HIDE DEF u
    <3>4. m_timers' = [m_timers EXCEPT ![id] = u]
      BY <1>0, <1>1, <2>2 DEF u, TypeOK
    <3>5. m_queue' = [m_queue EXCEPT ![id] = <<next>>]
      BY <1>0, <1>1, <1>3, <2>2 DEF TypeOK
    <3> HIDE DEF next
    <3>6. Used' = Used
      BY <1>0, <3>3, <3>4 DEF Used, TypeOK
    <3>7. TypeOK'
      <4>1. m_timers' \in [Ids -> Timers \cup {NoTimer}]
        BY <1>0, <3>3, <3>4 DEF TypeOK
      <4>2. m_queue' \in [Ids -> Seq(Int)]
        BY <1>0, <1>4, <3>5 DEF TypeOK
      <4> QED BY <4>1, <4>2, <1>0 DEF DetectFires, TypeOK
    <3>8. EntriesMatchTimers'
      BY <1>0, <3>5, <3>6 DEF DetectFires, EntriesMatchTimers, TypeOK
    <3>9. RunsAsAsked'
      <4> SUFFICES ASSUME NEW i \in Used, m_timers'[i].p.repeat # Infinite
                   PROVE  /\ m_timers'[i].runs + m_timers'[i].repeat_num
                               <= m_timers'[i].p.repeat
                          /\ m_timers'[i].runs < m_timers'[i].p.repeat
        BY <3>6 DEF RunsAsAsked
      <4>1. CASE i = id
        <5>1. m_timers'[i] = u
          BY <1>0, <3>4, <4>1 DEF TypeOK
        <5> QED BY <5>1, <3>2, <3>3
      <4>2. CASE i # id
        <5>1. m_timers'[i] = m_timers[i]
          BY <1>0, <3>4, <4>2 DEF TypeOK, Used
        <5> QED BY <5>1 DEF IInv, RunsAsAsked
      <4> QED BY <4>1, <4>2
    <3> QED BY <3>7, <3>8, <3>9
  <2> QED BY <2>1, <2>2
<1> QED BY <1>5, <1>6 DEF IInv
----------------------------------------------------------------------------
(* The theorems.                                                           *)

LEMMA StepKeeps == ASSUME IInv, [Next]_vars PROVE IInv'
<1>1. CASE \/ Tick \/ AddFuncNotifies \/ StartBegins \/ OwnerStopsPool
           \/ WakesSpuriously \/ UNCHANGED vars
  BY <1>1, QuietSteps
<1>2. ASSUME NEW p \in Params, AddFunc(p) PROVE IInv'
  BY <1>2, AddFuncKeeps
<1>3. ASSUME NEW id \in Ids, RemoveTimer(id) PROVE IInv'
  BY <1>3, RemoveTimerKeeps
<1>4. CASE StopMarks
  BY <1>4, StopMarksKeeps
<1>5. CASE User
  BY <1>5, QuietSteps, StartRebuildsKeeps DEF User
<1>6. CASE Detector
  BY <1>6, QuietSteps, DetectFiresKeeps, DetectDropsKeeps DEF Detector
<1>7. CASE Worker
  BY <1>7, QuietSteps DEF Worker
<1> QED BY <1>1, <1>2, <1>3, <1>4, <1>5, <1>6, <1>7 DEF Next

(* The invariant holds for every calendar, request and number of timers.   *)
THEOREM Inductive == Spec => []IInv
<1>1. Init => IInv
  BY Initially
<1>2. IInv /\ [Next]_vars => IInv'
  BY StepKeeps
<1> QED BY <1>1, <1>2, PTL DEF Spec

(* The variables keep their types: no count of runs left becomes negative. *)
THEOREM Typed == Spec => []TypeOK
<1>1. IInv => TypeOK
  BY DEF IInv
<1> QED BY <1>1, Inductive, PTL

(* Every queued moment belongs to a timer that exists, and a running       *)
(* service has exactly one for each: none is lost, none inherited.         *)
THEOREM QueueMatchesTable == Spec => []EntriesMatchTimers
<1>1. IInv => EntriesMatchTimers
  BY DEF IInv
<1> QED BY <1>1, Inductive, PTL

(* A timer never runs more often than addFunc's repeat_num asked for, over *)
(* any number of stops, restarts and removals.                             *)
THEOREM NoExtraRuns == Spec => []RunsAsAsked
<1>1. IInv => RunsAsAsked
  BY DEF IInv
<1> QED BY <1>1, Inductive, PTL

(* The detection thread never meets a deleted pool, and stop() leaves no   *)
(* callback of an own pool queued or running.                              *)
THEOREM QuietWhenStopped == Spec => []StoppedIsQuiet
<1>1. IInv => StoppedIsQuiet
  BY DEF IInv, TypeOK, Phases, StoppedIsQuiet
<1> QED BY <1>1, Inductive, PTL

(* A removed timer runs at most once more: the run that finds it removed   *)
(* deletes it.                                                             *)
THEOREM RemovedOnce == Spec => RemovedRunsOnceMore
<1> DEFINE Once == \A id \in Ids : Runs(id) /\ m_timers[id].repeat_num <= 0
                                     => m_timers'[id] = NoTimer
<1>1. ASSUME IInv, [Next]_vars PROVE Once
  <2> SUFFICES ASSUME NEW id \in Ids, Runs(id), m_timers[id].repeat_num <= 0
               PROVE  m_timers'[id] = NoTimer
    OBVIOUS
  <2>0. /\ id \in Used /\ jobs' = jobs + 1 /\ jobs \in Nat /\ TypeOK
        /\ EntriesMatchTimers /\ m_queue'[id] # m_queue[id]
    BY <1>1 DEF Runs, IInv, TypeOK
  <2>1. PICK fired \in Ids : DetectFires(fired)
    <3>1. jobs' # jobs /\ jobs' # 0 /\ jobs' # jobs - 1
      BY <2>0
    <3> USE DEF table, poolVars, detectVars, userVars, clientVars
    <3>2. ~(Tick \/ AddFuncNotifies \/ StartBegins \/ StopMarks \/ OwnerStopsPool
            \/ UNCHANGED vars)
      BY <3>1 DEF Tick, AddFuncNotifies, StartBegins, StopMarks, OwnerStopsPool, vars
    <3>3. ~(\E p \in Params : AddFunc(p)) /\ ~(\E i \in Ids : RemoveTimer(i))
      BY <3>1 DEF AddFunc, RemoveTimer
    <3>4. ~User
      BY <3>1 DEF User, StartRebuilds, StartLaunches, StopNotifies, StopJoins,
                  StopsPool, StopEnds
    <3>5. ~(Worker \/ WakesSpuriously)
      BY <3>1 DEF Worker, WorkerPops, CallbackEnds, WakesSpuriously
    <3>6. Detector => \E i \in Ids : DetectFires(i)
      BY <3>1 DEF Detector, DetectLooks, DetectWaits, DetectWaitsFor, TimesOut,
                  DetectDrops
    <3> QED BY <1>1, <3>2, <3>3, <3>4, <3>5, <3>6 DEF Next
  <2>2. PICK k \in DOMAIN m_queue[fired] :
          LET next == NextMoment(m_timers[fired].p, m_queue[fired][k])
          IN  IF Finished(m_timers[fired], next)
              THEN /\ m_timers' = [m_timers EXCEPT ![fired] = NoTimer]
                   /\ m_queue' = Popped(fired, k)
              ELSE m_queue' = [Popped(fired, k) EXCEPT ![fired] = Append(@, next)]
    BY <2>1 DEF DetectFires
  <2>3. Popped(fired, k) = [m_queue EXCEPT ![fired] = <<>>]
    BY <2>0, PoppedEntries
  <2>4. fired = id
    BY <2>0, <2>2, <2>3 DEF TypeOK
  <2>5. Left(m_timers[id]) <= 0
    <3>1. m_timers[id].repeat_num = 0 /\ Infinite \in Nat
      BY <2>0, UsedTimer, TimerAssumption
    <3>2. Infinite > 0
      <4>1. m_timers[id].p \in Params
        BY <2>0, UsedTimer
      <4>2. /\ m_timers[id].p.repeat \in Nat \ {0}
            /\ m_timers[id].p.repeat <= Infinite
        BY <4>1, RequestBounds
      <4> QED BY <4>2, <3>1
    <3> QED BY <3>1, <3>2 DEF Left
  <2>6. m_timers' = [m_timers EXCEPT ![id] = NoTimer]
    BY <2>2, <2>4, <2>5 DEF Finished
  <2> QED BY <2>0, <2>6 DEF TypeOK
<1>2. IInv /\ [Next]_vars => [Once]_vars
  BY <1>1
<1> QED BY <1>2, Inductive, PTL DEF Spec, RemovedRunsOnceMore
=============================================================================
