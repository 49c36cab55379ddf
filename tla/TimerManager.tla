---------------------------- MODULE TimerManager ----------------------------
(***************************************************************************)
(* The timer service (utilities/TimerManager.h): a table of timers, a      *)
(* queue of their next moments ordered by time, one detection thread that  *)
(* submits what is due to a thread pool, and the pool's worker             *)
(* (utilities/thread/ThreadPool.h) as far as a timer service uses it.      *)
(*                                                                         *)
(* One user thread calls start() and stop(); addFunc() and removeTimer()   *)
(* come from any thread. A body under m_mutex is one step; what the code   *)
(* does outside of it (the look at m_stop, notifications, joins) are steps *)
(* of their own. Time is a natural number, a day has DayLen of them.       *)
(***************************************************************************)
EXTENDS Integers, Sequences, FiniteSets

CONSTANTS
  NoTimer,       \* stands for a free id
  MaxId,         \* the largest timer id (numeric_limits<int>::max())
  Infinite,      \* m_repeat_num of an endless timer, and Datetime::max()
  DayLen,        \* moments of a day
  Params,        \* what clients ask for, see ParamSet
  MaxTime,       \* bound: the clock stops here
  MaxAdds,       \* bound: how often addFunc() succeeds
  MaxStarts,     \* bound: how often start() starts
  MaxJobs        \* bound: callbacks waiting in the pool

\* The arguments of _addFunc. start_time = -1 asks for one moment of the day,
\* end_time; equal times ask for no daily window (TimerManager.h:467).
ParamSet ==
  [start_date: Nat, end_date: Nat, start_time: Nat \cup {-1}, end_time: Nat,
   repeat: Nat \ {0}, duration: Nat]

Timers == [p: Params, repeat_num: Nat, runs: Nat]

ASSUME TimerAssumption ==
  /\ NoTimer \notin Timers
  /\ MaxId \in Nat \ {0} /\ Infinite \in Nat /\ DayLen \in Nat \ {0}
  /\ MaxTime \in Nat /\ MaxAdds \in Nat /\ MaxStarts \in Nat /\ MaxJobs \in Nat
  /\ Params \subseteq ParamSet
  /\ \A p \in Params : /\ p.start_time >= 0 => p.duration > 0
                       /\ p.repeat <= Infinite

Ids == 0..MaxId

VARIABLES
  now,           \* the clock
  m_stop,
  m_timers,      \* id -> Timer: its request, what is left of it, and
                 \* (history) how often it has run
  m_queue,       \* id -> the moments queued for it (IntervalS), in any order
  m_current_timer_id,
  extended,      \* m_use_extend_tg: the pool belongs to somebody else
  m_tg,          \* the pool: "null", "up", or "done"
  jobs,          \* callbacks waiting in the pool
  worker,        \* the pool's worker thread
  pc,            \* the detection thread
  dnow,          \* its local, while it holds the mutex: the time it read before
  upc,           \* the user thread, in start() and stop()
  adding,        \* addFunc has inserted and not yet notified (one client at a time)
  adds, starts   \* bounded counters

table      == <<m_timers, m_queue, m_current_timer_id>>
poolVars   == <<extended, m_tg, jobs, worker>>
detectVars == <<pc, dnow>>
userVars   == <<m_stop, upc, starts>>
clientVars == <<adding, adds>>
vars == <<now, m_stop, m_timers, m_queue, m_current_timer_id, extended, m_tg,
          jobs, worker, pc, dnow, upc, adding, adds, starts>>

Used   == {id \in Ids : m_timers[id] # NoTimer}
Asleep == pc \in {"wait", "wait_for"}

-----------------------------------------------------------------------------
(* Moments *)

StartOfDay(t) == t - (t % DayLen)
DailyAt(p)    == p.start_time < 0
Windowed(p)   == ~DailyAt(p) /\ p.start_time # p.end_time

\* The next multiple of the duration after the window opens, on point's day
\* (TimerManager.h:118).
OnGrid(p, point) ==
  LET gap == (point % DayLen) - p.start_time
  IN  IF gap % p.duration = 0 THEN point
      ELSE StartOfDay(point) + p.start_time + p.duration * (gap \div p.duration + 1)

\* A moment moved into the daily window.
IntoWindow(p, point) ==
  IF ~Windowed(p) THEN point
  ELSE IF point % DayLen < p.start_time THEN StartOfDay(point) + p.start_time
  ELSE IF point % DayLen > p.end_time
       THEN StartOfDay(point) + p.start_time + DayLen
  ELSE OnGrid(p, point)

\* A single moment that is over cannot be asked for, nor started again.
Expired(p, repeat) == DailyAt(p) /\ p.start_date + p.end_time < now /\ repeat <= 1

\* The first moment, at insertion and after start().
FirstMoment(p) ==
  IF DailyAt(p)
  THEN IF p.start_date + p.end_time >= now THEN p.start_date + p.end_time
       ELSE IF StartOfDay(now) + p.end_time < now
            THEN StartOfDay(now) + p.end_time + DayLen
            ELSE StartOfDay(now) + p.end_time
  ELSE IntoWindow(p, IF p.start_date >= StartOfDay(now)
                     THEN p.start_date + p.start_time + p.duration
                     ELSE now + p.duration)

\* The moment after a run at moment t.
NextMoment(p, t) ==
  IF DailyAt(p) THEN t + (StartOfDay(now) - StartOfDay(t) + DayLen)
  ELSE LET u == IF t + p.duration < now THEN now ELSE t + p.duration
       IN  IF Windowed(p) /\ u > StartOfDay(now) + p.end_time
           THEN StartOfDay(now) + p.start_time + DayLen ELSE u

PastEnd(p, t) == p.end_date # Infinite /\ t > p.end_date + p.end_time

-----------------------------------------------------------------------------
(* The queue and the table *)

\* id and its k-th moment are on top of the queue.
IsTop(id, k) ==
  /\ k \in DOMAIN m_queue[id]
  /\ \A other \in Ids : \A j \in DOMAIN m_queue[other] :
       m_queue[id][k] <= m_queue[other][j]

QueueEmpty == \A id \in Ids : m_queue[id] = <<>>
NoMoments  == [id \in Ids |-> <<>>]

Without(s, k) == [j \in 1 .. Len(s) - 1 |-> IF j < k THEN s[j] ELSE s[j + 1]]
Popped(id, k) == [m_queue EXCEPT ![id] = Without(@, k)]

\* getNewTimerId: the next free id after the last one, around the limit.
After(id, steps) == (id + steps) % (MaxId + 1)
NewTimerId ==
  LET n == CHOOSE n \in 1 .. MaxId + 1 :
             /\ After(m_current_timer_id, n) \notin Used
             /\ \A m \in 1 .. n - 1 : After(m_current_timer_id, m) \in Used
  IN  After(m_current_timer_id, n)

-----------------------------------------------------------------------------
(* Initially the constructor is about to call start() *)

Init ==
  /\ now = DayLen            \* day 0 is long ago: Datetime::min()
  /\ m_stop = TRUE
  /\ m_timers = [id \in Ids |-> NoTimer]
  /\ m_queue = NoMoments
  /\ m_current_timer_id = -1
  /\ extended \in BOOLEAN
  /\ m_tg = IF extended THEN "up" ELSE "null"
  /\ jobs = 0
  /\ worker = IF extended THEN "pop" ELSE "none"
  /\ pc = "none" /\ dnow = 0
  /\ upc = "stopped"
  /\ adding = FALSE /\ adds = 0 /\ starts = 0

Tick ==
  /\ now < MaxTime
  /\ now' = now + 1
  /\ UNCHANGED <<table, poolVars, detectVars, userVars, clientVars>>

-----------------------------------------------------------------------------
(* addFunc, removeTimer *)

\* _addFunc's own checks and insertion; the notification comes after the
\* unlock. A call that throws changes nothing.
AddFunc(p) ==
  /\ adds < MaxAdds /\ ~adding
  /\ p.end_date >= StartOfDay(now)
  /\ p.end_date # Infinite => p.end_date + p.end_time >= now
  /\ ~Expired(p, p.repeat)
  /\ Cardinality(Used) < MaxId
  /\ LET id == NewTimerId IN
       /\ m_current_timer_id' = id
       /\ m_timers' = [m_timers EXCEPT ![id] =
                         [p |-> p, repeat_num |-> p.repeat, runs |-> 0]]
       /\ m_queue' = [m_queue EXCEPT ![id] = Append(@, FirstMoment(p))]
  /\ adds' = adds + 1
  /\ adding' = TRUE
  /\ UNCHANGED <<now, poolVars, detectVars, userVars>>

\* Mutant of WakeDetector: nobody is notified.
WakeNobody == pc' = pc

\* notify_all: the detection thread, if it sleeps, goes back to its loop.
WakeDetector == pc' = IF Asleep THEN "look" ELSE pc

AddFuncNotifies ==
  /\ adding
  /\ adding' = FALSE
  /\ WakeDetector
  /\ UNCHANGED <<now, table, poolVars, dnow, userVars, adds>>

\* removeTimer only marks; the entry stays queued.
RemoveTimer(id) ==
  /\ id \in Used
  /\ m_timers[id].repeat_num > 0
  /\ m_timers' = [m_timers EXCEPT ![id].repeat_num = 0]
  /\ UNCHANGED <<now, m_queue, m_current_timer_id, poolVars, detectVars,
                 userVars, clientVars>>

-----------------------------------------------------------------------------
(* start() and stop(), by the user thread *)

StartBegins ==
  /\ upc = "stopped" /\ m_stop /\ starts < MaxStarts
  /\ m_stop' = FALSE
  /\ starts' = starts + 1
  /\ upc' = "rebuild"
  /\ UNCHANGED <<now, table, poolVars, detectVars, clientVars>>

Invalid(t) == \/ t.repeat_num <= 0
              \/ t.p.end_date # Infinite /\ t.p.end_date + t.p.end_time < now
              \/ Expired(t.p, t.repeat_num)

Valid == {id \in Used : ~Invalid(m_timers[id])}

\* Mutant of Rebuilt: the old queue is kept.
RebuiltOnto == [id \in Ids |->
  IF id \in Valid THEN Append(m_queue[id], FirstMoment(m_timers[id].p))
                  ELSE m_queue[id]]

Rebuilt == [id \in Ids |->
  IF id \in Valid THEN <<FirstMoment(m_timers[id].p)>> ELSE <<>>]

\* Under the mutex: a new queue from the table, without the invalid timers;
\* an own pool is made again.
StartRebuilds ==
  /\ upc = "rebuild"
  /\ m_queue' = Rebuilt
  /\ m_timers' = [id \in Ids |-> IF id \in Valid THEN m_timers[id] ELSE NoTimer]
  /\ IF m_tg = "null" THEN m_tg' = "up" /\ worker' = "pop" /\ jobs' = 0
                      ELSE UNCHANGED <<m_tg, worker, jobs>>
  /\ upc' = "launch"
  /\ UNCHANGED <<now, m_current_timer_id, extended, detectVars, m_stop,
                 starts, clientVars>>

\* Nobody waits on m_cond yet; the detection thread is made.
StartLaunches ==
  /\ upc = "launch"
  /\ upc' = "started"
  /\ pc' = "look"
  /\ UNCHANGED <<now, table, poolVars, dnow, m_stop, starts, clientVars>>

\* Under the mutex: the queue is dropped and m_stop set.
StopMarks ==
  /\ upc = "started" /\ ~m_stop
  /\ m_queue' = NoMoments
  /\ m_stop' = TRUE
  /\ upc' = "notify"
  /\ UNCHANGED <<now, m_timers, m_current_timer_id, poolVars, detectVars,
                 starts, clientVars>>

StopNotifies ==
  /\ upc = "notify"
  /\ WakeDetector
  /\ upc' = "join"
  /\ UNCHANGED <<now, table, poolVars, dnow, m_stop, starts, clientVars>>

StopJoins ==
  /\ upc = "join" /\ pc = "ended"
  /\ pc' = "none"
  /\ upc' = IF extended THEN "stopped" ELSE "pool"
  /\ UNCHANGED <<now, table, poolVars, dnow, m_stop, starts, clientVars>>

\* An own pool is stopped (ThreadPool::stop): the flag, ...
StopsPool ==
  /\ upc = "pool" /\ m_tg = "up"
  /\ m_tg' = "done"
  /\ UNCHANGED <<now, table, extended, jobs, worker, detectVars, userVars,
                 clientVars>>

\* ... the join of the worker, the clearing of what is left, and the deletion.
\* Mutant of WorkerJoined: the worker is not waited for.
WorkerLeft == TRUE

WorkerJoined == worker = "ended"
StopEnds ==
  /\ upc = "pool" /\ m_tg = "done" /\ WorkerJoined
  /\ m_tg' = "null" /\ jobs' = 0
  /\ worker' = IF worker = "ended" THEN "none" ELSE worker
  /\ upc' = "stopped"
  /\ UNCHANGED <<now, table, extended, detectVars, m_stop, starts,
                 clientVars>>

-----------------------------------------------------------------------------
(* The detection thread *)

\* while (!m_stop), and the clock, before the mutex is taken.
DetectLooks ==
  /\ pc = "look"
  /\ pc' = IF m_stop THEN "ended" ELSE "locked"
  /\ dnow' = IF m_stop THEN 0 ELSE now
  /\ UNCHANGED <<now, table, poolVars, userVars, clientVars>>

\* Nothing queued: it waits, without looking at m_stop again.
DetectWaits ==
  /\ pc = "locked" /\ QueueEmpty
  /\ pc' = "wait"
  /\ dnow' = 0
  /\ UNCHANGED <<now, table, poolVars, userVars, clientVars>>

DetectWaitsFor ==
  /\ pc = "locked" /\ ~QueueEmpty
  /\ \A id \in Ids : \A k \in DOMAIN m_queue[id] : m_queue[id][k] > dnow
  /\ pc' = "wait_for"
  /\ dnow' = 0
  /\ UNCHANGED <<now, table, poolVars, userVars, clientVars>>

\* wait_for times out, or either wait wakes up spuriously.
TimesOut ==
  /\ pc = "wait_for"
  /\ pc' = "look"
  /\ UNCHANGED <<now, table, poolVars, dnow, userVars, clientVars>>

WakesSpuriously ==
  /\ pc = "wait"
  /\ pc' = "look"
  /\ UNCHANGED <<now, table, poolVars, dnow, userVars, clientVars>>

\* What is left of the repetitions after a submission.
Left(t) == IF t.repeat_num = Infinite THEN Infinite ELSE t.repeat_num - 1

\* Mutants of Finished: one run more, and only at exactly zero.
FinishedLate(t, next)   == Left(t) < 0 \/ PastEnd(t.p, next)
FinishedAtZero(t, next) == Left(t) = 0 \/ PastEnd(t.p, next)

\* The timer goes when it has run often enough or its end date has passed.
Finished(t, next) == Left(t) <= 0 \/ PastEnd(t.p, next)

\* History: how often a finite timer has run.
Counted(t) == IF t.p.repeat = Infinite THEN 0 ELSE t.runs + 1

\* The due entry on top: its callback is submitted, and only then does the
\* thread look at what is left of it and queue its next moment.
DetectFires(id) ==
  /\ pc = "locked" /\ id \in Used
  /\ m_tg = "up" /\ jobs < MaxJobs
  /\ \E k \in DOMAIN m_queue[id] :
       /\ IsTop(id, k) /\ m_queue[id][k] <= dnow
       /\ LET t    == m_timers[id]
              next == NextMoment(t.p, m_queue[id][k])
          IN IF Finished(t, next)
                THEN /\ m_timers' = [m_timers EXCEPT ![id] = NoTimer]
                     /\ m_queue' = Popped(id, k)
                ELSE /\ m_timers' = [m_timers EXCEPT ![id].repeat_num = Left(t),
                                                         ![id].runs = Counted(t)]
                     /\ m_queue' = [Popped(id, k) EXCEPT ![id] = Append(@, next)]
  /\ jobs' = jobs + 1
  /\ pc' = "look"
  /\ dnow' = 0
  /\ UNCHANGED <<now, m_current_timer_id, extended, m_tg, worker,
                 userVars, clientVars>>

\* The pool of somebody else has been stopped: submit() throws and the timer
\* is dropped. An entry without a timer would be dropped too.
DetectDrops(id) ==
  /\ pc = "locked"
  /\ id \notin Used \/ m_tg = "done"
  /\ \E k \in DOMAIN m_queue[id] :
       /\ IsTop(id, k) /\ m_queue[id][k] <= dnow
       /\ m_queue' = Popped(id, k)
  /\ m_timers' = [m_timers EXCEPT ![id] = NoTimer]
  /\ pc' = "look"
  /\ dnow' = 0
  /\ UNCHANGED <<now, m_current_timer_id, poolVars, userVars,
                 clientVars>>

-----------------------------------------------------------------------------
(* The worker of the pool (ThreadPool::worker_thread) *)

\* It takes a callback, or the null task that stop() put behind them.
WorkerPops ==
  /\ worker = "pop"
  /\ \/ jobs > 0 /\ jobs' = jobs - 1 /\ worker' = "run"
     \/ jobs = 0 /\ m_tg = "done" /\ jobs' = 0 /\ worker' = "ended"
  /\ UNCHANGED <<now, table, extended, m_tg, detectVars, userVars,
                 clientVars>>

\* The callback ends and the worker looks at the pool's flag.
CallbackEnds ==
  /\ worker = "run"
  /\ worker' = IF m_tg = "done" THEN "ended" ELSE "pop"
  /\ UNCHANGED <<now, table, extended, m_tg, jobs, detectVars, userVars,
                 clientVars>>

\* The owner of a given pool stops it; its join and clearing are its own affair.
OwnerStopsPool ==
  /\ extended /\ m_tg = "up"
  /\ m_tg' = "done"
  /\ UNCHANGED <<now, table, extended, jobs, worker, detectVars, userVars,
                 clientVars>>

-----------------------------------------------------------------------------

Detector == \/ DetectLooks \/ DetectWaits \/ DetectWaitsFor \/ TimesOut
            \/ \E id \in Ids : DetectFires(id) \/ DetectDrops(id)
User     == StartRebuilds \/ StartLaunches \/ StopNotifies \/ StopJoins
            \/ StopsPool \/ StopEnds
Worker   == WorkerPops \/ CallbackEnds

Next ==
  \/ Tick
  \/ \E p \in Params : AddFunc(p)
  \/ AddFuncNotifies
  \/ \E id \in Ids : RemoveTimer(id)
  \/ StartBegins \/ StopMarks \/ OwnerStopsPool
  \/ User
  \/ Detector \/ WakesSpuriously
  \/ Worker

Spec == Init /\ [][Next]_vars

\* Threads run on: the detection thread, the worker (a callback ends), the
\* user thread inside start() or stop(), a client on its way out of addFunc.
\* wait_for returns in the end. Nobody has to start, stop, add or remove, the
\* clock may stand, and a wait without timeout need not wake up by itself.
FairSpec ==
  /\ Spec
  /\ WF_vars(Detector) /\ WF_vars(User)
  /\ WF_vars(Worker) /\ WF_vars(AddFuncNotifies)

-----------------------------------------------------------------------------
(* Properties *)

TypeOK ==
  /\ now \in Nat /\ dnow \in Nat
  /\ m_stop \in BOOLEAN /\ extended \in BOOLEAN
  /\ m_timers \in [Ids -> Timers \cup {NoTimer}]
  /\ m_queue \in [Ids -> Seq(Int)]
  /\ m_current_timer_id \in Ids \cup {-1}
  /\ m_tg \in {"null", "up", "done"} /\ jobs \in Nat
  /\ worker \in {"none", "pop", "run", "ended"}
  /\ pc \in {"none", "look", "locked", "wait", "wait_for", "ended"}
  /\ upc \in {"stopped", "rebuild", "launch", "started", "notify", "join", "pool"}
  /\ adding \in BOOLEAN /\ adds \in 0..MaxAdds /\ starts \in 0..MaxStarts

\* No timer is lost and no entry outlives its timer, so that an id given out
\* again never inherits one: an entry always names a timer, a timer has at most
\* one, and exactly one while the service runs, whatever order additions,
\* removals, failing submissions, stop() and the rebuild of start() come in.
EntriesMatchTimers ==
  /\ \A id \in Ids : Len(m_queue[id]) <= IF id \in Used THEN 1 ELSE 0
  /\ upc \in {"launch", "started"} => \A id \in Used : Len(m_queue[id]) = 1

\* A timer runs at most as often as it was asked to, over stops, restarts and
\* removal: what it has run and what it has left never exceed the request, and
\* one that has used it up is gone.
RunsAsAsked ==
  \A id \in Used :
    LET t == m_timers[id]
    IN  t.p.repeat # Infinite =>
          t.runs + t.repeat_num <= t.p.repeat /\ t.runs < t.p.repeat

\* A removed timer (removeTimer only sets repeat_num) may run once more, since
\* the thread submits before it looks, and is gone with that run.
Runs(id) == id \in Used /\ jobs' = jobs + 1 /\ m_queue'[id] # m_queue[id]
RemovedRunsOnceMore ==
  [][\A id \in Ids : Runs(id) /\ m_timers[id].repeat_num <= 0
                      => m_timers'[id] = NoTimer]_vars

\* The detection thread never meets a deleted pool, and when stop() has
\* returned, or the service was not started, no callback of an own pool is
\* queued or runs.
StoppedIsQuiet ==
  /\ pc # "none" => m_tg # "null"
  /\ upc = "stopped" /\ ~extended => jobs = 0 /\ worker = "none"

\* The moment of a timer has come, and the service runs.
Due(id) ==
  /\ upc = "started" /\ id \in Used
  /\ \E k \in DOMAIN m_queue[id] : m_queue[id][k] <= now

\* A due timer is not forgotten: the thread wakes up for it, however the
\* insertion and its notification fall into the thread's loop.
DueTimerFires == \A id \in Ids : Due(id) ~> ~Due(id)

\* stop() returns. Not claimed, since it is not so, for a detection thread that
\* had looked at m_stop before it was stored and takes the mutex only after
\* the notification: it waits on the empty queue and stop() joins it for ever.
StopReturns == upc = "notify" /\ pc # "locked" ~> upc = "stopped"
=============================================================================
