----------------------- MODULE GlobalStealThreadPool -----------------------
(***************************************************************************)
(* hku::GlobalStealThreadPool (utilities/thread/GlobalStealThreadPool.h)   *)
(* with the queues it is built on and the waiting loop every user of the   *)
(* global pool runs (wait_for_all_non_blocking, thread/algorithm.h).       *)
(*                                                                         *)
(* Each worker owns a queue it pushes and pops at the front; the others    *)
(* steal from its back.  Threads that are not workers use a master queue.  *)
(* A task may submit tasks and then waits for them, running other tasks    *)
(* meanwhile: a thread has a stack of tasks, and only the top one advances. *)
(***************************************************************************)
EXTENDS Integers, Sequences, FiniteSets, SequencesExt

CONSTANTS WorkerNum,    \* m_worker_num
          Clients,      \* threads that submit and are not workers
          Tasks,        \* the tasks that can be submitted
          Null,         \* the empty FuncWrapper, a request to end
          Closers,      \* threads that call join() or stop()
          Calls,        \* what they call: a subset of {"join", "stop"}
          Modes,        \* the values m_running_until_empty may have
          ClientsNest   \* a task run by a client may submit tasks

Workers == 1..WorkerNum

ASSUME ConstantsOK == /\ WorkerNum \in Nat \ {0}
                      /\ Clients \cap Workers = {}
                      /\ Clients \cap Tasks = {}
                      /\ Null \notin Tasks \cup Clients \cup Closers
                      /\ Calls \subseteq {"join", "stop"}
                      /\ Modes \subseteq BOOLEAN /\ ClientsNest \in BOOLEAN

VARIABLES m_done,                \* the pool is ended
          m_running_task_count,  \* submitted and not yet finished
          m_sleep_count,         \* workers that went to sleep on m_cv
          m_master_work_queue,   \* FIFO of the other threads
          m_queues,              \* a deque per worker
          m_interrupt_flags,     \* the workers whose flag pointer is not null
          thread_need_stop,      \* the workers whose flag is set
          m_join_mutex,          \* the closer that holds it, or Null
          wpc,      \* where each worker is
          stack,    \* the tasks each thread is executing, top first
          cpc,      \* where each client's submit() is
          sub,      \* the task that submit() carries
          spawner,  \* the task or client that waits for a task, Null: not submitted
          finished, \* the tasks that were executed
          kpc,      \* where each closer is
          call,     \* what it calls
          m_running_until_empty,
          at,       \* the worker whose flag it handles
          owed      \* what a join() has promised to wait for

queues == <<m_master_work_queue, m_queues>>
flags  == <<m_interrupt_flags, thread_need_stop>>
fixed  == <<call, m_running_until_empty>>
close  == <<m_join_mutex, kpc, fixed, at>>
submit == <<cpc, sub>>
vars == <<m_done, m_running_task_count, m_sleep_count, queues, flags, close,
          wpc, stack, submit, spawner, finished, owed>>

Threads == Workers \cup Clients

Init == /\ m_done = FALSE
        /\ m_running_task_count = 0
        /\ m_sleep_count = 0
        /\ m_master_work_queue = <<>>
        /\ m_queues = [w \in Workers |-> <<>>]
        /\ m_interrupt_flags = Workers
        /\ thread_need_stop = {}
        /\ m_join_mutex = Null
        /\ wpc = [w \in Workers |-> "top"]
        /\ stack = [t \in Threads |-> <<>>]
        /\ cpc = [c \in Clients |-> "out"]
        /\ sub = [c \in Clients |-> Null]
        /\ spawner = [t \in Tasks |-> Null]
        /\ finished = {}
        /\ kpc = [k \in Closers |-> "out"]
        /\ call \in [Closers -> Calls]
        /\ m_running_until_empty \in Modes
        /\ at = [k \in Closers |-> 0]
        /\ owed = {}

-----------------------------------------------------------------------------
(* Whatever holds tasks: the master queue, the deques, the stacks.         *)
Stores == {<<"master", Null>>} \cup ({"deque"} \X Workers) \cup ({"stack"} \X Threads)
Stored == [p \in Stores |-> IF p[1] = "master" THEN m_master_work_queue
                           ELSE IF p[1] = "deque" THEN m_queues[p[2]] ELSE stack[p[2]]]

TasksIn(F) == {t \in Tasks : \E p \in Stores : \E i \in DOMAIN F[p] : F[p][i] = t}

Submitted == {t \in Tasks : spawner[t] # Null}
InTransit == {sub[c] : c \in {d \in Clients : cpc[d] \in {"counted", "pushing"}}}

(* get() on a task's future returns once the task was executed, and throws *)
(* once an ended pool dropped it, which destroys the promise.              *)
Answered(t) == \/ t \in finished
               \/ m_done /\ t \notin TasksIn(Stored) \cup InTransit

(* Who waits for what.  The top task of a thread waits for the tasks it    *)
(* submitted; a client with an empty stack, for those it submitted itself. *)
Doer(x)     == IF stack[x] = <<>> THEN x ELSE Head(stack[x])
Children(d) == {t \in Tasks : spawner[t] = d}
Waits(x)    == \E t \in Children(Doer(x)) : ~Answered(t)

CvIgnored == TRUE

(* m_cv_mutex is held by a worker between its predicate and its blocking,  *)
(* and by a closer that handles the flags.                                 *)
CvFree == /\ \A w \in Workers : wpc[w] # "checked"
          /\ \A k \in Closers : kpc[k] \notin {"test", "set"}

Asleep == {w \in Workers : wpc[w] = "waiting"}
Woken(ws) == [w \in Workers |-> IF w \in ws THEN "woken" ELSE wpc[w]]

NotifyNobody == UNCHANGED wpc

NotifyOne == IF Asleep = {} THEN UNCHANGED wpc
                            ELSE \E w \in Asleep : wpc' = Woken({w})

WakeAll == wpc' = Woken(Asleep)

(* m_idle_cv: every joiner asleep on the drain wait is woken.              *)
IdleNotify(k0) == [k \in Closers |-> IF k0[k] = "asleep" THEN "drain" ELSE k0[k]]

NoRelease == UNCHANGED <<m_running_task_count, kpc>>

(* _releaseRunningTask()                                                   *)
ReleaseRunningTask ==
  /\ m_running_task_count' = m_running_task_count - 1
  /\ kpc' = IF m_running_task_count = 1 THEN IdleNotify(kpc) ELSE kpc

CountNone == UNCHANGED m_running_task_count

CountOne == m_running_task_count' = m_running_task_count + 1

(* A task belongs to the ones a join() waits for if its submitter does.    *)
Adopt(d, t) == owed' = IF d \in owed THEN owed \cup {t} ELSE owed

-----------------------------------------------------------------------------
(* submit(), by a thread that is not a worker: the first look at m_done    *)
(* and the increment; the second look; the push; the notification.         *)
SubmitCount(c) ==
  /\ cpc[c] = "out"
  /\ stack[c] = <<>> \/ ClientsNest
  /\ ~m_done
  /\ \E t \in Tasks : /\ spawner[t] = Null
                      /\ sub' = [sub EXCEPT ![c] = t]
                      /\ spawner' = [spawner EXCEPT ![t] = Doer(c)]
                      /\ Adopt(Doer(c), t)
  /\ CountOne
  /\ cpc' = [cpc EXCEPT ![c] = "counted"]
  /\ UNCHANGED <<m_done, m_sleep_count, queues, flags, close, wpc, stack, finished>>

(* Refused: the task never existed (its name may be used again).           *)
SubmitRefused(c) ==
  /\ cpc[c] = "counted"
  /\ m_done
  /\ ReleaseRunningTask
  /\ spawner' = [spawner EXCEPT ![sub[c]] = Null]
  /\ owed' = owed \ {sub[c]}
  /\ cpc' = [cpc EXCEPT ![c] = "out"]
  /\ sub' = [sub EXCEPT ![c] = Null]
  /\ UNCHANGED <<m_done, m_sleep_count, queues, flags, m_join_mutex, fixed, at,
                 wpc, stack, finished>>

SubmitChecked(c) == /\ cpc[c] = "counted"
                    /\ ~m_done
                    /\ cpc' = [cpc EXCEPT ![c] = "pushing"]
                    /\ UNCHANGED <<m_done, m_running_task_count, m_sleep_count, queues,
                          flags, close, wpc, stack, sub, spawner, finished, owed>>

SubmitPush(c) == /\ cpc[c] = "pushing"
                 /\ m_master_work_queue' = Append(m_master_work_queue, sub[c])
                 /\ cpc' = [cpc EXCEPT ![c] = "notifying"]
                 /\ UNCHANGED <<m_done, m_running_task_count, m_sleep_count, m_queues,
                       flags, close, wpc, stack, sub, spawner, finished, owed>>

SubmitNotify(c) == /\ cpc[c] = "notifying"
                   /\ NotifyOne
                   /\ cpc' = [cpc EXCEPT ![c] = "out"]
                   /\ sub' = [sub EXCEPT ![c] = Null]
                   /\ UNCHANGED <<m_done, m_running_task_count, m_sleep_count, queues,
                                  flags, close, stack, spawner, finished, owed>>

(* submit(), by a task on a worker: to the front of its own queue, without *)
(* a notification.  The count cannot be 0 in between: the task is counted. *)
SubmitLocal(w) ==
  /\ wpc[w] = "running"
  /\ ~m_done /\ w \notin thread_need_stop
  /\ \E t \in Tasks :
       /\ spawner[t] = Null
       /\ spawner' = [spawner EXCEPT ![t] = Doer(w)]
       /\ m_queues' = [m_queues EXCEPT ![w] = <<t>> \o @]
       /\ Adopt(Doer(w), t)
  /\ CountOne
  /\ UNCHANGED <<m_done, m_sleep_count, m_master_work_queue, flags, close, wpc,
                 stack, submit, finished>>

-----------------------------------------------------------------------------
(* What a thread does with the task it popped: an empty one sets the       *)
(* worker's own flag, any other is executed on top of its stack.           *)
Execute(x, t) == stack' = [stack EXCEPT ![x] = <<t>> \o @]

Stealable(w) == {v \in Workers \ {w} : m_queues[v] # <<>> /\ Last(m_queues[v]) # Null}

TakeLocal(w) == /\ m_queues[w] # <<>>
                /\ m_queues' = [m_queues EXCEPT ![w] = Tail(@)]
                /\ UNCHANGED m_master_work_queue

TakeMaster == /\ m_master_work_queue # <<>>
              /\ m_master_work_queue' = Tail(m_master_work_queue)
              /\ UNCHANGED m_queues

StealWithoutPop(w, v) == v \in Stealable(w) /\ UNCHANGED queues

TakeFrom(w, v) == /\ v \in Stealable(w)
                  /\ m_queues' = [m_queues EXCEPT ![v] = Front(@)]
                  /\ UNCHANGED m_master_work_queue

(* run_pending_task() after a successful pop *)
Run(w, t) ==
  /\ IF t = Null THEN /\ thread_need_stop' = thread_need_stop \cup {w}
                      /\ wpc' = [wpc EXCEPT ![w] = "top"]
                      /\ UNCHANGED stack
                 ELSE /\ Execute(w, t)
                      /\ wpc' = [wpc EXCEPT ![w] = "running"]
                      /\ UNCHANGED thread_need_stop
  /\ UNCHANGED <<m_done, m_running_task_count, m_sleep_count, m_interrupt_flags,
                 close, submit, spawner, finished, owed>>

Goto(w, p) == /\ wpc' = [wpc EXCEPT ![w] = p]
              /\ UNCHANGED <<m_done, m_running_task_count, queues, flags, close, stack,
                             submit, spawner, finished, owed>>

(* worker_thread(): the loop condition; the pointer is cleared on the way  *)
(* out, under no lock.                                                     *)
WorkerLoop(w) == /\ wpc[w] = "top"
                 /\ ~m_done /\ w \notin thread_need_stop
                 /\ Goto(w, "local")
                 /\ UNCHANGED m_sleep_count

WorkerExit(w) == /\ wpc[w] = "top"
                 /\ m_done \/ w \in thread_need_stop
                 /\ wpc' = [wpc EXCEPT ![w] = "exited"]
                 /\ m_interrupt_flags' = m_interrupt_flags \ {w}
                 /\ UNCHANGED <<m_done, m_running_task_count, m_sleep_count, queues,
                       thread_need_stop, close, stack, submit, spawner, finished, owed>>

(* run_pending_task(): own queue, master queue, the others' queues, sleep. *)
PendingLocal(w) == /\ wpc[w] = "local"
                   /\ \/ TakeLocal(w) /\ Run(w, Head(m_queues[w]))
                      \/ /\ m_queues[w] = <<>>
                         /\ Goto(w, "master") /\ UNCHANGED m_sleep_count

PendingMaster(w) == /\ wpc[w] = "master"
                    /\ \/ TakeMaster /\ Run(w, Head(m_master_work_queue))
                       \/ /\ m_master_work_queue = <<>>
                          /\ Goto(w, "steal") /\ UNCHANGED m_sleep_count

PendingSteal(w) == /\ wpc[w] = "steal"
                   /\ \/ \E v \in Stealable(w) : TakeFrom(w, v) /\ Run(w, Last(m_queues[v]))
                      \/ /\ Stealable(w) = {}
                         /\ Goto(w, "tosleep")
                         /\ m_sleep_count' = m_sleep_count + 1

LeaveSleep == m_sleep_count' = m_sleep_count - 1

WakePred == \/ m_done
            \/ m_master_work_queue # <<>>
            \/ \E v \in Workers : m_queues[v] # <<>>

(* m_cv.wait(lk, pred): under m_cv_mutex the predicate is evaluated; then, *)
(* in another step, the worker blocks and lets the mutex go.               *)
SleepCheck(w) == /\ wpc[w] \in {"tosleep", "woken"}
                 /\ CvFree
                 /\ \/ /\ WakePred
                       /\ Goto(w, "top")
                       /\ LeaveSleep
                    \/ /\ ~WakePred
                       /\ Goto(w, "checked")
                       /\ UNCHANGED m_sleep_count

SleepBlock(w) == /\ wpc[w] = "checked"
                 /\ Goto(w, "waiting")
                 /\ UNCHANGED m_sleep_count

-----------------------------------------------------------------------------
(* RunningTaskGuard lowers the count when the top task ends.               *)
EndTask(x) ==
  /\ stack[x] # <<>>
  /\ x \in Clients => cpc[x] = "out"
  /\ finished' = finished \cup {Head(stack[x])}
  /\ stack' = [stack EXCEPT ![x] = Tail(@)]
  /\ ReleaseRunningTask
  /\ wpc' = IF x \in Workers /\ Len(stack[x]) = 1 THEN [wpc EXCEPT ![x] = "top"] ELSE wpc
  /\ UNCHANGED <<m_done, m_sleep_count, queues, flags, m_join_mutex, fixed, at,
                 submit, spawner, owed>>

(* It ends once get() has answered for every task it submitted: the wait   *)
(* before that returns early when the pool is done, get() does not.  Or    *)
(* its next submit() is refused, and the exception ends it.                *)
FinishTask(x) == ~Waits(x) /\ EndTask(x)
ThrowTask(x)  == m_done /\ EndTask(x)

MayHelp(x) == Waits(x) /\ ~m_done

(* run_available_task_once() by a waiting worker: own queue, the others',  *)
(* the master queue; an empty task only sets the flag.  A thread short of  *)
(* stack (local_only) helps with its own queue alone.                      *)
HelpWorker(w) ==
  /\ wpc[w] = "running"
  /\ MayHelp(w) /\ w \notin thread_need_stop
  /\ \E t \in Tasks \cup {Null} :
       /\ \/ TakeLocal(w) /\ t = Head(m_queues[w])
          \/ /\ m_queues[w] = <<>>
             /\ \/ \E v \in Stealable(w) : TakeFrom(w, v) /\ t = Last(m_queues[v])
                \/ Stealable(w) = {} /\ TakeMaster /\ t = Head(m_master_work_queue)
       /\ IF t = Null THEN /\ thread_need_stop' = thread_need_stop \cup {w}
                           /\ UNCHANGED stack
                      ELSE Execute(w, t) /\ UNCHANGED thread_need_stop
  /\ UNCHANGED <<m_done, m_running_task_count, m_sleep_count, m_interrupt_flags, close,
                 wpc, submit, spawner, finished, owed>>

(* A client helps from the outermost wait only (help_reentry_depth), and   *)
(* only with the master queue; it drops an empty task.                     *)
HelpClient(c) ==
  /\ cpc[c] = "out"
  /\ stack[c] = <<>>
  /\ MayHelp(c)
  /\ TakeMaster
  /\ IF Head(m_master_work_queue) = Null THEN UNCHANGED stack
                                         ELSE Execute(c, Head(m_master_work_queue))
  /\ UNCHANGED <<m_done, m_running_task_count, m_sleep_count, flags, close, wpc,
                 submit, spawner, finished, owed>>

(* wake_up() by a waiting worker: all sleepers, or as many as tasks remain. *)
Remaining == Len(m_master_work_queue)
               + FoldSet(LAMBDA w, n : n + Len(m_queues[w]), 0, Workers)

WakeUp(w) ==
  /\ wpc[w] = "running"
  /\ MayHelp(w)
  /\ m_sleep_count > 0 /\ Remaining > 0
  /\ \E ws \in SUBSET Asleep :
       /\ IF Remaining >= m_sleep_count
            THEN ws = Asleep
            ELSE Cardinality(ws) = Min({Remaining, Cardinality(Asleep)})
       /\ wpc' = Woken(ws)
  /\ UNCHANGED <<m_done, m_running_task_count, m_sleep_count, queues, flags, close,
                 stack, submit, spawner, finished, owed>>

-----------------------------------------------------------------------------
(* join() and stop().  A closer goes out -> [drain <-> asleep ->] lock ->  *)
(* mark -> [test -> set] -> notify -> joining -> out.                      *)
Drained == m_done \/ m_running_task_count = 0

KGoto(k, p) == kpc' = [kpc EXCEPT ![k] = p]
Rest == <<m_running_task_count, stack, submit, spawner, finished>>

(* The first join() promises to wait for what has been submitted when it   *)
(* is called and for whatever that submits.                                *)
Close(k) == /\ kpc[k] = "out"
            /\ KGoto(k, IF call[k] = "join" /\ m_running_until_empty THEN "drain" ELSE "lock")
            /\ owed' = IF call[k] = "join" /\ \A j \in Closers : kpc[j] = "out"
                       THEN Submitted \ InTransit ELSE owed
            /\ UNCHANGED <<m_done, m_sleep_count, queues, flags, m_join_mutex, fixed, at,
                           wpc, Rest>>

Drain(k) == /\ kpc[k] = "drain"
            /\ KGoto(k, IF Drained THEN "lock" ELSE "asleep")
            /\ UNCHANGED <<m_done, m_sleep_count, queues, flags, m_join_mutex, fixed, at,
                           wpc, owed, Rest>>

NoJoinMutex == TRUE

JoinMutexFree == m_join_mutex = Null

(* Under m_join_mutex: only the first closer goes on.  stop() also resets  *)
(* the sleep count.                                                        *)
CloseLock(k) ==
  /\ kpc[k] = "lock"
  /\ JoinMutexFree
  /\ \/ /\ m_done
        /\ KGoto(k, "closed")
        /\ UNCHANGED <<m_done, m_sleep_count, m_join_mutex>>
     \/ /\ ~m_done
        /\ m_done' = TRUE
        /\ m_join_mutex' = k
        /\ kpc' = [IdleNotify(kpc) EXCEPT ![k] = "mark"]
        /\ m_sleep_count' = IF call[k] = "stop" THEN 0 ELSE m_sleep_count
  /\ UNCHANGED <<queues, flags, fixed, at, wpc, owed, Rest>>

(* Under m_cv_mutex, worker by worker: the flag pointer is tested, then    *)
(* used; stop() pushes an empty task to the front of each worker's queue,  *)
(* join() WorkerNum of them to the master queue.                           *)
SetsFlags(k) == call[k] = "stop" \/ m_running_until_empty

PushNulls(k) ==
  IF call[k] = "stop"
    THEN /\ m_queues' = [w \in Workers |-> <<Null>> \o m_queues[w]]
         /\ UNCHANGED m_master_work_queue
    ELSE /\ m_master_work_queue' = m_master_work_queue \o [i \in Workers |-> Null]
         /\ UNCHANGED m_queues

Mark(k) == /\ kpc[k] = "mark"
           /\ CvFree
           /\ at' = [at EXCEPT ![k] = 1]
           /\ IF SetsFlags(k) THEN KGoto(k, "test") /\ UNCHANGED queues
                              ELSE KGoto(k, "notify") /\ PushNulls(k)
           /\ UNCHANGED <<m_done, m_sleep_count, flags, m_join_mutex, fixed, wpc, owed, Rest>>

Advance(k) == IF at[k] = WorkerNum
                THEN KGoto(k, "notify") /\ PushNulls(k) /\ UNCHANGED at
                ELSE KGoto(k, "test") /\ at' = [at EXCEPT ![k] = @ + 1] /\ UNCHANGED queues

TestFlag(k) == /\ kpc[k] = "test"
               /\ IF at[k] \in m_interrupt_flags
                    THEN KGoto(k, "set") /\ UNCHANGED <<at, queues>>
                    ELSE Advance(k)
               /\ UNCHANGED <<m_done, m_sleep_count, flags, m_join_mutex, fixed, wpc,
                              owed, Rest>>

SetFlag(k) == /\ kpc[k] = "set"
              /\ thread_need_stop' = thread_need_stop \cup {at[k]}
              /\ Advance(k)
              /\ UNCHANGED <<m_done, m_sleep_count, m_interrupt_flags, m_join_mutex, fixed,
                             wpc, owed, Rest>>

NotifyAll(k) == /\ kpc[k] = "notify"
                /\ WakeAll
                /\ KGoto(k, "joining")
                /\ UNCHANGED <<m_done, m_sleep_count, queues, flags, m_join_mutex, fixed, at,
                               owed, Rest>>

(* All workers are joined; what is still queued is thrown away.            *)
Clear(k) == /\ kpc[k] = "joining"
            /\ \A w \in Workers : wpc[w] = "exited"
            /\ m_master_work_queue' = <<>>
            /\ m_queues' = [w \in Workers |-> <<>>]
            /\ m_join_mutex' = Null
            /\ KGoto(k, "closed")
            /\ UNCHANGED <<m_done, m_sleep_count, flags, fixed, at, wpc, owed, Rest>>

-----------------------------------------------------------------------------
Worker(w) == \/ WorkerLoop(w) \/ WorkerExit(w) \/ PendingLocal(w) \/ PendingMaster(w)
             \/ PendingSteal(w) \/ SleepCheck(w) \/ SleepBlock(w)
Client(c) == SubmitRefused(c) \/ SubmitChecked(c) \/ SubmitPush(c) \/ SubmitNotify(c)
Closer(k) == \/ Drain(k) \/ CloseLock(k) \/ Mark(k) \/ TestFlag(k) \/ SetFlag(k)
             \/ NotifyAll(k) \/ Clear(k)
Help(x) == \/ x \in Workers /\ HelpWorker(x)
           \/ x \in Clients /\ HelpClient(x)

Next == \/ \E w \in Workers : Worker(w) \/ SubmitLocal(w) \/ HelpWorker(w) \/ WakeUp(w)
        \/ \E c \in Clients : Client(c) \/ SubmitCount(c) \/ HelpClient(c)
        \/ \E x \in Threads : FinishTask(x) \/ ThrowTask(x)
        \/ \E k \in Closers : Close(k) \/ Closer(k)

Spec == Init /\ [][Next]_vars

(* Threads keep running, tasks end once what they wait for has, a waiting  *)
(* thread keeps helping, and a call that was entered goes on.  Nobody is   *)
(* obliged to submit or to close.                                          *)
Fairness == /\ \A w \in Workers : WF_vars(Worker(w))
            /\ \A c \in Clients : WF_vars(Client(c))
            /\ \A x \in Threads : WF_vars(FinishTask(x)) /\ WF_vars(Help(x))
            /\ \A k \in Closers : WF_vars(Closer(k))

FairSpec == Spec /\ Fairness

-----------------------------------------------------------------------------
InOnePlace(F) ==
  \A p, q \in Stores : \A i \in DOMAIN F[p], j \in DOMAIN F[q] :
     F[p][i] = F[q][j] /\ F[p][i] # Null => p = q /\ i = j

(* Push, pop, steal, help and discard lose no task and duplicate none: a   *)
(* submitted task is on its way in, or once in one queue, or once on one   *)
(* stack, or executed; only a closed pool may have thrown some away.       *)
NeverTwice ==
  /\ InOnePlace(Stored)
  /\ TasksIn(Stored) \cap (finished \cup InTransit) = {}
  /\ finished \cap InTransit = {}
  /\ ~m_done => TasksIn(Stored) \cup finished \cup InTransit = Submitted

(* m_running_task_count counts what is queued or in flight, so that zero   *)
(* "means the pool is truly idle" (line 275); what stop() discards stays   *)
(* counted.                                                                *)
CountExact == m_running_task_count = Cardinality(Submitted \ finished)

(* When join() or stop() has returned, whoever called it first, no worker  *)
(* is left and none executes anything.                                     *)
ClosedMeansEnded ==
  (\E k \in Closers : kpc[k] = "closed") =>
     \A w \in Workers : wpc[w] = "exited" /\ stack[w] = <<>>

(* join() of an until-empty pool nobody stops has executed what had been   *)
(* submitted when it was called, with all that those tasks submitted, even *)
(* if another join() runs and submissions go on.                           *)
JoinKeepsPromise ==
  m_running_until_empty /\ (\A k \in Closers : call[k] = "join")
    => \A k \in Closers : kpc[k] = "closed" => owed \subseteq finished

(* Once a closer has woken the workers and goes on to join them, none      *)
(* sleeps on m_cv or is about to: whichever way the notification, the      *)
(* flags and the worker's last look at the queues interleave, nothing but  *)
(* a task that does not end keeps join() and stop() from returning.        *)
NobodySleepsOn ==
  (\E k \in Closers : kpc[k] = "joining") =>
     \A w \in Workers : wpc[w] \notin {"checked", "waiting"}

(* In an open pool of two or more workers some worker is up whenever a    *)
(* task is queued, unless its submitter is just about to notify: a push    *)
(* may fall between a worker's look at the queues and its blocking, and a  *)
(* notification is lost on one that has not blocked yet, yet then another  *)
(* worker is awake.  A single worker has no other.                         *)
Queued == m_master_work_queue # <<>> \/ \E w \in Workers : m_queues[w] # <<>>

NoTaskSleeps ==
  WorkerNum > 1 /\ ~m_done /\ Queued /\ (\A c \in Clients : cpc[c] # "notifying")
    => \E w \in Workers : wpc[w] \notin {"checked", "waiting"}

(* "It waits for every thread to finish the currently executed task and    *)
(* then exits immediately" (stop(), line 219): a closer that was let in    *)
(* returns.                                                                *)
CloserReturns == \A k \in Closers : kpc[k] = "lock" ~> kpc[k] = "closed"
=============================================================================
