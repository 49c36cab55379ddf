------------------------------ MODULE Strategy ------------------------------
(***************************************************************************)
(* The life cycle of a live strategy (strategy/Strategy.h, Strategy.cpp):  *)
(* one thread, the owner, calls start() and stays in its event loop; other *)
(* threads call stop(); timer threads run guarded jobs that queue events   *)
(* for the loop, and the one-shot timers that align a runDaily function    *)
(* with the session and then arm its periodic timer.                       *)
(*                                                                         *)
(* Each atomic, each queue operation and each scheduler call is one step.  *)
(* One runDaily function is modelled; the scheduler is external: a one-    *)
(* shot registered in it fires once, at any later time, on any worker.     *)
(***************************************************************************)
EXTENDS Naturals, Sequences, FiniteSets

CONSTANTS
  Owner,         \* the thread that calls start()
  Stoppers,      \* other threads that call stop()
  Workers,       \* the threads of the scheduler and of the spot agent
  MaxRuns,       \* bound: how often start() is called
  MaxEvents,     \* bound: how many jobs queue an event
  Orderly        \* TRUE: stop() is called once per run, while it runs, and
                 \* start() only when no stop() is under way

ASSUME StrategyAssumption ==
  /\ MaxRuns \in Nat /\ MaxEvents \in Nat /\ Orderly \in BOOLEAN
  /\ Owner \notin Stoppers /\ IsFiniteSet(Workers)

Callers == Stoppers \cup {Owner}

VARIABLES
  alive,                 \* m_token->alive
  m_running,
  m_event_generation,
  m_event_queue,         \* tasks: the generation read, and history (run, late)
  m_event_loop_running,
  periodic_armed,        \* RunDailyAt::periodic_armed
  oneshots,              \* alignment timers waiting in the scheduler
  periodics,             \* periodic timers armed in the scheduler
  pc,                    \* where the owner is in start() and in the loop
  task,                  \* the task the loop took last
  stopPc,                \* where each caller is in stop()
  was_running,           \* stop's local
  jobPc,                 \* where each worker is in a timer's callback
  aligning,              \* the worker's callback is an alignment one-shot
  gen,                   \* event's local
  run,                   \* history: how often start() was called
  emitted,               \* history: how many events were queued
  stopCalled,            \* history: stop() was called in this run
  stopReturned,          \* history: a stop() of this run has returned
  late                   \* history: the job read the generation after stopCalled

loopVars == <<pc, task>>
stopVars == <<stopPc, was_running, stopCalled, stopReturned>>
jobVars  == <<jobPc, aligning, gen, emitted, late>>
timers   == <<periodic_armed, oneshots, periodics>>
flags    == <<alive, m_running, m_event_loop_running>>
vars     == <<alive, m_running, m_event_generation, m_event_queue,
              m_event_loop_running, periodic_armed, oneshots, periodics, pc,
              task, stopPc, was_running, jobPc, aligning, gen, run, emitted,
              stopCalled, stopReturned, late>>

Null == 0
NullTask(r) == [gen |-> Null, run |-> r, late |-> FALSE]

Init ==
  /\ alive = FALSE /\ m_running = FALSE /\ m_event_loop_running = FALSE
  /\ m_event_generation = 1
  /\ m_event_queue = <<>>
  /\ periodic_armed = FALSE /\ oneshots = 0 /\ periodics = 0
  /\ pc = "idle" /\ task = NullTask(0)
  /\ stopPc = [t \in Callers |-> "out"]
  /\ was_running = [t \in Callers |-> FALSE]
  /\ jobPc = [w \in Workers |-> "out"]
  /\ aligning = [w \in Workers |-> FALSE]
  /\ gen = [w \in Workers |-> 1]
  /\ run = 0 /\ emitted = 0
  /\ stopCalled = FALSE /\ stopReturned = FALSE
  /\ late = [w \in Workers |-> FALSE]

InLoop == pc \in {"check", "wait", "run", "task"}

----------------------------------------------------------------------------
(* start() on the owner's thread, up to the loop.                          *)

OwnerGoes(from, to) == pc = from /\ stopPc[Owner] = "out" /\ pc' = to

StartAlive ==
  /\ OwnerGoes("idle", "running")
  /\ run < MaxRuns
  /\ Orderly => \A t \in Callers : stopPc[t] = "out"
  /\ alive' = TRUE
  /\ run' = run + 1
  /\ stopCalled' = FALSE /\ stopReturned' = FALSE
  /\ UNCHANGED <<m_running, m_event_generation, m_event_queue,
                 m_event_loop_running, timers, task, stopPc, was_running, jobVars>>

StartRunning ==
  /\ OwnerGoes("running", "daily")
  /\ m_running' = TRUE
  /\ UNCHANGED <<alive, m_event_generation, m_event_queue,
                 m_event_loop_running, timers, task, stopVars, jobVars, run>>

(* _runDaily: nothing to do for a function whose periodic timer is armed;  *)
(* otherwise, by the time of day, either it is armed now or an alignment   *)
(* one-shot is registered.                                                 *)
ArmsAtOnce == /\ periodics' = periodics + 1 /\ pc' = "armed"
              /\ UNCHANGED <<oneshots, periodic_armed>>

(* Mutant: the flag is set when the one-shot is registered.                *)
AlignsAndClaims == /\ oneshots' = oneshots + 1 /\ pc' = "enter"
                   /\ periodic_armed' = TRUE
                   /\ UNCHANGED periodics

AlignsLater == /\ oneshots' = oneshots + 1 /\ pc' = "enter"
               /\ UNCHANGED <<periodics, periodic_armed>>

RunDailySkip ==
  /\ OwnerGoes("daily", "enter")
  /\ periodic_armed
  /\ UNCHANGED <<flags, m_event_generation, m_event_queue, timers, task,
                 stopVars, jobVars, run>>

RunDaily ==
  /\ pc = "daily" /\ stopPc[Owner] = "out"
  /\ ~periodic_armed
  /\ ArmsAtOnce \/ AlignsLater
  /\ UNCHANGED <<flags, m_event_generation, m_event_queue, task, stopVars,
                 jobVars, run>>

RunDailyArmed ==
  /\ OwnerGoes("armed", "enter")
  /\ periodic_armed' = TRUE
  /\ UNCHANGED <<flags, m_event_generation, m_event_queue, oneshots, periodics,
                 task, stopVars, jobVars, run>>

----------------------------------------------------------------------------
(* _startEventLoop.                                                        *)

EnterLoop ==
  /\ OwnerGoes("enter", "check")
  /\ m_event_loop_running' = TRUE
  /\ UNCHANGED <<alive, m_running, m_event_generation, m_event_queue, timers,
                 task, stopVars, jobVars, run>>

CheckRunning ==
  /\ pc = "check"
  /\ pc' = IF m_running THEN "wait" ELSE "leave"
  /\ UNCHANGED <<flags, m_event_generation, m_event_queue, timers, task,
                 stopVars, jobVars, run>>

WaitAndPop ==
  /\ OwnerGoes("wait", "run")
  /\ m_event_queue # <<>>
  /\ task' = Head(m_event_queue)
  /\ m_event_queue' = Tail(m_event_queue)
  /\ UNCHANGED <<flags, m_event_generation, timers, stopVars, jobVars, run>>

(* The wake-up task ends the loop.                                         *)
RunNull ==
  /\ OwnerGoes("run", "check")
  /\ task.gen = Null
  /\ m_running' = FALSE
  /\ task' = NullTask(0)
  /\ UNCHANGED <<alive, m_event_generation, m_event_queue,
                 m_event_loop_running, timers, stopVars, jobVars, run>>

(* A task of another generation does nothing.                              *)
Fresh(g) == g = m_event_generation

RunStale ==
  /\ OwnerGoes("run", "check")
  /\ task.gen # Null /\ ~Fresh(task.gen)
  /\ task' = NullTask(0)
  /\ UNCHANGED <<flags, m_event_generation, m_event_queue, timers,
                 stopVars, jobVars, run>>

RunTask ==
  /\ OwnerGoes("run", "task")
  /\ task.gen # Null /\ Fresh(task.gen)
  /\ UNCHANGED <<flags, m_event_generation, m_event_queue, timers, task,
                 stopVars, jobVars, run>>

EndTask ==
  /\ OwnerGoes("task", "check")
  /\ task' = NullTask(0)
  /\ UNCHANGED <<flags, m_event_generation, m_event_queue, timers,
                 stopVars, jobVars, run>>

LeaveLoop ==
  /\ OwnerGoes("leave", "idle")
  /\ m_event_loop_running' = FALSE
  /\ UNCHANGED <<alive, m_running, m_event_generation, m_event_queue, timers,
                 task, stopVars, jobVars, run>>

----------------------------------------------------------------------------
(* stop(), on any thread; on the owner's when a task of the loop calls it. *)

StopGoes(t, from, to) == stopPc[t] = from /\ stopPc' = [stopPc EXCEPT ![t] = to]

MayStop(t) ==
  /\ t = Owner => pc = "task"
  /\ run > 0
  /\ Orderly => m_running /\ ~stopCalled

StopBegin(t) ==
  /\ MayStop(t)
  /\ StopGoes(t, "out", "kill")
  /\ was_running' = [was_running EXCEPT ![t] = m_running]
  /\ m_running' = FALSE
  /\ stopCalled' = TRUE
  /\ UNCHANGED <<alive, m_event_generation, m_event_queue,
                 m_event_loop_running, timers, loopVars, jobVars, run, stopReturned>>

StopKill(t) ==
  /\ StopGoes(t, "kill", "bump")
  /\ alive' = FALSE
  /\ UNCHANGED <<m_running, m_event_generation, m_event_queue,
                 m_event_loop_running, timers, loopVars, was_running, jobVars,
                 run, stopCalled, stopReturned>>

(* Mutant: the generation is left alone.                                   *)
BumpNever == UNCHANGED m_event_generation

Bump == m_event_generation' = m_event_generation + 1

StopBump(t) ==
  /\ StopGoes(t, "bump", "drain")
  /\ Bump
  /\ UNCHANGED <<flags, m_event_queue, timers, loopVars, was_running, jobVars,
                 run, stopCalled, stopReturned>>

StopDrain(t) ==
  /\ stopPc[t] = "drain"
  /\ m_event_queue # <<>>
  /\ m_event_queue' = Tail(m_event_queue)
  /\ UNCHANGED <<flags, m_event_generation, timers, loopVars, stopVars, jobVars, run>>

StopDrained(t) ==
  /\ StopGoes(t, "drain", "wake")
  /\ m_event_queue = <<>>
  /\ UNCHANGED <<flags, m_event_generation, m_event_queue, timers, loopVars,
                 was_running, jobVars, run, stopCalled, stopReturned>>

(* Mutant: no wake-up task.                                                *)
WakeUpNever == m_event_queue

WakeUp == Append(m_event_queue, NullTask(run))

StopWake(t) ==
  /\ StopGoes(t, "wake", "out")
  /\ m_event_queue' = IF was_running[t] /\ m_event_loop_running
                      THEN WakeUp ELSE m_event_queue
  /\ was_running' = [was_running EXCEPT ![t] = FALSE]
  /\ stopReturned' = TRUE
  /\ UNCHANGED <<flags, m_event_generation, timers, loopVars,
                 jobVars, run, stopCalled>>

----------------------------------------------------------------------------
(* A timer's callback on a worker: the guarded job looks at the token, and *)
(* event() reads the generation and queues the task.                       *)

JobStarts(w, to) == jobPc[w] = "out" /\ jobPc' = [jobPc EXCEPT ![w] = to]

JobGoes(w, from, to) ==
  /\ jobPc[w] = from
  /\ jobPc' = [jobPc EXCEPT ![w] = to]
  /\ aligning' = [aligning EXCEPT ![w] = @ /\ to # "out"]

BeginTick(w) ==
  /\ JobStarts(w, "job")
  /\ run > 0 /\ emitted < MaxEvents
  /\ aligning' = [aligning EXCEPT ![w] = FALSE]
  /\ UNCHANGED <<flags, m_event_generation, m_event_queue, timers, loopVars,
                 stopVars, gen, late, run, emitted>>

(* An alignment one-shot fires: nothing to do when the periodic timer is   *)
(* armed already.                                                          *)
BeginOneshot(w) ==
  /\ JobStarts(w, IF periodic_armed THEN "out" ELSE "job")
  /\ oneshots > 0
  /\ oneshots' = oneshots - 1
  /\ aligning' = [aligning EXCEPT ![w] = ~periodic_armed]
  /\ UNCHANGED <<flags, m_event_generation, m_event_queue, periodic_armed,
                 periodics, loopVars, stopVars, gen, late, run, emitted>>

AfterJob(w) == IF aligning[w] THEN "arm" ELSE "out"

JobCheckAlive(w) ==
  /\ JobGoes(w, "job", IF alive /\ emitted < MaxEvents THEN "event" ELSE AfterJob(w))
  /\ UNCHANGED <<flags, m_event_generation, m_event_queue, timers, loopVars,
                 stopVars, gen, late, run, emitted>>

EventGeneration(w) ==
  /\ JobGoes(w, "event", "push")
  /\ gen' = [gen EXCEPT ![w] = m_event_generation]
  /\ late' = [late EXCEPT ![w] = stopCalled]
  /\ UNCHANGED <<flags, m_event_generation, m_event_queue, timers, loopVars,
                 stopVars, run, emitted>>

EventPush(w) ==
  /\ JobGoes(w, "push", AfterJob(w))
  /\ m_event_queue' = Append(m_event_queue,
                             [gen |-> gen[w], run |-> run, late |-> late[w]])
  /\ gen' = [gen EXCEPT ![w] = 1]
  /\ late' = [late EXCEPT ![w] = FALSE]
  /\ emitted' = emitted + 1
  /\ UNCHANGED <<flags, m_event_generation, timers, loopVars, stopVars,
                 run>>

(* arm_duration: the token, the flag, the scheduler, the flag.             *)
ArmCheckAlive(w) ==
  /\ JobGoes(w, "arm", IF alive THEN "flag" ELSE "out")
  /\ UNCHANGED <<flags, m_event_generation, m_event_queue, timers, loopVars,
                 stopVars, gen, late, run, emitted>>

ArmCheckFlag(w) ==
  /\ JobGoes(w, "flag", IF periodic_armed THEN "out" ELSE "add")
  /\ UNCHANGED <<flags, m_event_generation, m_event_queue, timers, loopVars,
                 stopVars, gen, late, run, emitted>>

ArmAdd(w) ==
  /\ JobGoes(w, "add", "store")
  /\ periodics' = periodics + 1
  /\ UNCHANGED <<flags, m_event_generation, m_event_queue, periodic_armed,
                 oneshots, loopVars, stopVars, gen, late, run, emitted>>

ArmStore(w) ==
  /\ JobGoes(w, "store", "out")
  /\ periodic_armed' = TRUE
  /\ UNCHANGED <<flags, m_event_generation, m_event_queue, oneshots, periodics,
                 loopVars, stopVars, gen, late, run, emitted>>

----------------------------------------------------------------------------
Start == \/ StartAlive \/ StartRunning
         \/ RunDailySkip \/ RunDaily \/ RunDailyArmed
Loop  == \/ EnterLoop \/ CheckRunning \/ WaitAndPop
         \/ RunNull \/ RunStale \/ RunTask \/ EndTask \/ LeaveLoop
Stop(t) == \/ StopBegin(t) \/ StopKill(t) \/ StopBump(t)
           \/ StopDrain(t) \/ StopDrained(t) \/ StopWake(t)
Job(w) == \/ BeginTick(w) \/ BeginOneshot(w)
          \/ JobCheckAlive(w) \/ EventGeneration(w) \/ EventPush(w)
          \/ ArmCheckAlive(w) \/ ArmCheckFlag(w) \/ ArmAdd(w) \/ ArmStore(w)

Next == \/ Start \/ Loop
        \/ \E t \in Callers : Stop(t)
        \/ \E w \in Workers : Job(w)

Spec == Init /\ [][Next]_vars

(* A thread inside start(), the loop or stop() keeps running: neither      *)
(* blocks but in wait_and_pop.  Nobody has to call stop() or start(), and  *)
(* no timer has to fire.                                                   *)
FairSpec ==
  /\ Spec
  /\ WF_vars(Loop)
  /\ WF_vars(pc # "idle" /\ Start)
  /\ \A t \in Callers : WF_vars(stopPc[t] # "out" /\ Stop(t))

----------------------------------------------------------------------------
(* Properties.                                                             *)

(* Every variable has its type, and every start() registers at most one    *)
(* timer for the function.                                                 *)
TypeOK ==
  /\ {alive, m_running, m_event_loop_running, periodic_armed, stopCalled,
      stopReturned} \subseteq BOOLEAN
  /\ m_event_generation \in Nat \ {0} /\ run \in 0 .. MaxRuns
  /\ emitted \in Nat /\ oneshots \in Nat /\ periodics \in Nat
  /\ oneshots + periodics <= run
  /\ m_event_queue \in Seq([gen : Nat, run : 0 .. MaxRuns, late : BOOLEAN])
  /\ task \in [gen : Nat, run : 0 .. MaxRuns, late : BOOLEAN]
  /\ pc \in {"idle", "running", "daily", "armed", "enter", "check", "wait",
             "run", "task", "leave"}
  /\ stopPc \in [Callers -> {"out", "kill", "bump", "drain", "wake"}]
  /\ was_running \in [Callers -> BOOLEAN]
  /\ jobPc \in [Workers -> {"out", "job", "event", "push", "arm", "flag",
                            "add", "store"}]
  /\ aligning \in [Workers -> BOOLEAN]
  /\ gen \in [Workers -> Nat \ {0}] /\ late \in [Workers -> BOOLEAN]

(* Once a stop() of this run has returned, the loop begins no task that    *)
(* was on its way when stop() was called: popped before the drain or       *)
(* pushed after it, it carries the old generation and drops itself.  (A    *)
(* job that saw the token alive before stop() and reads the generation     *)
(* after it, a late one, does run.)                                        *)
NoTaskAfterStop == [][RunTask => ~stopReturned \/ task.late]_vars

(* A worker between firing an alignment one-shot and its verdict.          *)
MayStillArm(w) == aligning[w] /\ jobPc[w] # "out"

(* While the strategy runs, its runDaily function is not lost: its         *)
(* periodic timer is armed, or an alignment one-shot that will arm it is   *)
(* pending or at work, however stop(), start() and old one-shots met.      *)
DailyFunctionNotLost ==
  /\ periodic_armed => periodics > 0
  /\ alive /\ InLoop
       => periodic_armed \/ oneshots > 0 \/ \E w \in Workers : MayStillArm(w)

(* A stop() that finds the strategy running ends the loop: start() returns. *)
StopEndsLoop == (m_running = FALSE /\ InLoop) ~> (pc = "idle")

(* The comment in stop() (Strategy.cpp:194) says only a running loop takes *)
(* the wake-up task, so that it cannot abort the next start(): the loop    *)
(* never takes the wake-up task of an earlier run.                         *)
NextStartNotAborted == pc = "run" /\ task.gen = Null => task.run = run
====
