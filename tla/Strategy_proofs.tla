-------------------------- MODULE Strategy_proofs --------------------------
(***************************************************************************)
(* Proofs about Strategy, for any number of threads, runs and events: the  *)
(* types with the bound on the timers, that the runDaily function is never *)
(* lost, and, for callers that stop a run once, that a stopped run begins  *)
(* no task.                                                                *)
(***************************************************************************)
EXTENDS Strategy, FiniteSetTheorems, TLAPS

----------------------------------------------------------------------------
(* The inductive invariant.                                                *)

Messages == [gen : Nat, run : 0 .. MaxRuns, late : BOOLEAN]

(* TypeOK without the bound on the timers.                                 *)
Typing ==
  /\ alive \in BOOLEAN /\ m_running \in BOOLEAN
  /\ m_event_loop_running \in BOOLEAN /\ periodic_armed \in BOOLEAN
  /\ stopCalled \in BOOLEAN /\ stopReturned \in BOOLEAN
  /\ m_event_generation \in Nat \ {0} /\ run \in 0 .. MaxRuns
  /\ emitted \in Nat /\ oneshots \in Nat /\ periodics \in Nat
  /\ m_event_queue \in Seq(Messages)
  /\ task \in Messages
  /\ pc \in {"idle", "running", "daily", "armed", "enter", "check", "wait",
             "run", "task", "leave"}
  /\ stopPc \in [Callers -> {"out", "kill", "bump", "drain", "wake"}]
  /\ was_running \in [Callers -> BOOLEAN]
  /\ jobPc \in [Workers -> {"out", "job", "event", "push", "arm", "flag",
                            "add", "store"}]
  /\ aligning \in [Workers -> BOOLEAN]
  /\ gen \in [Workers -> Nat \ {0}] /\ late \in [Workers -> BOOLEAN]

(* Only an alignment callback gets as far as arming.                       *)
ArmersAlign ==
  \A w \in Workers : jobPc[w] \in {"arm", "flag", "add", "store"} => aligning[w]

(* Callbacks that hold the one-shot they fired for and have not armed yet. *)
Pledged == {w \in Workers : /\ aligning[w]
                            /\ jobPc[w] \in {"job", "event", "push", "arm",
                                             "flag", "add"}}

(* A start() that has not registered its timer yet may do so once.         *)
Credit == IF pc \in {"running", "daily"} THEN 1 ELSE 0

(* Each start() pays for one timer: waiting, held by a callback or armed.  *)
TimersPaid == oneshots + periodics + Cardinality(Pledged) + Credit <= run

(* The flag is set, or about to be, only beside a periodic timer.          *)
FlagHasTimer ==
  periodic_armed \/ pc = "armed" \/ (\E w \in Workers : jobPc[w] = "store")
    => periodics > 0

(* From the end of start()'s registration to the end of the loop.          *)
DailyKept ==
  alive /\ (pc = "enter" \/ InLoop)
    => periodic_armed \/ oneshots > 0 \/ \E w \in Workers : MayStillArm(w)

IInv == Typing /\ ArmersAlign /\ TimersPaid /\ FlagHasTimer /\ DailyKept

----------------------------------------------------------------------------
(* Types.                                                                  *)

LEMMA TypingInit == Init => Typing
<1> SUFFICES ASSUME Init PROVE Typing
  OBVIOUS
<1>1. NullTask(0) \in Messages /\ <<>> \in Seq(Messages)
  BY StrategyAssumption DEF Messages, NullTask, Null
<1>2. run \in 0 .. MaxRuns
  BY StrategyAssumption DEF Init
<1>3. /\ stopPc \in [Callers -> {"out", "kill", "bump", "drain", "wake"}]
      /\ was_running \in [Callers -> BOOLEAN]
      /\ jobPc \in [Workers -> {"out", "job", "event", "push", "arm", "flag",
                                "add", "store"}]
  BY DEF Init
<1>4. /\ aligning \in [Workers -> BOOLEAN] /\ late \in [Workers -> BOOLEAN]
      /\ gen \in [Workers -> Nat \ {0}]
  BY DEF Init
<1>5. /\ m_event_queue \in Seq(Messages) /\ task \in Messages
      /\ m_event_generation \in Nat \ {0} /\ emitted \in Nat
      /\ oneshots \in Nat /\ periodics \in Nat /\ pc = "idle"
      /\ ~alive /\ ~m_running /\ ~m_event_loop_running /\ ~periodic_armed
      /\ ~stopCalled /\ ~stopReturned
  BY <1>1 DEF Init
<1> QED
  BY <1>2, <1>3, <1>4, <1>5 DEF Typing, Init

LEMMA TypingStart == Typing /\ Start => Typing'
<1> SUFFICES ASSUME Typing, Start PROVE Typing'
  OBVIOUS
<1> USE DEF Typing, OwnerGoes, flags, timers, stopVars, jobVars
<1>1. CASE StartAlive
  <2>1. run' \in 0 .. MaxRuns
    BY <1>1, StrategyAssumption DEF StartAlive
  <2> QED
    BY <1>1, <2>1 DEF StartAlive
<1>2. CASE StartRunning
  BY <1>2 DEF StartRunning
<1>3. CASE RunDailySkip \/ RunDailyArmed
  BY <1>3 DEF RunDailySkip, RunDailyArmed
<1>4. CASE RunDaily
  BY <1>4 DEF RunDaily, ArmsAtOnce, AlignsLater
<1> QED
  BY <1>1, <1>2, <1>3, <1>4 DEF Start

LEMMA TypingLoop == Typing /\ Loop => Typing'
<1> SUFFICES ASSUME Typing, Loop PROVE Typing'
  OBVIOUS
<1> NullTask(0) \in Messages
  BY StrategyAssumption DEF Messages, NullTask, Null
<1> USE DEF Typing, OwnerGoes, flags, timers, stopVars, jobVars
<1>1. CASE EnterLoop \/ CheckRunning \/ LeaveLoop
  BY <1>1 DEF EnterLoop, CheckRunning, LeaveLoop
<1>2. CASE WaitAndPop
  BY <1>2 DEF WaitAndPop
<1>3. CASE RunNull \/ RunStale \/ RunTask \/ EndTask
  BY <1>3 DEF RunNull, RunStale, RunTask, EndTask
<1> QED
  BY <1>1, <1>2, <1>3 DEF Loop

LEMMA TypingStop ==
  ASSUME Typing, NEW t \in Callers, Stop(t)
  PROVE  Typing'
<1> USE DEF Typing, StopGoes, flags, timers, stopVars, jobVars, loopVars
<1>1. CASE StopBegin(t)
  BY <1>1 DEF StopBegin
<1>4. CASE StopKill(t)
  BY <1>4 DEF StopKill
<1>5. CASE StopBump(t)
  BY <1>5 DEF StopBump, Bump
<1>6. CASE StopDrained(t)
  BY <1>6 DEF StopDrained
<1>2. CASE StopDrain(t)
  BY <1>2 DEF StopDrain
<1>3. CASE StopWake(t)
  <2>1. NullTask(run) \in Messages
    BY StrategyAssumption DEF Messages, NullTask, Null
  <2>2. m_event_queue' \in Seq(Messages)
    BY <1>3, <2>1 DEF StopWake, WakeUp
  <2> QED
    BY <1>3, <2>2 DEF StopWake
<1> QED
  BY <1>1, <1>2, <1>3, <1>4, <1>5, <1>6 DEF Stop

LEMMA TypingJob ==
  ASSUME Typing, NEW w \in Workers, Job(w)
  PROVE  Typing'
<1> USE DEF Typing, JobStarts, JobGoes, AfterJob, flags, timers, stopVars, loopVars
<1>1. CASE BeginTick(w)
  BY <1>1 DEF BeginTick
<1>4. CASE BeginOneshot(w)
  BY <1>4 DEF BeginOneshot
<1>5. CASE JobCheckAlive(w)
  BY <1>5 DEF JobCheckAlive
<1>6. CASE EventGeneration(w)
  BY <1>6 DEF EventGeneration
<1>2. CASE EventPush(w)
  <2>1. [gen |-> gen[w], run |-> run, late |-> late[w]] \in Messages
    BY DEF Messages
  <2>2. m_event_queue' \in Seq(Messages)
    BY <1>2, <2>1 DEF EventPush
  <2> QED
    BY <1>2, <2>2 DEF EventPush
<1>3. CASE ArmCheckAlive(w)
  BY <1>3 DEF ArmCheckAlive
<1>7. CASE ArmCheckFlag(w)
  BY <1>7 DEF ArmCheckFlag
<1>8. CASE ArmAdd(w)
  BY <1>8 DEF ArmAdd
<1>9. CASE ArmStore(w)
  BY <1>9 DEF ArmStore
<1> QED
  BY <1>1, <1>2, <1>3, <1>4, <1>5, <1>6, <1>7, <1>8, <1>9 DEF Job

LEMMA TypingStep == Typing /\ [Next]_vars => Typing'
<1> SUFFICES ASSUME Typing, [Next]_vars PROVE Typing'
  OBVIOUS
<1>1. CASE UNCHANGED vars
  BY <1>1 DEF vars, Typing
<1> QED
  BY <1>1, TypingStart, TypingLoop, TypingStop, TypingJob DEF Next

----------------------------------------------------------------------------
(* The callbacks and the timers.  Start, Loop and Stop leave the callbacks *)
(* alone; what a callback may do to Pledged is stated once.                *)

LEMMA OthersLeaveJobs ==
  ASSUME Start \/ Loop \/ \E t \in Callers : Stop(t)
  PROVE  UNCHANGED <<jobPc, aligning>> /\ Pledged' = Pledged
<1>1. UNCHANGED <<jobPc, aligning>>
  <2>1. ASSUME Start PROVE UNCHANGED <<jobPc, aligning>>
    BY <2>1 DEF Start, StartAlive, StartRunning, RunDailySkip, RunDaily,
                RunDailyArmed, jobVars
  <2>2. ASSUME Loop PROVE UNCHANGED <<jobPc, aligning>>
    BY <2>2 DEF Loop, EnterLoop, CheckRunning, WaitAndPop, RunNull, RunStale,
                RunTask, EndTask, LeaveLoop, jobVars
  <2>3. ASSUME NEW t \in Callers, Stop(t) PROVE UNCHANGED <<jobPc, aligning>>
    BY <2>3 DEF Stop, StopBegin, StopKill, StopBump, StopDrain, StopDrained,
                StopWake, jobVars
  <2> QED
    BY <2>1, <2>2, <2>3
<1> QED
  BY <1>1 DEF Pledged

LEMMA ArmersAlignStep == Typing /\ ArmersAlign /\ [Next]_vars => ArmersAlign'
<1> SUFFICES ASSUME Typing, ArmersAlign, [Next]_vars PROVE ArmersAlign'
  OBVIOUS
<1>1. CASE UNCHANGED vars
  BY <1>1 DEF vars, ArmersAlign
<1>2. CASE Start \/ Loop \/ \E t \in Callers : Stop(t)
  BY <1>2, OthersLeaveJobs DEF ArmersAlign
<1>3. ASSUME NEW w \in Workers, Job(w) PROVE ArmersAlign'
  <2> USE DEF Typing, ArmersAlign
  <2>1. CASE BeginTick(w) \/ BeginOneshot(w)
    BY <2>1 DEF BeginTick, BeginOneshot, JobStarts
  <2>2. CASE JobCheckAlive(w) \/ EventGeneration(w) \/ EventPush(w)
    BY <2>2 DEF JobCheckAlive, EventGeneration, EventPush, JobGoes, AfterJob
  <2>3. CASE ArmCheckAlive(w) \/ ArmCheckFlag(w) \/ ArmAdd(w) \/ ArmStore(w)
    BY <2>3 DEF ArmCheckAlive, ArmCheckFlag, ArmAdd, ArmStore, JobGoes
  <2> QED
    BY <1>3, <2>1, <2>2, <2>3 DEF Job
<1> QED
  BY <1>1, <1>2, <1>3 DEF Next

LEMMA PledgedFinite == IsFiniteSet(Pledged) /\ Cardinality(Pledged) \in Nat
<1>1. Pledged \in SUBSET Workers
  BY DEF Pledged
<1>2. IsFiniteSet(Pledged)
  BY <1>1, StrategyAssumption, FS_Subset
<1> QED
  BY <1>2, FS_CardinalityType

(* A subset of the pledged callbacks is no more of them.                   *)
LEMMA FewerPledged ==
  ASSUME Pledged' \subseteq Pledged
  PROVE  Cardinality(Pledged') \in Nat /\ Cardinality(Pledged') <= Cardinality(Pledged)
BY PledgedFinite, FS_Subset, FS_CardinalityType

LEMMA TimersPaidJob ==
  ASSUME Typing, ArmersAlign, TimersPaid, NEW w \in Workers, Job(w)
  PROVE  TimersPaid'
<1> DEFINE n == Cardinality(Pledged)
<1> n \in Nat
  BY PledgedFinite
<1> Credit' = Credit /\ Credit \in Nat /\ run' = run
  BY DEF Job, BeginTick, BeginOneshot, JobCheckAlive, EventGeneration,
         EventPush, ArmCheckAlive, ArmCheckFlag, ArmAdd, ArmStore, loopVars,
         Credit
<1> HIDE DEF n
<1>1. CASE BeginTick(w)
  <2>1. Pledged' = Pledged /\ UNCHANGED <<oneshots, periodics>>
    BY <1>1 DEF BeginTick, JobStarts, Pledged, Typing, timers
  <2> QED
    BY <2>1 DEF TimersPaid
<1>2. CASE BeginOneshot(w)
  <2>1. CASE periodic_armed
    <3>1. Pledged' = Pledged
      BY <1>2, <2>1 DEF BeginOneshot, JobStarts, Pledged, Typing
    <3> QED
      BY <1>2, <3>1 DEF BeginOneshot, TimersPaid, Typing, n
  <2>2. CASE ~periodic_armed
    <3>1. Pledged' = Pledged \cup {w} /\ w \notin Pledged
      BY <1>2, <2>2 DEF BeginOneshot, JobStarts, Pledged, Typing
    <3>2. Cardinality(Pledged') = n + 1
      BY <3>1, PledgedFinite, FS_AddElement DEF n
    <3> QED
      BY <1>2, <3>2 DEF BeginOneshot, TimersPaid, Typing, n
  <2> QED
    BY <2>1, <2>2
<1>3. CASE JobCheckAlive(w) \/ EventGeneration(w) \/ EventPush(w)
  <2>1. Pledged' \subseteq Pledged /\ UNCHANGED <<oneshots, periodics>>
    BY <1>3 DEF JobCheckAlive, EventGeneration, EventPush, JobGoes, AfterJob,
                Pledged, Typing, timers
  <2> QED
    BY <2>1, FewerPledged DEF TimersPaid, Typing, n
<1>4. CASE ArmCheckAlive(w) \/ ArmCheckFlag(w) \/ ArmStore(w)
  <2>1. Pledged' \subseteq Pledged /\ UNCHANGED <<oneshots, periodics>>
    BY <1>4 DEF ArmCheckAlive, ArmCheckFlag, ArmStore, JobGoes, Pledged,
                Typing, timers
  <2> QED
    BY <2>1, FewerPledged DEF TimersPaid, Typing, n
<1>5. CASE ArmAdd(w)
  <2>1. Pledged' = Pledged \ {w} /\ w \in Pledged
    BY <1>5 DEF ArmAdd, JobGoes, Pledged, Typing, ArmersAlign
  <2>2. Cardinality(Pledged') = n - 1
    BY <2>1, PledgedFinite, FS_RemoveElement DEF n
  <2> QED
    BY <1>5, <2>2 DEF ArmAdd, TimersPaid, Typing, n
<1> QED
  BY <1>1, <1>2, <1>3, <1>4, <1>5 DEF Job

(* What is paid stays paid when the debt grows no more than the credit.    *)
LEMMA StillPaid ==
  ASSUME NEW a \in Nat, NEW b \in Nat, NEW c \in Nat, NEW r \in Nat,
         NEW x \in Nat, NEW y \in Nat, NEW z \in Nat, NEW s \in Nat,
         NEW n \in Nat,
         x + y + z + r <= a + b + c + s, a + b + n + c <= r
  PROVE  x + y + n + z <= s
OBVIOUS

LEMMA TimersPaidStep ==
  Typing /\ ArmersAlign /\ TimersPaid /\ [Next]_vars => TimersPaid'
<1> SUFFICES ASSUME Typing, ArmersAlign, TimersPaid, [Next]_vars
             PROVE  TimersPaid'
  OBVIOUS
<1> USE PledgedFinite
<1>1. CASE UNCHANGED vars
  <2>1. Pledged' = Pledged /\ Credit' = Credit
    BY <1>1 DEF vars, Pledged, Credit
  <2> QED
    BY <1>1, <2>1 DEF vars, TimersPaid
<1>2. CASE Start
  <2>1. Pledged' = Pledged
    BY <1>2, OthersLeaveJobs
  <2>2. Cardinality(Pledged') = Cardinality(Pledged)
    BY <2>1
  <2>3. oneshots' + periodics' + Credit' + run <= oneshots + periodics + Credit + run'
    <3> USE DEF OwnerGoes, timers, Credit, Typing
    <3>1. CASE StartAlive
      BY <3>1 DEF StartAlive
    <3>2. CASE StartRunning \/ RunDailySkip \/ RunDailyArmed
      BY <3>2 DEF StartRunning, RunDailySkip, RunDailyArmed
    <3>3. CASE RunDaily
      BY <3>3 DEF RunDaily, ArmsAtOnce, AlignsLater
    <3> QED
      BY <1>2, <3>1, <3>2, <3>3 DEF Start
  <2>4. /\ Credit \in Nat /\ Credit' \in Nat /\ run \in Nat /\ run' \in Nat
        /\ oneshots \in Nat /\ periodics \in Nat
        /\ oneshots' \in Nat /\ periodics' \in Nat
    BY TypingStep, StrategyAssumption DEF Credit, Typing
  <2>5. TimersPaid <=> oneshots + periodics + Cardinality(Pledged) + Credit <= run
    BY DEF TimersPaid
  <2>6. TimersPaid' <=> oneshots' + periodics' + Cardinality(Pledged') + Credit' <= run'
    BY DEF TimersPaid
  <2>8. oneshots' + periodics' + Cardinality(Pledged) + Credit' <= run'
    BY <2>3, <2>4, <2>5, PledgedFinite, StillPaid
  <2> QED
    BY <2>2, <2>6, <2>8
<1>3. CASE Loop
  <2>1. Pledged' = Pledged
    BY <1>3, OthersLeaveJobs
  <2>2. Credit = 0 /\ Credit' = 0 /\ UNCHANGED <<oneshots, periodics, run>>
    BY <1>3 DEF Loop, EnterLoop, CheckRunning, WaitAndPop, RunNull, RunStale,
                RunTask, EndTask, LeaveLoop, OwnerGoes, timers, Credit
  <2> QED
    BY <2>1, <2>2 DEF TimersPaid
<1>4. ASSUME NEW t \in Callers, Stop(t) PROVE TimersPaid'
  <2>1. Pledged' = Pledged
    BY <1>4, OthersLeaveJobs
  <2>2. Credit' = Credit /\ UNCHANGED <<oneshots, periodics, run>>
    BY <1>4 DEF Stop, StopBegin, StopKill, StopBump, StopDrain, StopDrained,
                StopWake, loopVars, timers, Credit
  <2> QED
    BY <2>1, <2>2 DEF TimersPaid
<1> QED
  BY <1>1, <1>2, <1>3, <1>4, TimersPaidJob DEF Next

----------------------------------------------------------------------------
(* The daily function.                                                     *)

LEMMA FlagHasTimerStep ==
  Typing /\ FlagHasTimer /\ [Next]_vars => FlagHasTimer'
<1> SUFFICES ASSUME Typing, FlagHasTimer, [Next]_vars PROVE FlagHasTimer'
  OBVIOUS
<1> USE DEF Typing, FlagHasTimer
<1>1. CASE UNCHANGED vars
  BY <1>1 DEF vars
<1>2. CASE Start
  <2>1. UNCHANGED jobPc
    BY <1>2, OthersLeaveJobs
  <2> QED
    BY <1>2, <2>1 DEF Start, StartAlive, StartRunning, RunDailySkip, RunDaily,
          RunDailyArmed, ArmsAtOnce, AlignsLater, OwnerGoes, timers
<1>3. CASE Loop
  BY <1>3, OthersLeaveJobs
     DEF Loop, EnterLoop, CheckRunning, WaitAndPop, RunNull, RunStale,
         RunTask, EndTask, LeaveLoop, OwnerGoes, timers
<1>4. ASSUME NEW t \in Callers, Stop(t) PROVE FlagHasTimer'
  BY <1>4, OthersLeaveJobs
     DEF Stop, StopBegin, StopKill, StopBump, StopDrain, StopDrained, StopWake,
         loopVars, timers
<1>5. ASSUME NEW w \in Workers, Job(w) PROVE FlagHasTimer'
  <2> USE DEF JobStarts, JobGoes, AfterJob, timers, loopVars
  <2>1. CASE BeginTick(w) \/ BeginOneshot(w)
    BY <2>1 DEF BeginTick, BeginOneshot
  <2>2. CASE JobCheckAlive(w) \/ EventGeneration(w) \/ EventPush(w)
    BY <2>2 DEF JobCheckAlive, EventGeneration, EventPush
  <2>3. CASE ArmCheckAlive(w) \/ ArmCheckFlag(w)
    BY <2>3 DEF ArmCheckAlive, ArmCheckFlag
  <2>4. CASE ArmAdd(w) \/ ArmStore(w)
    BY <2>4 DEF ArmAdd, ArmStore
  <2> QED
    BY <1>5, <2>1, <2>2, <2>3, <2>4 DEF Job
<1> QED
  BY <1>1, <1>2, <1>3, <1>4, <1>5 DEF Next

LEMMA DailyKeptStep ==
  Typing /\ ArmersAlign /\ DailyKept /\ [Next]_vars => DailyKept'
<1> SUFFICES ASSUME Typing, ArmersAlign, DailyKept, [Next]_vars
             PROVE  DailyKept'
  OBVIOUS
<1> USE DEF Typing, DailyKept, InLoop, MayStillArm
<1>1. CASE UNCHANGED vars
  BY <1>1 DEF vars
<1>2. CASE Start
  <2>1. UNCHANGED <<jobPc, aligning>>
    BY <1>2, OthersLeaveJobs
  <2> USE DEF OwnerGoes, timers, flags
  <2>2. CASE StartAlive \/ StartRunning
    BY <2>2 DEF StartAlive, StartRunning
  <2>3. CASE RunDailySkip
    BY <2>3 DEF RunDailySkip
  <2>4. CASE RunDaily
    BY <2>4 DEF RunDaily, ArmsAtOnce, AlignsLater
  <2>5. CASE RunDailyArmed
    BY <2>5 DEF RunDailyArmed
  <2> QED
    BY <1>2, <2>2, <2>3, <2>4, <2>5 DEF Start
<1>3. CASE Loop
  BY <1>3, OthersLeaveJobs
     DEF Loop, EnterLoop, CheckRunning, WaitAndPop, RunNull, RunStale,
         RunTask, EndTask, LeaveLoop, OwnerGoes, timers, flags
<1>4. ASSUME NEW t \in Callers, Stop(t) PROVE DailyKept'
  BY <1>4, OthersLeaveJobs
     DEF Stop, StopBegin, StopKill, StopBump, StopDrain, StopDrained, StopWake,
         loopVars, timers, flags
<1>5. ASSUME NEW w \in Workers, Job(w) PROVE DailyKept'
  <2> USE DEF JobStarts, JobGoes, AfterJob, timers, loopVars, flags
  <2>1. CASE BeginTick(w)
    BY <2>1 DEF BeginTick
  <2>2. CASE BeginOneshot(w)
    BY <2>2 DEF BeginOneshot
  <2>3. CASE JobCheckAlive(w) \/ EventGeneration(w) \/ EventPush(w)
    BY <2>3 DEF JobCheckAlive, EventGeneration, EventPush
  <2>4. CASE ArmCheckAlive(w) \/ ArmCheckFlag(w)
    BY <2>4 DEF ArmCheckAlive, ArmCheckFlag, ArmersAlign
  <2>5. CASE ArmAdd(w) \/ ArmStore(w)
    BY <2>5 DEF ArmAdd, ArmStore, ArmersAlign
  <2> QED
    BY <1>5, <2>1, <2>2, <2>3, <2>4, <2>5 DEF Job
<1> QED
  BY <1>1, <1>2, <1>3, <1>4, <1>5 DEF Next

----------------------------------------------------------------------------
(* IInv is an invariant, for any threads and whatever order start() and    *)
(* stop() are called in.                                                   *)
THEOREM Inductive == Spec => []IInv
<1>1. Init => IInv
  <2> SUFFICES ASSUME Init PROVE IInv
    OBVIOUS
  <2>1. Pledged = {} /\ Credit = 0
    BY DEF Init, Pledged, Credit
  <2>2. TimersPaid
    BY <2>1, FS_EmptySet DEF Init, TimersPaid
  <2>3. ArmersAlign /\ FlagHasTimer /\ DailyKept
    BY DEF Init, ArmersAlign, FlagHasTimer, DailyKept
  <2> QED
    BY <2>2, <2>3, TypingInit DEF IInv
<1>2. IInv /\ [Next]_vars => IInv'
  BY TypingStep, ArmersAlignStep, TimersPaidStep, FlagHasTimerStep,
     DailyKeptStep DEF IInv
<1> QED
  BY <1>1, <1>2, PTL DEF Spec

(* The types of every variable, and that no more timers exist for the      *)
(* runDaily function than start() was called: one per run of the strategy. *)
THEOREM Typed == Spec => []TypeOK
<1>1. IInv => TypeOK
  <2> SUFFICES ASSUME IInv PROVE TypeOK
    OBVIOUS
  <2>1. oneshots + periodics <= run
    BY PledgedFinite, StrategyAssumption DEF IInv, TimersPaid, Typing, Credit
  <2> QED
    BY <2>1 DEF IInv, Typing, TypeOK, Messages
<1> QED
  BY <1>1, Inductive, PTL

(* However stop(), start() and old alignment one-shots meet, the runDaily  *)
(* function of a running strategy keeps a timer that will run it.          *)
THEOREM DailyFunctionKept == Spec => []DailyFunctionNotLost
<1>1. IInv => DailyFunctionNotLost
  BY DEF IInv, FlagHasTimer, DailyKept, DailyFunctionNotLost
<1> QED
  BY <1>1, Inductive, PTL

----------------------------------------------------------------------------
(* No task after stop(), for callers that stop a run once.                 *)

(* One stop() per run, and none when the next run starts.                  *)
OneStop ==
  /\ \A t \in Callers : stopPc[t] # "out" => stopCalled /\ ~stopReturned
  /\ \A t, u \in Callers : stopPc[t] # "out" /\ stopPc[u] # "out" => t = u
  /\ stopReturned => stopCalled

(* The generation of this run's stop() has been raised.                    *)
Bumped == stopReturned \/ \E t \in Callers : stopPc[t] \in {"drain", "wake"}

Entries == {m_event_queue[i] : i \in 1 .. Len(m_event_queue)} \cup {task}

(* No task carries a generation of the future.                             *)
NoFutureTask ==
  /\ \A m \in Entries : m.gen <= m_event_generation
  /\ \A w \in Workers : gen[w] <= m_event_generation

(* After the raise, what was under way before stop() is out of date.       *)
OldTasksDie ==
  Bumped => /\ \A m \in Entries : m.gen < m_event_generation \/ m.late
            /\ \A w \in Workers : jobPc[w] = "push" =>
                  gen[w] < m_event_generation \/ late[w]

StopInv == Typing /\ OneStop /\ NoFutureTask /\ OldTasksDie

LEMMA EntriesTyped == Typing => Entries \subseteq Messages
BY DEF Typing, Entries

(* What the queue operations do to the entries.                            *)
LEMMA EntriesAfterPop ==
  ASSUME Typing, m_event_queue # <<>>, m_event_queue' = Tail(m_event_queue),
         task' = Head(m_event_queue) \/ task' = task
  PROVE  Entries' \subseteq Entries
BY DEF Entries, Typing

LEMMA EntriesAfterPush ==
  ASSUME Typing, NEW m \in Messages, task' = task,
         m_event_queue' = Append(m_event_queue, m)
  PROVE  Entries' \subseteq Entries \cup {m}
BY DEF Entries, Typing

LEMMA OneStopStep ==
  ASSUME Orderly, Typing, OneStop, [Next]_vars
  PROVE  OneStop'
<1> USE DEF Typing, OneStop
<1>1. CASE UNCHANGED vars
  BY <1>1 DEF vars
<1>2. CASE Start
  BY <1>2 DEF Start, StartAlive, StartRunning, RunDailySkip, RunDaily,
              RunDailyArmed, stopVars
<1>3. CASE Loop
  BY <1>3 DEF Loop, EnterLoop, CheckRunning, WaitAndPop, RunNull, RunStale,
              RunTask, EndTask, LeaveLoop, stopVars
<1>4. ASSUME NEW w \in Workers, Job(w) PROVE OneStop'
  BY <1>4 DEF Job, BeginTick, BeginOneshot, JobCheckAlive, EventGeneration,
         EventPush, ArmCheckAlive, ArmCheckFlag, ArmAdd, ArmStore, stopVars
<1>5. ASSUME NEW t \in Callers, Stop(t) PROVE OneStop'
  <2> USE DEF StopGoes, stopVars
  <2>1. CASE StopBegin(t)
    <3>1. \A u \in Callers : stopPc[u] = "out"
      BY <2>1 DEF StopBegin, MayStop
    <3>2. \A u \in Callers : u # t => stopPc'[u] = "out"
      BY <2>1, <3>1 DEF StopBegin
    <3>3. stopCalled' /\ ~stopReturned'
      BY <2>1 DEF StopBegin, MayStop
    <3> QED
      BY <3>2, <3>3
  <2>2. CASE StopKill(t) \/ StopBump(t)
    <3>1. \A u \in Callers : stopPc'[u] # "out" => stopPc[u] # "out"
      BY <2>2 DEF StopKill, StopBump
    <3>2. UNCHANGED <<stopCalled, stopReturned>>
      BY <2>2 DEF StopKill, StopBump
    <3> QED
      BY <3>1, <3>2
  <2>3. CASE StopDrain(t) \/ StopDrained(t)
    BY <2>3 DEF StopDrain, StopDrained
  <2>4. CASE StopWake(t)
    <3>1. \A u \in Callers : stopPc'[u] = "out"
      BY <2>4 DEF StopWake
    <3>2. stopCalled'
      BY <2>4 DEF StopWake
    <3> QED
      BY <3>1, <3>2
  <2> QED
    BY <1>5, <2>1, <2>2, <2>3, <2>4 DEF Stop
<1> QED
  BY <1>1, <1>2, <1>3, <1>4, <1>5 DEF Next

(* A message may enter the queue: it is not of the future, and dead once   *)
(* the generation is raised.                                               *)
MayEnter(m) == /\ m \in Messages /\ m.gen <= m_event_generation
               /\ Bumped => m.gen < m_event_generation \/ m.late

(* No worker reads the generation.                                         *)
NobodyReads ==
  \A w \in Workers :
     \/ /\ gen'[w] = gen[w] /\ late'[w] = late[w]
        /\ jobPc'[w] = "push" => jobPc[w] = "push"
     \/ gen'[w] = 1 /\ jobPc'[w] # "push"

LEMMA QueueGrows ==
  ASSUME Typing, NoFutureTask, OldTasksDie, NEW m, MayEnter(m),
         Entries' \subseteq Entries \cup {m}, NobodyReads,
         UNCHANGED <<m_event_generation, stopReturned, stopPc>>
  PROVE  NoFutureTask' /\ OldTasksDie'
<1>1. Bumped' = Bumped
  BY DEF Bumped
<1>2. NoFutureTask'
  <2>1. 1 <= m_event_generation
    BY DEF Typing
  <2>2. \A w \in Workers : gen'[w] <= m_event_generation
    BY <2>1 DEF NoFutureTask, NobodyReads
  <2>3. \A e \in Entries' : e.gen <= m_event_generation
    BY DEF NoFutureTask, MayEnter
  <2> QED
    BY <2>2, <2>3 DEF NoFutureTask
<1>3. OldTasksDie'
  BY <1>1 DEF OldTasksDie, MayEnter, NobodyReads
<1> QED
  BY <1>2, <1>3

LEMMA NullIsOld ==
  ASSUME Typing
  PROVE  \A r \in 0 .. MaxRuns : /\ MayEnter(NullTask(r))
                                 /\ NullTask(r).gen < m_event_generation
BY DEF NullTask, Null, Messages, Typing, MayEnter

LEMMA DieLoop ==
  ASSUME Typing, NoFutureTask, OldTasksDie, Loop
  PROVE  NoFutureTask' /\ OldTasksDie'
<1> 0 \in 0 .. MaxRuns
  BY StrategyAssumption
<1>1. UNCHANGED <<m_event_generation, stopReturned, stopPc, gen, late, jobPc>>
  BY DEF Loop, EnterLoop, CheckRunning, WaitAndPop, RunNull, RunStale,
         RunTask, EndTask, LeaveLoop, stopVars, jobVars
<1>2. Entries' \subseteq Entries \cup {NullTask(0)}
  <2>1. CASE WaitAndPop
    BY <2>1, EntriesAfterPop DEF WaitAndPop
  <2>2. CASE RunNull \/ RunStale \/ EndTask
    BY <2>2 DEF RunNull, RunStale, EndTask, Entries
  <2>3. CASE EnterLoop \/ CheckRunning \/ RunTask \/ LeaveLoop
    BY <2>3 DEF EnterLoop, CheckRunning, RunTask, LeaveLoop, Entries
  <2> QED
    BY <2>1, <2>2, <2>3 DEF Loop
<1>3. MayEnter(NullTask(0))
  BY NullIsOld
<1>4. NobodyReads
  BY <1>1 DEF NobodyReads
<1> QED
  BY <1>1, <1>2, <1>3, <1>4, QueueGrows

LEMMA DieStart ==
  ASSUME Orderly, Typing, NoFutureTask, OldTasksDie, Start
  PROVE  NoFutureTask' /\ OldTasksDie'
<1>1. UNCHANGED <<m_event_generation, stopPc, gen, late, jobPc>>
      /\ Entries' = Entries
  BY DEF Start, StartAlive, StartRunning, RunDailySkip, RunDaily,
         RunDailyArmed, stopVars, jobVars, Entries
<1>2. Bumped' => Bumped
  BY <1>1 DEF Start, StartAlive, StartRunning, RunDailySkip, RunDaily,
              RunDailyArmed, stopVars, Bumped
<1> QED
  BY <1>1, <1>2 DEF NoFutureTask, OldTasksDie

LEMMA DieStop ==
  ASSUME Typing, OneStop, NoFutureTask, OldTasksDie, NEW t \in Callers, Stop(t)
  PROVE  NoFutureTask' /\ OldTasksDie'
<1> USE DEF StopGoes, stopVars, jobVars, loopVars
<1>1. UNCHANGED <<gen, late, jobPc, task>>
  BY DEF Stop, StopBegin, StopKill, StopBump, StopDrain, StopDrained, StopWake
<1>2. CASE StopBegin(t) \/ StopKill(t)
  <2>1. UNCHANGED <<m_event_generation, stopReturned>> /\ Entries' = Entries
    BY <1>2 DEF StopBegin, StopKill, Entries
  <2>2. Bumped' => Bumped
    BY <1>2, <2>1 DEF StopBegin, StopKill, Bumped, Typing
  <2> QED
    BY <1>1, <2>1, <2>2 DEF NoFutureTask, OldTasksDie
<1>3. CASE StopBump(t)
  <2>1. m_event_generation' = m_event_generation + 1 /\ Entries' = Entries
    BY <1>3 DEF StopBump, Bump, Entries
  <2>2. \A n \in Nat : n <= m_event_generation =>
          n <= m_event_generation' /\ n < m_event_generation'
    BY <2>1 DEF Typing
  <2>3. \A m \in Entries : m.gen \in Nat
    BY EntriesTyped DEF Messages
  <2>4. \A w \in Workers : gen[w] \in Nat
    BY DEF Typing
  <2>5. NoFutureTask'
    BY <1>1, <2>1, <2>2, <2>3, <2>4 DEF NoFutureTask
  <2>6. OldTasksDie'
    BY <1>1, <2>1, <2>2, <2>3, <2>4 DEF NoFutureTask, OldTasksDie
  <2> QED
    BY <2>5, <2>6
<1>4. CASE StopDrain(t) \/ StopDrained(t)
  <2>1. UNCHANGED <<m_event_generation, stopReturned>> /\ Bumped
    BY <1>4 DEF StopDrain, StopDrained, Bumped
  <2>2. Entries' \subseteq Entries
    BY <1>4, EntriesAfterPop DEF StopDrain, StopDrained, Entries
  <2> QED
    BY <1>1, <2>1, <2>2 DEF NoFutureTask, OldTasksDie
<1>5. CASE StopWake(t)
  <2>1. UNCHANGED m_event_generation /\ Bumped
    BY <1>5 DEF StopWake, Bumped
  <2>2. NullTask(run) \in Messages /\ NullTask(run).gen <= m_event_generation
        /\ NullTask(run).gen < m_event_generation
    BY NullIsOld DEF Typing, MayEnter
  <2>3. Entries' \subseteq Entries \cup {NullTask(run)}
    <3>1. CASE m_event_queue' = m_event_queue
      BY <1>1, <3>1 DEF Entries
    <3>2. CASE m_event_queue' = Append(m_event_queue, NullTask(run))
      BY <1>1, <2>2, <3>2, EntriesAfterPush
    <3> QED
      BY <1>5, <3>1, <3>2 DEF StopWake, WakeUp
  <2> QED
    BY <1>1, <2>1, <2>2, <2>3 DEF NoFutureTask, OldTasksDie
<1> QED
  BY <1>2, <1>3, <1>4, <1>5 DEF Stop

LEMMA DieJob ==
  ASSUME Typing, OneStop, NoFutureTask, OldTasksDie, NEW w \in Workers, Job(w)
  PROVE  NoFutureTask' /\ OldTasksDie'
<1> USE DEF JobStarts, JobGoes, AfterJob, stopVars, loopVars
<1>1. UNCHANGED <<m_event_generation, stopReturned, stopPc, stopCalled, task, run>>
  BY DEF Job, BeginTick, BeginOneshot, JobCheckAlive, EventGeneration,
         EventPush, ArmCheckAlive, ArmCheckFlag, ArmAdd, ArmStore
<1> 0 \in 0 .. MaxRuns
  BY StrategyAssumption
<1>2. CASE EventPush(w)
  <2> DEFINE m == [gen |-> gen[w], run |-> run, late |-> late[w]]
  <2>1. MayEnter(m)
    BY <1>2 DEF EventPush, NoFutureTask, OldTasksDie, Messages, Typing, MayEnter
  <2>2. Entries' \subseteq Entries \cup {m}
    BY <1>1, <1>2, <2>1, EntriesAfterPush DEF EventPush, MayEnter
  <2>3. gen'[w] = 1 /\ jobPc'[w] # "push"
    BY <1>2 DEF EventPush, Typing
  <2>4. \A v \in Workers : v # w => /\ gen'[v] = gen[v] /\ late'[v] = late[v]
                                   /\ jobPc'[v] = jobPc[v]
    BY <1>2 DEF EventPush, Typing
  <2>5. NobodyReads
    BY <2>3, <2>4 DEF NobodyReads
  <2> HIDE DEF m
  <2> QED
    BY <1>1, <2>1, <2>2, <2>5, QueueGrows
<1>3. CASE EventGeneration(w)
  <2>1. Entries' = Entries /\ Bumped' = Bumped
    BY <1>1, <1>3 DEF EventGeneration, Entries, Bumped
  <2>2. Bumped => stopCalled
    BY DEF Bumped, OneStop
  <2>3. NoFutureTask'
    BY <1>1, <1>3, <2>1 DEF EventGeneration, NoFutureTask, Typing
  <2>4. OldTasksDie'
    BY <1>1, <1>3, <2>1, <2>2 DEF EventGeneration, OldTasksDie, Typing
  <2> QED
    BY <2>3, <2>4
<1>4. CASE \/ BeginTick(w) \/ BeginOneshot(w) \/ JobCheckAlive(w)
           \/ ArmCheckAlive(w) \/ ArmCheckFlag(w) \/ ArmAdd(w) \/ ArmStore(w)
  <2>1. Entries' = Entries /\ UNCHANGED <<gen, late>>
        /\ \A v \in Workers : jobPc'[v] = "push" => jobPc[v] = "push"
    BY <1>4 DEF BeginTick, BeginOneshot, JobCheckAlive, ArmCheckAlive,
                ArmCheckFlag, ArmAdd, ArmStore, Entries, Typing
  <2>2. NobodyReads
    BY <2>1 DEF NobodyReads
  <2>3. MayEnter(NullTask(0))
    BY NullIsOld
  <2> QED
    BY <1>1, <2>1, <2>2, <2>3, QueueGrows
<1> QED
  BY <1>2, <1>3, <1>4 DEF Job

(* Callers that stop a run once, while it runs: after their stop() has     *)
(* returned the loop begins no task that was under way before it.          *)
THEOREM StoppedRunsNothing == Orderly => (Spec => NoTaskAfterStop)
<1> SUFFICES ASSUME Orderly PROVE Spec => NoTaskAfterStop
  OBVIOUS
<1>1. Init => StopInv
  <2> SUFFICES ASSUME Init PROVE StopInv
    OBVIOUS
  <2>1. Entries = {NullTask(0)}
    BY DEF Init, Entries
  <2>2. OneStop /\ ~Bumped
    BY DEF Init, OneStop, Bumped
  <2>3. NoFutureTask
    BY <2>1 DEF Init, NoFutureTask, NullTask, Null
  <2> QED
    BY <2>2, <2>3, TypingInit DEF StopInv, OldTasksDie
<1>2. StopInv /\ [Next]_vars => StopInv'
  <2> SUFFICES ASSUME StopInv, [Next]_vars PROVE StopInv'
    OBVIOUS
  <2>1. NoFutureTask' /\ OldTasksDie'
    <3> USE DEF StopInv
    <3>1. CASE UNCHANGED vars
      <4>1. Entries' = Entries /\ Bumped' = Bumped
        BY <3>1 DEF vars, Entries, Bumped
      <4> QED
        BY <3>1, <4>1 DEF vars, NoFutureTask, OldTasksDie
    <3> QED
      BY <3>1, DieStart, DieLoop, DieStop, DieJob DEF Next
  <2> QED
    BY <2>1, TypingStep, OneStopStep DEF StopInv
<1>3. StopInv /\ [Next]_vars => [RunTask => ~stopReturned \/ task.late]_vars
  <2> SUFFICES ASSUME StopInv, RunTask, stopReturned PROVE task.late
    OBVIOUS
  <2>1. task \in Entries /\ Bumped /\ task.gen = m_event_generation
    BY DEF RunTask, Fresh, Entries, Bumped
  <2>2. task.gen \in Nat
    BY DEF StopInv, Typing, Messages
  <2> QED
    BY <2>1, <2>2 DEF StopInv, OldTasksDie, NoFutureTask
<1> QED
  BY <1>1, <1>2, <1>3, PTL DEF Spec, NoTaskAfterStop
====
