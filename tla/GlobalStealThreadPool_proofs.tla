-------------------- MODULE GlobalStealThreadPool_proofs --------------------
(***************************************************************************)
(* Proofs about hku::GlobalStealThreadPool, for any number of workers,     *)
(* clients, tasks and closers: when join() or stop() returns, to whichever *)
(* of its callers first, no worker is left; no task is lost, duplicated or *)
(* executed twice on its way through the queues; the count of the running  *)
(* tasks is exact; a join() keeps its promise; and no wake-up is lost that *)
(* a closer or, beside a second worker, a queued task depends on.          *)
(***************************************************************************)
EXTENDS GlobalStealThreadPool, FiniteSetTheorems, SequenceTheorems, TLAPS

WorkerPlaces == {"top", "local", "master", "steal", "tosleep", "checked",
                 "waiting", "woken", "running", "exited"}
CloserPlaces == {"out", "drain", "asleep", "lock", "mark", "test", "set",
                 "notify", "joining", "closed"}
Entries == Tasks \cup {Null}

TypeInv ==
  /\ m_master_work_queue \in Seq(Entries)
  /\ m_queues \in [Workers -> Seq(Entries)]
  /\ stack \in [Threads -> Seq(Entries)]
  /\ wpc \in [Workers -> WorkerPlaces]
  /\ kpc \in [Closers -> CloserPlaces]
  /\ sub \in [Clients -> Entries]

(* Only a worker inside a task has tasks on its stack.                     *)
StacksOfRunners == \A w \in Workers : stack[w] # <<>> => wpc[w] = "running"

(* Between m_done and the end of the joins the closer that ended the pool  *)
(* keeps m_join_mutex, so that the others, who return at once when they    *)
(* see m_done under it, cannot see it too early.                           *)
Closing == {"mark", "test", "set", "notify", "joining"}

OneCloserEnds ==
  /\ \A k \in Closers : kpc[k] \in Closing => m_join_mutex = k
  /\ \A k \in Closers : kpc[k] = "closed" => m_done /\ m_join_mutex = Null
  /\ ~m_done => m_join_mutex = Null
  /\ m_done /\ m_join_mutex = Null => \A w \in Workers : wpc[w] = "exited"

IInv == TypeInv /\ StacksOfRunners /\ OneCloserEnds

LEMMA InitIInv == Init => IInv
BY DEF Init, IInv, TypeInv, StacksOfRunners, OneCloserEnds, Threads, WorkerPlaces,
       CloserPlaces, Entries, Closing

-----------------------------------------------------------------------------
(* Sequences.                                                              *)

LEMMA Popped ==
  ASSUME NEW s \in Seq(Entries), s # <<>>
  PROVE  /\ Head(s) \in Entries /\ Tail(s) \in Seq(Entries)
         /\ Len(s) = 1 => Tail(s) = <<>>
<1>1. /\ Head(s) \in Entries /\ Tail(s) \in Seq(Entries)
      /\ Len(Tail(s)) = Len(s) - 1
  BY HeadTailProperties
<1>2. Len(s) = 1 => Len(Tail(s)) = 0
  BY <1>1
<1>3. Len(Tail(s)) = 0 => Tail(s) = <<>>
  BY <1>1, EmptySeq
<1>4. QED
  BY <1>1, <1>2, <1>3

LEMMA Stolen ==
  ASSUME NEW s \in Seq(Entries), s # <<>>
  PROVE  Last(s) \in Entries /\ Front(s) \in Seq(Entries)
<1>1. Len(s) \in Nat /\ Len(s) >= 1
  OBVIOUS
<1>2. Last(s) \in Entries
  BY <1>1 DEF Last
<1>3. Len(s) - 1 \in Nat /\ Len(s) - 1 <= Len(s)
  BY <1>1
<1>4. SubSeq(s, 1, Len(s) - 1) \in Seq(Entries)
  <2>1. \A i \in 1 .. Len(s) - 1 : s[i] \in Entries
    BY <1>1
  <2>2. QED
    BY <1>1, <1>3, <2>1, SubSeqProperties
<1>5. QED
  BY <1>2, <1>4 DEF Front

LEMMA Pushed ==
  ASSUME NEW s \in Seq(Entries), NEW t \in Entries
  PROVE  /\ <<t>> \o s \in Seq(Entries) /\ <<t>> \o s # <<>>
         /\ Append(s, t) \in Seq(Entries)
<1>1. <<t>> \in Seq(Entries)
  OBVIOUS
<1>2. <<t>> \o s \in Seq(Entries) /\ Len(<<t>> \o s) = 1 + Len(s)
  BY <1>1
<1>3. Len(s) \in Nat
  OBVIOUS
<1>4. <<t>> \o s # <<>>
  BY <1>2, <1>3
<1>5. QED
  BY <1>2, <1>4

-----------------------------------------------------------------------------
(* Nobody takes or gives back the join mutex, nobody gets past the lock or *)
(* returns, and no worker comes back.                                      *)
LEMMA NobodyCloses ==
  ASSUME OneCloserEnds, UNCHANGED <<m_done, m_join_mutex>>,
         \A k \in Closers : kpc'[k] \in Closing => kpc[k] \in Closing,
         \A k \in Closers : kpc'[k] = "closed" => kpc[k] = "closed",
         \A w \in Workers : wpc[w] = "exited" => wpc'[w] = "exited"
  PROVE  OneCloserEnds'
BY DEF OneCloserEnds

(* Waking joiners or sleepers.                                             *)
LEMMA IdleNotified ==
  ASSUME NEW k0 \in [Closers -> CloserPlaces]
  PROVE  /\ IdleNotify(k0) \in [Closers -> CloserPlaces]
         /\ \A k \in Closers : IdleNotify(k0)[k] \in {k0[k], "drain"}
BY DEF IdleNotify, CloserPlaces

LEMMA Released ==
  ASSUME TypeInv, ReleaseRunningTask
  PROVE  /\ kpc' \in [Closers -> CloserPlaces]
         /\ \A k \in Closers : kpc'[k] \in {kpc[k], "drain"}
<1>1. /\ kpc \in [Closers -> CloserPlaces]
      /\ kpc' = kpc \/ kpc' = IdleNotify(kpc)
  BY DEF TypeInv, ReleaseRunningTask
<1>2. /\ IdleNotify(kpc) \in [Closers -> CloserPlaces]
      /\ \A k \in Closers : IdleNotify(kpc)[k] \in {kpc[k], "drain"}
  BY <1>1, IdleNotified
<1>3. QED
  BY <1>1, <1>2

LEMMA Woke ==
  ASSUME TypeInv, NEW ws \in SUBSET Asleep
  PROVE  /\ Woken(ws) \in [Workers -> WorkerPlaces]
         /\ \A w \in Workers : \/ Woken(ws)[w] = wpc[w]
                               \/ wpc[w] = "waiting" /\ Woken(ws)[w] = "woken"
BY DEF TypeInv, Woken, Asleep, WorkerPlaces

(* Sleepers woken, and nothing else of the invariant's business but the    *)
(* queues.                                                                 *)
LEMMA WakeStep ==
  ASSUME IInv, NEW ws \in SUBSET Asleep, wpc' = Woken(ws),
         m_master_work_queue' \in Seq(Entries),
         m_queues' \in [Workers -> Seq(Entries)],
         kpc' \in [Closers -> CloserPlaces], sub' \in [Clients -> Entries],
         \A k \in Closers : kpc'[k] \in Closing => kpc[k] \in Closing,
         \A k \in Closers : kpc'[k] = "closed" => kpc[k] = "closed",
         UNCHANGED <<m_done, m_join_mutex, stack>>
  PROVE  IInv'
<1>1. TypeInv
  BY DEF IInv
<1>2. /\ wpc' \in [Workers -> WorkerPlaces]
      /\ \A w \in Workers : \/ wpc'[w] = wpc[w]
                            \/ wpc[w] = "waiting" /\ wpc'[w] = "woken"
  BY <1>1, Woke
<1>3. OneCloserEnds'
  BY <1>2, NobodyCloses DEF IInv
<1>4. StacksOfRunners'
  BY <1>2 DEF IInv, StacksOfRunners
<1>5. TypeInv'
  BY <1>1, <1>2 DEF TypeInv
<1>6. QED
  BY <1>3, <1>4, <1>5 DEF IInv

LEMMA NobodyWoken == ASSUME TypeInv PROVE wpc = Woken({}) /\ {} \in SUBSET Asleep
BY DEF Woken, TypeInv

(* Neither a worker moves nor a stack changes.                             *)
LEMMA WorkersRest ==
  ASSUME IInv, m_master_work_queue' \in Seq(Entries),
         m_queues' \in [Workers -> Seq(Entries)],
         kpc' \in [Closers -> CloserPlaces], sub' \in [Clients -> Entries],
         \A k \in Closers : kpc'[k] \in Closing => kpc[k] \in Closing,
         \A k \in Closers : kpc'[k] = "closed" => kpc[k] = "closed",
         UNCHANGED <<m_done, m_join_mutex, stack, wpc>>
  PROVE  IInv'
<1>1. wpc' = Woken({}) /\ {} \in SUBSET Asleep
  BY NobodyWoken DEF IInv
<1>2. QED
  BY <1>1, WakeStep

-----------------------------------------------------------------------------
(* Submitting.                                                             *)

LEMMA ClientStep ==
  ASSUME IInv, NEW c \in Clients, SubmitCount(c) \/ Client(c) PROVE IInv'
<1>1. TypeInv
  BY DEF IInv
<1>2. CASE SubmitCount(c)
  <2>1. PICK t \in Tasks : sub' = [sub EXCEPT ![c] = t]
    BY <1>2 DEF SubmitCount
  <2>2. sub' \in [Clients -> Entries]
    BY <1>1, <2>1 DEF TypeInv, Entries
  <2>3. UNCHANGED <<m_done, m_join_mutex, stack, wpc, kpc, m_queues, m_master_work_queue>>
    BY <1>2 DEF SubmitCount, queues, close
  <2>4. QED
    BY <1>1, <2>2, <2>3, WorkersRest DEF TypeInv
<1>3. CASE SubmitRefused(c)
  <2>1. sub' \in [Clients -> Entries]
    BY <1>1, <1>3 DEF SubmitRefused, TypeInv, Entries
  <2>2. UNCHANGED <<m_done, m_join_mutex, stack, wpc, m_queues, m_master_work_queue>>
    BY <1>3 DEF SubmitRefused, queues
  <2>3. /\ kpc' \in [Closers -> CloserPlaces]
        /\ \A k \in Closers : kpc'[k] \in {kpc[k], "drain"}
    BY <1>1, <1>3, Released DEF SubmitRefused
  <2>4. QED
    BY <1>1, <2>1, <2>2, <2>3, WorkersRest DEF TypeInv, Closing
<1>4. CASE SubmitChecked(c)
  <2>1. UNCHANGED <<m_done, m_join_mutex, stack, wpc, kpc, sub, m_queues, m_master_work_queue>>
    BY <1>4 DEF SubmitChecked, queues, close
  <2>2. QED
    BY <1>1, <2>1, WorkersRest DEF TypeInv
<1>5. CASE SubmitPush(c)
  <2>1. UNCHANGED <<m_done, m_join_mutex, stack, wpc, kpc, sub, m_queues>>
    BY <1>5 DEF SubmitPush, close
  <2>2. m_master_work_queue' \in Seq(Entries)
    BY <1>1, <1>5, Pushed DEF SubmitPush, TypeInv
  <2>3. QED
    BY <1>1, <2>1, <2>2, WorkersRest DEF TypeInv
<1>6. CASE SubmitNotify(c)
  <2>1. UNCHANGED <<m_done, m_join_mutex, stack, kpc, m_queues, m_master_work_queue>>
    BY <1>6 DEF SubmitNotify, queues, close
  <2>2. sub' \in [Clients -> Entries]
    BY <1>1, <1>6 DEF SubmitNotify, TypeInv, Entries
  <2>3. PICK ws \in SUBSET Asleep : wpc' = Woken(ws)
    <3>1. CASE UNCHANGED wpc
      BY <1>1, <3>1, NobodyWoken
    <3>2. CASE \E w \in Asleep : wpc' = Woken({w})
      BY <3>2
    <3>3. QED
      BY <1>6, <3>1, <3>2 DEF SubmitNotify, NotifyOne
  <2>4. QED
    BY <1>1, <2>1, <2>2, <2>3, WakeStep DEF TypeInv
<1>7. QED
  BY <1>2, <1>3, <1>4, <1>5, <1>6 DEF Client

-----------------------------------------------------------------------------
(* The workers.                                                            *)

(* One thread moves: a worker with tasks on its stack stays inside one.    *)
LEMMA MoveStep ==
  ASSUME IInv, NEW x \in Threads, NEW p \in WorkerPlaces, NEW s \in Seq(Entries),
         wpc' = IF x \in Workers THEN [wpc EXCEPT ![x] = p] ELSE wpc,
         stack' = [stack EXCEPT ![x] = s],
         x \in Workers => /\ s # <<>> => p = "running"
                          /\ wpc[x] # "exited",
         m_master_work_queue' \in Seq(Entries),
         m_queues' \in [Workers -> Seq(Entries)],
         kpc' \in [Closers -> CloserPlaces],
         \A k \in Closers : kpc'[k] \in {kpc[k], "drain"},
         UNCHANGED <<m_done, m_join_mutex, sub>>
  PROVE  IInv'
<1>1. TypeInv
  BY DEF IInv
<1>2. /\ wpc' \in [Workers -> WorkerPlaces]
      /\ \A w \in Workers \ {x} : wpc'[w] = wpc[w]
      /\ x \in Workers => wpc'[x] = p
  BY <1>1 DEF TypeInv
<1>3. /\ stack' \in [Threads -> Seq(Entries)]
      /\ \A w \in Workers \ {x} : stack'[w] = stack[w]
      /\ stack'[x] = s
  BY <1>1 DEF TypeInv, Threads
<1>4. TypeInv'
  BY <1>1, <1>2, <1>3 DEF TypeInv
<1>5. StacksOfRunners'
  BY <1>2, <1>3 DEF IInv, StacksOfRunners
<1>6. OneCloserEnds'
  <2>1. \A w \in Workers : wpc[w] = "exited" => wpc'[w] = "exited"
    BY <1>2
  <2>2. QED
    BY <2>1, NobodyCloses DEF IInv, Closing
<1>7. QED
  BY <1>4, <1>5, <1>6 DEF IInv

(* A worker moves and its stack stays.                                     *)
LEMMA GotoStep ==
  ASSUME IInv, NEW w \in Workers, wpc[w] \notin {"running", "exited"},
         NEW p \in WorkerPlaces, wpc' = [wpc EXCEPT ![w] = p],
         m_master_work_queue' \in Seq(Entries),
         m_queues' \in [Workers -> Seq(Entries)],
         UNCHANGED <<m_done, m_join_mutex, sub, stack, kpc>>
  PROVE  IInv'
<1>1. stack[w] = <<>> /\ w \in Threads
  BY DEF IInv, StacksOfRunners, Threads
<1>2. stack' = [stack EXCEPT ![w] = <<>>] /\ <<>> \in Seq(Entries)
  BY <1>1 DEF IInv, TypeInv
<1>3. kpc' \in [Closers -> CloserPlaces] /\ \A k \in Closers : kpc'[k] \in {kpc[k], "drain"}
  BY DEF IInv, TypeInv
<1>4. QED
  BY <1>1, <1>2, <1>3, MoveStep

(* Whatever queue a worker or a client takes from, it takes an entry.      *)
LEMMA Takes ==
  ASSUME TypeInv, NEW w \in Workers, NEW v \in Workers
  PROVE  /\ TakeLocal(w) => /\ Head(m_queues[w]) \in Entries
                            /\ m_queues' \in [Workers -> Seq(Entries)]
                            /\ m_master_work_queue' \in Seq(Entries)
         /\ TakeFrom(w, v) => /\ Last(m_queues[v]) \in Entries
                              /\ m_queues' \in [Workers -> Seq(Entries)]
                              /\ m_master_work_queue' \in Seq(Entries)
<1>1. /\ m_queues[w] \in Seq(Entries) /\ m_queues[v] \in Seq(Entries)
      /\ m_queues \in [Workers -> Seq(Entries)] /\ m_master_work_queue \in Seq(Entries)
  BY DEF TypeInv
<1>2. ASSUME TakeLocal(w)
      PROVE  /\ Head(m_queues[w]) \in Entries
             /\ m_queues' \in [Workers -> Seq(Entries)]
             /\ m_master_work_queue' \in Seq(Entries)
  <2>1. Head(m_queues[w]) \in Entries /\ Tail(m_queues[w]) \in Seq(Entries)
    BY <1>1, <1>2, Popped DEF TakeLocal
  <2>2. QED
    BY <1>1, <1>2, <2>1 DEF TakeLocal
<1>3. ASSUME TakeFrom(w, v)
      PROVE  /\ Last(m_queues[v]) \in Entries
             /\ m_queues' \in [Workers -> Seq(Entries)]
             /\ m_master_work_queue' \in Seq(Entries)
  <2>1. Last(m_queues[v]) \in Entries /\ Front(m_queues[v]) \in Seq(Entries)
    BY <1>1, <1>3, Stolen DEF TakeFrom, Stealable
  <2>2. QED
    BY <1>1, <1>3, <2>1 DEF TakeFrom
<1>4. QED
  BY <1>2, <1>3

LEMMA TakesMaster ==
  ASSUME TypeInv, TakeMaster
  PROVE  /\ Head(m_master_work_queue) \in Entries
         /\ m_queues' \in [Workers -> Seq(Entries)]
         /\ m_master_work_queue' \in Seq(Entries)
<1>1. m_master_work_queue \in Seq(Entries) /\ m_master_work_queue # <<>>
  BY DEF TypeInv, TakeMaster
<1>2. Head(m_master_work_queue) \in Entries /\ Tail(m_master_work_queue) \in Seq(Entries)
  BY <1>1, Popped
<1>3. QED
  BY <1>2 DEF TakeMaster, TypeInv

(* An empty task only sets a flag; any other goes on top of the stack.     *)
LEMMA RunStep ==
  ASSUME IInv, NEW w \in Workers, NEW t \in Entries, Run(w, t),
         wpc[w] \notin {"running", "exited"},
         m_master_work_queue' \in Seq(Entries),
         m_queues' \in [Workers -> Seq(Entries)]
  PROVE  IInv'
<1>1. UNCHANGED <<m_done, m_join_mutex, sub, kpc>>
  BY DEF Run, close, submit
<1>2. CASE t = Null
  BY <1>1, <1>2, GotoStep DEF Run, WorkerPlaces
<1>3. CASE t # Null
  <2>1. stack[w] \in Seq(Entries) /\ w \in Threads
    BY DEF IInv, TypeInv, Threads
  <2>2. <<t>> \o stack[w] \in Seq(Entries)
    BY <2>1, Pushed
  <2>3. stack' = [stack EXCEPT ![w] = <<t>> \o stack[w]]
    BY <1>3, <2>1 DEF Run, Execute
  <2>4. wpc' = [wpc EXCEPT ![w] = "running"] /\ "running" \in WorkerPlaces
    BY <1>3 DEF Run, WorkerPlaces
  <2>5. kpc' \in [Closers -> CloserPlaces] /\ \A k \in Closers : kpc'[k] \in {kpc[k], "drain"}
    BY <1>1 DEF IInv, TypeInv
  <2>6. QED
    BY <1>1, <2>1, <2>2, <2>3, <2>4, <2>5, MoveStep
<1>4. QED
  BY <1>2, <1>3

LEMMA WorkerStep == ASSUME IInv, NEW w \in Workers, Worker(w) PROVE IInv'
<1>1. TypeInv
  BY DEF IInv
<1>2. CASE WorkerExit(w)
  <2>1. /\ wpc' = [wpc EXCEPT ![w] = "exited"] /\ "exited" \in WorkerPlaces
        /\ wpc[w] \notin {"running", "exited"}
    BY <1>2 DEF WorkerExit, WorkerPlaces
  <2>2. UNCHANGED <<m_done, m_join_mutex, sub, stack, kpc, m_queues, m_master_work_queue>>
    BY <1>2 DEF WorkerExit, close, submit, queues
  <2>3. QED
    BY <1>1, <2>1, <2>2, GotoStep DEF TypeInv
<1>3. ASSUME NEW p \in WorkerPlaces, Goto(w, p), wpc[w] \notin {"running", "exited"}
      PROVE  IInv'
  <2>1. wpc' = [wpc EXCEPT ![w] = p]
    BY <1>3 DEF Goto
  <2>2. UNCHANGED <<m_done, m_join_mutex, sub, stack, kpc, m_queues, m_master_work_queue>>
    BY <1>3 DEF Goto, close, submit, queues
  <2>3. QED
    BY <1>1, <1>3, <2>1, <2>2, GotoStep DEF TypeInv
<1>4. CASE PendingLocal(w) /\ TakeLocal(w) /\ Run(w, Head(m_queues[w]))
  <2>1. wpc[w] \notin {"running", "exited"}
    BY <1>4 DEF PendingLocal
  <2>2. QED
    BY <1>1, <1>4, <2>1, Takes, RunStep
<1>5. CASE PendingMaster(w) /\ TakeMaster /\ Run(w, Head(m_master_work_queue))
  <2>1. wpc[w] \notin {"running", "exited"}
    BY <1>5 DEF PendingMaster
  <2>2. QED
    BY <1>1, <1>5, <2>1, TakesMaster, RunStep
<1>6. CASE PendingSteal(w) /\ \E v \in Stealable(w) : TakeFrom(w, v) /\ Run(w, Last(m_queues[v]))
  <2>1. wpc[w] \notin {"running", "exited"}
    BY <1>6 DEF PendingSteal
  <2>2. PICK v \in Workers : TakeFrom(w, v) /\ Run(w, Last(m_queues[v]))
    BY <1>6 DEF Stealable
  <2>3. QED
    BY <1>1, <2>1, <2>2, Takes, RunStep
<1>7. CASE WorkerLoop(w)
  BY <1>3, <1>7 DEF WorkerLoop, WorkerPlaces
<1>8. CASE SleepCheck(w)
  BY <1>3, <1>8 DEF SleepCheck, WorkerPlaces
<1>9. CASE SleepBlock(w)
  BY <1>3, <1>9 DEF SleepBlock, WorkerPlaces
<1>10. CASE PendingLocal(w) /\ Goto(w, "master")
  BY <1>3, <1>10 DEF PendingLocal, WorkerPlaces
<1>11. CASE PendingMaster(w) /\ Goto(w, "steal")
  BY <1>3, <1>11 DEF PendingMaster, WorkerPlaces
<1>12. CASE PendingSteal(w) /\ Goto(w, "tosleep")
  BY <1>3, <1>12 DEF PendingSteal, WorkerPlaces
<1>13. PendingLocal(w) => (TakeLocal(w) /\ Run(w, Head(m_queues[w]))) \/ Goto(w, "master")
  BY DEF PendingLocal
<1>14. PendingMaster(w) => (TakeMaster /\ Run(w, Head(m_master_work_queue))) \/ Goto(w, "steal")
  BY DEF PendingMaster
<1>15. PendingSteal(w) => \/ \E v \in Stealable(w) : TakeFrom(w, v) /\ Run(w, Last(m_queues[v]))
                          \/ Goto(w, "tosleep")
  BY DEF PendingSteal
<1>16. QED
  BY <1>2, <1>4, <1>5, <1>6, <1>7, <1>8, <1>9, <1>10, <1>11, <1>12, <1>13, <1>14, <1>15
     DEF Worker

(* A task submits to the front of its worker's own queue.                  *)
LEMMA SubmitLocalStep == ASSUME IInv, NEW w \in Workers, SubmitLocal(w) PROVE IInv'
<1>1. TypeInv
  BY DEF IInv
<1>2. PICK t \in Tasks : m_queues' = [m_queues EXCEPT ![w] = <<t>> \o m_queues[w]]
  BY <1>1 DEF SubmitLocal, TypeInv
<1>3. m_queues[w] \in Seq(Entries) /\ t \in Entries
  BY <1>1 DEF TypeInv, Entries
<1>4. <<t>> \o m_queues[w] \in Seq(Entries)
  BY <1>3, Pushed
<1>5. m_queues' \in [Workers -> Seq(Entries)]
  BY <1>1, <1>2, <1>4 DEF TypeInv
<1>6. UNCHANGED <<m_done, m_join_mutex, stack, wpc, kpc, sub, m_master_work_queue>>
  BY DEF SubmitLocal, close, submit
<1>7. QED
  BY <1>1, <1>5, <1>6, WorkersRest DEF TypeInv

(* A waiting thread executes another task on top of its own.               *)
LEMMA HelpStep ==
  ASSUME IInv, NEW x \in Threads, NEW t \in Entries, Execute(x, t),
         x \in Workers => wpc[x] = "running",
         m_master_work_queue' \in Seq(Entries),
         m_queues' \in [Workers -> Seq(Entries)],
         UNCHANGED <<m_done, m_join_mutex, wpc, kpc, sub>>
  PROVE  IInv'
<1>1. stack[x] \in Seq(Entries)
  BY DEF IInv, TypeInv
<1>2. <<t>> \o stack[x] \in Seq(Entries)
  BY <1>1, Pushed
<1>3. stack' = [stack EXCEPT ![x] = <<t>> \o stack[x]]
  BY DEF Execute, IInv, TypeInv
<1>4. wpc' = IF x \in Workers THEN [wpc EXCEPT ![x] = "running"] ELSE wpc
  BY DEF IInv, TypeInv
<1>5. kpc' \in [Closers -> CloserPlaces] /\ \A k \in Closers : kpc'[k] \in {kpc[k], "drain"}
  BY DEF IInv, TypeInv
<1>6. "running" \in WorkerPlaces
  BY DEF WorkerPlaces
<1>7. QED
  BY <1>2, <1>3, <1>4, <1>5, <1>6, MoveStep

LEMMA HelpWorkerStep == ASSUME IInv, NEW w \in Workers, HelpWorker(w) PROVE IInv'
<1>1. TypeInv
  BY DEF IInv
<1>2. UNCHANGED <<m_done, m_join_mutex, wpc, kpc, sub>> /\ wpc[w] = "running"
  BY DEF HelpWorker, close, submit
<1>3. m_queues' \in [Workers -> Seq(Entries)] /\ m_master_work_queue' \in Seq(Entries)
  <2>1. \/ TakeLocal(w) \/ TakeMaster
        \/ \E v \in Workers : TakeFrom(w, v)
    BY DEF HelpWorker, Stealable
  <2>2. QED
    BY <1>1, <2>1, Takes, TakesMaster
<1>4. UNCHANGED stack \/ \E t \in Entries : Execute(w, t)
  BY DEF HelpWorker, Entries
<1>5. CASE UNCHANGED stack
  BY <1>1, <1>2, <1>3, <1>5, WorkersRest DEF TypeInv
<1>6. CASE \E t \in Entries : Execute(w, t)
  BY <1>2, <1>3, <1>6, HelpStep DEF Threads
<1>7. QED
  BY <1>4, <1>5, <1>6

LEMMA HelpClientStep == ASSUME IInv, NEW c \in Clients, HelpClient(c) PROVE IInv'
<1>1. TypeInv
  BY DEF IInv
<1>2. UNCHANGED <<m_done, m_join_mutex, wpc, kpc, sub>>
  BY DEF HelpClient, close, submit
<1>3. /\ Head(m_master_work_queue) \in Entries
      /\ m_queues' \in [Workers -> Seq(Entries)] /\ m_master_work_queue' \in Seq(Entries)
  BY <1>1, TakesMaster DEF HelpClient
<1>4. CASE UNCHANGED stack
  BY <1>1, <1>2, <1>3, <1>4, WorkersRest DEF TypeInv
<1>5. CASE Execute(c, Head(m_master_work_queue))
  <2>1. c \in Threads /\ c \notin Workers
    BY ConstantsOK DEF Threads
  <2>2. QED
    BY <1>2, <1>3, <1>5, <2>1, HelpStep
<1>6. QED
  BY <1>4, <1>5 DEF HelpClient

LEMMA WakeUpStep == ASSUME IInv, NEW w \in Workers, WakeUp(w) PROVE IInv'
<1>1. PICK ws \in SUBSET Asleep : wpc' = Woken(ws)
  BY DEF WakeUp
<1>2. UNCHANGED <<m_done, m_join_mutex, stack, kpc, sub, m_queues, m_master_work_queue>>
  BY DEF WakeUp, close, submit, queues
<1>3. QED
  BY <1>1, <1>2, WakeStep DEF IInv, TypeInv

(* The last task of a worker's stack sends it back to its loop.            *)
LEMMA FinishStep == ASSUME IInv, NEW x \in Threads, EndTask(x) PROVE IInv'
<1> DEFINE p == IF Len(stack[x]) = 1 THEN "top" ELSE "running"
<1>1. TypeInv
  BY DEF IInv
<1>2. stack[x] \in Seq(Entries) /\ stack[x] # <<>>
  BY <1>1 DEF TypeInv, EndTask
<1>3. Tail(stack[x]) \in Seq(Entries) /\ (Len(stack[x]) = 1 => Tail(stack[x]) = <<>>)
  BY <1>2, Popped
<1>4. stack' = [stack EXCEPT ![x] = Tail(stack[x])]
  BY <1>1 DEF EndTask, TypeInv
<1>5. x \in Workers => wpc[x] = "running"
  BY <1>2 DEF IInv, StacksOfRunners
<1>6. wpc' = IF x \in Workers THEN [wpc EXCEPT ![x] = p] ELSE wpc
  <2>1. wpc \in [Workers -> WorkerPlaces]
    BY <1>1 DEF TypeInv
  <2>2. x \in Workers => wpc = [wpc EXCEPT ![x] = "running"]
    BY <1>5, <2>1
  <2>3. QED
    BY <2>2 DEF EndTask
<1>7. p \in WorkerPlaces /\ (Tail(stack[x]) # <<>> => p = "running")
  BY <1>3 DEF WorkerPlaces
<1>8. /\ kpc' \in [Closers -> CloserPlaces]
      /\ \A k \in Closers : kpc'[k] \in {kpc[k], "drain"}
  BY <1>1, Released DEF EndTask
<1>9. UNCHANGED <<m_done, m_join_mutex, sub, m_queues, m_master_work_queue>>
  BY DEF EndTask, submit, queues
<1> HIDE DEF p
<1>10. m_queues' \in [Workers -> Seq(Entries)] /\ m_master_work_queue' \in Seq(Entries)
  BY <1>1, <1>9 DEF TypeInv
<1>11. QED
  BY <1>3, <1>4, <1>5, <1>6, <1>7, <1>8, <1>9, <1>10, MoveStep

-----------------------------------------------------------------------------
(* The closers.                                                            *)

LEMMA PushedNulls ==
  ASSUME TypeInv, NEW k \in Closers, UNCHANGED queues \/ PushNulls(k)
  PROVE  m_queues' \in [Workers -> Seq(Entries)] /\ m_master_work_queue' \in Seq(Entries)
<1>1. CASE UNCHANGED queues
  BY <1>1 DEF queues, TypeInv
<1>2. CASE m_queues' = [w \in Workers |-> <<Null>> \o m_queues[w]] /\ UNCHANGED m_master_work_queue
  <2>1. \A w \in Workers : <<Null>> \o m_queues[w] \in Seq(Entries)
    BY Pushed DEF TypeInv, Entries
  <2>2. QED
    BY <1>2, <2>1 DEF TypeInv
<1>3. CASE /\ m_master_work_queue' = m_master_work_queue \o [i \in Workers |-> Null]
           /\ UNCHANGED m_queues
  <2>1. [i \in 1 .. WorkerNum |-> Null] \in Seq(Entries)
    <3>1. Null \in Entries /\ WorkerNum \in Nat
      BY ConstantsOK DEF Entries
    <3>2. [i \in 1 .. WorkerNum |-> Null] \in [1 .. WorkerNum -> Entries]
      BY <3>1
    <3>3. QED
      BY <3>1, <3>2, SeqDef
  <2>2. m_master_work_queue \o [i \in 1 .. WorkerNum |-> Null] \in Seq(Entries)
    BY <2>1, ConcatProperties DEF TypeInv
  <2>3. QED
    BY <1>3, <2>2 DEF TypeInv, Workers
<1>4. QED
  BY <1>1, <1>2, <1>3 DEF PushNulls

(* The closer goes to a place no nearer to ending the pool than before.    *)
LEMMA CloserMoves ==
  ASSUME IInv, NEW k \in Closers, NEW p \in CloserPlaces \ {"closed"}, KGoto(k, p),
         p \in Closing => kpc[k] \in Closing,
         UNCHANGED queues \/ PushNulls(k),
         UNCHANGED <<m_done, m_join_mutex, stack, wpc, sub>>
  PROVE  IInv'
<1>1. TypeInv
  BY DEF IInv
<1>2. /\ kpc' \in [Closers -> CloserPlaces]
      /\ kpc'[k] = p /\ \A j \in Closers \ {k} : kpc'[j] = kpc[j]
  BY <1>1 DEF KGoto, TypeInv
<1>3. m_queues' \in [Workers -> Seq(Entries)] /\ m_master_work_queue' \in Seq(Entries)
  BY <1>1, PushedNulls
<1>4. QED
  BY <1>1, <1>2, <1>3, WorkersRest DEF TypeInv

LEMMA CloseStep == ASSUME IInv, NEW k \in Closers, Close(k) \/ Drain(k) PROVE IInv'
<1>1. PICK p \in {"drain", "lock", "asleep"} : KGoto(k, p)
  BY DEF Close, Drain
<1>2. p \in CloserPlaces \ {"closed"} /\ p \notin Closing
  BY DEF CloserPlaces, Closing
<1>3. UNCHANGED <<m_done, m_join_mutex, stack, wpc, sub, queues>>
  BY DEF Close, Drain, Rest, submit
<1>4. QED
  BY <1>1, <1>2, <1>3, CloserMoves

LEMMA FlagStep ==
  ASSUME IInv, NEW k \in Closers, Mark(k) \/ TestFlag(k) \/ SetFlag(k) PROVE IInv'
<1>1. \E p \in {"test", "set", "notify"} : KGoto(k, p)
  BY DEF Mark, TestFlag, SetFlag, Advance
<1>2. PICK p \in {"test", "set", "notify"} : KGoto(k, p)
  BY <1>1
<1>3. /\ p \in CloserPlaces \ {"closed"} /\ kpc[k] \in Closing
      /\ UNCHANGED queues \/ PushNulls(k)
      /\ UNCHANGED <<m_done, m_join_mutex, stack, wpc, sub>>
  BY DEF Mark, TestFlag, SetFlag, Advance, CloserPlaces, Closing, Rest, submit
<1>4. QED
  BY <1>2, <1>3, CloserMoves

LEMMA NotifyAllStep == ASSUME IInv, NEW k \in Closers, NotifyAll(k) PROVE IInv'
<1>1. TypeInv
  BY DEF IInv
<1>2. kpc' = [kpc EXCEPT ![k] = "joining"] /\ kpc[k] = "notify"
  BY DEF NotifyAll, KGoto
<1>3. /\ kpc' \in [Closers -> CloserPlaces]
      /\ kpc'[k] = "joining" /\ \A j \in Closers \ {k} : kpc'[j] = kpc[j]
  BY <1>1, <1>2 DEF TypeInv, CloserPlaces
<1>4. wpc' = Woken(Asleep) /\ Asleep \in SUBSET Asleep
  BY DEF NotifyAll, WakeAll
<1>5. UNCHANGED <<m_done, m_join_mutex, stack, sub, m_queues, m_master_work_queue>>
  BY DEF NotifyAll, Rest, submit, queues
<1>6. QED
  BY <1>1, <1>2, <1>3, <1>4, <1>5, WakeStep DEF TypeInv, Closing

(* The first closer takes the mutex; the others find the pool ended, with  *)
(* the mutex free, hence after the joins.                                  *)
LEMMA CloseLockStep == ASSUME IInv, NEW k \in Closers, CloseLock(k) PROVE IInv'
<1>1. TypeInv /\ StacksOfRunners /\ OneCloserEnds
  BY DEF IInv
<1>2. /\ kpc[k] = "lock" /\ m_join_mutex = Null
      /\ UNCHANGED <<wpc, stack, sub, m_queues, m_master_work_queue>>
  BY DEF CloseLock, JoinMutexFree, Rest, submit, queues
<1>3. CASE /\ m_done /\ KGoto(k, "closed")
           /\ UNCHANGED <<m_done, m_join_mutex>>
  <2>1. /\ kpc' \in [Closers -> CloserPlaces]
        /\ kpc'[k] = "closed" /\ \A j \in Closers \ {k} : kpc'[j] = kpc[j]
    BY <1>1, <1>3 DEF KGoto, TypeInv, CloserPlaces
  <2>2. OneCloserEnds'
    BY <1>1, <1>2, <1>3, <2>1 DEF OneCloserEnds, Closing
  <2>3. QED
    BY <1>1, <1>2, <2>1, <2>2 DEF IInv, TypeInv, StacksOfRunners
<1>4. CASE /\ ~m_done /\ m_done' = TRUE /\ m_join_mutex' = k
           /\ kpc' = [IdleNotify(kpc) EXCEPT ![k] = "mark"]
  <2>1. /\ IdleNotify(kpc) \in [Closers -> CloserPlaces]
        /\ \A j \in Closers : IdleNotify(kpc)[j] \in {kpc[j], "drain"}
    BY <1>1, IdleNotified DEF TypeInv
  <2>2. /\ kpc' \in [Closers -> CloserPlaces]
        /\ kpc'[k] = "mark" /\ \A j \in Closers \ {k} : kpc'[j] \in {kpc[j], "drain"}
    BY <1>4, <2>1 DEF CloserPlaces
  <2>3. k # Null
    BY ConstantsOK
  <2>4. \A j \in Closers : kpc[j] \notin Closing /\ kpc[j] # "closed"
    <3>1. \A j \in Closers : j # Null
      BY ConstantsOK
    <3>2. QED
      BY <1>1, <1>2, <1>4, <3>1 DEF OneCloserEnds
  <2>5. \A j \in Closers \ {k} : kpc'[j] \notin Closing /\ kpc'[j] # "closed"
    BY <2>2, <2>4 DEF Closing
  <2>6. OneCloserEnds'
    BY <1>4, <2>2, <2>3, <2>5 DEF OneCloserEnds
  <2>7. QED
    BY <1>1, <1>2, <2>2, <2>6 DEF IInv, TypeInv, StacksOfRunners
<1>5. QED
  BY <1>3, <1>4 DEF CloseLock

(* It lets the mutex go when all workers are joined.                       *)
LEMMA ClearStep == ASSUME IInv, NEW k \in Closers, Clear(k) PROVE IInv'
<1>1. TypeInv /\ StacksOfRunners /\ OneCloserEnds
  BY DEF IInv
<1>2. /\ kpc[k] = "joining" /\ m_join_mutex = k /\ m_join_mutex' = Null
      /\ \A w \in Workers : wpc[w] = "exited"
      /\ UNCHANGED <<m_done, wpc, stack, sub>>
  BY <1>1 DEF Clear, OneCloserEnds, Closing, Rest, submit
<1>3. /\ kpc' \in [Closers -> CloserPlaces]
      /\ kpc'[k] = "closed" /\ \A j \in Closers \ {k} : kpc'[j] = kpc[j]
  BY <1>1 DEF Clear, KGoto, TypeInv, CloserPlaces
<1>4. m_queues' \in [Workers -> Seq(Entries)] /\ m_master_work_queue' \in Seq(Entries)
  BY DEF Clear
<1>5. m_done /\ \A j \in Closers \ {k} : kpc[j] \notin Closing
  <2>1. k # Null
    BY ConstantsOK
  <2>2. QED
    BY <1>1, <1>2, <2>1 DEF OneCloserEnds
<1>6. OneCloserEnds'
  BY <1>1, <1>2, <1>3, <1>5 DEF OneCloserEnds, Closing
<1>7. QED
  BY <1>1, <1>2, <1>3, <1>4, <1>6 DEF IInv, TypeInv, StacksOfRunners

-----------------------------------------------------------------------------
LEMMA IInvStep == ASSUME IInv, [Next]_vars PROVE IInv'
<1>1. CASE \E w \in Workers : Worker(w) \/ SubmitLocal(w) \/ HelpWorker(w) \/ WakeUp(w)
  BY <1>1, WorkerStep, SubmitLocalStep, HelpWorkerStep, WakeUpStep
<1>2. CASE \E c \in Clients : Client(c) \/ SubmitCount(c) \/ HelpClient(c)
  BY <1>2, ClientStep, HelpClientStep
<1>3. CASE \E x \in Threads : FinishTask(x) \/ ThrowTask(x)
  BY <1>3, FinishStep DEF FinishTask, ThrowTask
<1>4. CASE \E k \in Closers : Close(k) \/ Closer(k)
  BY <1>4, CloseStep, FlagStep, NotifyAllStep, CloseLockStep, ClearStep DEF Closer
<1>5. CASE UNCHANGED vars
  BY <1>5, WorkersRest DEF vars, queues, close, submit, IInv, TypeInv
<1>6. QED
  BY <1>1, <1>2, <1>3, <1>4, <1>5 DEF Next

(* The inductive invariant: types, tasks only on the stacks of running     *)
(* workers, one closer that ends the pool and keeps the mutex to the end.  *)
THEOREM Invariance == Spec => []IInv
<1>1. IInv /\ [Next]_vars => IInv'
  BY IInvStep
<1>2. QED
  BY <1>1, InitIInv, PTL DEF Spec

(* For any number of workers, clients, tasks and closers: once join() or   *)
(* stop() has returned to one of its callers, every worker has ended and   *)
(* none is inside a task.                                                  *)
THEOREM ClosedIsOver == Spec => []ClosedMeansEnded
<1>1. IInv => ClosedMeansEnded
  <2> SUFFICES ASSUME IInv, NEW k \in Closers, kpc[k] = "closed", NEW w \in Workers
               PROVE  wpc[w] = "exited" /\ stack[w] = <<>>
    BY DEF ClosedMeansEnded
  <2>1. wpc[w] = "exited"
    BY DEF IInv, OneCloserEnds
  <2>2. stack[w] = <<>>
    BY <2>1 DEF IInv, StacksOfRunners
  <2>3. QED
    BY <2>1, <2>2
<1>2. QED
  BY <1>1, Invariance, PTL

-----------------------------------------------------------------------------
(* Where the tasks are.  A store is the master queue, a deque or a stack;  *)
(* what the threads do moves one entry between the ends of two stores.     *)

AllStores == [Stores -> Seq(Entries)]

(* Only store p changes, to s.                                             *)
Changes(F, G, p, s) == G = [F EXCEPT ![p] = s]

(* s is u without its entry at r, the others d places up; or the converse. *)
CutOf(s, u, r, d) ==
  /\ \A i \in DOMAIN s : i + d \in DOMAIN u /\ i + d # r /\ s[i] = u[i + d]
  /\ \A j \in DOMAIN u : j = r \/ (j - d \in DOMAIN s /\ s[j - d] = u[j])

PutOf(s, u, r, d) ==
  /\ \A i \in DOMAIN s : i = r \/ (i + d \in DOMAIN u /\ s[i] = u[i + d])
  /\ \A j \in DOMAIN u : j - d \in DOMAIN s /\ s[j - d] = u[j]

(* Entry r leaves store p, the others close up.                            *)
LEMMA Cut ==
  ASSUME NEW F \in AllStores, InOnePlace(F), NEW p \in Stores,
         NEW r \in DOMAIN F[p], NEW s \in Seq(Entries), NEW d \in Int,
         CutOf(s, F[p], r, d),
         NEW G, Changes(F, G, p, s)
  PROVE  G \in AllStores /\ InOnePlace(G) /\ TasksIn(G) = TasksIn(F) \ {F[p][r]}
<1>1. /\ G \in AllStores /\ G[p] = s /\ \A q \in Stores : q # p => G[q] = F[q]
      /\ \A q \in Stores : DOMAIN F[q] \subseteq Int
      /\ DOMAIN s \subseteq Int
  BY DEF AllStores, Changes
<1>2. \A q \in Stores : \A i \in DOMAIN G[q] :
        \/ q = p /\ i \in Int /\ i + d \in DOMAIN F[p] /\ i + d # r /\ G[q][i] = F[p][i + d]
        \/ q # p /\ i \in DOMAIN F[q] /\ G[q][i] = F[q][i]
  BY <1>1 DEF CutOf
<1>3. InOnePlace(G)
  <2> SUFFICES ASSUME NEW q \in Stores, NEW u \in Stores,
                      NEW i \in DOMAIN G[q], NEW j \in DOMAIN G[u],
                      G[q][i] = G[u][j], G[q][i] # Null
               PROVE  q = u /\ i = j
    BY DEF InOnePlace
  <2>1. CASE q = p /\ u = p
    <3>1. i \in Int /\ j \in Int /\ i + d = j + d
      BY <1>2, <2>1 DEF InOnePlace
    <3>2. QED
      BY <2>1, <3>1
  <2>2. CASE q = p /\ u # p
    BY <1>2, <2>2 DEF InOnePlace
  <2>3. CASE q # p /\ u = p
    BY <1>2, <2>3 DEF InOnePlace
  <2>4. CASE q # p /\ u # p
    BY <1>2, <2>4 DEF InOnePlace
  <2>5. QED
    BY <2>1, <2>2, <2>3, <2>4
<1>4. TasksIn(G) \subseteq TasksIn(F) \ {F[p][r]}
  <2> SUFFICES ASSUME NEW t \in Tasks, NEW q \in Stores, NEW i \in DOMAIN G[q], G[q][i] = t
               PROVE  t \in TasksIn(F) /\ t # F[p][r]
    BY DEF TasksIn
  <2>1. t # Null
    BY ConstantsOK
  <2>2. CASE q = p
    BY <1>2, <2>1, <2>2 DEF InOnePlace, TasksIn
  <2>3. CASE q # p
    BY <1>2, <2>1, <2>3 DEF InOnePlace, TasksIn
  <2>4. QED
    BY <2>2, <2>3
<1>5. ASSUME NEW t \in TasksIn(F), t # F[p][r] PROVE t \in TasksIn(G)
  <2>1. PICK q \in Stores : \E j \in DOMAIN F[q] : F[q][j] = t
    BY DEF TasksIn
  <2> PICK j \in DOMAIN F[q] : F[q][j] = t
    BY <2>1
  <2>2. CASE q = p
    <3>1. j - d \in DOMAIN G[p] /\ G[p][j - d] = t
      BY <1>1, <1>5, <2>1, <2>2 DEF CutOf
    <3>2. QED
      BY <3>1 DEF TasksIn
  <2>3. CASE q # p
    BY <1>1, <2>1, <2>3 DEF TasksIn
  <2>4. QED
    BY <2>2, <2>3
<1>6. QED
  BY <1>1, <1>3, <1>4, <1>5

(* A new entry t, not stored yet, joins store p at r.                      *)
LEMMA Put ==
  ASSUME NEW F \in AllStores, InOnePlace(F), NEW p \in Stores,
         NEW s \in Seq(Entries), NEW r \in DOMAIN s, NEW d \in Int,
         s[r] \notin TasksIn(F), PutOf(s, F[p], r, d),
         NEW G, Changes(F, G, p, s)
  PROVE  G \in AllStores /\ InOnePlace(G) /\ TasksIn(G) = TasksIn(F) \cup ({s[r]} \ {Null})
<1>1. /\ G \in AllStores /\ G[p] = s /\ \A q \in Stores : q # p => G[q] = F[q]
      /\ \A q \in Stores : DOMAIN F[q] \subseteq Int /\ \A i \in DOMAIN F[q] : F[q][i] \in Entries
      /\ DOMAIN s \subseteq Int /\ \A i \in DOMAIN s : s[i] \in Entries
  BY DEF AllStores, Changes
<1>2. \A q \in Stores : \A i \in DOMAIN G[q] :
        \/ q = p /\ i = r /\ G[q][i] = s[r]
        \/ q = p /\ i \in Int /\ i # r /\ i + d \in DOMAIN F[p] /\ G[q][i] = F[p][i + d]
        \/ q # p /\ i \in DOMAIN F[q] /\ G[q][i] = F[q][i]
  BY <1>1 DEF PutOf
<1>3. \A q \in Stores : \A i \in DOMAIN F[q] : F[q][i] = s[r] => s[r] = Null
  BY <1>1 DEF TasksIn, Entries
<1>4. InOnePlace(G)
  <2> SUFFICES ASSUME NEW q \in Stores, NEW u \in Stores,
                      NEW i \in DOMAIN G[q], NEW j \in DOMAIN G[u],
                      G[q][i] = G[u][j], G[q][i] # Null
               PROVE  q = u /\ i = j
    BY DEF InOnePlace
  <2>1. CASE q = p /\ u = p
    <3>1. CASE i = r \/ j = r
      BY <1>2, <1>3, <2>1, <3>1
    <3>2. CASE i # r /\ j # r
      <4>1. i \in Int /\ j \in Int /\ i + d = j + d
        BY <1>2, <2>1, <3>2 DEF InOnePlace
      <4>2. QED
        BY <2>1, <4>1
    <3>3. QED
      BY <3>1, <3>2
  <2>2. ASSUME NEW k \in DOMAIN G[p], NEW v \in Stores, v # p, NEW l \in DOMAIN G[v],
               G[p][k] = G[v][l], G[p][k] # Null
        PROVE  FALSE
    <3>1. l \in DOMAIN F[v] /\ G[v][l] = F[v][l]
      BY <1>2, <2>2
    <3>2. k # r
      BY <1>1, <1>3, <2>2, <3>1
    <3>3. k + d \in DOMAIN F[p] /\ G[p][k] = F[p][k + d]
      BY <1>2, <2>2, <3>2
    <3>4. QED
      BY <2>2, <3>1, <3>3 DEF InOnePlace
  <2>3. CASE q = p /\ u # p
    <3>1. i \in DOMAIN G[p] /\ G[p][i] = G[u][j] /\ G[p][i] # Null
      BY <2>3
    <3>2. QED
      BY <2>2, <2>3, <3>1
  <2>6. CASE q # p /\ u = p
    <3>1. j \in DOMAIN G[p] /\ G[p][j] = G[q][i] /\ G[p][j] # Null
      BY <2>6
    <3>2. QED
      BY <2>2, <2>6, <3>1
  <2>4. CASE q # p /\ u # p
    <3>1. G[q] = F[q] /\ G[u] = F[u]
      BY <1>1, <2>4
    <3>2. QED
      BY <3>1 DEF InOnePlace
  <2>5. QED
    BY <2>1, <2>3, <2>4, <2>6
<1>5. TasksIn(G) \subseteq TasksIn(F) \cup ({s[r]} \ {Null})
  BY <1>2, ConstantsOK DEF TasksIn
<1>6. s[r] # Null => s[r] \in TasksIn(G)
  BY <1>1 DEF TasksIn, Entries
<1>7. ASSUME NEW t \in TasksIn(F) PROVE t \in TasksIn(G)
  <2>1. PICK q \in Stores : \E j \in DOMAIN F[q] : F[q][j] = t
    BY DEF TasksIn
  <2> PICK j \in DOMAIN F[q] : F[q][j] = t
    BY <2>1
  <2>2. CASE q = p
    <3>1. j - d \in DOMAIN G[p] /\ G[p][j - d] = t
      BY <1>1, <2>1, <2>2 DEF PutOf
    <3>2. QED
      BY <3>1 DEF TasksIn
  <2>3. CASE q # p
    BY <1>1, <2>1, <2>3 DEF TasksIn
  <2>4. QED
    BY <2>2, <2>3
<1>8. QED
  BY <1>1, <1>4, <1>5, <1>6, <1>7
LEMMA PopHead ==
  ASSUME NEW F \in AllStores, InOnePlace(F), NEW p \in Stores, F[p] # <<>>,
         NEW G, Changes(F, G, p, Tail(F[p]))
  PROVE  G \in AllStores /\ InOnePlace(G) /\ TasksIn(G) = TasksIn(F) \ {Head(F[p])}
<1> DEFINE s == F[p]
<1>1. s \in Seq(Entries) /\ Len(s) \in Nat /\ DOMAIN s = 1 .. Len(s)
  BY DEF AllStores
<1>2. /\ Tail(s) \in Seq(Entries) /\ Len(Tail(s)) = Len(s) - 1
      /\ \A i \in 1 .. Len(Tail(s)) : Tail(s)[i] = s[i + 1]
      /\ DOMAIN Tail(s) = 1 .. Len(s) - 1
      /\ Head(s) = s[1] /\ 1 \in DOMAIN s
  BY <1>1, HeadTailProperties
<1>3. \A i \in DOMAIN Tail(s) : i + 1 \in DOMAIN s /\ i + 1 # 1 /\ Tail(s)[i] = s[i + 1]
  BY <1>1, <1>2
<1>4. \A j \in DOMAIN s : j = 1 \/ (j - 1 \in DOMAIN Tail(s) /\ Tail(s)[j - 1] = s[j])
  BY <1>1, <1>2
<1> DEFINE r == 1
           u == Tail(F[p])
<1>5. CutOf(u, F[p], r, r) /\ Changes(F, G, p, u)
  BY <1>3, <1>4 DEF CutOf
<1>6. /\ u \in Seq(Entries) /\ r \in DOMAIN F[p] /\ r \in Int
      /\ Head(F[p]) = F[p][r]
  BY <1>2
<1> HIDE DEF s, r, u
<1>7. G \in AllStores /\ InOnePlace(G) /\ TasksIn(G) = TasksIn(F) \ {F[p][r]}
  BY <1>5, <1>6, Cut
<1>8. QED
  BY <1>6, <1>7

LEMMA PopLast ==
  ASSUME NEW F \in AllStores, InOnePlace(F), NEW p \in Stores, F[p] # <<>>,
         NEW G, Changes(F, G, p, Front(F[p]))
  PROVE  G \in AllStores /\ InOnePlace(G) /\ TasksIn(G) = TasksIn(F) \ {Last(F[p])}
<1> DEFINE s == F[p]
<1>1. s \in Seq(Entries) /\ Len(s) \in Nat /\ DOMAIN s = 1 .. Len(s) /\ Len(s) >= 1
  BY DEF AllStores
<1>2. Front(s) \in Seq(Entries) /\ Last(s) = s[Len(s)]
  BY <1>1, Stolen DEF Last
<1>3. /\ Len(Front(s)) = Len(s) - 1 /\ DOMAIN Front(s) = 1 .. Len(s) - 1
      /\ \A i \in 1 .. Len(s) - 1 : Front(s)[i] = s[i]
  BY <1>1 DEF Front
<1>4. \A i \in DOMAIN Front(s) : i + 0 \in DOMAIN s /\ i + 0 # Len(s) /\ Front(s)[i] = s[i + 0]
  BY <1>1, <1>3
<1>5. \A j \in DOMAIN s : j = Len(s) \/ (j - 0 \in DOMAIN Front(s) /\ Front(s)[j - 0] = s[j])
  BY <1>1, <1>3
<1>6. CutOf(Front(F[p]), F[p], Len(F[p]), 0)
  BY <1>4, <1>5 DEF CutOf
<1>7. /\ Front(F[p]) \in Seq(Entries) /\ Len(F[p]) \in DOMAIN F[p] /\ 0 \in Int
      /\ Last(F[p]) = F[p][Len(F[p])]
  BY <1>1, <1>2
<1> HIDE DEF s
<1>8. G \in AllStores /\ InOnePlace(G) /\ TasksIn(G) = TasksIn(F) \ {F[p][Len(F[p])]}
  BY <1>6, <1>7, Cut
<1>9. QED
  BY <1>7, <1>8

LEMMA PushHead ==
  ASSUME NEW F \in AllStores, InOnePlace(F), NEW p \in Stores,
         NEW t \in Entries, t \notin TasksIn(F),
         NEW G, Changes(F, G, p, <<t>> \o F[p])
  PROVE  G \in AllStores /\ InOnePlace(G) /\ TasksIn(G) = TasksIn(F) \cup ({t} \ {Null})
<1> DEFINE s == F[p]
           u == <<t>> \o F[p]
<1>1. s \in Seq(Entries) /\ Len(s) \in Nat /\ DOMAIN s = 1 .. Len(s) /\ <<t>> \in Seq(Entries)
  BY DEF AllStores
<1>2. /\ u \in Seq(Entries) /\ Len(u) = 1 + Len(s) /\ DOMAIN u = 1 .. 1 + Len(s)
      /\ \A i \in 1 .. 1 + Len(s) : u[i] = IF i <= 1 THEN t ELSE s[i - 1]
  BY <1>1
<1>3. /\ 1 \in DOMAIN u /\ u[1] = t
      /\ \A i \in DOMAIN u : i = 1 \/ (i + (-1) \in DOMAIN s /\ u[i] = s[i + (-1)])
      /\ \A j \in DOMAIN s : j - (-1) \in DOMAIN u /\ u[j - (-1)] = s[j]
  BY <1>1, <1>2
<1>4. PutOf(u, F[p], 1, -1)
  BY <1>3 DEF PutOf
<1>5. u \in Seq(Entries) /\ 1 \in DOMAIN u /\ u[1] = t /\ -1 \in Int
  BY <1>2, <1>3
<1>8. Changes(F, G, p, u)
  OBVIOUS
<1> HIDE DEF s, u
<1>6. G \in AllStores /\ InOnePlace(G) /\ TasksIn(G) = TasksIn(F) \cup ({u[1]} \ {Null})
  BY <1>4, <1>5, <1>8, Put
<1>7. QED
  BY <1>5, <1>6

LEMMA PushTail ==
  ASSUME NEW F \in AllStores, InOnePlace(F), NEW p \in Stores,
         NEW t \in Entries, t \notin TasksIn(F),
         NEW G, Changes(F, G, p, Append(F[p], t))
  PROVE  G \in AllStores /\ InOnePlace(G) /\ TasksIn(G) = TasksIn(F) \cup ({t} \ {Null})
<1> DEFINE s == F[p]
           u == Append(F[p], t)
<1>1. s \in Seq(Entries) /\ Len(s) \in Nat /\ DOMAIN s = 1 .. Len(s)
  BY DEF AllStores
<1>2. /\ u \in Seq(Entries) /\ DOMAIN u = 1 .. Len(s) + 1
      /\ u[Len(s) + 1] = t /\ \A i \in 1 .. Len(s) : u[i] = s[i]
  BY <1>1
<1>3. /\ Len(s) + 1 \in DOMAIN u
      /\ \A i \in DOMAIN u : i = Len(s) + 1 \/ (i + 0 \in DOMAIN s /\ u[i] = s[i + 0])
      /\ \A j \in DOMAIN s : j - 0 \in DOMAIN u /\ u[j - 0] = s[j]
  BY <1>1, <1>2
<1> DEFINE r == Len(s) + 1
<1>4. PutOf(u, F[p], r, 0)
  BY <1>3 DEF PutOf
<1>5. u \in Seq(Entries) /\ r \in DOMAIN u /\ u[r] = t /\ 0 \in Int
  BY <1>2, <1>3
<1>8. Changes(F, G, p, u)
  OBVIOUS
<1> HIDE DEF s, u, r
<1>6. G \in AllStores /\ InOnePlace(G) /\ TasksIn(G) = TasksIn(F) \cup ({u[r]} \ {Null})
  BY <1>4, <1>5, <1>8, Put
<1>7. QED
  BY <1>5, <1>6

(* Empty tasks may be added anywhere, and stores may be cleared.           *)
LEMMA NullsAdded ==
  ASSUME NEW F \in AllStores, InOnePlace(F), NEW G \in AllStores,
         NEW d \in [Stores -> Int],
         \A p \in Stores : \A i \in DOMAIN G[p] :
            G[p][i] = Null \/ (i + d[p] \in DOMAIN F[p] /\ G[p][i] = F[p][i + d[p]])
  PROVE  InOnePlace(G) /\ TasksIn(G) \subseteq TasksIn(F)
<1>1. \A q \in Stores : DOMAIN G[q] \subseteq Int
  BY DEF AllStores
<1>2. InOnePlace(G)
  <2> SUFFICES ASSUME NEW q \in Stores, NEW u \in Stores,
                      NEW i \in DOMAIN G[q], NEW j \in DOMAIN G[u],
                      G[q][i] = G[u][j], G[q][i] # Null
               PROVE  q = u /\ i = j
    BY DEF InOnePlace
  <2>1. /\ i + d[q] \in DOMAIN F[q] /\ G[q][i] = F[q][i + d[q]]
        /\ j + d[u] \in DOMAIN F[u] /\ G[u][j] = F[u][j + d[u]]
    OBVIOUS
  <2>2. F[q][i + d[q]] = F[u][j + d[u]] /\ F[q][i + d[q]] # Null
    BY <2>1
  <2>5. q = u /\ i + d[q] = j + d[u]
    BY <2>1, <2>2, Zenon DEF InOnePlace
  <2>3. i \in Int /\ j \in Int /\ d[q] \in Int
    BY <1>1
  <2> DEFINE e == d[q]
  <2>6. i + e = j + e /\ e \in Int
    BY <2>3, <2>5
  <2> HIDE DEF e
  <2>7. i = j
    BY <2>3, <2>6
  <2>8. QED
    BY <2>5, <2>7
<1>3. TasksIn(G) \subseteq TasksIn(F)
  BY ConstantsOK DEF TasksIn
<1>4. QED
  BY <1>2, <1>3

-----------------------------------------------------------------------------
(* What the stores are, and how one queue or stack that changes changes    *)
(* them.                                                                   *)
MasterStore == <<"master", Null>>
DequeOf(w)  == <<"deque", w>>
StackOf(x)  == <<"stack", x>>

LEMMA StoredIs ==
  ASSUME TypeInv
  PROVE  /\ Stored \in AllStores
         /\ MasterStore \in Stores /\ Stored[MasterStore] = m_master_work_queue
         /\ \A w \in Workers : DequeOf(w) \in Stores /\ Stored[DequeOf(w)] = m_queues[w]
         /\ \A x \in Threads : StackOf(x) \in Stores /\ Stored[StackOf(x)] = stack[x]
<1>1. MasterStore \in Stores /\ Stored[MasterStore] = m_master_work_queue
  BY DEF MasterStore, Stores, Stored
<1>2. \A w \in Workers : DequeOf(w) \in Stores /\ Stored[DequeOf(w)] = m_queues[w]
  BY DEF DequeOf, Stores, Stored
<1>3. \A x \in Threads : StackOf(x) \in Stores /\ Stored[StackOf(x)] = stack[x]
  BY DEF StackOf, Stores, Stored
<1>4. Stored \in AllStores
  <2>1. ASSUME NEW p \in Stores PROVE Stored[p] \in Seq(Entries)
    <3>1. p = MasterStore \/ (\E w \in Workers : p = DequeOf(w))
            \/ (\E x \in Threads : p = StackOf(x))
      BY DEF Stores, MasterStore, DequeOf, StackOf
    <3>2. QED
      BY <1>1, <1>2, <1>3, <3>1 DEF TypeInv
  <2>2. QED
    BY <2>1 DEF Stored, AllStores
<1>5. QED
  BY <1>1, <1>2, <1>3, <1>4

LEMMA StoresAre ==
  /\ \A p \in Stores : \/ p = MasterStore
                       \/ \E w \in Workers : p = DequeOf(w)
                       \/ \E x \in Threads : p = StackOf(x)
  /\ \A w, v \in Workers : DequeOf(w) = DequeOf(v) => w = v
  /\ \A x, y \in Threads : StackOf(x) = StackOf(y) => x = y
  /\ \A w \in Workers : DequeOf(w) # MasterStore
  /\ \A x \in Threads : StackOf(x) # MasterStore
  /\ \A w \in Workers, x \in Threads : DequeOf(w) # StackOf(x)
BY DEF Stores, MasterStore, DequeOf, StackOf

LEMMA StoredNext ==
  /\ MasterStore \in Stores /\ Stored'[MasterStore] = m_master_work_queue'
  /\ \A w \in Workers : DequeOf(w) \in Stores /\ Stored'[DequeOf(w)] = m_queues'[w]
  /\ \A x \in Threads : StackOf(x) \in Stores /\ Stored'[StackOf(x)] = stack'[x]
  /\ Stored' = [p \in Stores |-> Stored'[p]]
<1>1. MasterStore \in Stores /\ Stored'[MasterStore] = m_master_work_queue'
  BY DEF MasterStore, Stores, Stored
<1>2. \A w \in Workers : DequeOf(w) \in Stores /\ Stored'[DequeOf(w)] = m_queues'[w]
  BY DEF DequeOf, Stores, Stored
<1>3. \A x \in Threads : StackOf(x) \in Stores /\ Stored'[StackOf(x)] = stack'[x]
  BY DEF StackOf, Stores, Stored
<1>4. Stored' = [p \in Stores |-> Stored'[p]]
  BY DEF Stored
<1>5. QED
  BY <1>1, <1>2, <1>3, <1>4

(* A store that is the only one to change.                                 *)
LEMMA OneStore ==
  ASSUME NEW F, NEW G, F = [p \in Stores |-> F[p]], G = [p \in Stores |-> G[p]],
         NEW q \in Stores, \A p \in Stores : p # q => G[p] = F[p]
  PROVE  Changes(F, G, q, G[q])
BY DEF Changes

LEMMA StoredIsFunction == Stored = [p \in Stores |-> Stored[p]]
BY DEF Stored

LEMMA MasterChanges ==
  ASSUME TypeInv, UNCHANGED <<m_queues, stack>>
  PROVE  Changes(Stored, Stored', MasterStore, m_master_work_queue')
<1>1. \A p \in Stores : p # MasterStore => Stored'[p] = Stored[p]
  BY StoresAre, StoredIs, StoredNext
<1>2. Changes(Stored, Stored', MasterStore, Stored'[MasterStore])
  BY <1>1, OneStore, StoredIsFunction, StoredNext
<1>3. QED
  BY <1>2, StoredNext

LEMMA DequeChanges ==
  ASSUME TypeInv, UNCHANGED <<m_master_work_queue, stack>>,
         NEW w \in Workers, NEW s, m_queues' = [m_queues EXCEPT ![w] = s]
  PROVE  Changes(Stored, Stored', DequeOf(w), s)
<1>1. m_queues'[w] = s /\ \A v \in Workers : v # w => m_queues'[v] = m_queues[v]
  BY DEF TypeInv
<1>2. \A p \in Stores : p # DequeOf(w) => Stored'[p] = Stored[p]
  BY <1>1, StoresAre, StoredIs, StoredNext
<1>3. Changes(Stored, Stored', DequeOf(w), Stored'[DequeOf(w)])
  BY <1>2, OneStore, StoredIsFunction, StoredNext
<1>4. QED
  BY <1>1, <1>3, StoredNext

LEMMA StackChanges ==
  ASSUME TypeInv, UNCHANGED <<m_master_work_queue, m_queues>>,
         NEW x \in Threads, NEW s, stack' = [stack EXCEPT ![x] = s]
  PROVE  Changes(Stored, Stored', StackOf(x), s)
<1>1. stack'[x] = s /\ \A v \in Threads : v # x => stack'[v] = stack[v]
  BY DEF TypeInv
<1>2. \A p \in Stores : p # StackOf(x) => Stored'[p] = Stored[p]
  BY <1>1, StoresAre, StoredIs, StoredNext
<1>3. Changes(Stored, Stored', StackOf(x), Stored'[StackOf(x)])
  BY <1>2, OneStore, StoredIsFunction, StoredNext
<1>4. QED
  BY <1>1, <1>3, StoredNext

(* A thread takes an entry t out of store p, leaving u there ...           *)
Taken(F, p, t, u) ==
  /\ F[p] # <<>>
  /\ \/ t = Head(F[p]) /\ u = Tail(F[p])
     \/ t = Last(F[p]) /\ u = Front(F[p])

LEMMA TakenOut ==
  ASSUME NEW F \in AllStores, InOnePlace(F), NEW p \in Stores, NEW t, NEW u,
         Taken(F, p, t, u), NEW G, Changes(F, G, p, u)
  PROVE  G \in AllStores /\ InOnePlace(G) /\ TasksIn(G) = TasksIn(F) \ {t}
<1>1. F[p] # <<>>
  BY DEF Taken
<1>2. CASE t = Head(F[p]) /\ u = Tail(F[p])
  <2>1. Changes(F, G, p, Tail(F[p]))
    BY <1>2
  <2>2. G \in AllStores /\ InOnePlace(G) /\ TasksIn(G) = TasksIn(F) \ {Head(F[p])}
    BY <1>1, <2>1, PopHead, Zenon
  <2>3. QED
    BY <1>2, <2>2
<1>3. CASE t = Last(F[p]) /\ u = Front(F[p])
  <2>1. Changes(F, G, p, Front(F[p]))
    BY <1>3
  <2>2. G \in AllStores /\ InOnePlace(G) /\ TasksIn(G) = TasksIn(F) \ {Last(F[p])}
    BY <1>1, <2>1, PopLast, Zenon
  <2>3. QED
    BY <1>3, <2>2
<1>4. QED
  BY <1>2, <1>3 DEF Taken

(* ... and drops it, if it is empty, or puts it on stack q.                *)
LEMMA Dropped ==
  ASSUME NEW F \in AllStores, InOnePlace(F), NEW p \in Stores, NEW t, NEW u,
         Taken(F, p, t, u), t = Null, NEW G, Changes(F, G, p, u)
  PROVE  G \in AllStores /\ InOnePlace(G) /\ TasksIn(G) = TasksIn(F)
<1>1. G \in AllStores /\ InOnePlace(G) /\ TasksIn(G) = TasksIn(F) \ {t}
  BY TakenOut
<1>2. Null \notin TasksIn(F)
  BY ConstantsOK DEF TasksIn
<1>3. QED
  BY <1>1, <1>2

LEMMA Moved ==
  ASSUME NEW F \in AllStores, InOnePlace(F), NEW p \in Stores, NEW t \in Entries, NEW u,
         Taken(F, p, t, u), t # Null,
         NEW q \in Stores, q # p,
         NEW M, Changes(F, M, p, u), NEW G, Changes(M, G, q, <<t>> \o F[q])
  PROVE  G \in AllStores /\ InOnePlace(G) /\ TasksIn(G) = TasksIn(F)
<1>1. M \in AllStores /\ InOnePlace(M) /\ TasksIn(M) = TasksIn(F) \ {t}
  BY TakenOut
<1>2. M[q] = F[q]
  BY DEF Changes, AllStores
<1>3. t \notin TasksIn(M) /\ Changes(M, G, q, <<t>> \o M[q])
  BY <1>1, <1>2
<1>4. G \in AllStores /\ InOnePlace(G) /\ TasksIn(G) = TasksIn(M) \cup ({t} \ {Null})
  BY <1>1, <1>3, PushHead
<1>5. t \in TasksIn(F)
  <2>1. \E i \in DOMAIN F[p] : F[p][i] = t
    <3>1. F[p] \in Seq(Entries) /\ F[p] # <<>> /\ Len(F[p]) \in Nat /\ Len(F[p]) >= 1
      BY DEF Taken, AllStores
    <3>2. 1 \in DOMAIN F[p] /\ Len(F[p]) \in DOMAIN F[p] /\ Head(F[p]) = F[p][1]
      BY <3>1
    <3>3. QED
      BY <3>2 DEF Taken, Last
  <2>2. QED
    BY <2>1 DEF TasksIn, Entries
<1>6. QED
  BY <1>1, <1>4, <1>5

-----------------------------------------------------------------------------
(* The stacks hold tasks only, and a worker inside a task has it there.    *)
StackInv == /\ stack \in [Threads -> Seq(Tasks)]
            /\ \A w \in Workers : wpc[w] = "running" => stack[w] # <<>>

(* The clients whose submit() carries a task.                              *)
Carriers == {c \in Clients : cpc[c] \in {"counted", "pushing"}}

(* NeverTwice with what it needs: whatever is stored, carried or finished  *)
(* was submitted, and no task is carried twice.                            *)
StoreInv ==
  /\ NeverTwice
  /\ spawner \in [Tasks -> Tasks \cup Clients \cup {Null}]
  /\ cpc \in [Clients -> {"out", "counted", "pushing", "notifying"}]
  /\ TasksIn(Stored) \cup finished \cup InTransit \subseteq Submitted
  /\ \A c, d \in Carriers : sub[c] = sub[d] => c = d

(* What a thread takes from a queue, and where it goes.                    *)
Took(t) ==
  \/ \E w \in Workers : TakeLocal(w) /\ t = Head(m_queues[w])
  \/ TakeMaster /\ t = Head(m_master_work_queue)
  \/ \E w, v \in Workers : TakeFrom(w, v) /\ t = Last(m_queues[v])

Ran(x, t) == IF t = Null THEN UNCHANGED stack ELSE Execute(x, t)

LEMMA TookEntry == ASSUME TypeInv, NEW t, Took(t) PROVE t \in Entries
<1>1. CASE \E w \in Workers : TakeLocal(w) /\ t = Head(m_queues[w])
  BY <1>1, Takes
<1>2. CASE TakeMaster /\ t = Head(m_master_work_queue)
  BY <1>2, TakesMaster
<1>3. CASE \E w, v \in Workers : TakeFrom(w, v) /\ t = Last(m_queues[v])
  BY <1>3, Takes
<1>4. QED
  BY <1>1, <1>2, <1>3 DEF Took

LEMMA TookStore ==
  ASSUME TypeInv, NEW t, Took(t)
  PROVE  \E q \in Stores :
           /\ \A x \in Threads : q # StackOf(x)
           /\ Taken(Stored, q, t, Stored'[q])
           /\ \A p \in Stores : p # q /\ (\A x \in Threads : p # StackOf(x))
                => Stored'[p] = Stored[p]
<1>1. CASE \E w \in Workers : TakeLocal(w) /\ t = Head(m_queues[w])
  <2>1. PICK w \in Workers : TakeLocal(w) /\ t = Head(m_queues[w])
    BY <1>1
  <2>2. /\ m_queues[w] # <<>> /\ m_queues'[w] = Tail(m_queues[w])
        /\ \A v \in Workers : v # w => m_queues'[v] = m_queues[v]
        /\ m_master_work_queue' = m_master_work_queue
    BY <2>1 DEF TakeLocal, TypeInv
  <2>3. Taken(Stored, DequeOf(w), t, Stored'[DequeOf(w)])
    BY <2>1, <2>2, StoredIs, StoredNext DEF Taken
  <2>4. \A p \in Stores : p # DequeOf(w) /\ (\A x \in Threads : p # StackOf(x))
          => Stored'[p] = Stored[p]
    BY <2>2, StoresAre, StoredIs, StoredNext
  <2>5. QED
    BY <2>3, <2>4, StoresAre, StoredIs
<1>2. CASE TakeMaster /\ t = Head(m_master_work_queue)
  <2>1. Taken(Stored, MasterStore, t, Stored'[MasterStore])
    BY <1>2, StoredIs, StoredNext DEF Taken, TakeMaster
  <2>2. \A p \in Stores : p # MasterStore /\ (\A x \in Threads : p # StackOf(x))
          => Stored'[p] = Stored[p]
    BY <1>2, StoresAre, StoredIs, StoredNext DEF TakeMaster
  <2>3. QED
    BY <2>1, <2>2, StoresAre, StoredIs
<1>3. CASE \E w, v \in Workers : TakeFrom(w, v) /\ t = Last(m_queues[v])
  <2>1. PICK w \in Workers : \E v \in Workers : TakeFrom(w, v) /\ t = Last(m_queues[v])
    BY <1>3
  <2> PICK v \in Workers : TakeFrom(w, v) /\ t = Last(m_queues[v])
    BY <2>1
  <2>2. /\ m_queues[v] # <<>> /\ m_queues'[v] = Front(m_queues[v])
        /\ \A u \in Workers : u # v => m_queues'[u] = m_queues[u]
        /\ m_master_work_queue' = m_master_work_queue
    BY <2>1 DEF TakeFrom, Stealable, TypeInv
  <2>3. Taken(Stored, DequeOf(v), t, Stored'[DequeOf(v)])
    BY <2>1, <2>2, StoredIs, StoredNext DEF Taken
  <2>4. \A p \in Stores : p # DequeOf(v) /\ (\A x \in Threads : p # StackOf(x))
          => Stored'[p] = Stored[p]
    BY <2>2, StoresAre, StoredIs, StoredNext
  <2>5. QED
    BY <2>3, <2>4, StoresAre, StoredIs
<1>4. QED
  BY <1>1, <1>2, <1>3 DEF Took

(* Taking a task and executing it, or dropping an empty one, leaves every  *)
(* task in one place.                                                      *)
LEMMA TakeStep ==
  ASSUME TypeInv, InOnePlace(Stored), NEW x \in Threads, NEW t, Took(t), Ran(x, t)
  PROVE  InOnePlace(Stored') /\ TasksIn(Stored') = TasksIn(Stored)
<1>1. t \in Entries
  BY TookEntry
<1>2. PICK q \in Stores : /\ \A y \in Threads : q # StackOf(y)
                          /\ Taken(Stored, q, t, Stored'[q])
                          /\ \A p \in Stores : p # q /\ (\A y \in Threads : p # StackOf(y))
                               => Stored'[p] = Stored[p]
  BY TookStore
<1>3. Stored \in AllStores /\ Stored = [p \in Stores |-> Stored[p]] /\ Stored' = [p \in Stores |-> Stored'[p]]
  BY StoredIs, StoredNext, StoredIsFunction
<1>4. CASE t = Null
  <2>1. \A p \in Stores : p # q => Stored'[p] = Stored[p]
    BY <1>2, <1>4, StoresAre, StoredIs, StoredNext DEF Ran
  <2>2. Changes(Stored, Stored', q, Stored'[q])
    BY <1>3, <2>1, OneStore
  <2>3. QED
    BY <1>2, <1>3, <1>4, <2>2, Dropped
<1>5. CASE t # Null
  <2> DEFINE M == [Stored EXCEPT ![q] = Stored'[q]]
  <2>1. Changes(Stored, M, q, Stored'[q])
    BY DEF Changes
  <2>2. M = [p \in Stores |-> M[p]] /\ M[q] = Stored'[q] /\ \A p \in Stores : p # q => M[p] = Stored[p]
    BY <1>3
  <2>3. /\ StackOf(x) \in Stores /\ StackOf(x) # q
        /\ Stored'[StackOf(x)] = <<t>> \o Stored[StackOf(x)]
    BY <1>2, <1>5, StoredIs, StoredNext DEF Ran, Execute, TypeInv
  <2> HIDE DEF M
  <2>4. \A p \in Stores : p # StackOf(x) => Stored'[p] = M[p]
    <3>1. \A y \in Threads : y # x => stack'[y] = stack[y]
      BY <1>5 DEF Ran, Execute, TypeInv
    <3>2. QED
      BY <1>2, <2>2, <3>1, StoresAre, StoredIs, StoredNext
  <2>5. Changes(M, Stored', StackOf(x), Stored'[StackOf(x)])
    BY <1>3, <2>2, <2>3, <2>4, OneStore
  <2>6. Changes(M, Stored', StackOf(x), <<t>> \o Stored[StackOf(x)])
    BY <2>3, <2>5
  <2>7. QED
    BY <1>1, <1>2, <1>3, <1>5, <2>1, <2>3, <2>6, Moved
<1>6. QED
  BY <1>4, <1>5

(* Nothing is submitted, and no task is lost unless the pool is done.      *)
LEMMA Kept ==
  ASSUME StoreInv, UNCHANGED <<spawner, finished, cpc, sub>>, m_done => m_done',
         InOnePlace(Stored'),
         \/ TasksIn(Stored') = TasksIn(Stored)
         \/ m_done' /\ TasksIn(Stored') \subseteq TasksIn(Stored)
  PROVE  StoreInv'
<1>1. Submitted' = Submitted /\ InTransit' = InTransit /\ Carriers' = Carriers
  BY DEF Submitted, InTransit, Carriers
<1>2. NeverTwice'
  BY <1>1 DEF StoreInv, NeverTwice
<1>3. QED
  BY <1>1, <1>2 DEF StoreInv

LEMMA Quiet ==
  ASSUME StoreInv, UNCHANGED <<queues, stack, spawner, finished, cpc, sub>>, m_done => m_done'
  PROVE  StoreInv'
<1>1. Stored' = Stored
  BY DEF Stored, queues
<1>2. QED
  BY <1>1, Kept DEF StoreInv, NeverTwice

-----------------------------------------------------------------------------
LEMMA StackKept ==
  ASSUME StackInv, UNCHANGED stack,
         \A w \in Workers : wpc'[w] = "running" => wpc[w] = "running"
  PROVE  StackInv'
BY DEF StackInv

LEMMA TakeKeeps ==
  ASSUME IInv, StackInv, StoreInv, NEW x \in Threads, NEW t, Took(t), Ran(x, t),
         UNCHANGED <<m_done, spawner, finished, cpc, sub>>,
         \A w \in Workers : wpc'[w] = "running" => wpc[w] = "running" \/ (w = x /\ t # Null)
  PROVE  StackInv' /\ StoreInv'
<1>1. t \in Entries /\ TypeInv
  BY TookEntry DEF IInv
<1>2. StoreInv'
  <2>1. InOnePlace(Stored') /\ TasksIn(Stored') = TasksIn(Stored)
    BY <1>1, TakeStep DEF StoreInv, NeverTwice
  <2>2. QED
    BY <2>1, Kept
<1>3. StackInv'
  <2>1. CASE t = Null
    BY <2>1, StackKept DEF Ran
  <2>2. CASE t # Null
    <3>1. stack[x] \in Seq(Tasks) /\ t \in Tasks
      BY <1>1, <2>2 DEF StackInv, Entries
    <3>2. <<t>> \o stack[x] \in Seq(Tasks) /\ <<t>> \o stack[x] # <<>>
      <4>1. <<t>> \in Seq(Tasks) /\ Len(stack[x]) \in Nat
        BY <3>1
      <4>2. <<t>> \o stack[x] \in Seq(Tasks) /\ Len(<<t>> \o stack[x]) = 1 + Len(stack[x])
        BY <3>1, <4>1
      <4>3. QED
        BY <4>1, <4>2
    <3>3. stack' = [stack EXCEPT ![x] = <<t>> \o stack[x]]
      BY <2>2 DEF Ran, Execute, StackInv
    <3> DEFINE s == <<t>> \o stack[x]
    <3>4. /\ stack' \in [Threads -> Seq(Tasks)] /\ stack'[x] = s
          /\ \A y \in Threads : y # x => stack'[y] = stack[y]
      <4>1. s \in Seq(Tasks) /\ stack' = [stack EXCEPT ![x] = s]
        BY <3>2, <3>3
      <4> HIDE DEF s
      <4>2. QED
        BY <4>1 DEF StackInv
    <3>5. \A w \in Workers : wpc'[w] = "running" => stack'[w] # <<>>
      <4>1. \A w \in Workers : w # x => stack'[w] = stack[w]
        BY <3>4 DEF Threads
      <4>2. s # <<>>
        BY <3>2
      <4> HIDE DEF s
      <4>3. QED
        BY <3>4, <4>1, <4>2 DEF StackInv
    <3>6. QED
      BY <3>4, <3>5 DEF StackInv
  <2>3. QED
    BY <2>1, <2>2
<1>4. QED
  BY <1>2, <1>3

LEMMA QuietStep ==
  ASSUME StackInv, StoreInv, m_done => m_done',
         UNCHANGED <<queues, stack, spawner, finished, cpc, sub>>,
         \A w \in Workers : wpc'[w] = "running" => wpc[w] = "running"
  PROVE  StackInv' /\ StoreInv'
BY StackKept, Quiet

(* The workers.                                                            *)
LEMMA RunKeeps ==
  ASSUME IInv, StackInv, StoreInv, NEW w \in Workers, NEW t, Took(t), Run(w, t)
  PROVE  StackInv' /\ StoreInv'
<1>1. Ran(w, t) /\ w \in Threads
  BY DEF Run, Ran, Threads
<1>2. UNCHANGED <<m_done, spawner, finished, cpc, sub>>
  BY DEF Run, submit
<1>3. \A v \in Workers : wpc'[v] = "running" => wpc[v] = "running" \/ (v = w /\ t # Null)
  BY DEF Run, IInv, TypeInv
<1>4. QED
  BY <1>1, <1>2, <1>3, TakeKeeps

LEMMA GotoKeeps ==
  ASSUME IInv, StackInv, StoreInv, NEW w \in Workers, NEW p, p # "running", Goto(w, p)
  PROVE  StackInv' /\ StoreInv'
<1>1. UNCHANGED <<m_done, queues, stack, spawner, finished, cpc, sub>>
  BY DEF Goto, submit
<1>2. \A v \in Workers : wpc'[v] = "running" => wpc[v] = "running"
  BY DEF Goto, IInv, TypeInv
<1>3. QED
  BY <1>1, <1>2, QuietStep

LEMMA WorkerKeeps ==
  ASSUME IInv, StackInv, StoreInv, NEW w \in Workers, Worker(w)
  PROVE  StackInv' /\ StoreInv'
<1>1. CASE WorkerExit(w)
  <2>1. UNCHANGED <<m_done, queues, stack, spawner, finished, cpc, sub>>
    BY <1>1 DEF WorkerExit, submit
  <2>2. \A v \in Workers : wpc'[v] = "running" => wpc[v] = "running"
    BY <1>1 DEF WorkerExit, IInv, TypeInv
  <2>3. QED
    BY <2>1, <2>2, QuietStep
<1>2. ASSUME NEW p \in {"local", "master", "steal", "tosleep", "top", "checked", "waiting"},
             Goto(w, p)
      PROVE  StackInv' /\ StoreInv'
  <2>1. p # "running"
    OBVIOUS
  <2>2. QED
    BY <1>2, <2>1, GotoKeeps
<1>3. CASE \E t : Took(t) /\ Run(w, t)
  BY <1>3, RunKeeps
<1>4. WorkerLoop(w) \/ SleepCheck(w) \/ SleepBlock(w)
        => \E p \in {"local", "master", "steal", "tosleep", "top", "checked", "waiting"} : Goto(w, p)
  BY DEF WorkerLoop, SleepCheck, SleepBlock
<1>5. PendingLocal(w) => Goto(w, "master") \/ (\E t : Took(t) /\ Run(w, t))
  BY DEF PendingLocal, Took
<1>6. PendingMaster(w) => Goto(w, "steal") \/ (\E t : Took(t) /\ Run(w, t))
  BY DEF PendingMaster, Took
<1>7. PendingSteal(w) => Goto(w, "tosleep") \/ (\E t : Took(t) /\ Run(w, t))
  BY DEF PendingSteal, Took, Stealable
<1>8. QED
  BY <1>1, <1>2, <1>3, <1>4, <1>5, <1>6, <1>7 DEF Worker

LEMMA HelpWorkerKeeps ==
  ASSUME IInv, StackInv, StoreInv, NEW w \in Workers, HelpWorker(w)
  PROVE  StackInv' /\ StoreInv'
<1>1. PICK t : Took(t) /\ Ran(w, t)
  BY DEF HelpWorker, Took, Ran, Stealable
<1>2. UNCHANGED <<m_done, spawner, finished, cpc, sub, wpc>> /\ w \in Threads
  BY DEF HelpWorker, submit, Threads
<1>3. QED
  BY <1>1, <1>2, TakeKeeps

LEMMA HelpClientKeeps ==
  ASSUME IInv, StackInv, StoreInv, NEW c \in Clients, HelpClient(c)
  PROVE  StackInv' /\ StoreInv'
<1> DEFINE t == Head(m_master_work_queue)
<1>1. Took(t) /\ Ran(c, t)
  BY DEF HelpClient, Took, Ran
<1>2. UNCHANGED <<m_done, spawner, finished, cpc, sub, wpc>> /\ c \in Threads
  BY DEF HelpClient, submit, Threads
<1> HIDE DEF t
<1>3. QED
  BY <1>1, <1>2, TakeKeeps

LEMMA WakeUpKeeps ==
  ASSUME IInv, StackInv, StoreInv, NEW w \in Workers, WakeUp(w)
  PROVE  StackInv' /\ StoreInv'
<1>1. UNCHANGED <<m_done, queues, stack, spawner, finished, cpc, sub>>
  BY DEF WakeUp, submit
<1>2. \A v \in Workers : wpc'[v] = "running" => wpc[v] = "running"
  BY DEF WakeUp, Woken
<1>3. QED
  BY <1>1, <1>2, QuietStep

-----------------------------------------------------------------------------
(* Submitting.  The task goes to the one that waits for it, who is no task *)
(* that was executed.                                                      *)
LEMMA DoerIs ==
  ASSUME IInv, StackInv, NEW x \in Threads, x \in Workers => wpc[x] = "running"
  PROVE  /\ Doer(x) \in Tasks \cup Clients /\ Doer(x) # Null
         /\ Doer(x) \in Tasks => Doer(x) \in TasksIn(Stored)
<1>1. CASE stack[x] = <<>>
  <2>1. x \in Clients
    BY <1>1 DEF StackInv, Threads
  <2>2. QED
    BY <1>1, <2>1, ConstantsOK DEF Doer
<1>2. CASE stack[x] # <<>>
  <2>1. stack[x] \in Seq(Tasks) /\ Len(stack[x]) \in Nat /\ Len(stack[x]) >= 1
    BY <1>2 DEF StackInv
  <2>2. 1 \in DOMAIN stack[x] /\ Head(stack[x]) = stack[x][1] /\ stack[x][1] \in Tasks
    BY <2>1
  <2>3. StackOf(x) \in Stores /\ Stored[StackOf(x)] = stack[x]
    BY StoredIs DEF IInv
  <2>4. stack[x][1] \in TasksIn(Stored)
    BY <2>2, <2>3 DEF TasksIn
  <2>5. QED
    BY <1>2, <2>2, <2>4, ConstantsOK DEF Doer
<1>3. QED
  BY <1>1, <1>2

LEMMA TaskSubmitted ==
  ASSUME StoreInv, NEW t \in Tasks, NEW d \in Tasks \cup Clients, d # Null,
         spawner' = [spawner EXCEPT ![t] = d]
  PROVE  /\ Submitted' = Submitted \cup {t}
         /\ spawner' \in [Tasks -> Tasks \cup Clients \cup {Null}]
BY DEF StoreInv, Submitted

LEMMA CarrierJoins ==
  ASSUME IInv, StoreInv, NEW c \in Clients, cpc[c] = "out", NEW t \in Tasks,
         cpc' = [cpc EXCEPT ![c] = "counted"], sub' = [sub EXCEPT ![c] = t]
  PROVE  /\ InTransit' = InTransit \cup {t}
         /\ Carriers' = Carriers \cup {c} /\ c \notin Carriers
         /\ sub'[c] = t /\ \A d \in Carriers : sub'[d] = sub[d]
<1>1. Carriers' = Carriers \cup {c} /\ c \notin Carriers
  BY DEF Carriers, StoreInv
<1>2. sub'[c] = t /\ \A d \in Carriers : sub'[d] = sub[d]
  BY <1>1 DEF IInv, TypeInv, Carriers
<1>3. InTransit = {sub[d] : d \in Carriers} /\ InTransit' = {sub'[d] : d \in Carriers'}
  BY DEF InTransit, Carriers
<1>4. InTransit' = InTransit \cup {t}
  BY <1>1, <1>2, <1>3
<1>5. QED
  BY <1>1, <1>2, <1>4

LEMMA CarrierLeaves ==
  ASSUME IInv, StoreInv, NEW c \in Carriers, NEW p \in {"out", "notifying"},
         cpc' = [cpc EXCEPT ![c] = p], \A d \in Clients : d # c => sub'[d] = sub[d]
  PROVE  /\ InTransit' = InTransit \ {sub[c]} /\ sub[c] \in InTransit
         /\ Carriers' = Carriers \ {c}
         /\ \A d, e \in Carriers' : sub'[d] = sub'[e] => d = e
<1>1. Carriers' = Carriers \ {c} /\ Carriers \subseteq Clients
  BY DEF Carriers, StoreInv
<1>2. InTransit = {sub[d] : d \in Carriers} /\ InTransit' = {sub'[d] : d \in Carriers'}
  BY DEF InTransit, Carriers
<1>3. \A d \in Carriers' : sub'[d] = sub[d] /\ sub[d] # sub[c]
  BY <1>1 DEF StoreInv
<1>4. InTransit' = InTransit \ {sub[c]}
  BY <1>1, <1>2, <1>3
<1>5. \A d, e \in Carriers' : sub'[d] = sub'[e] => d = e
  BY <1>1, <1>3 DEF StoreInv
<1>6. QED
  BY <1>1, <1>2, <1>4, <1>5

(* What every step of a submission leaves alone.                           *)
LEMMA SameStored == ASSUME UNCHANGED <<queues, stack>> PROVE Stored' = Stored
BY DEF Stored, queues

LEMMA SubmitCountKeeps ==
  ASSUME IInv, StackInv, StoreInv, NEW c \in Clients, SubmitCount(c)
  PROVE  StackInv' /\ StoreInv'
<1>1. PICK t \in Tasks : /\ spawner[t] = Null
                         /\ sub' = [sub EXCEPT ![c] = t]
                         /\ spawner' = [spawner EXCEPT ![t] = Doer(c)]
  BY DEF SubmitCount
<1>2. /\ cpc[c] = "out" /\ cpc' = [cpc EXCEPT ![c] = "counted"] /\ ~m_done
      /\ UNCHANGED <<m_done, queues, stack, wpc, finished>>
  BY DEF SubmitCount
<1>3. Doer(c) \in Tasks \cup Clients /\ Doer(c) # Null
  BY DoerIs, ConstantsOK DEF Threads
<1>4. /\ Submitted' = Submitted \cup {t} /\ t \notin Submitted
      /\ spawner' \in [Tasks -> Tasks \cup Clients \cup {Null}]
  BY <1>1, <1>3, TaskSubmitted DEF Submitted
<1>5. /\ InTransit' = InTransit \cup {t}
      /\ Carriers' = Carriers \cup {c} /\ c \notin Carriers
      /\ sub'[c] = t /\ \A d \in Carriers : sub'[d] = sub[d]
  BY <1>1, <1>2, CarrierJoins
<1>6. Stored' = Stored /\ finished' = finished
  BY <1>2, SameStored
<1>7. t \notin TasksIn(Stored) \cup finished \cup InTransit
  BY <1>4 DEF StoreInv
<1>8. NeverTwice'
  BY <1>4, <1>5, <1>6, <1>7, <1>2 DEF StoreInv, NeverTwice
<1>9. \A d, e \in Carriers' : sub'[d] = sub'[e] => d = e
  <2>1. \A d \in Carriers : sub[d] \in InTransit
    BY DEF Carriers, InTransit
  <2>2. QED
    BY <1>5, <1>7, <2>1 DEF StoreInv
<1>10. cpc' \in [Clients -> {"out", "counted", "pushing", "notifying"}]
  BY <1>2 DEF StoreInv
<1>11. TasksIn(Stored)' \cup finished' \cup InTransit' \subseteq Submitted'
  BY <1>4, <1>5, <1>6 DEF StoreInv
<1>12. StoreInv'
  BY <1>4, <1>8, <1>9, <1>10, <1>11 DEF StoreInv
<1>13. QED
  BY <1>2, <1>12, StackKept

LEMMA SubmitRefusedKeeps ==
  ASSUME IInv, StackInv, StoreInv, NEW c \in Clients, SubmitRefused(c)
  PROVE  StackInv' /\ StoreInv'
<1>1. /\ spawner' = [spawner EXCEPT ![sub[c]] = Null]
      /\ sub' = [sub EXCEPT ![c] = Null]
      /\ cpc[c] = "counted" /\ cpc' = [cpc EXCEPT ![c] = "out"] /\ m_done
      /\ UNCHANGED <<m_done, queues, stack, wpc, finished>>
  BY DEF SubmitRefused
<1>2. c \in Carriers /\ \A d \in Clients : d # c => sub'[d] = sub[d]
  BY <1>1 DEF Carriers, IInv, TypeInv
<1>3. /\ InTransit' = InTransit \ {sub[c]} /\ sub[c] \in InTransit
      /\ \A d, e \in Carriers' : sub'[d] = sub'[e] => d = e
  BY <1>1, <1>2, CarrierLeaves
<1>4. /\ Submitted' = Submitted \ {sub[c]}
      /\ spawner' \in [Tasks -> Tasks \cup Clients \cup {Null}]
  BY <1>1 DEF StoreInv, Submitted
<1>5. Stored' = Stored
  BY <1>1, SameStored
<1>6. NeverTwice'
  BY <1>1, <1>3, <1>4, <1>5 DEF StoreInv, NeverTwice
<1>7. TasksIn(Stored)' \cup finished' \cup InTransit' \subseteq Submitted'
  BY <1>1, <1>3, <1>4, <1>5 DEF StoreInv, NeverTwice
<1>8. cpc' \in [Clients -> {"out", "counted", "pushing", "notifying"}]
  BY <1>1 DEF StoreInv
<1>9. StoreInv'
  BY <1>3, <1>4, <1>6, <1>7, <1>8 DEF StoreInv
<1>10. QED
  BY <1>1, <1>9, StackKept

LEMMA SubmitPushKeeps ==
  ASSUME IInv, StackInv, StoreInv, NEW c \in Clients, SubmitPush(c)
  PROVE  StackInv' /\ StoreInv'
<1>1. /\ m_master_work_queue' = Append(m_master_work_queue, sub[c])
      /\ cpc[c] = "pushing" /\ cpc' = [cpc EXCEPT ![c] = "notifying"]
      /\ UNCHANGED <<m_done, m_queues, stack, wpc, sub, spawner, finished>>
  BY DEF SubmitPush
<1>2. c \in Carriers
  BY <1>1 DEF Carriers
<1>3. /\ InTransit' = InTransit \ {sub[c]} /\ sub[c] \in InTransit
      /\ \A d, e \in Carriers' : sub'[d] = sub'[e] => d = e
  BY <1>1, <1>2, CarrierLeaves
<1>4. Submitted' = Submitted /\ Submitted \subseteq Tasks
  BY <1>1 DEF Submitted
<1>5. /\ sub[c] \in Tasks /\ sub[c] # Null /\ sub[c] \in Entries
      /\ sub[c] \notin TasksIn(Stored) /\ sub[c] \notin finished
  BY <1>3, <1>4, ConstantsOK DEF StoreInv, NeverTwice, Entries
<1>6. /\ Stored \in AllStores /\ MasterStore \in Stores
      /\ Stored[MasterStore] = m_master_work_queue
  BY StoredIs DEF IInv
<1>7. Changes(Stored, Stored', MasterStore, Append(Stored[MasterStore], sub[c]))
  BY <1>1, <1>6, MasterChanges DEF IInv
<1>8. InOnePlace(Stored') /\ TasksIn(Stored') = TasksIn(Stored) \cup ({sub[c]} \ {Null})
  BY <1>5, <1>6, <1>7, PushTail DEF StoreInv, NeverTwice
<1>9. NeverTwice'
  BY <1>1, <1>3, <1>4, <1>5, <1>8 DEF StoreInv, NeverTwice
<1>10. TasksIn(Stored)' \cup finished' \cup InTransit' \subseteq Submitted'
  BY <1>1, <1>3, <1>4, <1>8 DEF StoreInv
<1>11. cpc' \in [Clients -> {"out", "counted", "pushing", "notifying"}]
  BY <1>1 DEF StoreInv
<1>12. StoreInv'
  BY <1>1, <1>3, <1>9, <1>10, <1>11 DEF StoreInv
<1>13. QED
  BY <1>1, <1>12, StackKept

(* A submission that goes on, or returns, carries what it carried.         *)
LEMMA SubmitGoesOn ==
  ASSUME IInv, StackInv, StoreInv, NEW c \in Clients,
         SubmitChecked(c) \/ SubmitNotify(c)
  PROVE  StackInv' /\ StoreInv'
<1>1. UNCHANGED <<m_done, queues, stack, spawner, finished>>
  BY DEF SubmitChecked, SubmitNotify
<1>2. /\ Carriers' = Carriers /\ \A d \in Carriers : sub'[d] = sub[d]
      /\ cpc' \in [Clients -> {"out", "counted", "pushing", "notifying"}]
  <2>1. CASE SubmitChecked(c)
    BY <2>1 DEF SubmitChecked, Carriers, StoreInv
  <2>2. CASE SubmitNotify(c)
    BY <2>2 DEF SubmitNotify, Carriers, StoreInv, IInv, TypeInv
  <2>3. QED
    BY <2>1, <2>2
<1>3. InTransit' = InTransit
  <2>1. InTransit = {sub[d] : d \in Carriers} /\ InTransit' = {sub'[d] : d \in Carriers'}
    BY DEF InTransit, Carriers
  <2>2. QED
    BY <1>2, <2>1
<1>4. Stored' = Stored /\ Submitted' = Submitted
  BY <1>1, SameStored DEF Submitted
<1>5. NeverTwice'
  BY <1>1, <1>3, <1>4 DEF StoreInv, NeverTwice
<1>6. StoreInv'
  BY <1>1, <1>2, <1>3, <1>4, <1>5 DEF StoreInv
<1>7. \A w \in Workers : wpc'[w] = "running" => wpc[w] = "running"
  BY DEF SubmitChecked, SubmitNotify, NotifyOne, Woken
<1>8. QED
  BY <1>1, <1>6, <1>7, StackKept

LEMMA SubmitLocalKeeps ==
  ASSUME IInv, StackInv, StoreInv, NEW w \in Workers, SubmitLocal(w)
  PROVE  StackInv' /\ StoreInv'
<1>1. PICK t \in Tasks : /\ spawner[t] = Null
                         /\ spawner' = [spawner EXCEPT ![t] = Doer(w)]
                         /\ m_queues' = [m_queues EXCEPT ![w] = <<t>> \o m_queues[w]]
  BY DEF SubmitLocal, IInv, TypeInv
<1>2. /\ wpc[w] = "running"
      /\ UNCHANGED <<m_done, m_master_work_queue, stack, wpc, cpc, sub, finished>>
  BY DEF SubmitLocal, submit
<1>3. Doer(w) \in Tasks \cup Clients /\ Doer(w) # Null
  BY <1>2, DoerIs DEF Threads
<1>4. /\ Submitted' = Submitted \cup {t} /\ t \notin Submitted
      /\ spawner' \in [Tasks -> Tasks \cup Clients \cup {Null}]
  BY <1>1, <1>3, TaskSubmitted DEF Submitted
<1>5. InTransit' = InTransit /\ Carriers' = Carriers
  BY <1>2 DEF InTransit, Carriers
<1>6. t \notin TasksIn(Stored) \cup finished \cup InTransit /\ t # Null /\ t \in Entries
  BY <1>4, ConstantsOK DEF StoreInv, Entries
<1>7. /\ Stored \in AllStores /\ DequeOf(w) \in Stores /\ Stored[DequeOf(w)] = m_queues[w]
  BY StoredIs DEF IInv
<1>8. Changes(Stored, Stored', DequeOf(w), <<t>> \o Stored[DequeOf(w)])
  <2> DEFINE s == <<t>> \o m_queues[w]
  <2>1. m_queues' = [m_queues EXCEPT ![w] = s]
    BY <1>1
  <2> HIDE DEF s
  <2>2. Changes(Stored, Stored', DequeOf(w), s)
    BY <1>2, <2>1, DequeChanges DEF IInv
  <2>3. QED
    BY <1>7, <2>2 DEF s
<1>9. InOnePlace(Stored') /\ TasksIn(Stored') = TasksIn(Stored) \cup ({t} \ {Null})
  BY <1>6, <1>7, <1>8, PushHead DEF StoreInv, NeverTwice
<1>10. NeverTwice'
  BY <1>2, <1>4, <1>5, <1>6, <1>9 DEF StoreInv, NeverTwice
<1>11. TasksIn(Stored)' \cup finished' \cup InTransit' \subseteq Submitted'
  BY <1>2, <1>4, <1>5, <1>9 DEF StoreInv
<1>12. StoreInv'
  BY <1>2, <1>4, <1>5, <1>10, <1>11 DEF StoreInv
<1>13. QED
  BY <1>2, <1>12, StackKept

(* The top task of a stack is executed.                                    *)
LEMMA FinishKeeps ==
  ASSUME IInv, StackInv, StoreInv, NEW x \in Threads, EndTask(x)
  PROVE  /\ StackInv' /\ StoreInv'
         /\ Head(stack[x]) \in TasksIn(Stored)
<1> DEFINE t == Head(stack[x])
           s == Tail(stack[x])
<1>1. /\ stack[x] # <<>> /\ finished' = finished \cup {t}
      /\ stack' = [stack EXCEPT ![x] = s]
      /\ UNCHANGED <<m_done, m_queues, m_master_work_queue, cpc, sub, spawner>>
  BY DEF EndTask, queues, submit, StackInv
<1>2. stack[x] \in Seq(Tasks) /\ t \in Tasks /\ s \in Seq(Tasks) /\ (Len(stack[x]) = 1 \/ s # <<>>)
  <2>1. stack[x] \in Seq(Tasks) /\ Len(stack[x]) \in Nat /\ Len(stack[x]) >= 1
    BY <1>1 DEF StackInv
  <2>2. t \in Tasks /\ s \in Seq(Tasks) /\ Len(s) = Len(stack[x]) - 1
    BY <1>1, <2>1, HeadTailProperties
  <2>3. s = <<>> => Len(s) = 0
    BY <2>2, EmptySeq
  <2>4. QED
    BY <2>1, <2>2, <2>3
<1>3. /\ Stored \in AllStores /\ StackOf(x) \in Stores /\ Stored[StackOf(x)] = stack[x]
  BY StoredIs DEF IInv
<1>4. t \in TasksIn(Stored)
  <2>1. 1 \in DOMAIN stack[x] /\ t = stack[x][1]
    BY <1>1, <1>2
  <2>2. QED
    BY <1>2, <1>3, <2>1 DEF TasksIn
<1>5. Changes(Stored, Stored', StackOf(x), Tail(Stored[StackOf(x)]))
  <2> HIDE DEF s
  <2>1. Changes(Stored, Stored', StackOf(x), s)
    BY <1>1, StackChanges DEF IInv
  <2>2. QED
    BY <1>3, <2>1 DEF s
<1>6. InOnePlace(Stored') /\ TasksIn(Stored') = TasksIn(Stored) \ {Head(Stored[StackOf(x)])}
  BY <1>1, <1>3, <1>5, PopHead DEF StoreInv, NeverTwice
<1>7. TasksIn(Stored') = TasksIn(Stored) \ {t}
  BY <1>3, <1>6
<1>8. InTransit' = InTransit /\ Carriers' = Carriers /\ Submitted' = Submitted
  BY <1>1 DEF InTransit, Carriers, Submitted
<1> HIDE DEF t, s
<1>9. NeverTwice'
  BY <1>1, <1>4, <1>6, <1>7, <1>8 DEF StoreInv, NeverTwice
<1>10. TasksIn(Stored)' \cup finished' \cup InTransit' \subseteq Submitted'
  BY <1>1, <1>4, <1>7, <1>8 DEF StoreInv
<1>11. StoreInv'
  BY <1>1, <1>8, <1>9, <1>10 DEF StoreInv
<1>12. StackInv'
  <2>1. stack' \in [Threads -> Seq(Tasks)] /\ stack'[x] = s /\ \A y \in Threads : y # x => stack'[y] = stack[y]
    BY <1>1, <1>2 DEF StackInv
  <2>2. \A w \in Workers : wpc'[w] = "running" => wpc[w] = "running" /\ (w = x => Len(stack[x]) # 1)
    BY DEF EndTask, IInv, TypeInv, WorkerPlaces
  <2>3. QED
    BY <1>2, <2>1, <2>2 DEF StackInv, Threads
<1>13. QED
  BY <1>4, <1>11, <1>12 DEF t

-----------------------------------------------------------------------------
(* The closers add empty tasks and throw away what is queued only when the *)
(* pool is done.                                                           *)
LEMMA ClosingIsDone ==
  ASSUME IInv, NEW k \in Closers, kpc[k] \in Closing PROVE m_done
BY ConstantsOK DEF IInv, OneCloserEnds

LEMMA StoredNextIs == ASSUME TypeInv' PROVE Stored' \in AllStores
<1>1. ASSUME NEW p \in Stores PROVE Stored'[p] \in Seq(Entries)
  BY StoresAre, StoredNext DEF TypeInv
<1>2. QED
  BY <1>1, StoredNext DEF AllStores

LEMMA NullsKeep ==
  ASSUME IInv, TypeInv', StoreInv, NEW k \in Closers, PushNulls(k), UNCHANGED stack
  PROVE  InOnePlace(Stored') /\ TasksIn(Stored') \subseteq TasksIn(Stored)
<1> DEFINE Deque(p) == \E w \in Workers : p = DequeOf(w)
           e(n) == [p \in Stores |-> IF Deque(p) THEN n ELSE 0]
<1>1. /\ Stored \in AllStores /\ InOnePlace(Stored) /\ Stored' \in AllStores
      /\ 0 \in Int /\ -1 \in Int
  BY StoredIs, StoredNextIs DEF IInv, StoreInv, NeverTwice
<1>2. \A n \in Int : e(n) \in [Stores -> Int]
  OBVIOUS
<1>3. \A n \in Int : /\ \A w \in Workers : e(n)[DequeOf(w)] = n
                     /\ e(n)[MasterStore] = 0
                     /\ \A x \in Threads : e(n)[StackOf(x)] = 0
  BY StoresAre, StoredIs DEF IInv
<1> HIDE DEF e
<1>4. CASE m_queues' = [w \in Workers |-> <<Null>> \o m_queues[w]] /\ UNCHANGED m_master_work_queue
  <2>1. ASSUME NEW p \in Stores, NEW i \in DOMAIN Stored'[p]
        PROVE  \/ Stored'[p][i] = Null
               \/ i + e(-1)[p] \in DOMAIN Stored[p] /\ Stored'[p][i] = Stored[p][i + e(-1)[p]]
    <3>1. ASSUME NEW w \in Workers, p = DequeOf(w)
          PROVE  \/ Stored'[p][i] = Null
                 \/ i + e(-1)[p] \in DOMAIN Stored[p] /\ Stored'[p][i] = Stored[p][i + e(-1)[p]]
      <4> DEFINE s == m_queues[w]
      <4>1. Stored'[p] = <<Null>> \o s /\ Stored[p] = s /\ s \in Seq(Entries)
        BY <1>4, <3>1, StoredIs, StoredNext DEF IInv, TypeInv
      <4>2. <<Null>> \in Seq(Entries) /\ Len(s) \in Nat
        BY <4>1 DEF Entries
      <4>3. /\ DOMAIN (<<Null>> \o s) = 1 .. Len(s) + 1 /\ DOMAIN s = 1 .. Len(s)
            /\ \A j \in 1 .. Len(s) + 1 : (<<Null>> \o s)[j] = IF j <= 1 THEN Null ELSE s[j - 1]
        BY <4>1, <4>2
      <4>4. i \in 1 .. Len(s) + 1 /\ Stored'[p][i] = IF i <= 1 THEN Null ELSE s[i - 1]
        BY <4>1, <4>3
      <4>5. e(-1)[p] = -1
        BY <1>1, <1>3, <3>1
      <4> HIDE DEF s
      <4>6. i <= 1 \/ (i + (-1) \in 1 .. Len(s) /\ i - 1 = i + (-1))
        BY <4>2, <4>4
      <4>7. QED
        BY <4>1, <4>3, <4>4, <4>5, <4>6
    <3>2. ASSUME \A w \in Workers : p # DequeOf(w)
          PROVE  i + e(-1)[p] \in DOMAIN Stored[p] /\ Stored'[p][i] = Stored[p][i + e(-1)[p]]
      <4>1. Stored'[p] = Stored[p]
        BY <1>4, <3>2, StoresAre, StoredIs, StoredNext DEF IInv
      <4>2. e(-1)[p] = 0
        BY <1>1, <1>3, <3>2, StoresAre
      <4>3. i \in Int
        BY <1>1 DEF AllStores
      <4>4. QED
        BY <4>1, <4>2, <4>3
    <3>3. QED
      BY <3>1, <3>2
  <2> DEFINE d == e(-1)
  <2>2. d \in [Stores -> Int]
    BY <1>1, <1>2
  <2>3. \A p \in Stores : \A i \in DOMAIN Stored'[p] :
          \/ Stored'[p][i] = Null
          \/ i + d[p] \in DOMAIN Stored[p] /\ Stored'[p][i] = Stored[p][i + d[p]]
    BY <2>1
  <2> HIDE DEF d
  <2>4. QED
    BY <1>1, <2>2, <2>3, NullsAdded
<1>5. CASE /\ m_master_work_queue' = m_master_work_queue \o [i \in Workers |-> Null]
           /\ UNCHANGED m_queues
  <2>1. ASSUME NEW p \in Stores, NEW i \in DOMAIN Stored'[p]
        PROVE  \/ Stored'[p][i] = Null
               \/ i + e(0)[p] \in DOMAIN Stored[p] /\ Stored'[p][i] = Stored[p][i + e(0)[p]]
    <3>0. e(0)[p] = 0 /\ i \in Int
      <4>1. e(0)[p] = 0
        BY <1>3, StoresAre
      <4>2. i \in Int
        BY <1>1 DEF AllStores
      <4>3. QED
        BY <4>1, <4>2
    <3>1. CASE p = MasterStore
      <4> DEFINE s == m_master_work_queue
                 u == [j \in 1 .. WorkerNum |-> Null]
      <4>1. Stored'[p] = s \o u /\ Stored[p] = s /\ s \in Seq(Entries)
        BY <1>5, <3>1, StoredIs, StoredNext DEF IInv, TypeInv, Workers
      <4>2. u \in Seq(Entries) /\ Len(u) = WorkerNum /\ WorkerNum \in Nat
        <5>1. Null \in Entries /\ WorkerNum \in Nat
          BY ConstantsOK DEF Entries
        <5>2. u \in [1 .. WorkerNum -> Entries]
          BY <5>1
        <5>3. QED
          BY <5>1, <5>2, SeqDef
      <4>3. \A j \in 1 .. WorkerNum : u[j] = Null
        OBVIOUS
      <4> HIDE DEF s, u
      <4>4. /\ Len(s) \in Nat /\ DOMAIN s = 1 .. Len(s)
            /\ DOMAIN (s \o u) = 1 .. Len(s) + WorkerNum
            /\ \A j \in 1 .. Len(s) + WorkerNum :
                 (s \o u)[j] = IF j <= Len(s) THEN s[j] ELSE u[j - Len(s)]
        <5>1. s \in Seq(Entries) /\ u \in Seq(Entries) /\ Len(u) = WorkerNum
          BY <4>1, <4>2
        <5>2. Len(s) \in Nat /\ DOMAIN s = 1 .. Len(s)
          BY <5>1
        <5> DEFINE v == s \o u
        <5>3. /\ v \in Seq(Entries) /\ Len(v) = Len(s) + Len(u)
              /\ \A j \in 1 .. Len(s) + Len(u) :
                   v[j] = IF j <= Len(s) THEN s[j] ELSE u[j - Len(s)]
          BY <5>1, ConcatProperties
        <5> HIDE DEF v
        <5>5. DOMAIN v = 1 .. Len(v)
          BY <5>3
        <5>6. DOMAIN v = 1 .. Len(s) + WorkerNum
          BY <5>1, <5>3, <5>5
        <5> USE DEF v
        <5>4. QED
          BY <5>1, <5>2, <5>3, <5>6
      <4>5. i \in 1 .. Len(s) + WorkerNum
        BY <4>1, <4>4
      <4>6. i <= Len(s) => i \in 1 .. Len(s) /\ (s \o u)[i] = s[i]
        BY <4>4, <4>5
      <4>7. ~(i <= Len(s)) => i - Len(s) \in 1 .. WorkerNum /\ (s \o u)[i] = u[i - Len(s)]
        BY <4>2, <4>4, <4>5
      <4>8. ~(i <= Len(s)) => Stored'[p][i] = Null
        BY <4>1, <4>3, <4>7
      <4>9. i <= Len(s) => i + e(0)[p] \in DOMAIN Stored[p] /\ Stored'[p][i] = Stored[p][i + e(0)[p]]
        BY <3>0, <4>1, <4>4, <4>6
      <4>10. QED
        BY <4>8, <4>9
    <3>2. CASE p # MasterStore
      <4>1. Stored'[p] = Stored[p]
        BY <1>5, <3>2, StoresAre, StoredIs, StoredNext DEF IInv
      <4>2. QED
        BY <3>0, <4>1
    <3>3. QED
      BY <3>1, <3>2
  <2> DEFINE d == e(0)
  <2>2. d \in [Stores -> Int]
    BY <1>1, <1>2
  <2>3. \A p \in Stores : \A i \in DOMAIN Stored'[p] :
          \/ Stored'[p][i] = Null
          \/ i + d[p] \in DOMAIN Stored[p] /\ Stored'[p][i] = Stored[p][i + d[p]]
    BY <2>1
  <2> HIDE DEF d
  <2>4. QED
    BY <1>1, <2>2, <2>3, NullsAdded
<1>6. QED
  BY <1>4, <1>5 DEF PushNulls

LEMMA ClearsKeep ==
  ASSUME IInv, TypeInv', StoreInv, NEW k \in Closers, Clear(k)
  PROVE  InOnePlace(Stored') /\ TasksIn(Stored') \subseteq TasksIn(Stored)
<1>1. \A p \in Stores : Stored'[p] = <<>> \/ Stored'[p] = Stored[p]
  <2>1. m_master_work_queue' = <<>> /\ (\A w \in Workers : m_queues'[w] = <<>>) /\ UNCHANGED stack
    BY DEF Clear, Rest
  <2>2. QED
    BY <2>1, StoresAre, StoredIs, StoredNext DEF IInv
<1> DEFINE d == [p \in Stores |-> 0]
<1>2. d \in [Stores -> Int] /\ \A p \in Stores : d[p] = 0
  OBVIOUS
<1> HIDE DEF d
<1>3. Stored \in AllStores /\ Stored' \in AllStores /\ InOnePlace(Stored)
  BY StoredIs, StoredNextIs DEF IInv, StoreInv, NeverTwice
<1>4. \A p \in Stores : \A i \in DOMAIN Stored'[p] :
        i + d[p] \in DOMAIN Stored[p] /\ Stored'[p][i] = Stored[p][i + d[p]]
  <2> SUFFICES ASSUME NEW p \in Stores, NEW i \in DOMAIN Stored'[p]
               PROVE  i + d[p] \in DOMAIN Stored[p] /\ Stored'[p][i] = Stored[p][i + d[p]]
    OBVIOUS
  <2>1. Stored'[p] # <<>>
    OBVIOUS
  <2>2. Stored'[p] = Stored[p] /\ i \in Int
    BY <1>1, <1>3, <2>1 DEF AllStores
  <2>3. QED
    BY <1>2, <2>2
<1>5. QED
  BY <1>2, <1>3, <1>4, NullsAdded

LEMMA CloserKeeps ==
  ASSUME IInv, TypeInv', StackInv, StoreInv, NEW k \in Closers, Close(k) \/ Closer(k)
  PROVE  StackInv' /\ StoreInv'
<1>1. /\ UNCHANGED <<stack, spawner, finished, cpc, sub>> /\ (m_done => m_done')
      /\ \A w \in Workers : wpc'[w] = "running" => wpc[w] = "running"
  <2>1. UNCHANGED <<stack, spawner, finished, cpc, sub>>
    BY DEF Close, Closer, Drain, CloseLock, Mark, TestFlag, SetFlag, NotifyAll, Clear, Rest, submit
  <2>2. m_done => m_done'
    BY DEF Close, Closer, Drain, CloseLock, Mark, TestFlag, SetFlag, NotifyAll, Clear
  <2>3. \A w \in Workers : wpc'[w] = "running" => wpc[w] = "running"
    BY DEF Close, Closer, Drain, CloseLock, Mark, TestFlag, SetFlag, NotifyAll, Clear, WakeAll, Woken
  <2>4. QED
    BY <2>1, <2>2, <2>3
<1>2. CASE UNCHANGED queues
  BY <1>1, <1>2, QuietStep
<1>3. CASE kpc[k] \in Closing /\ (PushNulls(k) \/ Clear(k))
  <2>1. m_done'
    BY <1>1, <1>3, ClosingIsDone
  <2>2. InOnePlace(Stored') /\ TasksIn(Stored') \subseteq TasksIn(Stored)
    BY <1>1, <1>3, NullsKeep, ClearsKeep
  <2>3. QED
    BY <1>1, <2>1, <2>2, Kept, StackKept
<1>4. UNCHANGED queues \/ (kpc[k] \in Closing /\ (PushNulls(k) \/ Clear(k)))
  <2>1. Close(k) \/ Drain(k) \/ CloseLock(k) \/ NotifyAll(k) => UNCHANGED queues
    BY DEF Close, Drain, CloseLock, NotifyAll
  <2>2. Mark(k) => UNCHANGED queues \/ (kpc[k] \in Closing /\ PushNulls(k))
    BY DEF Mark, Closing
  <2>3. TestFlag(k) => UNCHANGED queues \/ (kpc[k] \in Closing /\ PushNulls(k))
    BY DEF TestFlag, Advance, Closing, queues
  <2>4. SetFlag(k) => UNCHANGED queues \/ (kpc[k] \in Closing /\ PushNulls(k))
    BY DEF SetFlag, Advance, Closing
  <2>5. Clear(k) => kpc[k] \in Closing
    BY DEF Clear, Closing
  <2>6. QED
    BY <2>1, <2>2, <2>3, <2>4, <2>5 DEF Closer
<1>5. QED
  BY <1>2, <1>3, <1>4

-----------------------------------------------------------------------------
(* The count.                                                              *)
CountInv == IsFiniteSet(Submitted \ finished) /\ CountExact

LEMMA CountSame ==
  ASSUME CountInv, UNCHANGED <<m_running_task_count, spawner, finished>> PROVE CountInv'
<1>1. Submitted' = Submitted /\ (Submitted \ finished)' = Submitted \ finished
  BY DEF Submitted
<1>2. QED
  BY <1>1 DEF CountInv, CountExact

LEMMA CountUp ==
  ASSUME CountInv, CountOne, UNCHANGED finished, NEW t, t \notin Submitted \ finished,
         Submitted' \ finished = (Submitted \ finished) \cup {t}
  PROVE  CountInv'
<1> DEFINE S == Submitted \ finished
<1>1. IsFiniteSet(S) /\ m_running_task_count = Cardinality(S) /\ t \notin S
  BY DEF CountInv, CountExact
<1>2. (Submitted \ finished)' = S \cup {t}
  OBVIOUS
<1> HIDE DEF S
<1>3. IsFiniteSet(S \cup {t}) /\ Cardinality(S \cup {t}) = Cardinality(S) + 1
  BY <1>1, FS_AddElement
<1>4. QED
  BY <1>1, <1>2, <1>3 DEF CountInv, CountExact, CountOne

LEMMA CountDown ==
  ASSUME CountInv, ReleaseRunningTask, NEW t \in Submitted \ finished,
         (Submitted \ finished)' = (Submitted \ finished) \ {t}
  PROVE  CountInv'
<1> DEFINE S == Submitted \ finished
<1>1. IsFiniteSet(S) /\ m_running_task_count = Cardinality(S) /\ t \in S
  BY DEF CountInv, CountExact
<1>2. (Submitted \ finished)' = S \ {t}
  OBVIOUS
<1> HIDE DEF S
<1>3. IsFiniteSet(S \ {t}) /\ Cardinality(S \ {t}) = Cardinality(S) - 1
  BY <1>1, FS_RemoveElement
<1>4. QED
  BY <1>1, <1>2, <1>3 DEF CountInv, CountExact, ReleaseRunningTask

LEMMA CountKeeps ==
  ASSUME IInv, StackInv, StoreInv, CountInv, [Next]_vars PROVE CountInv'
<1>1. ASSUME NEW x \in Threads, NEW t \in Tasks, spawner[t] = Null, CountOne,
             x \in Workers => wpc[x] = "running",
             spawner' = [spawner EXCEPT ![t] = Doer(x)], UNCHANGED finished
      PROVE  CountInv'
  <2>1. Doer(x) \in Tasks \cup Clients /\ Doer(x) # Null
    BY <1>1, DoerIs
  <2>2. Submitted' = Submitted \cup {t} /\ t \notin Submitted
    BY <1>1, <2>1, TaskSubmitted DEF Submitted
  <2>3. t \notin finished
    BY <2>2 DEF StoreInv
  <2>4. Submitted' \ finished = (Submitted \ finished) \cup {t}
    BY <2>2, <2>3
  <2>5. QED
    BY <1>1, <2>2, <2>4, CountUp
<1>2. ASSUME NEW c \in Clients, SubmitCount(c) PROVE CountInv'
  <2>1. c \in Threads /\ c \notin Workers
    BY ConstantsOK DEF Threads
  <2>2. QED
    BY <1>1, <1>2, <2>1 DEF SubmitCount
<1>3. ASSUME NEW w \in Workers, SubmitLocal(w) PROVE CountInv'
  BY <1>1, <1>3 DEF SubmitLocal, Threads
<1>4. ASSUME NEW c \in Clients, SubmitRefused(c) PROVE CountInv'
  <2>1. /\ spawner' = [spawner EXCEPT ![sub[c]] = Null] /\ UNCHANGED finished
        /\ cpc[c] = "counted" /\ ReleaseRunningTask
    BY <1>4 DEF SubmitRefused
  <2>2. sub[c] \in InTransit
    BY <2>1 DEF InTransit
  <2>3. sub[c] \in Submitted \ finished
    BY <2>2 DEF StoreInv, NeverTwice
  <2>4. (Submitted \ finished)' = (Submitted \ finished) \ {sub[c]}
    BY <2>1, <2>3 DEF StoreInv, Submitted
  <2>5. QED
    BY <2>1, <2>3, <2>4, CountDown
<1>5. ASSUME NEW x \in Threads, EndTask(x) PROVE CountInv'
  <2> DEFINE t == Head(stack[x])
  <2>1. t \in TasksIn(Stored)
    BY <1>5, FinishKeeps
  <2>2. t \in Submitted \ finished
    BY <2>1 DEF StoreInv, NeverTwice
  <2>3. finished' = finished \cup {t} /\ UNCHANGED spawner /\ ReleaseRunningTask
    BY <1>5 DEF EndTask
  <2>4. (Submitted \ finished)' = (Submitted \ finished) \ {t}
    BY <2>3 DEF Submitted
  <2>5. QED
    BY <2>2, <2>3, <2>4, CountDown
<1>6. ASSUME NEW w \in Workers, Worker(w) \/ HelpWorker(w) \/ WakeUp(w) PROVE CountInv'
  <2>1. UNCHANGED <<m_running_task_count, spawner, finished>>
    BY <1>6 DEF Worker, WorkerLoop, WorkerExit, PendingLocal, PendingMaster, PendingSteal,
       SleepCheck, SleepBlock, Goto, Run, HelpWorker, WakeUp
  <2>2. QED
    BY <2>1, CountSame
<1>7. ASSUME NEW c \in Clients, SubmitChecked(c) \/ SubmitPush(c) \/ SubmitNotify(c) \/ HelpClient(c)
      PROVE  CountInv'
  <2>1. UNCHANGED <<m_running_task_count, spawner, finished>>
    BY <1>7 DEF SubmitChecked, SubmitPush, SubmitNotify, HelpClient
  <2>2. QED
    BY <2>1, CountSame
<1>8. ASSUME NEW k \in Closers, Close(k) \/ Closer(k) PROVE CountInv'
  <2>1. UNCHANGED <<m_running_task_count, spawner, finished>>
    BY <1>8 DEF Close, Closer, Drain, CloseLock, Mark, TestFlag, SetFlag, NotifyAll, Clear, Rest
  <2>2. QED
    BY <2>1, CountSame
<1>9. CASE UNCHANGED vars
  BY <1>9, CountSame DEF vars
<1>10. QED
  BY <1>2, <1>3, <1>4, <1>5, <1>6, <1>7, <1>8, <1>9 DEF Next, Client, FinishTask, ThrowTask

LEMMA StoreKeeps ==
  ASSUME IInv, IInv', StackInv, StoreInv, [Next]_vars PROVE StackInv' /\ StoreInv'
<1>1. CASE \E w \in Workers : Worker(w) \/ SubmitLocal(w) \/ HelpWorker(w) \/ WakeUp(w)
  BY <1>1, WorkerKeeps, SubmitLocalKeeps, HelpWorkerKeeps, WakeUpKeeps
<1>2. CASE \E c \in Clients : Client(c) \/ SubmitCount(c) \/ HelpClient(c)
  BY <1>2, SubmitCountKeeps, SubmitRefusedKeeps, SubmitPushKeeps, SubmitGoesOn, HelpClientKeeps
     DEF Client
<1>3. CASE \E x \in Threads : FinishTask(x) \/ ThrowTask(x)
  BY <1>3, FinishKeeps DEF FinishTask, ThrowTask
<1>4. CASE \E k \in Closers : Close(k) \/ Closer(k)
  BY <1>4, CloserKeeps DEF IInv
<1>5. CASE UNCHANGED vars
  BY <1>5, QuietStep DEF vars, submit
<1>6. QED
  BY <1>1, <1>2, <1>3, <1>4, <1>5 DEF Next

-----------------------------------------------------------------------------
(* What a join() owes was submitted; a joiner that has passed the drain    *)
(* wait, and everybody once the pool is done, finds it executed.           *)
PastDrain == {"lock"} \cup Closing \cup {"closed"}

OwedDone == m_done \/ (\E k \in Closers : kpc[k] \in PastDrain) => owed \subseteq finished

PromiseInv ==
  /\ owed \subseteq Submitted
  /\ m_done => \E k \in Closers : kpc[k] # "out"
  /\ m_running_until_empty /\ (\A k \in Closers : call[k] = "join") => OwedDone

(* No closer gets past the drain wait, and nothing that is owed is added.  *)
LEMMA PromiseKept ==
  ASSUME PromiseInv, UNCHANGED <<m_done, fixed>>,
         \A k \in Closers : /\ kpc'[k] \in PastDrain => kpc[k] \in PastDrain
                            /\ kpc[k] # "out" => kpc'[k] # "out",
         owed' \subseteq Submitted', finished \subseteq finished',
         OwedDone => owed' \subseteq owed \/ ~(m_done \/ \E k \in Closers : kpc[k] \in PastDrain)
  PROVE  PromiseInv'
BY DEF PromiseInv, OwedDone, fixed

LEMMA ReleasePlaces ==
  ASSUME TypeInv, ReleaseRunningTask
  PROVE  \A k \in Closers : /\ kpc'[k] \in PastDrain => kpc[k] \in PastDrain
                            /\ kpc[k] # "out" => kpc'[k] # "out"
BY Released DEF PastDrain, Closing

LEMMA AdoptKeeps ==
  ASSUME IInv, StackInv, StoreInv, PromiseInv,
         NEW x \in Threads, NEW t \in Tasks, x \in Workers => wpc[x] = "running",
         spawner' = [spawner EXCEPT ![t] = Doer(x)], Adopt(Doer(x), t),
         UNCHANGED <<m_done, fixed, kpc, finished>>
  PROVE  PromiseInv'
<1>1. /\ Doer(x) \in Tasks \cup Clients /\ Doer(x) # Null
      /\ Doer(x) \in Tasks => Doer(x) \in TasksIn(Stored)
  BY DoerIs
<1>2. Submitted' = Submitted \cup {t}
  BY <1>1, TaskSubmitted
<1>3. owed' \subseteq Submitted'
  BY <1>2 DEF Adopt, PromiseInv
<1>4. owed \subseteq finished => owed' \subseteq owed
  <2>1. finished \subseteq Tasks /\ TasksIn(Stored) \cap finished = {}
    BY DEF StoreInv, NeverTwice, Submitted
  <2>2. Doer(x) \notin finished
    BY <1>1, <2>1
  <2>3. QED
    BY <2>2 DEF Adopt
<1>5. QED
  BY <1>3, <1>4, PromiseKept DEF OwedDone

LEMMA PromiseKeeps ==
  ASSUME IInv, StackInv, StoreInv, CountInv, PromiseInv, [Next]_vars PROVE PromiseInv'
<1>1. ASSUME UNCHANGED <<m_done, fixed, kpc, owed, spawner, finished>> PROVE PromiseInv'
  BY <1>1, PromiseKept DEF PromiseInv, Submitted
<1>2. ASSUME NEW w \in Workers, Worker(w) \/ HelpWorker(w) \/ WakeUp(w) PROVE PromiseInv'
  <2>1. UNCHANGED <<m_done, fixed, kpc, owed, spawner, finished>>
    BY <1>2 DEF Worker, WorkerLoop, WorkerExit, PendingLocal, PendingMaster, PendingSteal,
       SleepCheck, SleepBlock, Goto, Run, HelpWorker, WakeUp, close
  <2>2. QED
    BY <1>1, <2>1
<1>3. ASSUME NEW c \in Clients, SubmitChecked(c) \/ SubmitPush(c) \/ SubmitNotify(c) \/ HelpClient(c)
      PROVE  PromiseInv'
  <2>1. UNCHANGED <<m_done, fixed, kpc, owed, spawner, finished>>
    BY <1>3 DEF SubmitChecked, SubmitPush, SubmitNotify, HelpClient, close
  <2>2. QED
    BY <1>1, <2>1
<1>4. ASSUME NEW w \in Workers, SubmitLocal(w) PROVE PromiseInv'
  <2>1. w \in Threads /\ wpc[w] = "running" /\ UNCHANGED <<m_done, fixed, kpc, finished>>
    BY <1>4 DEF SubmitLocal, close, Threads
  <2>2. PICK t \in Tasks : spawner' = [spawner EXCEPT ![t] = Doer(w)] /\ Adopt(Doer(w), t)
    BY <1>4 DEF SubmitLocal
  <2>3. QED
    BY <2>1, <2>2, AdoptKeeps
<1>5. ASSUME NEW c \in Clients, SubmitCount(c) PROVE PromiseInv'
  <2>1. c \in Threads /\ c \notin Workers /\ UNCHANGED <<m_done, fixed, kpc, finished>>
    BY <1>5, ConstantsOK DEF SubmitCount, close, Threads
  <2>2. PICK t \in Tasks : spawner' = [spawner EXCEPT ![t] = Doer(c)] /\ Adopt(Doer(c), t)
    BY <1>5 DEF SubmitCount
  <2>3. QED
    BY <2>1, <2>2, AdoptKeeps
<1>6. ASSUME NEW c \in Clients, SubmitRefused(c) PROVE PromiseInv'
  <2>1. /\ spawner' = [spawner EXCEPT ![sub[c]] = Null] /\ owed' = owed \ {sub[c]}
        /\ ReleaseRunningTask /\ UNCHANGED <<m_done, fixed, finished>>
    BY <1>6 DEF SubmitRefused
  <2>2. owed' \subseteq Submitted'
    BY <2>1 DEF PromiseInv, Submitted, StoreInv
  <2>3. QED
    BY <2>1, <2>2, ReleasePlaces, PromiseKept DEF IInv
<1>7. ASSUME NEW x \in Threads, EndTask(x) PROVE PromiseInv'
  <2>1. finished \subseteq finished' /\ ReleaseRunningTask /\ UNCHANGED <<m_done, fixed, spawner, owed>>
    BY <1>7 DEF EndTask
  <2>2. owed' \subseteq Submitted'
    BY <2>1 DEF PromiseInv, Submitted
  <2>3. QED
    BY <2>1, <2>2, ReleasePlaces, PromiseKept DEF IInv
<1>8. ASSUME NEW k \in Closers, Close(k) PROVE PromiseInv'
  <2>1. /\ UNCHANGED <<m_done, fixed, spawner, finished>>
        /\ kpc' = [kpc EXCEPT ![k] = IF call[k] = "join" /\ m_running_until_empty
                                     THEN "drain" ELSE "lock"]
        /\ owed' = IF call[k] = "join" /\ \A j \in Closers : kpc[j] = "out"
                   THEN Submitted \ InTransit ELSE owed
    BY <1>8 DEF Close, KGoto, Rest
  <2>2. owed' \subseteq Submitted' /\ Submitted' = Submitted
    BY <2>1 DEF PromiseInv, Submitted
  <2>3. /\ \A j \in Closers : kpc[j] # "out" => kpc'[j] # "out"
        /\ m_running_until_empty /\ call[k] = "join" =>
             \A j \in Closers : kpc'[j] \in PastDrain => kpc[j] \in PastDrain
    BY <2>1 DEF IInv, TypeInv, PastDrain, Closing
  <2>4. (\A j \in Closers : kpc[j] = "out") =>
          ~m_done /\ \A j \in Closers : kpc[j] \notin PastDrain
    BY DEF PromiseInv, PastDrain, Closing
  <2>5. QED
    BY <2>1, <2>2, <2>3, <2>4 DEF PromiseInv, OwedDone, fixed
<1>9. ASSUME NEW k \in Closers, Drain(k) PROVE PromiseInv'
  <2>1. /\ UNCHANGED <<m_done, fixed, spawner, finished, owed>>
        /\ kpc[k] = "drain"
        /\ kpc' = [kpc EXCEPT ![k] = IF Drained THEN "lock" ELSE "asleep"]
    BY <1>9 DEF Drain, KGoto, Rest
  <2>2. m_running_task_count = 0 => owed \subseteq finished
    <3>1. m_running_task_count = 0 => Submitted \ finished = {}
      BY FS_EmptySet DEF CountInv, CountExact
    <3>2. QED
      BY <3>1 DEF PromiseInv
  <2>3. /\ \A j \in Closers : kpc[j] # "out" => kpc'[j] # "out"
        /\ \A j \in Closers : kpc'[j] \in PastDrain =>
             kpc[j] \in PastDrain \/ m_done \/ m_running_task_count = 0
    BY <2>1 DEF IInv, TypeInv, PastDrain, Closing, Drained
  <2>4. Submitted' = Submitted
    BY <2>1 DEF Submitted
  <2>5. QED
    BY <2>1, <2>2, <2>3, <2>4 DEF PromiseInv, OwedDone, fixed
<1>10. ASSUME NEW k \in Closers, CloseLock(k) PROVE PromiseInv'
  <2>1. /\ UNCHANGED <<fixed, spawner, finished, owed>> /\ kpc[k] = "lock"
        /\ m_done => m_done'
    BY <1>10 DEF CloseLock, Rest
  <2>2. kpc'[k] # "out"
    <3>1. CASE KGoto(k, "closed")
      BY <3>1 DEF KGoto, IInv, TypeInv
    <3>2. CASE kpc' = [IdleNotify(kpc) EXCEPT ![k] = "mark"]
      BY <3>2 DEF IdleNotify
    <3>3. QED
      BY <1>10, <3>1, <3>2 DEF CloseLock
  <2>3. Submitted' = Submitted /\ kpc[k] \in PastDrain
    BY <2>1 DEF Submitted, PastDrain
  <2>4. QED
    BY <2>1, <2>2, <2>3 DEF PromiseInv, OwedDone, fixed
<1>11. ASSUME NEW k \in Closers,
              Mark(k) \/ TestFlag(k) \/ SetFlag(k) \/ NotifyAll(k) \/ Clear(k)
       PROVE  PromiseInv'
  <2>1. UNCHANGED <<m_done, fixed, owed, spawner, finished>>
    BY <1>11 DEF Mark, TestFlag, SetFlag, NotifyAll, Clear, Rest
  <2>2. PICK p \in Closing \cup {"closed"} : KGoto(k, p)
    BY <1>11 DEF Mark, TestFlag, SetFlag, Advance, NotifyAll, Clear, Closing
  <2>3. kpc[k] \in Closing
    BY <1>11 DEF Mark, TestFlag, SetFlag, NotifyAll, Clear, Closing
  <2>4. \A j \in Closers : /\ kpc'[j] \in PastDrain => kpc[j] \in PastDrain
                           /\ kpc[j] # "out" => kpc'[j] # "out"
    BY <2>2, <2>3 DEF KGoto, IInv, TypeInv, PastDrain, Closing
  <2>5. QED
    BY <2>1, <2>4, PromiseKept DEF PromiseInv, Submitted
<1>12. CASE UNCHANGED vars
  BY <1>1, <1>12 DEF vars, close
<1>13. QED
  BY <1>2, <1>3, <1>4, <1>5, <1>6, <1>7, <1>8, <1>9, <1>10, <1>11, <1>12
     DEF Next, Client, Closer, FinishTask, ThrowTask

-----------------------------------------------------------------------------
(* The whole inductive invariant.                                          *)
PoolInv == IInv /\ StackInv /\ StoreInv /\ CountInv /\ PromiseInv

LEMMA InitPoolInv == Init => PoolInv
<1> SUFFICES ASSUME Init PROVE PoolInv
  OBVIOUS
<1>1. IInv
  BY InitIInv
<1>2. StackInv
  BY DEF Init, StackInv
<1>3. Submitted = {} /\ InTransit = {} /\ Carriers = {} /\ finished = {}
  BY DEF Init, Submitted, InTransit, Carriers
<1>4. \A p \in Stores : Stored[p] = <<>>
  BY StoresAre, StoredIs, <1>1 DEF Init, IInv
<1>5. InOnePlace(Stored) /\ TasksIn(Stored) = {}
  BY <1>4 DEF InOnePlace, TasksIn
<1>6. StoreInv
  BY <1>3, <1>5 DEF Init, StoreInv, NeverTwice
<1>7. CountInv
  BY <1>3, FS_EmptySet DEF CountInv, CountExact, Init
<1>8. PromiseInv
  BY DEF Init, PromiseInv, OwedDone, PastDrain, Closing
<1>9. QED
  BY <1>1, <1>2, <1>6, <1>7, <1>8 DEF PoolInv

(* Together: tasks in one place, stacks of tasks, the count, the promise.  *)
THEOREM PoolInvariance == Spec => []PoolInv
<1>1. PoolInv /\ [Next]_vars => PoolInv'
  <2> SUFFICES ASSUME PoolInv, [Next]_vars PROVE PoolInv'
    OBVIOUS
  <2>1. IInv'
    BY IInvStep DEF PoolInv
  <2>2. StackInv' /\ StoreInv'
    BY <2>1, StoreKeeps DEF PoolInv
  <2>3. CountInv' /\ PromiseInv'
    BY CountKeeps, PromiseKeeps DEF PoolInv
  <2>4. QED
    BY <2>1, <2>2, <2>3 DEF PoolInv
<1>2. QED
  BY <1>1, InitPoolInv, PTL DEF Spec

(* Push, pop, steal, help, refuse and discard, by any number of threads,   *)
(* lose no task of a pool that is open and never have one in two places or *)
(* executed twice.                                                         *)
THEOREM TasksInOnePlace == Spec => []NeverTwice
<1>1. PoolInv => NeverTwice
  BY DEF PoolInv, StoreInv
<1>2. QED
  BY <1>1, PoolInvariance, PTL

(* m_running_task_count is the number of the tasks that were submitted and *)
(* not executed, whichever threads submit, are refused and execute.        *)
THEOREM CountIsExact == Spec => []CountExact
<1>1. PoolInv => CountExact
  BY DEF PoolInv, CountInv
<1>2. QED
  BY <1>1, PoolInvariance, PTL

(* With an until-empty pool and joiners only, no join() returns before the *)
(* tasks that the first one found, and those they submitted, are executed. *)
THEOREM JoinWaits == Spec => []JoinKeepsPromise
<1>1. PoolInv => JoinKeepsPromise
  BY DEF PoolInv, PromiseInv, OwedDone, PastDrain, JoinKeepsPromise
<1>2. QED
  BY <1>1, PoolInvariance, PTL

-----------------------------------------------------------------------------
(* Who sleeps.  A worker is "checked" while it holds m_cv_mutex, so there  *)
(* is one at most, and none while a closer handles the flags; from then on *)
(* the pool is done, the predicate true, and no further worker blocks.     *)
Sleepers == {"checked", "waiting"}

OneChecks == \A v, w \in Workers : wpc[v] = "checked" /\ wpc[w] = "checked" => v = w

ClosersSeen ==
  \A k \in Closers, w \in Workers :
     /\ kpc[k] \in {"test", "set", "notify", "joining"} => wpc[w] # "checked"
     /\ kpc[k] = "joining" => wpc[w] # "waiting"

SleepInv == OneChecks /\ ClosersSeen /\ NoTaskSleeps

(* A step after which no further worker sleeps, no closer has gone on, and *)
(* a queue was filled only with somebody up or about to notify.            *)
LEMMA SleepKept ==
  ASSUME SleepInv, ~m_done' => ~m_done,
         \A w \in Workers : wpc'[w] \in Sleepers => wpc'[w] = wpc[w],
         \A k \in Closers : kpc'[k] \in {kpc[k], "drain", "lock", "asleep", "mark", "closed"},
         \A c \in Clients : cpc[c] = "notifying" => cpc'[c] = "notifying",
         \/ Queued' => Queued
         \/ m_done'
         \/ \E w \in Workers : wpc'[w] \notin Sleepers
         \/ \E c \in Clients : cpc'[c] = "notifying"
  PROVE  SleepInv'
<1>1. OneChecks' /\ ClosersSeen'
  BY DEF SleepInv, OneChecks, ClosersSeen, Sleepers
<1>2. NoTaskSleeps'
  <2> SUFFICES ASSUME WorkerNum > 1, ~m_done', Queued',
                      \A c \in Clients : cpc'[c] # "notifying",
                      \A w \in Workers : wpc'[w] \in Sleepers
               PROVE  FALSE
    BY DEF NoTaskSleeps, Sleepers
  <2>1. Queued /\ ~m_done /\ \A c \in Clients : cpc[c] # "notifying"
    OBVIOUS
  <2>2. PICK w \in Workers : wpc[w] \notin Sleepers
    BY <2>1 DEF SleepInv, NoTaskSleeps, Sleepers
  <2>3. QED
    BY <2>2
<1>3. QED
  BY <1>1, <1>2 DEF SleepInv

(* The steps of a worker that is up: it may go to sleep only when it sees  *)
(* no task and the pool open.                                              *)
LEMMA QueuedIsSeen == (Queued => WakePred) /\ (m_done => WakePred)
BY DEF Queued, WakePred

LEMMA SleepCheckSleeps ==
  ASSUME IInv, SleepInv, NEW w \in Workers, SleepCheck(w) PROVE SleepInv'
<1>1. /\ wpc \in [Workers -> WorkerPlaces] /\ CvFree
      /\ UNCHANGED <<m_done, queues, kpc, cpc>>
  BY DEF SleepCheck, Goto, IInv, TypeInv, close, submit
<1>2. Queued' = Queued
  BY <1>1 DEF Queued, queues
<1>3. CASE wpc' = [wpc EXCEPT ![w] = "top"]
  <2>1. \A v \in Workers : wpc'[v] \in Sleepers => wpc'[v] = wpc[v]
    BY <1>1, <1>3 DEF Sleepers
  <2>2. QED
    BY <1>1, <1>2, <2>1, SleepKept
<1>4. CASE ~WakePred /\ wpc' = [wpc EXCEPT ![w] = "checked"]
  <2>1. ~Queued /\ ~m_done
    BY <1>4, QueuedIsSeen
  <2>2. NoTaskSleeps'
    BY <1>2, <2>1 DEF NoTaskSleeps
  <2>3. OneChecks'
    BY <1>1, <1>4 DEF OneChecks, CvFree
  <2>4. ClosersSeen'
    <3>1. \A k \in Closers : kpc[k] \notin {"test", "set", "notify", "joining"}
      BY <2>1, ClosingIsDone DEF Closing
    <3>2. QED
      BY <1>1, <3>1 DEF ClosersSeen
  <2>5. QED
    BY <1>2, <2>2, <2>3, <2>4 DEF SleepInv
<1>5. QED
  BY <1>3, <1>4 DEF SleepCheck, Goto

LEMMA SleepBlockSleeps ==
  ASSUME IInv, SleepInv, NEW w \in Workers, SleepBlock(w) PROVE SleepInv'
<1>1. /\ wpc \in [Workers -> WorkerPlaces] /\ wpc[w] = "checked"
      /\ wpc' = [wpc EXCEPT ![w] = "waiting"]
      /\ UNCHANGED <<m_done, queues, kpc, cpc>>
  BY DEF SleepBlock, Goto, IInv, TypeInv, close, submit
<1>2. Queued' = Queued
  BY <1>1 DEF Queued, queues
<1>3. \A v \in Workers : wpc'[v] = IF v = w THEN "waiting" ELSE wpc[v]
  BY <1>1
<1>4. OneChecks'
  BY <1>3 DEF OneChecks, SleepInv
<1>5. ClosersSeen'
  BY <1>1, <1>3 DEF ClosersSeen, SleepInv
<1>6. NoTaskSleeps'
  BY <1>1, <1>2, <1>3 DEF NoTaskSleeps, SleepInv
<1>7. QED
  BY <1>2, <1>4, <1>5, <1>6 DEF SleepInv

(* A notification wakes a worker that blocked, if there is one; otherwise  *)
(* all but one at most are up.                                             *)
LEMMA NotifySleeps ==
  ASSUME IInv, SleepInv, NEW c \in Clients, SubmitNotify(c) PROVE SleepInv'
<1>1. /\ NotifyOne /\ UNCHANGED <<m_done, queues, kpc>>
      /\ cpc' = [cpc EXCEPT ![c] = "out"]
  BY DEF SubmitNotify, close
<1>2. PICK ws \in SUBSET Asleep : wpc' = Woken(ws) /\ (Asleep # {} => ws # {})
  <2>1. CASE Asleep = {}
    BY <1>1, <2>1, NobodyWoken DEF NotifyOne, IInv
  <2>2. CASE Asleep # {}
    BY <1>1, <2>2 DEF NotifyOne
  <2>3. QED
    BY <2>1, <2>2
<1>3. \A w \in Workers : \/ wpc'[w] = wpc[w]
                         \/ wpc[w] = "waiting" /\ wpc'[w] = "woken"
  BY <1>2, Woke DEF IInv
<1>4. OneChecks' /\ ClosersSeen'
  BY <1>1, <1>3 DEF SleepInv, OneChecks, ClosersSeen
<1>5. ASSUME WorkerNum > 1 PROVE \E w \in Workers : wpc'[w] \notin Sleepers
  <2>1. CASE Asleep = {}
    <3>1. 1 \in Workers /\ 2 \in Workers
      BY <1>5, ConstantsOK DEF Workers
    <3>2. wpc[1] # "checked" \/ wpc[2] # "checked"
      BY <3>1 DEF SleepInv, OneChecks
    <3>3. \A w \in Workers : wpc[w] # "waiting" /\ wpc'[w] = wpc[w]
      BY <1>3, <2>1 DEF Asleep
    <3>4. QED
      BY <3>1, <3>2, <3>3 DEF Sleepers
  <2>2. CASE Asleep # {}
    <3>1. PICK w \in ws : w \in Workers
      BY <1>2, <2>2 DEF Asleep
    <3>2. wpc'[w] = "woken"
      BY <1>2, <3>1 DEF Woken
    <3>3. QED
      BY <3>1, <3>2 DEF Sleepers
  <2>3. QED
    BY <2>1, <2>2
<1>6. NoTaskSleeps'
  BY <1>5 DEF NoTaskSleeps, Sleepers
<1>7. QED
  BY <1>4, <1>6 DEF SleepInv

(* A closer that handles the flags waits for the worker that checked; its  *)
(* notification then wakes every worker that blocked.                      *)
LEMMA MarkSleeps ==
  ASSUME IInv, SleepInv, NEW k \in Closers, Mark(k) PROVE SleepInv'
<1>1. /\ CvFree /\ UNCHANGED <<m_done, wpc, cpc>>
      /\ \A j \in Closers : kpc'[j] = kpc[j] \/ kpc'[j] \in {"test", "notify"}
  BY DEF Mark, KGoto, Rest, submit, IInv, TypeInv
<1>2. m_done
  BY ClosingIsDone DEF Mark, Closing
<1>3. OneChecks' /\ ClosersSeen' /\ NoTaskSleeps'
  BY <1>1, <1>2 DEF SleepInv, OneChecks, ClosersSeen, NoTaskSleeps, CvFree
<1>4. QED
  BY <1>3 DEF SleepInv

LEMMA FlagSleeps ==
  ASSUME IInv, SleepInv, NEW k \in Closers, TestFlag(k) \/ SetFlag(k) PROVE SleepInv'
<1>1. /\ UNCHANGED <<m_done, wpc, cpc>> /\ kpc[k] \in {"test", "set"}
      /\ \A j \in Closers : \/ kpc'[j] = kpc[j]
                            \/ j = k /\ kpc'[j] \in {"test", "set", "notify"}
  BY DEF TestFlag, SetFlag, Advance, KGoto, Rest, submit, IInv, TypeInv
<1>2. m_done
  BY <1>1, ClosingIsDone DEF Closing
<1>3. OneChecks' /\ ClosersSeen' /\ NoTaskSleeps'
  BY <1>1, <1>2 DEF SleepInv, OneChecks, ClosersSeen, NoTaskSleeps
<1>4. QED
  BY <1>3 DEF SleepInv

LEMMA NotifyAllSleeps ==
  ASSUME IInv, SleepInv, NEW k \in Closers, NotifyAll(k) PROVE SleepInv'
<1>1. /\ UNCHANGED <<m_done, cpc>> /\ kpc[k] = "notify" /\ wpc' = Woken(Asleep)
      /\ \A j \in Closers : kpc'[j] = kpc[j] \/ j = k
  BY DEF NotifyAll, WakeAll, KGoto, Rest, submit, IInv, TypeInv
<1>2. \A w \in Workers : wpc'[w] # "waiting" /\ wpc'[w] \in {wpc[w], "woken"}
  BY <1>1 DEF Woken, Asleep
<1>3. m_done /\ \A w \in Workers : wpc[w] # "checked"
  BY <1>1, ClosingIsDone DEF Closing, SleepInv, ClosersSeen
<1>4. OneChecks' /\ ClosersSeen' /\ NoTaskSleeps'
  BY <1>1, <1>2, <1>3 DEF OneChecks, ClosersSeen, NoTaskSleeps
<1>5. QED
  BY <1>4 DEF SleepInv

(* The other steps of closers, workers and clients.                        *)
LEMMA CloserSleeps ==
  ASSUME IInv, SleepInv, NEW k \in Closers, Close(k) \/ Drain(k) \/ CloseLock(k) \/ Clear(k)
  PROVE  SleepInv'
<1>1. UNCHANGED <<wpc, cpc>> /\ (~m_done' => ~m_done)
  BY DEF Close, Drain, CloseLock, Clear, Rest, submit
<1>2. \A j \in Closers : kpc'[j] \in {kpc[j], "drain", "lock", "asleep", "mark", "closed"}
  <2>1. CASE Close(k) \/ Drain(k) \/ Clear(k)
    BY <2>1 DEF Close, Drain, Clear, KGoto, IInv, TypeInv
  <2>2. CASE CloseLock(k)
    <3>1. /\ IdleNotify(kpc) \in [Closers -> CloserPlaces]
          /\ \A j \in Closers : IdleNotify(kpc)[j] \in {kpc[j], "drain"}
      BY IdleNotified DEF IInv, TypeInv
    <3>2. QED
      BY <2>2, <3>1 DEF CloseLock, KGoto, IInv, TypeInv
  <2>3. QED
    BY <2>1, <2>2
<1>3. Queued' => Queued
  BY DEF Close, Drain, CloseLock, Clear, Queued, queues
<1>4. QED
  BY <1>1, <1>2, <1>3, SleepKept

(* A worker that pops, steals, helps or moves on is up.                    *)
LEMMA UpSleeps ==
  ASSUME IInv, SleepInv, NEW w \in Workers, NEW p \in WorkerPlaces \ Sleepers,
         wpc' = [wpc EXCEPT ![w] = p], UNCHANGED <<m_done, kpc, cpc>>
  PROVE  SleepInv'
<1>1. wpc \in [Workers -> WorkerPlaces]
  BY DEF IInv, TypeInv
<1>2. wpc'[w] \notin Sleepers /\ \A v \in Workers : wpc'[v] \in Sleepers => wpc'[v] = wpc[v]
  BY <1>1
<1>3. QED
  BY <1>2, SleepKept

LEMMA WorkerSleeps ==
  ASSUME IInv, SleepInv, NEW w \in Workers, Worker(w) PROVE SleepInv'
<1>1. CASE SleepCheck(w) \/ SleepBlock(w)
  BY <1>1, SleepCheckSleeps, SleepBlockSleeps
<1>2. ASSUME NEW p \in WorkerPlaces \ Sleepers, Goto(w, p) PROVE SleepInv'
  BY <1>2, UpSleeps DEF Goto, close, submit
<1>3. ASSUME NEW t, Run(w, t) PROVE SleepInv'
  <2>1. wpc' = [wpc EXCEPT ![w] = "top"] \/ wpc' = [wpc EXCEPT ![w] = "running"]
    BY <1>3 DEF Run
  <2>2. UNCHANGED <<m_done, kpc, cpc>>
    BY <1>3 DEF Run, close, submit
  <2>3. {"top", "running"} \subseteq WorkerPlaces \ Sleepers
    BY DEF WorkerPlaces, Sleepers
  <2>4. QED
    BY <2>1, <2>2, <2>3, UpSleeps
<1>4. {"local", "master", "steal", "tosleep", "exited"} \subseteq WorkerPlaces \ Sleepers
  BY DEF WorkerPlaces, Sleepers
<1>5. CASE WorkerLoop(w)
  BY <1>2, <1>4, <1>5 DEF WorkerLoop
<1>6. CASE WorkerExit(w)
  BY <1>4, <1>6, UpSleeps DEF WorkerExit, close, submit
<1>7. CASE PendingLocal(w)
  BY <1>2, <1>3, <1>4, <1>7 DEF PendingLocal
<1>8. CASE PendingMaster(w)
  BY <1>2, <1>3, <1>4, <1>8 DEF PendingMaster
<1>9. CASE PendingSteal(w)
  BY <1>2, <1>3, <1>4, <1>9 DEF PendingSteal
<1>10. QED
  BY <1>1, <1>5, <1>6, <1>7, <1>8, <1>9 DEF Worker

(* A worker inside a task is up, whatever it pushes and whom it wakes.     *)
LEMMA RunnerSleeps ==
  ASSUME IInv, SleepInv, NEW w \in Workers, SubmitLocal(w) \/ HelpWorker(w) \/ WakeUp(w)
  PROVE  SleepInv'
<1>1. wpc[w] = "running" /\ UNCHANGED <<m_done, kpc, cpc>>
  BY DEF SubmitLocal, HelpWorker, WakeUp, close, submit
<1>2. \A v \in Workers : \/ wpc'[v] = wpc[v]
                         \/ wpc[v] = "waiting" /\ wpc'[v] = "woken"
  <2>1. CASE SubmitLocal(w) \/ HelpWorker(w)
    BY <2>1 DEF SubmitLocal, HelpWorker
  <2>2. CASE WakeUp(w)
    BY <2>2, Woke DEF WakeUp, IInv
  <2>3. QED
    BY <2>1, <2>2
<1>3. wpc'[w] \notin Sleepers
  BY <1>1, <1>2 DEF Sleepers
<1>4. \A v \in Workers : wpc'[v] \in Sleepers => wpc'[v] = wpc[v]
  BY <1>2 DEF Sleepers
<1>5. QED
  BY <1>1, <1>3, <1>4, SleepKept

LEMMA ClientSleeps ==
  ASSUME IInv, StoreInv, SleepInv, NEW c \in Clients,
         \/ SubmitCount(c) \/ SubmitRefused(c) \/ SubmitChecked(c)
         \/ SubmitPush(c) \/ HelpClient(c)
  PROVE  SleepInv'
<1>1. UNCHANGED <<wpc, m_done>>
  BY DEF SubmitCount, SubmitRefused, SubmitChecked, SubmitPush, HelpClient
<1>2. \A j \in Closers : kpc'[j] \in {kpc[j], "drain"}
  <2>1. CASE SubmitRefused(c)
    BY <2>1, Released DEF SubmitRefused, IInv
  <2>2. CASE ~SubmitRefused(c)
    BY <2>2 DEF SubmitCount, SubmitChecked, SubmitPush, HelpClient, close
  <2>3. QED
    BY <2>1, <2>2
<1>3. \A d \in Clients : cpc[d] = "notifying" => cpc'[d] = "notifying"
  BY DEF SubmitCount, SubmitRefused, SubmitChecked, SubmitPush, HelpClient, submit, StoreInv
<1>4. (Queued' => Queued) \/ \E d \in Clients : cpc'[d] = "notifying"
  <2>1. CASE SubmitPush(c)
    BY <2>1 DEF SubmitPush, StoreInv
  <2>2. CASE HelpClient(c)
    BY <2>2 DEF HelpClient, TakeMaster, Queued
  <2>3. CASE SubmitCount(c) \/ SubmitRefused(c) \/ SubmitChecked(c)
    BY <2>3 DEF SubmitCount, SubmitRefused, SubmitChecked, Queued, queues
  <2>4. QED
    BY <2>1, <2>2, <2>3
<1>5. QED
  BY <1>1, <1>2, <1>3, <1>4, SleepKept

LEMMA EndTaskSleeps ==
  ASSUME IInv, SleepInv, NEW x \in Threads, EndTask(x) PROVE SleepInv'
<1>1. UNCHANGED <<m_done, queues, cpc>> /\ ReleaseRunningTask
  BY DEF EndTask, submit
<1>2. \A j \in Closers : kpc'[j] \in {kpc[j], "drain"}
  BY <1>1, Released DEF IInv
<1>3. \A w \in Workers : wpc'[w] \in Sleepers => wpc'[w] = wpc[w]
  BY DEF EndTask, IInv, TypeInv, Sleepers
<1>4. Queued' => Queued
  BY <1>1 DEF Queued, queues
<1>5. QED
  BY <1>1, <1>2, <1>3, <1>4, SleepKept

LEMMA SleepStep ==
  ASSUME IInv, StoreInv, SleepInv, [Next]_vars PROVE SleepInv'
<1>1. CASE \E w \in Workers : Worker(w) \/ SubmitLocal(w) \/ HelpWorker(w) \/ WakeUp(w)
  BY <1>1, WorkerSleeps, RunnerSleeps
<1>2. CASE \E c \in Clients : Client(c) \/ SubmitCount(c) \/ HelpClient(c)
  BY <1>2, ClientSleeps, NotifySleeps DEF Client
<1>3. CASE \E x \in Threads : FinishTask(x) \/ ThrowTask(x)
  BY <1>3, EndTaskSleeps DEF FinishTask, ThrowTask
<1>4. CASE \E k \in Closers : Close(k) \/ Closer(k)
  BY <1>4, CloserSleeps, MarkSleeps, FlagSleeps, NotifyAllSleeps DEF Closer
<1>5. CASE UNCHANGED vars
  <2>1. UNCHANGED <<m_done, queues, kpc, cpc, wpc>>
    BY <1>5 DEF vars, close, submit
  <2>2. Queued' = Queued
    BY <2>1 DEF Queued, queues
  <2>3. QED
    BY <2>1, <2>2 DEF SleepInv, OneChecks, ClosersSeen, NoTaskSleeps
<1>6. QED
  BY <1>1, <1>2, <1>3, <1>4, <1>5 DEF Next

LEMMA SleepInvariance == Spec => []SleepInv
<1>1. Init => SleepInv
  BY DEF Init, SleepInv, OneChecks, ClosersSeen, NoTaskSleeps, Queued
<1>2. PoolInv /\ SleepInv /\ [Next]_vars => SleepInv'
  BY SleepStep DEF PoolInv
<1>3. QED
  BY <1>1, <1>2, PoolInvariance, PTL DEF Spec

(* Once a closer goes on to join the workers none of them sleeps or is     *)
(* about to, for any number of workers and closers: no wake-up of the      *)
(* closer is lost.                                                         *)
THEOREM NoWorkerSleepsOn == Spec => []NobodySleepsOn
<1>1. SleepInv => NobodySleepsOn
  BY DEF SleepInv, ClosersSeen, NobodySleepsOn
<1>2. QED
  BY <1>1, SleepInvariance, PTL

(* An open pool of two or more workers never has all of them asleep over a *)
(* queued task, but for the instant before its submitter notifies.         *)
THEOREM SomebodyIsUp == Spec => []NoTaskSleeps
<1>1. SleepInv => NoTaskSleeps
  BY DEF SleepInv
<1>2. QED
  BY <1>1, SleepInvariance, PTL
=============================================================================
