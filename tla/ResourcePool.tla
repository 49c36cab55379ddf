---------------------------- MODULE ResourcePool ----------------------------
(***************************************************************************)
(* hku::ResourcePool (utilities/ResourcePool.h): a mutex-protected pool    *)
(* with a FIFO of idle resources, a condition variable for blocked getters *)
(* and a destructor that may run while getters are blocked and resources   *)
(* are still held.                                                         *)
(*                                                                         *)
(* Every body that runs under m_mutex is one step.  What is not under the  *)
(* mutex is a step of its own: sleeping on m_cond, being woken, and the    *)
(* read of the closer's pool pointer that precedes returnResource.         *)
(* A call that throws or returns null before it changes anything is a      *)
(* stuttering step.                                                        *)
(***************************************************************************)
EXTENDS Integers, Sequences, FiniteSets, SequencesExt

CONSTANTS Clients,     \* threads that get, hold and drop one shared_ptr each
          Resources,   \* identities of the resources
          NoRes,       \* the null pointer
          PoolSizes,   \* values maxPoolSize(num) may be called with
          IdleSizes    \* values maxIdleSize(num) may be called with

ASSUME ConstantsOK == /\ IsFiniteSet(Clients)
                      /\ NoRes \notin Resources
                      /\ NoRes \notin Clients
                      /\ PoolSizes \subseteq Nat
                      /\ IdleSizes \subseteq Nat

VARIABLES m_maxPoolSize, m_maxIdelSize,
          m_count,         \* what the pool believes exists, idle or held
          m_resourceList,  \* the idle resources, oldest first
          m_closed,
          m_waiting,       \* getters inside m_cond's wait
          m_closer_set,    \* the clients whose closer is registered
          bound,           \* the clients whose closer's m_pool is not null
          held,            \* the resource of each client's shared_ptr
          pc,              \* where each client is
          timed,           \* whether its wait has a timeout
          phase            \* of the owner: "open", "closing" or "gone"

settings == <<m_maxPoolSize, m_maxIdelSize>>
life     == <<m_closed, phase>>
vars == <<m_maxPoolSize, m_maxIdelSize, m_count, m_resourceList, m_closed,
          m_waiting, m_closer_set, bound, held, pc, timed, phase>>

(* out: in no call; asleep: blocked on m_cond; awake: notified, about to   *)
(* take m_mutex again; expired: its timeout passed; returning: the closer  *)
(* has seen a non-null m_pool and is about to lock m_mutex.                *)
Places == {"out", "asleep", "awake", "expired", "returning"}

Holders == {c \in Clients : held[c] # NoRes}
Blocked == {c \in Clients : pc[c] \in {"asleep", "awake", "expired"}}
Idle    == ToSet(m_resourceList)
Live    == Idle \cup {held[c] : c \in Holders}

Init == /\ m_maxPoolSize \in PoolSizes
        /\ m_maxIdelSize \in IdleSizes
        /\ m_count = 0
        /\ m_resourceList = <<>>
        /\ m_closed = FALSE
        /\ m_waiting = 0
        /\ m_closer_set = {}
        /\ bound = {}
        /\ held  = [c \in Clients |-> NoRes]
        /\ pc    = [c \in Clients |-> "out"]
        /\ timed = [c \in Clients |-> FALSE]
        /\ phase = "open"

-----------------------------------------------------------------------------
AtLimit == m_maxPoolSize > 0 /\ m_count >= m_maxPoolSize

(* shared_ptr(p, ResourceCloser(this)) and its registration *)
HandOut(c, r) == /\ held' = [held EXCEPT ![c] = r]
                 /\ m_closer_set' = m_closer_set \cup {c}
                 /\ bound' = bound \cup {c}

TakeIdle(c) == /\ m_resourceList # <<>>
               /\ HandOut(c, Head(m_resourceList))
               /\ m_resourceList' = Tail(m_resourceList)
               /\ UNCHANGED m_count

(* delete p; m_count--  (n times) *)
DeleteTwice(n) == m_count' = m_count - 2 * n

DeleteUncounted(n) == UNCHANGED m_count

Delete(n) == m_count' = m_count - n

(* new ResourceType may throw: then nothing has changed. *)
Create(c) == /\ m_resourceList = <<>>
             /\ ~AtLimit
             /\ \E r \in Resources \ Live : HandOut(c, r)
             /\ m_count' = m_count + 1
             /\ UNCHANGED m_resourceList

CanCall(c) == pc[c] = "out" /\ held[c] = NoRes /\ ~m_closed

(* get(), and getWaitFor() when it does not have to wait *)
Get(c) == /\ CanCall(c)
          /\ TakeIdle(c) \/ Create(c)
          /\ UNCHANGED <<settings, life, m_waiting, pc, timed>>

(* getWaitFor(ms) at the limit; ms = 0 is getAndWait(): no timeout *)
GetWaitFor(c) == /\ CanCall(c)
                 /\ m_resourceList = <<>>
                 /\ AtLimit
                 /\ m_waiting' = m_waiting + 1
                 /\ pc' = [pc EXCEPT ![c] = "asleep"]
                 /\ \E finite \in BOOLEAN : timed' = [timed EXCEPT ![c] = finite]
                 /\ UNCHANGED <<settings, life, m_count, m_resourceList,
                                m_closer_set, bound, held>>

(* The deadline is absolute: it passes whether the getter sleeps or has    *)
(* just been notified.                                                     *)
Timeout(c) == /\ pc[c] \in {"asleep", "awake"}
              /\ timed[c]
              /\ pc' = [pc EXCEPT ![c] = "expired"]
              /\ UNCHANGED <<settings, life, m_count, m_resourceList, m_waiting,
                             m_closer_set, bound, held, timed>>

WaitPred == m_closed \/ m_resourceList # <<>>

(* A notified getter whose predicate is false blocks again. *)
SleepAgain(c) == /\ pc[c] = "awake"
                 /\ ~WaitPred
                 /\ pc' = [pc EXCEPT ![c] = "asleep"]
                 /\ UNCHANGED <<settings, life, m_count, m_resourceList, m_waiting,
                                m_closer_set, bound, held, timed>>

MayLeave(c) == \/ pc[c] = "awake" /\ WaitPred
               \/ pc[c] = "expired"

(* The wait ends: the pool was closed, the timeout passed with nothing     *)
(* idle (both throw), or the oldest idle resource is taken.                *)
LeaveWait(c) ==
  /\ MayLeave(c)
  /\ m_waiting' = m_waiting - 1
  /\ pc' = [pc EXCEPT ![c] = "out"]
  /\ timed' = [timed EXCEPT ![c] = FALSE]
  /\ IF m_closed \/ m_resourceList = <<>>
       THEN UNCHANGED <<m_count, m_resourceList, m_closer_set, bound, held>>
       ELSE TakeIdle(c)
  /\ UNCHANGED <<settings, life>>

Sleepers == {c \in Clients : pc[c] = "asleep"}
NotifyOne(at) == IF Sleepers = {} THEN at
                 ELSE [at EXCEPT ![CHOOSE c \in Sleepers : TRUE] = "awake"]

NotifyAll(at) == [c \in Clients |-> IF c \in Sleepers THEN "awake" ELSE at[c]]

-----------------------------------------------------------------------------
(* The last shared_ptr copy is dropped: ResourceCloser::operator() looks   *)
(* at m_pool without a lock.                                               *)
CloserSeesPool(c) == /\ pc[c] = "out"
                     /\ held[c] # NoRes
                     /\ c \in bound
                     /\ pc' = [pc EXCEPT ![c] = "returning"]
                     /\ UNCHANGED <<settings, life, m_count, m_resourceList,
                                    m_waiting, m_closer_set, bound, held, timed>>

CloserDeletes(c) == /\ pc[c] = "out"
                    /\ held[c] # NoRes
                    /\ c \notin bound
                    /\ held' = [held EXCEPT ![c] = NoRes]
                    /\ UNCHANGED <<settings, life, m_count, m_resourceList,
                                   m_waiting, m_closer_set, bound, pc, timed>>

(* returnResource(): kept while open and the idle list has room, else      *)
(* deleted, and only the first case wakes the getters.                     *)
ReturnResource(c) ==
  /\ pc[c] = "returning"
  /\ phase # "gone"
  /\ IF ~m_closed /\ Len(m_resourceList) < m_maxIdelSize
       THEN /\ m_resourceList' = Append(m_resourceList, held[c])
            /\ pc' = NotifyAll([pc EXCEPT ![c] = "out"])
            /\ UNCHANGED m_count
       ELSE /\ Delete(1)
            /\ pc' = [pc EXCEPT ![c] = "out"]
            /\ UNCHANGED m_resourceList
  /\ held' = [held EXCEPT ![c] = NoRes]
  /\ m_closer_set' = m_closer_set \ {c}
  /\ bound' = bound \ {c}
  /\ UNCHANGED <<settings, life, m_waiting, timed>>

(* releaseIdleResource() *)
ReleaseIdleResource == /\ phase = "open"
                       /\ m_resourceList # <<>>
                       /\ Delete(Len(m_resourceList))
                       /\ m_resourceList' = <<>>
                       /\ UNCHANGED <<settings, life, m_waiting, m_closer_set,
                                      bound, held, pc, timed>>

SetMaxPoolSize == /\ phase = "open"
                  /\ m_maxPoolSize' \in PoolSizes \ {m_maxPoolSize}
                  /\ UNCHANGED <<m_maxIdelSize, life, m_count, m_resourceList,
                                 m_waiting, m_closer_set, bound, held, pc, timed>>

SetMaxIdleSize == /\ phase = "open"
                  /\ m_maxIdelSize' \in IdleSizes \ {m_maxIdelSize}
                  /\ UNCHANGED <<m_maxPoolSize, life, m_count, m_resourceList,
                                 m_waiting, m_closer_set, bound, held, pc, timed>>

-----------------------------------------------------------------------------
(* the end of ~ResourcePool(): unbind the registered closers and delete    *)
(* what is idle (m_count is not touched any more)                          *)
Unbind  == bound' = bound \ m_closer_set
TearDown == /\ phase' = "gone"
            /\ Unbind
            /\ m_resourceList' = <<>>

WaitsForNobody == TRUE

NobodyWaits == m_waiting = 0

(* ~ResourcePool(): close, wake everybody, and if a getter is still inside *)
(* its wait let go of the mutex until it has left.                         *)
DestructorCloses ==
  /\ phase = "open"
  /\ m_closed' = TRUE
  /\ pc' = NotifyAll(pc)
  /\ IF NobodyWaits THEN TearDown
                    ELSE phase' = "closing" /\ UNCHANGED <<bound, m_resourceList>>
  /\ UNCHANGED <<settings, m_count, m_waiting, m_closer_set, held, timed>>

DestructorEnds == /\ phase = "closing"
                  /\ NobodyWaits
                  /\ TearDown
                  /\ UNCHANGED <<settings, m_closed, m_count, m_waiting,
                                 m_closer_set, held, pc, timed>>

Client(c) == \/ Get(c) \/ GetWaitFor(c) \/ Timeout(c) \/ SleepAgain(c)
             \/ LeaveWait(c) \/ CloserSeesPool(c) \/ CloserDeletes(c)
             \/ ReturnResource(c)

Owner == \/ ReleaseIdleResource \/ SetMaxPoolSize \/ SetMaxIdleSize
         \/ DestructorCloses \/ DestructorEnds

Next == (\E c \in Clients : Client(c)) \/ Owner

Spec == Init /\ [][Next]_vars

(* Threads run, timeouts fire, a holder drops its pointer in the end, and  *)
(* the destructor, once started, goes on as soon as it can.                *)
Fairness == /\ \A c \in Clients :
                  /\ WF_vars(SleepAgain(c) \/ LeaveWait(c))
                  /\ WF_vars(Timeout(c))
                  /\ WF_vars(CloserSeesPool(c) \/ CloserDeletes(c) \/ ReturnResource(c))
            /\ WF_vars(DestructorEnds)

FairSpec == Spec /\ Fairness

-----------------------------------------------------------------------------
TypeOK ==
  /\ m_maxPoolSize \in PoolSizes
  /\ m_maxIdelSize \in IdleSizes
  /\ m_count \in Nat
  /\ m_resourceList \in Seq(Resources)
  /\ m_closed \in BOOLEAN
  /\ m_waiting \in Nat
  /\ m_closer_set \in SUBSET Clients
  /\ bound \in SUBSET Clients
  /\ held  \in [Clients -> Resources \cup {NoRes}]
  /\ pc    \in [Clients -> Places]
  /\ timed \in [Clients -> BOOLEAN]
  /\ phase \in {"open", "closing", "gone"}

(* No resource is idle twice, idle and held, or held by two clients.       *)
Exclusive ==
  /\ IsInjective(m_resourceList)
  /\ \A c \in Holders : held[c] \notin Idle
  /\ \A c, d \in Holders : held[c] = held[d] => c = d

(* The counter get() compares with the maximum is exact: whatever order    *)
(* gets, returns, releases and closing come in, it is the number of idle   *)
(* plus held resources.                                                    *)
CountExact == phase # "gone" =>
                 m_count = Len(m_resourceList) + Cardinality(Holders)

(* No lost wakeup: a getter never sleeps while an idle resource is there   *)
(* to be taken, nor once the pool is closed.                               *)
NoSleeperMissedWakeup == m_resourceList # <<>> \/ m_closed => Sleepers = {}

(* The destructor ends only when no getter is inside the wait any more, so *)
(* none touches the destroyed pool.                                        *)
DestructorWaitsForGetters == /\ m_waiting = Cardinality(Blocked)
                             /\ phase = "gone" => Blocked = {}

(* Once the pool is gone no closer still points to it: a pointer dropped   *)
(* later deletes its resource by itself.                                   *)
NoCloserPointsToDestroyedPool == phase = "gone" => bound = {}

(* What the invariants above rest on: the registered closers are those of  *)
(* the holders, and a blocked getter holds nothing.                        *)
Bookkeeping ==
  /\ m_closed <=> phase # "open"
  /\ \A c \in Clients : pc[c] = "returning" => held[c] # NoRes
  /\ \A c \in Blocked : held[c] = NoRes
  /\ phase # "gone" => bound = Holders /\ m_closer_set = Holders

IInv == /\ TypeOK
        /\ Exclusive
        /\ CountExact
        /\ NoSleeperMissedWakeup
        /\ DestructorWaitsForGetters
        /\ NoCloserPointsToDestroyedPool
        /\ Bookkeeping

(* The pool implements the contract of every pool: exclusive ownership and *)
(* creation only below the limit.                                          *)
HolderOf(h, r) == IF \E c \in Clients : h[c] = r
                    THEN CHOOSE c \in Clients : h[c] = r
                    ELSE NoRes
Contract == INSTANCE PoolContract
              WITH exists <- Live, limit <- m_maxPoolSize, Nobody <- NoRes,
                   owner <- [r \in Resources |-> HolderOf(held, r)]
ImplementsContract == Contract!Spec

(* ~ResourcePool() returns: every blocked getter leaves once it is closed. *)
DestructorTerminates == phase = "closing" ~> phase = "gone"

(* getAndWait() "blocks and waits ... when the maximum number of the       *)
(* resources allowed is exceeded" (line 230): a getter does not stay       *)
(* blocked for ever with the pool below its maximum.                       *)
BlocksOnlyAtLimit ==
  \A c \in Clients : ~ <>[](c \in Blocked /\ ~AtLimit)
=============================================================================
