-------------------------- MODULE ResourceAsioPool --------------------------
(***************************************************************************)
(* hku::ResourceAsioVersionPool (utilities/ResourceAsioPool.h): the pool   *)
(* for coroutines.  The idle list is lock-free, the limit is a CAS on a    *)
(* counter, and a coroutine that finds neither an idle resource nor room   *)
(* waits in a registry until a returned resource is handed to it, its      *)
(* timer fires, or it is destroyed.  The destructor takes back what is     *)
(* handed over and unclaimed, then waits for the counters to agree.        *)
(* Without changes of the version it is hku::ResourceAsioPool of the same  *)
(* file.  A version is only ever compared with m_version, which only grows:*)
(* what matters of it is whether it is still the current one.              *)
(* A step is one atomic access to what the threads share, with the local   *)
(* work around it; m_registeredWaiters is the length of the registry.      *)
(***************************************************************************)
EXTENDS Integers, Sequences, FiniteSets, SequencesExt

CONSTANTS Clients,     \* callers: a thread in get(), a coroutine in asyncGet()
          Resources, NoRes,
          GaveUp,      \* WaiterNode::gaveUp()
          MaxCount,    \* m_maxCount (0: no limit)
          MaxWaiters   \* m_maxWaiters

ASSUME ConstantsOK == /\ NoRes \notin Resources \cup Clients
                      /\ GaveUp \notin Resources \cup {NoRes}
                      /\ MaxCount \in Nat /\ MaxWaiters \in Nat \ {0}

VARIABLES m_count, m_idleCount,
          m_resourceList,   \* the idle resources; any of them may come first
          stale,            \* the resources whose version is not m_version
          outdated,         \* the calls whose copied version is not m_version
          queue,            \* WaiterRegistry::queue, the owners of the nodes
          handed,           \* `handed' of each client's latest node
          pc,               \* where each client is in the pool
          held,             \* the resource its shared_ptr owns
          inhand,           \* the resource the call it is in is busy with
          target,           \* the node a return is about to claim
          owner_at,         \* "idle", "setting" (under m_mutex), "releasing"
          dtor,             \* where the destructor is
          taken             \* the waiters the destructor has swapped out

counters == <<m_count, m_idleCount>>
versions == <<stale, outdated>>
owner    == <<owner_at, dtor, taken>>
vars == <<m_count, m_idleCount, m_resourceList, stale, outdated, queue,
          handed, pc, held, inhand, target, owner_at, dtor, taken>>

(* the part of get() and asyncGet() before a coroutine is suspended        *)
Getting == {"popped", "slot", "reserved", "making", "comaking", "joining",
            "joined", "repopped"}
Places  == Getting \cup
           {"out", "asleep", "holding", "leaving", "returning", "handing",
            "claiming", "pushing", "counting", "deleting", "notifying",
            "locking", "destroyed"}
DtorPlaces == {"none", "swap", "taking", "locked", "asleep", "gone"}

m_is_destroying   == dtor # "none"
m_destroy_waiting == dtor \in {"locked", "asleep"}

Go(c, p) == pc' = [pc EXCEPT ![c] = p]

Init == /\ m_count = 0 /\ m_idleCount = 0
        /\ m_resourceList = {}
        /\ stale = {} /\ outdated = {}
        /\ queue = <<>>
        /\ handed = [c \in Clients |-> GaveUp]
        /\ pc = [c \in Clients |-> "out"]
        /\ held = [c \in Clients |-> NoRes]
        /\ inhand = [c \in Clients |-> NoRes]
        /\ target = [c \in Clients |-> NoRes]
        /\ owner_at = "idle" /\ dtor = "none" /\ taken = <<>>

-----------------------------------------------------------------------------
(* takeIdleResource(), its pop: an idle resource, or none                  *)
Pop(c, found, none) ==
  /\ IF m_resourceList = {}
       THEN Go(c, none) /\ UNCHANGED <<m_resourceList, inhand>>
       ELSE \E r \in m_resourceList : /\ m_resourceList' = m_resourceList \ {r}
                                      /\ inhand' = [inhand EXCEPT ![c] = r]
                                      /\ Go(c, found)
  /\ UNCHANGED <<counters, versions, queue, handed, held, target, owner>>

(* get() and asyncGet() begin; nobody calls a pool that is being destroyed *)
Call(c) == /\ pc[c] = "out" /\ held[c] = NoRes
           /\ ~m_is_destroying
           /\ Pop(c, "popped", "slot")

Live == (m_resourceList \cup {held[c] : c \in Clients}
           \cup {inhand[c] : c \in Clients}
           \cup {handed[c] : c \in Clients}) \ {NoRes, GaveUp}

(* takeIdleResource() goes on: a stale resource is deleted and nothing is  *)
(* found                                                                   *)
TakeCurrent(c, next) ==
  /\ m_idleCount' = m_idleCount - 1
  /\ inhand[c] \notin stale
  /\ Go(c, next)
  /\ UNCHANGED <<m_count, stale>>

DeleteStale(c, next) ==
  /\ m_idleCount' = m_idleCount - 1
  /\ inhand[c] \in stale
  /\ m_count' = m_count - 1
  /\ stale' = stale \ {inhand[c]}
  /\ Go(c, next)

Took(c) == /\ pc[c] = "popped"
           /\ \/ /\ TakeCurrent(c, "out")
                 /\ held' = [held EXCEPT ![c] = inhand[c]]
              \/ DeleteStale(c, "slot") /\ UNCHANGED held
           /\ inhand' = [inhand EXCEPT ![c] = NoRes]
           /\ UNCHANGED <<m_resourceList, outdated, queue, handed, target,
                          owner>>

(* reserveResourceSlot(); without a slot get() fails and asyncGet() waits  *)
Room == MaxCount = 0 \/ m_count < MaxCount

Reserve(c) == /\ pc[c] = "slot"
              /\ \/ Room /\ m_count' = m_count + 1 /\ Go(c, "reserved")
                 \/ /\ ~Room
                    /\ Go(c, "out") \/ Go(c, "joining")
                    /\ UNCHANGED m_count
              /\ UNCHANGED <<m_idleCount, m_resourceList, versions, queue,
                             handed, held, inhand, target, owner>>

(* The parameters are copied under m_mutex, by asyncGet() ("comaking")     *)
(* together with the version.                                              *)
CopyParam(c) == /\ pc[c] = "reserved"
                /\ owner_at # "setting"
                /\ Go(c, "making") \/ Go(c, "comaking")
                /\ UNCHANGED <<counters, m_resourceList, versions, queue,
                               handed, held, inhand, target, owner>>

(* The resource is made: get() stamps it with the version of now, asyncGet *)
(* with the one it copied.  The constructor may throw.                     *)
Make(c) == /\ pc[c] \in {"making", "comaking"}
           /\ Go(c, "out")
           /\ \/ \E r \in Resources \ Live :
                   /\ held' = [held EXCEPT ![c] = r]
                   /\ stale' = IF c \in outdated THEN stale \cup {r} ELSE stale
                   /\ UNCHANGED m_count
              \/ m_count' = m_count - 1 /\ UNCHANGED <<held, stale>>
           /\ outdated' = outdated \ {c}
           /\ UNCHANGED <<m_idleCount, m_resourceList, queue, handed, inhand,
                          target, owner>>

-----------------------------------------------------------------------------
(* pushWaiter(): a new node joins the queue, if there is room.  A return   *)
(* that still holds this coroutine's last node holds one that gave up.     *)
PushWaiter(c) ==
  /\ pc[c] = "joining"
  /\ IF Len(queue) >= MaxWaiters
       THEN Go(c, "out") /\ UNCHANGED <<queue, handed, target>>
       ELSE /\ queue' = Append(queue, c)
            /\ handed' = [handed EXCEPT ![c] = NoRes]
            /\ target' = [d \in Clients |->
                             IF target[d] = c THEN NoRes ELSE target[d]]
            /\ Go(c, "joined")
  /\ UNCHANGED <<counters, m_resourceList, versions, held, inhand, owner>>

(* the second look at the idle list                                        *)
LookAgain(c) == pc[c] = "joined" /\ Pop(c, "repopped", "asleep")

TookAgain(c) == /\ pc[c] = "repopped"
                /\ \/ TakeCurrent(c, "holding") /\ UNCHANGED inhand
                   \/ /\ DeleteStale(c, "asleep")
                      /\ inhand' = [inhand EXCEPT ![c] = NoRes]
                /\ UNCHANGED <<m_resourceList, outdated, queue, handed, held,
                               target, owner>>

(* The coroutine resumes, its timer expired or cancelled: one exchange     *)
(* decides what it owns.                                                   *)
PeekOnly(c) == UNCHANGED handed

Exchange(c) == handed' = [handed EXCEPT ![c] = GaveUp]

Resume(c) == /\ pc[c] \in {"asleep", "holding"}
             /\ held' = [held EXCEPT ![c] =
                           IF handed[c] \in Resources THEN handed[c] ELSE NoRes]
             /\ Exchange(c)
             /\ Go(c, "leaving")
             /\ UNCHANGED <<counters, m_resourceList, versions, queue, inhand,
                            target, owner>>

(* A queue without the nodes of the clients ws.                            *)
Without(q, ws) ==
  LET kept[i \in 0 .. Len(q)] ==
        IF i = 0 THEN <<>>
        ELSE IF q[i] \in ws THEN kept[i - 1] ELSE Append(kept[i - 1], q[i])
  IN  kept[Len(q)]

(* removeWaiter(); then a coroutine that also holds an idle resource keeps *)
(* it, or gives it back for the one handed to it.                          *)
Leave(c) ==
  /\ pc[c] = "leaving"
  /\ queue' = Without(queue, {c})
  /\ \/ inhand[c] = NoRes /\ Go(c, "out") /\ UNCHANGED <<held, inhand>>
     \/ /\ inhand[c] # NoRes /\ held[c] = NoRes
        /\ held' = [held EXCEPT ![c] = inhand[c]]
        /\ inhand' = [inhand EXCEPT ![c] = NoRes]
        /\ Go(c, "out")
     \/ /\ inhand[c] # NoRes /\ held[c] # NoRes
        /\ Go(c, "returning") /\ UNCHANGED <<held, inhand>>
  /\ UNCHANGED <<counters, m_resourceList, versions, handed, target, owner>>

(* Its io_context is torn down: the frame of a suspended coroutine goes,   *)
(* and with it the only strong reference to its node.                      *)
DestroyCoroutine(c) == /\ pc[c] \in {"asleep", "holding"}
                       /\ Go(c, "destroyed")
                       /\ UNCHANGED <<counters, m_resourceList, versions,
                                      queue, handed, held, inhand, target,
                                      owner>>

-----------------------------------------------------------------------------
(* ResourceCloser: the last user of a resource lets go of it.              *)
Drop(c) == /\ pc[c] = "out" /\ held[c] # NoRes
           /\ inhand' = [inhand EXCEPT ![c] = held[c]]
           /\ held' = [held EXCEPT ![c] = NoRes]
           /\ Go(c, "returning")
           /\ UNCHANGED <<counters, m_resourceList, versions, queue, handed,
                          target, owner>>

(* returnResource()                                                        *)
ReturnResource(c) ==
  /\ pc[c] = "returning"
  /\ IF m_is_destroying \/ inhand[c] \in stale
       THEN Go(c, "deleting") ELSE Go(c, "handing")
  /\ UNCHANGED <<counters, m_resourceList, versions, queue, handed, held,
                 inhand, target, owner>>

(* weak_ptr::lock() fails: the coroutine is gone and no return is busy     *)
(* with its node.                                                          *)
Expired(w) == pc[w] = "destroyed" /\ \A d \in Clients : target[d] # w
Dead       == {w \in Clients : Expired(w) \/ handed[w] = GaveUp}
Waiting    == {i \in DOMAIN queue :
                 queue[i] \notin Dead /\ handed[queue[i]] = NoRes}
FirstWaiting == CHOOSE i \in Waiting : \A j \in Waiting : i <= j
Living(q)  == Without(q, Dead)

(* handToWaiter(): the first waiter nobody has handed anything to; the     *)
(* nodes of those who gave up or are gone are removed on the way.          *)
Scan(c) ==
  /\ pc[c] = "handing"
  /\ IF Waiting = {}
       THEN queue' = Living(queue) /\ Go(c, "pushing") /\ UNCHANGED target
       ELSE /\ queue' = Living(SubSeq(queue, 1, FirstWaiting - 1))
                          \o SubSeq(queue, FirstWaiting, Len(queue))
            /\ target' = [target EXCEPT ![c] = queue[FirstWaiting]]
            /\ Go(c, "claiming")
  /\ UNCHANGED <<counters, m_resourceList, versions, handed, held, inhand,
                 owner>>

OverwriteNode(w) == w # NoRes

StillWaiting(w) == w # NoRes /\ handed[w] = NoRes

(* the CAS on `handed'; a waiter that gave up meanwhile: look for the next *)
Claim(c) == /\ pc[c] = "claiming"
            /\ IF StillWaiting(target[c])
                 THEN /\ handed' = [handed EXCEPT ![target[c]] = inhand[c]]
                      /\ inhand' = [inhand EXCEPT ![c] = NoRes]
                      /\ Go(c, "out")
                 ELSE Go(c, "handing") /\ UNCHANGED <<handed, inhand>>
            /\ target' = [target EXCEPT ![c] = NoRes]
            /\ UNCHANGED <<counters, m_resourceList, versions, queue, held,
                           owner>>

(* into the idle list; when that fails the resource is deleted             *)
Push(c) == /\ pc[c] = "pushing"
           /\ \/ /\ m_resourceList' = m_resourceList \cup {inhand[c]}
                 /\ inhand' = [inhand EXCEPT ![c] = NoRes]
                 /\ Go(c, "counting")
              \/ Go(c, "deleting") /\ UNCHANGED <<m_resourceList, inhand>>
           /\ UNCHANGED <<counters, versions, queue, handed, held, target,
                          owner>>

CountIdle(c) == /\ pc[c] = "counting"
                /\ m_idleCount' = m_idleCount + 1
                /\ Go(c, "notifying")
                /\ UNCHANGED <<m_count, m_resourceList, versions, queue,
                               handed, held, inhand, target, owner>>

(* delete p; releaseResourceCount()                                        *)
Delete(c) == /\ pc[c] = "deleting"
             /\ inhand' = [inhand EXCEPT ![c] = NoRes]
             /\ m_count' = m_count - 1
             /\ stale' = stale \ {inhand[c]}
             /\ Go(c, "notifying")
             /\ UNCHANGED <<m_idleCount, m_resourceList, outdated, queue,
                            handed, held, target, owner>>

(* notifyCountChanged(): the flag, then the mutex and the notification.    *)
(* The destructor may be through by then: what is read from the freed pool *)
(* can be anything.                                                        *)
ReadWaiting(c) == /\ pc[c] = "notifying"
                  /\ \/ (m_destroy_waiting \/ dtor = "gone") /\ Go(c, "locking")
                     \/ ~m_destroy_waiting /\ Go(c, "out")
                  /\ UNCHANGED <<counters, m_resourceList, versions, queue,
                                 handed, held, inhand, target, owner>>

NotifyNobody == UNCHANGED dtor

NotifyOne == dtor' = IF dtor = "asleep" THEN "locked" ELSE dtor

Notify(c) == /\ pc[c] = "locking"
             /\ dtor # "locked"
             /\ Go(c, "out")
             /\ NotifyOne
             /\ UNCHANGED <<counters, m_resourceList, versions, queue, handed,
                            held, inhand, target, owner_at, taken>>

-----------------------------------------------------------------------------
(* setParam(), setParameter(): the version, then what is idle, all under   *)
(* m_mutex; releaseIdleResource() is public and takes no lock.             *)
NewVersion == stale' = Live /\ outdated' = {c \in Clients : pc[c] = "comaking"}

SetParam == /\ owner_at = "idle" /\ ~m_is_destroying
            /\ NewVersion
            /\ owner_at' = "setting"
            /\ UNCHANGED <<counters, m_resourceList, queue, handed, pc, held,
                           inhand, target, dtor, taken>>

(* incVersion(n) adds 1, whatever n is, and releases nothing.              *)
IncVersion == /\ owner_at = "idle" /\ ~m_is_destroying
              /\ NewVersion
              /\ UNCHANGED <<counters, m_resourceList, queue, handed, pc, held,
                             inhand, target, owner>>

ReleaseIdleResource == /\ owner_at = "idle" /\ ~m_is_destroying
                       /\ owner_at' = "releasing"
                       /\ UNCHANGED <<counters, m_resourceList, versions,
                                      queue, handed, pc, held, inhand, target,
                                      dtor, taken>>

(* one round of its loop; there is no destructor to notify                 *)
ReleaseOne ==
  /\ owner_at # "idle"
  /\ IF m_resourceList = {}
       THEN owner_at' = "idle" /\ UNCHANGED <<counters, m_resourceList, stale>>
       ELSE /\ \E r \in m_resourceList : /\ m_resourceList' = m_resourceList \ {r}
                                         /\ stale' = stale \ {r}
            /\ m_idleCount' = m_idleCount - 1
            /\ m_count' = m_count - 1
            /\ UNCHANGED owner_at
  /\ UNCHANGED <<outdated, queue, handed, pc, held, inhand, target, dtor,
                 taken>>

(* ~ResourceAsioVersionPool(): no call on the pool is running, but         *)
(* suspended coroutines and resources in use may be many.                  *)
DestructorBegins == /\ dtor = "none"
                    /\ owner_at = "idle"
                    /\ \A c \in Clients : pc[c] \notin Getting
                    /\ dtor' = "swap"
                    /\ UNCHANGED <<counters, m_resourceList, versions, queue,
                                   handed, pc, held, inhand, target, owner_at,
                                   taken>>

SwapWaiters == /\ dtor = "swap"
               /\ taken' = queue /\ queue' = <<>>
               /\ dtor' = "taking"
               /\ UNCHANGED <<counters, m_resourceList, versions, handed, pc,
                              held, inhand, target, owner_at>>

(* Each waiter gives up; a resource handed over and not yet claimed is     *)
(* deleted here.                                                           *)
ReleaseHanded(w) ==
  m_count' = IF handed[w] \in Resources THEN m_count - 1 ELSE m_count

TakeBack == /\ dtor = "taking"
            /\ taken # <<>>
            /\ taken' = Tail(taken)
            /\ IF Expired(Head(taken)) THEN UNCHANGED <<handed, m_count>>
               ELSE /\ handed' = [handed EXCEPT ![Head(taken)] = GaveUp]
                    /\ ReleaseHanded(Head(taken))
            /\ UNCHANGED <<m_idleCount, m_resourceList, versions, queue, pc,
                           held, inhand, target, owner_at, dtor>>

(* m_destroy_waiting is raised with the mutex locked ("locked").           *)
LockDestroyMutex == /\ dtor = "taking" /\ taken = <<>>
                    /\ dtor' = "locked"
                    /\ UNCHANGED <<counters, m_resourceList, versions, queue,
                                   handed, pc, held, inhand, target, owner_at,
                                   taken>>

AllIdle == m_count = m_idleCount

(* The predicate of the wait.  Its two loads can be one step: while the    *)
(* pool is destroyed m_count only falls and never below m_idleCount.       *)
Check == /\ dtor = "locked"
         /\ IF AllIdle THEN dtor' = "gone" /\ m_resourceList' = {}
                       ELSE dtor' = "asleep" /\ UNCHANGED m_resourceList
         /\ UNCHANGED <<counters, versions, queue, handed, pc, held, inhand,
                        target, owner_at, taken>>

-----------------------------------------------------------------------------
Continue(c) ==
  \/ Took(c) \/ Reserve(c) \/ CopyParam(c) \/ Make(c)
  \/ PushWaiter(c) \/ LookAgain(c) \/ TookAgain(c) \/ Resume(c) \/ Leave(c)
  \/ Drop(c) \/ ReturnResource(c) \/ Scan(c) \/ Claim(c) \/ Push(c)
  \/ CountIdle(c) \/ Delete(c) \/ ReadWaiting(c) \/ Notify(c)

Destructor == SwapWaiters \/ TakeBack \/ LockDestroyMutex \/ Check

Owner == \/ SetParam \/ IncVersion \/ ReleaseIdleResource \/ ReleaseOne
         \/ DestructorBegins

Next == \/ \E c \in Clients : Call(c) \/ Continue(c) \/ DestroyCoroutine(c)
        \/ Owner
        \/ Destructor

Spec == Init /\ [][Next]_vars

(* The program does not stop while one of its threads can run: users let   *)
(* go of what they hold and the timers of suspended coroutines fire.       *)
Running == Destructor \/ \E c \in Clients : Continue(c)

FairSpec == Spec /\ WF_vars(Running)

-----------------------------------------------------------------------------
TypeOK == /\ m_count \in Int /\ m_idleCount \in Int
          /\ m_resourceList \subseteq Resources
          /\ stale \subseteq Resources /\ outdated \subseteq Clients
          /\ queue \in Seq(Clients) /\ taken \in Seq(Clients)
          /\ handed \in [Clients -> Resources \cup {NoRes, GaveUp}]
          /\ pc \in [Clients -> Places]
          /\ held \in [Clients -> Resources \cup {NoRes}]
          /\ inhand \in [Clients -> Resources \cup {NoRes}]
          /\ target \in [Clients -> Clients \cup {NoRes}]
          /\ owner_at \in {"idle", "setting", "releasing"}
          /\ dtor \in DtorPlaces

At(places) == {c \in Clients : pc[c] \in places}

(* m_count is what the destructor waits for: every resource that exists,   *)
(* idle, held, being returned or handed over, each in one place only, and  *)
(* every slot reserved for one being made.  It keeps the limit.            *)
(* m_idleCount lags behind the list by the calls between the two.          *)
CountExact ==
  dtor # "gone" =>
    /\ m_count = Cardinality(Live)
                   + Cardinality(At({"reserved", "making", "comaking"}))
    /\ m_idleCount = Cardinality(m_resourceList)
                       + Cardinality(At({"popped", "repopped"}))
                       - Cardinality(At({"counting"}))
    /\ MaxCount = 0 \/ m_count <= MaxCount

(* A coroutine destroyed while it is suspended takes along what was handed *)
(* to it, and what it had found itself.                                    *)
Lost == ({inhand[c] : c \in At({"destroyed"})}
           \cup {handed[c] : c \in At({"destroyed"})}) \ {NoRes, GaveUp}

(* "At this time all the resources are in the idle queue" (line 687): when *)
(* the destructor frees the pool no resource is in use, on its way back or *)
(* lost, and nobody will touch the pool but a last notification.           *)
DestructorIsLast ==
  dtor = "gone" =>
    /\ Live = {}
    /\ \A c \in Clients : pc[c] \in {"out", "asleep", "leaving", "notifying",
                                     "locking", "destroyed"}

(* The destructor returns, by "all the active resources to be returned"    *)
(* (line 679), except when a destroyed coroutine has taken one with it.    *)
DestructorReturns == dtor = "swap" ~> (dtor = "gone" \/ Lost # {})
=============================================================================
