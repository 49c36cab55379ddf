------------------------- MODULE ResourceVersionPool -------------------------
(***************************************************************************)
(* hku::ResourceVersionPool (utilities/ResourcePool.h): the mutex pool     *)
(* whose resources carry the version they were made under.  Changing the   *)
(* parameters raises the version, releases what is idle, and makes the     *)
(* pool refuse what comes back with another version.                       *)
(* As in ResourcePool, one step is one body under m_mutex.                 *)
(***************************************************************************)
EXTENDS Integers, Sequences, FiniteSets, SequencesExt

CONSTANTS Clients, Resources, NoRes,
          Params,        \* values of the pool's parameter object
          PoolSizes,     \* values maxPoolSize(num) may be called with (0: no limit)
          IdleSizes,     \* values maxIdleSize(num) may be called with
          MaxVersion     \* bound of the model: the greatest m_version

ASSUME ConstantsOK == /\ IsFiniteSet(Clients)
                      /\ NoRes \notin Resources \cup Clients
                      /\ Params # {}
                      /\ PoolSizes \subseteq Nat /\ IdleSizes \subseteq Nat
                      /\ MaxVersion \in Nat

VARIABLES m_maxPoolSize, m_maxIdelSize,
          m_param, m_version,
          made,            \* version and parameter each resource was made with
          m_count, m_resourceList, m_closed, m_waiting, m_closer_set,
          bound, held, pc, timed, phase

settings == <<m_maxPoolSize, m_maxIdelSize>>
pvars == <<m_param, m_version>>
life  == <<m_closed, phase>>
vars  == <<m_maxPoolSize, m_maxIdelSize, m_param, m_version, made, m_count, m_resourceList,
           m_closed, m_waiting, m_closer_set, bound, held, pc, timed, phase>>

Places  == {"out", "asleep", "awake", "expired", "returning"}
Holders == {c \in Clients : held[c] # NoRes}
Blocked == {c \in Clients : pc[c] \in {"asleep", "awake", "expired"}}
Live    == ToSet(m_resourceList) \cup {held[c] : c \in Holders}

Init == /\ m_maxPoolSize \in PoolSizes
        /\ m_maxIdelSize \in IdleSizes
        /\ m_param \in Params
        /\ m_version = 0
        /\ made \in [Resources -> {[version |-> 0, param |-> m_param]}]
        /\ m_count = 0
        /\ m_resourceList = <<>>
        /\ m_closed = FALSE
        /\ m_waiting = 0
        /\ m_closer_set = {}
        /\ bound = {}
        /\ held  = [c \in Clients |-> NoRes]
        /\ pc    = [c \in Clients |-> "out"]
        /\ timed = [c \in Clients |-> FALSE]
        /\ phase = "open"

-----------------------------------------------------------------------------
HandOut(c, r) == /\ held' = [held EXCEPT ![c] = r]
                 /\ m_closer_set' = m_closer_set \cup {c}
                 /\ bound' = bound \cup {c}

Current == {i \in DOMAIN m_resourceList : made[m_resourceList[i]].version = m_version}

(* _popCurrentIdle(): the stale entries before the first current one are   *)
(* deleted; with no current one the whole list is.                         *)
PopCurrentIdle(c) ==
  /\ Current # {}
  /\ LET i == CHOOSE j \in Current : \A k \in Current : j <= k IN
       /\ HandOut(c, m_resourceList[i])
       /\ m_resourceList' = SubSeq(m_resourceList, i + 1, Len(m_resourceList))
       /\ m_count' = m_count - (i - 1)
       /\ UNCHANGED made

DiscardStale == /\ Current = {}
                /\ m_resourceList' = <<>>
                /\ m_count' = m_count - Len(m_resourceList)

(* the count get() compares with the limit once the stale ones are gone    *)
CountLeft == m_count - Len(m_resourceList)
Full == m_maxPoolSize > 0 /\ CountLeft >= m_maxPoolSize

StampOld(r) == made' = [made EXCEPT ![r] = [version |-> 0, param |-> m_param]]

StampNew(r) == made' = [made EXCEPT ![r] = [version |-> m_version, param |-> m_param]]

Create(c) == /\ Current = {}
             /\ \E r \in Resources \ Live : HandOut(c, r) /\ StampNew(r)
             /\ m_resourceList' = <<>>
             /\ m_count' = CountLeft + 1

CanCall(c) == pc[c] = "out" /\ held[c] = NoRes /\ ~m_closed

(* get(), and getWaitFor() when it does not have to wait; when it returns  *)
(* null or the constructor throws, only the stale entries are gone.        *)
Get(c) == /\ CanCall(c)
          /\ \/ PopCurrentIdle(c)
             \/ ~Full /\ Create(c)
             \/ DiscardStale /\ UNCHANGED <<made, m_closer_set, bound, held>>
          /\ UNCHANGED <<settings, pvars, life, m_waiting, pc, timed>>

GetWaitFor(c) == /\ CanCall(c)
                 /\ DiscardStale
                 /\ Full
                 /\ m_waiting' = m_waiting + 1
                 /\ pc' = [pc EXCEPT ![c] = "asleep"]
                 /\ \E finite \in BOOLEAN : timed' = [timed EXCEPT ![c] = finite]
                 /\ UNCHANGED <<settings, pvars, made, life, m_closer_set, bound, held>>

Timeout(c) == /\ pc[c] \in {"asleep", "awake"}
              /\ timed[c]
              /\ pc' = [pc EXCEPT ![c] = "expired"]
              /\ UNCHANGED <<settings, pvars, made, life, m_count, m_resourceList, m_waiting,
                             m_closer_set, bound, held, timed>>

AnyWakeup == m_waiting > 0

WaitPred == m_closed \/ m_resourceList # <<>>

SleepAgain(c) == /\ pc[c] = "awake"
                 /\ ~WaitPred
                 /\ pc' = [pc EXCEPT ![c] = "asleep"]
                 /\ UNCHANGED <<settings, pvars, made, life, m_count, m_resourceList, m_waiting,
                                m_closer_set, bound, held, timed>>

(* After the wait: closed throws; else the first current idle resource;    *)
(* else a timed getter, or any getter at the limit, throws a timeout, and  *)
(* the rest make a new one.                                                *)
LeaveWait(c) ==
  /\ \/ pc[c] = "awake" /\ WaitPred
     \/ pc[c] = "expired"
  /\ m_waiting' = m_waiting - 1
  /\ pc' = [pc EXCEPT ![c] = "out"]
  /\ timed' = [timed EXCEPT ![c] = FALSE]
  /\ IF m_closed THEN UNCHANGED <<made, m_count, m_resourceList, m_closer_set, bound, held>>
     ELSE \/ PopCurrentIdle(c)
          \/ /\ timed[c] \/ CountLeft >= m_maxPoolSize
             /\ DiscardStale
             /\ UNCHANGED <<made, m_closer_set, bound, held>>
          \/ ~timed[c] /\ CountLeft < m_maxPoolSize /\ Create(c)
  /\ UNCHANGED <<settings, pvars, life>>

Sleepers == {c \in Clients : pc[c] = "asleep"}
NotifyAll(at) == [c \in Clients |-> IF c \in Sleepers THEN "awake" ELSE at[c]]

-----------------------------------------------------------------------------
CloserSeesPool(c) == /\ pc[c] = "out"
                     /\ held[c] # NoRes
                     /\ c \in bound
                     /\ pc' = [pc EXCEPT ![c] = "returning"]
                     /\ UNCHANGED <<settings, pvars, made, life, m_count, m_resourceList,
                                    m_waiting, m_closer_set, bound, held, timed>>

CloserDeletes(c) == /\ pc[c] = "out"
                    /\ held[c] # NoRes
                    /\ c \notin bound
                    /\ held' = [held EXCEPT ![c] = NoRes]
                    /\ UNCHANGED <<settings, pvars, made, life, m_count, m_resourceList,
                                   m_waiting, m_closer_set, bound, pc, timed>>

Acceptable(r) == /\ ~m_closed
                 /\ made[r].version = m_version
                 /\ Len(m_resourceList) < m_maxIdelSize

(* returnResource(): a resource of another version is never taken back.    *)
ReturnResource(c) ==
  /\ pc[c] = "returning"
  /\ phase # "gone"
  /\ IF Acceptable(held[c])
       THEN /\ m_resourceList' = Append(m_resourceList, held[c])
            /\ pc' = NotifyAll([pc EXCEPT ![c] = "out"])
            /\ UNCHANGED m_count
       ELSE /\ m_count' = m_count - 1
            /\ pc' = [pc EXCEPT ![c] = "out"]
            /\ UNCHANGED m_resourceList
  /\ held' = [held EXCEPT ![c] = NoRes]
  /\ m_closer_set' = m_closer_set \ {c}
  /\ bound' = bound \ {c}
  /\ UNCHANGED <<settings, pvars, made, life, m_waiting, timed>>

(* _releaseIdleResourceNoLock(): every idle resource is deleted; sleeping  *)
(* getters are not woken.                                                  *)
ReleaseTwice == m_resourceList' = <<>> /\ m_count' = m_count - 2 * Len(m_resourceList)

ReleaseIdleNoLock == /\ m_resourceList' = <<>>
                     /\ m_count' = m_count - Len(m_resourceList)

ReleaseIdleResource == /\ phase = "open"
                       /\ m_resourceList # <<>>
                       /\ ReleaseIdleNoLock
                       /\ UNCHANGED <<settings, pvars, made, life, m_waiting, m_closer_set,
                                      bound, held, pc, timed>>

RaiseVersion(n) == m_version + n <= MaxVersion /\ m_version' = m_version + n

(* maxPoolSize(num), maxIdleSize(num): at any moment, while getters wait    *)
(* too, and nobody is notified.                                            *)
SetMaxPoolSize == /\ phase = "open"
                  /\ m_maxPoolSize' \in PoolSizes \ {m_maxPoolSize}
                  /\ UNCHANGED <<m_maxIdelSize, pvars, made, life, m_count, m_resourceList,
                                 m_waiting, m_closer_set, bound, held, pc, timed>>

SetMaxIdleSize == /\ phase = "open"
                  /\ m_maxIdelSize' \in IdleSizes \ {m_maxIdelSize}
                  /\ UNCHANGED <<m_maxPoolSize, pvars, made, life, m_count, m_resourceList,
                                 m_waiting, m_closer_set, bound, held, pc, timed>>

(* setParam(name, value): an equal value changes nothing (a stutter).      *)
SetParam == /\ phase = "open"
            /\ m_param' \in Params \ {m_param}
            /\ RaiseVersion(1)
            /\ ReleaseIdleNoLock
            /\ UNCHANGED <<settings, made, life, m_waiting, m_closer_set, bound, held,
                           pc, timed>>

(* setParameter(param) raises the version even for an equal parameter;     *)
(* incVersion(n) raises it alone.                                          *)
SetParameter == /\ phase = "open"
                /\ m_param' \in Params
                /\ RaiseVersion(1)
                /\ ReleaseIdleNoLock
                /\ UNCHANGED <<settings, made, life, m_waiting, m_closer_set, bound, held,
                               pc, timed>>

IncVersion == /\ phase = "open"
              /\ \E n \in 1..MaxVersion : RaiseVersion(n)
              /\ ReleaseIdleNoLock
              /\ UNCHANGED <<settings, m_param, made, life, m_waiting, m_closer_set, bound,
                             held, pc, timed>>

-----------------------------------------------------------------------------
TearDown == /\ phase' = "gone"
            /\ bound' = bound \ m_closer_set
            /\ m_resourceList' = <<>>

DestructorCloses ==
  /\ phase = "open"
  /\ m_closed' = TRUE
  /\ pc' = NotifyAll(pc)
  /\ IF m_waiting = 0 THEN TearDown
                      ELSE phase' = "closing" /\ UNCHANGED <<bound, m_resourceList>>
  /\ UNCHANGED <<settings, pvars, made, m_count, m_waiting, m_closer_set, held, timed>>

DestructorEnds == /\ phase = "closing"
                  /\ m_waiting = 0
                  /\ TearDown
                  /\ UNCHANGED <<settings, pvars, made, m_closed, m_count, m_waiting,
                                 m_closer_set, held, pc, timed>>

Client(c) == \/ Get(c) \/ GetWaitFor(c) \/ Timeout(c) \/ SleepAgain(c)
             \/ LeaveWait(c) \/ CloserSeesPool(c) \/ CloserDeletes(c)
             \/ ReturnResource(c)

Owner == \/ ReleaseIdleResource \/ SetMaxPoolSize \/ SetMaxIdleSize
         \/ SetParam \/ SetParameter \/ IncVersion
         \/ DestructorCloses \/ DestructorEnds

Next == (\E c \in Clients : Client(c)) \/ Owner

Spec == Init /\ [][Next]_vars

-----------------------------------------------------------------------------
(* "an old-version resource must never be handed out" (line 635): whoever  *)
(* gets a resource, waiting or not, gets one made with the parameters the  *)
(* pool has at that moment.                                                *)
HandedOutIsCurrent ==
  [][\A c \in Clients : held[c] = NoRes /\ held'[c] # NoRes =>
       made'[held'[c]] = [version |-> m_version, param |-> m_param]]_vars

(* getAndWait() never throws the timeout exception: a getter without       *)
(* timeout leaves its wait with a resource unless the pool is closed,      *)
(* also when the limit was changed during the wait, to 0 (unlimited) too,  *)
(* which line 569 compares with the count as if nothing were allowed.      *)
AndWaitNeverTimesOut ==
  [][\A c \in Clients : c \in Blocked /\ ~timed[c] /\ pc'[c] = "out" =>
       held'[c] # NoRes \/ m_closed]_vars

(* The versioned pool keeps the contract of every pool.                    *)
HolderOf(h, r) == IF \E c \in Clients : h[c] = r
                    THEN CHOOSE c \in Clients : h[c] = r
                    ELSE NoRes
Contract == INSTANCE PoolContract
              WITH exists <- Live, limit <- m_maxPoolSize, Nobody <- NoRes,
                   owner <- [r \in Resources |-> HolderOf(held, r)]
ImplementsContract == Contract!Spec
=============================================================================
