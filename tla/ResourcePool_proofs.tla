------------------------ MODULE ResourcePool_proofs ------------------------
(***************************************************************************)
(* Proofs about hku::ResourcePool: the inductive invariant IInv, hence the *)
(* safety invariants of MCResourcePool, for any number of clients and any  *)
(* limits.                                                                 *)
(***************************************************************************)
EXTENDS ResourcePool, FiniteSetTheorems, TLAPS

(* The holders and the blocked getters are finitely many.                  *)
LEMMA Finite == /\ IsFiniteSet(Holders) /\ Cardinality(Holders) \in Nat
                /\ IsFiniteSet(Blocked) /\ Cardinality(Blocked) \in Nat
<1>1. IsFiniteSet(Clients)
  BY ConstantsOK
<1>2. Holders \in SUBSET Clients /\ Blocked \in SUBSET Clients
  BY DEF Holders, Blocked
<1>3. IsFiniteSet(Holders) /\ IsFiniteSet(Blocked)
  BY <1>1, <1>2, FS_Subset
<1>4. QED
  BY <1>3, FS_CardinalityType

(* A client that gets a resource is one holder more.                       *)
LEMMA OneHolderMore ==
  ASSUME NEW c \in Clients, NEW r \in Resources, TypeOK, held[c] = NoRes,
         held' = [held EXCEPT ![c] = r]
  PROVE  /\ Holders' = Holders \cup {c}
         /\ Cardinality(Holders') = Cardinality(Holders) + 1
         /\ Cardinality(Holders') \in Nat
<1>1. Holders' = Holders \cup {c} /\ c \notin Holders
  BY ConstantsOK DEF Holders, TypeOK
<1>2. Cardinality(Holders') = Cardinality(Holders) + 1
  BY <1>1, Finite, FS_AddElement
<1>3. QED
  BY <1>1, <1>2, Finite

(* A client that drops its resource is one holder less.                    *)
LEMMA OneHolderLess ==
  ASSUME NEW c \in Clients, TypeOK, held[c] # NoRes,
         held' = [held EXCEPT ![c] = NoRes]
  PROVE  /\ Holders' = Holders \ {c}
         /\ Cardinality(Holders') = Cardinality(Holders) - 1
         /\ Cardinality(Holders') \in Nat
<1>1. Holders' = Holders \ {c} /\ c \in Holders
  BY DEF Holders, TypeOK
<1>2. QED
  BY <1>1, Finite, FS_RemoveElement, FS_CardinalityType

(* A getter that leaves the wait is one blocked client less.               *)
LEMMA OneBlockedLess ==
  ASSUME NEW c \in Blocked, TypeOK, pc' = [pc EXCEPT ![c] = "out"]
  PROVE  /\ Blocked' = Blocked \ {c}
         /\ Cardinality(Blocked') = Cardinality(Blocked) - 1
         /\ Cardinality(Blocked') \in Nat
<1>1. Blocked' = Blocked \ {c}
  BY DEF Blocked, TypeOK
<1>2. QED
  BY <1>1, Finite, FS_RemoveElement, FS_CardinalityType

(* Waking every sleeper leaves nobody asleep and nobody out of the wait.   *)
LEMMA AfterNotifyAll ==
  ASSUME NEW at \in [Clients -> Places],
         \A c \in Clients : at[c] = "asleep" <=> pc[c] = "asleep"
  PROVE  /\ NotifyAll(at) \in [Clients -> Places]
         /\ \A c \in Clients : /\ NotifyAll(at)[c] # "asleep"
                               /\ pc[c] = "asleep" => NotifyAll(at)[c] = "awake"
                               /\ pc[c] # "asleep" => NotifyAll(at)[c] = at[c]
BY DEF NotifyAll, Sleepers, Places

LEMMA InitIInv == Init => IInv
<1> SUFFICES ASSUME Init PROVE IInv
  OBVIOUS
<1>1. Holders = {} /\ Blocked = {} /\ Sleepers = {}
  BY DEF Init, Holders, Blocked, Sleepers
<1>2. Cardinality(Holders) = 0 /\ Cardinality(Blocked) = 0
  BY <1>1, FS_EmptySet
<1>3. TypeOK
  <2>1. m_resourceList \in Seq(Resources)
    BY DEF Init
  <2>2. held \in [Clients -> Resources \cup {NoRes}] /\ pc \in [Clients -> Places]
    BY DEF Init, Places
  <2>3. timed \in [Clients -> BOOLEAN]
    BY DEF Init
  <2>4. m_closer_set \in SUBSET Clients /\ bound \in SUBSET Clients
    BY DEF Init
  <2>5. QED
    BY <2>1, <2>2, <2>3, <2>4 DEF Init, TypeOK
<1>4. QED
  BY <1>1, <1>2, <1>3 DEF Init, IInv, Exclusive, CountExact, NoSleeperMissedWakeup,
     DestructorWaitsForGetters, NoCloserPointsToDestroyedPool, Bookkeeping, IsInjective

-----------------------------------------------------------------------------
(* Taking the oldest idle resource: it leaves the list and has one holder. *)
LEMMA TakeIdleStep ==
  ASSUME IInv, NEW c \in Clients, held[c] = NoRes, TakeIdle(c)
  PROVE  /\ m_resourceList' \in Seq(Resources)
         /\ held' \in [Clients -> Resources \cup {NoRes}]
         /\ Exclusive'
         /\ Len(m_resourceList') + Cardinality(Holders')
              = Len(m_resourceList) + Cardinality(Holders)
         /\ Cardinality(Holders') \in Nat
         /\ Holders' = Holders \cup {c}
<1> DEFINE r == Head(m_resourceList)
<1>1. /\ m_resourceList \in Seq(Resources) /\ m_resourceList # <<>>
      /\ held \in [Clients -> Resources \cup {NoRes}]
      /\ m_resourceList' = Tail(m_resourceList)
      /\ held' = [held EXCEPT ![c] = r]
      /\ TypeOK
  BY DEF IInv, TypeOK, TakeIdle, HandOut
<1>2. /\ r \in Resources
      /\ m_resourceList' \in Seq(Resources)
      /\ Len(m_resourceList') = Len(m_resourceList) - 1
      /\ Len(m_resourceList) \in Nat
      /\ r = m_resourceList[1]
      /\ \A i \in DOMAIN m_resourceList' : m_resourceList'[i] = m_resourceList[i + 1]
      /\ DOMAIN m_resourceList' = 1 .. Len(m_resourceList) - 1
      /\ DOMAIN m_resourceList = 1 .. Len(m_resourceList)
  BY <1>1
<1>3. /\ Holders' = Holders \cup {c} /\ Cardinality(Holders') = Cardinality(Holders) + 1
      /\ Cardinality(Holders') \in Nat
  BY <1>1, <1>2, OneHolderMore
<1>4. held' \in [Clients -> Resources \cup {NoRes}]
  BY <1>1, <1>2
<1>5. Exclusive'
  <2>1. \A i, j \in DOMAIN m_resourceList : m_resourceList[i] = m_resourceList[j] => i = j
    BY DEF IInv, Exclusive, IsInjective
  <2>2. /\ \A d \in Holders : \A i \in DOMAIN m_resourceList : held[d] # m_resourceList[i]
        /\ \A d, e \in Holders : held[d] = held[e] => d = e
    BY DEF IInv, Exclusive, Idle, ToSet
  <2>3. IsInjective(m_resourceList')
    BY <1>2, <2>1 DEF IsInjective
  <2>4. \A i \in DOMAIN m_resourceList' : m_resourceList'[i] # r
    BY <1>2, <2>1
  <2>5. ASSUME NEW d \in Holders' PROVE held'[d] \notin ToSet(m_resourceList')
    BY <1>1, <1>2, <1>3, <2>2, <2>4 DEF ToSet, Holders
  <2>6. ASSUME NEW d \in Holders', NEW e \in Holders', held'[d] = held'[e] PROVE d = e
    BY <1>1, <1>2, <1>3, <2>2, <2>6 DEF Holders
  <2>7. QED
    BY <2>3, <2>5, <2>6 DEF Exclusive, Idle
<1>6. Len(m_resourceList') + Cardinality(Holders') = Len(m_resourceList) + Cardinality(Holders)
  BY <1>2, <1>3, Finite
<1>7. QED
  BY <1>2, <1>3, <1>4, <1>5, <1>6

(* A new resource is nobody's and not idle.                                *)
LEMMA CreateStep ==
  ASSUME IInv, NEW c \in Clients, held[c] = NoRes, Create(c)
  PROVE  /\ held' \in [Clients -> Resources \cup {NoRes}]
         /\ Exclusive'
         /\ m_count' = m_count + 1
         /\ m_resourceList' = m_resourceList
         /\ Cardinality(Holders') = Cardinality(Holders) + 1
         /\ Cardinality(Holders') \in Nat
         /\ Holders' = Holders \cup {c}
<1>1. PICK r \in Resources \ Live : held' = [held EXCEPT ![c] = r]
  BY DEF Create, HandOut
<1>2. /\ TypeOK
      /\ held \in [Clients -> Resources \cup {NoRes}]
      /\ m_resourceList' = m_resourceList
      /\ m_count' = m_count + 1
  BY DEF IInv, TypeOK, Create
<1>3. /\ Holders' = Holders \cup {c} /\ Cardinality(Holders') = Cardinality(Holders) + 1
      /\ Cardinality(Holders') \in Nat
  BY <1>1, <1>2, OneHolderMore
<1>4. r \notin Idle /\ \A d \in Holders : held[d] # r
  BY <1>1 DEF Live
<1>5. Idle' = Idle
  BY <1>2 DEF Idle
<1>6. Exclusive'
  <2>1. IsInjective(m_resourceList')
    BY <1>2 DEF IInv, Exclusive
  <2>2. ASSUME NEW d \in Holders' PROVE held'[d] \notin Idle'
    BY <1>1, <1>2, <1>3, <1>4, <1>5 DEF IInv, Exclusive, Holders
  <2>3. ASSUME NEW d \in Holders', NEW e \in Holders', held'[d] = held'[e] PROVE d = e
    BY <1>1, <1>2, <1>3, <1>4, <2>3 DEF IInv, Exclusive, Holders
  <2>4. QED
    BY <2>1, <2>2, <2>3 DEF Exclusive
<1>7. QED
  BY <1>1, <1>2, <1>3, <1>6

LEMMA GetStep == ASSUME IInv, NEW c \in Clients, Get(c) PROVE IInv'
<1>1. /\ held[c] = NoRes /\ pc[c] = "out" /\ ~m_closed
      /\ m_closer_set' = m_closer_set \cup {c} /\ bound' = bound \cup {c}
      /\ UNCHANGED <<settings, life, m_waiting, pc, timed>>
  BY DEF Get, CanCall, TakeIdle, Create, HandOut
<1>2. /\ held' \in [Clients -> Resources \cup {NoRes}]
      /\ m_resourceList' \in Seq(Resources)
      /\ Exclusive'
      /\ Holders' = Holders \cup {c}
      /\ Cardinality(Holders') \in Nat
      /\ m_count' + Len(m_resourceList) + Cardinality(Holders)
           = m_count + Len(m_resourceList') + Cardinality(Holders')
      /\ m_count' \in Nat
      /\ m_resourceList' # <<>> => m_resourceList # <<>>
  <2>1. CASE TakeIdle(c)
    <3>1. m_count' = m_count /\ m_resourceList # <<>> /\ m_count \in Nat
      BY <2>1 DEF TakeIdle, IInv, TypeOK
    <3>2. /\ m_resourceList' \in Seq(Resources)
          /\ held' \in [Clients -> Resources \cup {NoRes}]
          /\ Exclusive'
          /\ Len(m_resourceList') + Cardinality(Holders')
               = Len(m_resourceList) + Cardinality(Holders)
          /\ Cardinality(Holders') \in Nat
          /\ Holders' = Holders \cup {c}
      BY <1>1, <2>1, TakeIdleStep
    <3>3. m_resourceList \in Seq(Resources)
      BY DEF IInv, TypeOK
    <3>4. m_count' + Len(m_resourceList) + Cardinality(Holders)
            = m_count + Len(m_resourceList') + Cardinality(Holders')
      BY <3>1, <3>2, <3>3, Finite
    <3>5. QED
      BY <3>1, <3>2, <3>4
  <2>2. CASE Create(c)
    BY <1>1, <2>2, CreateStep, Finite DEF Create, IInv, TypeOK
  <2>3. QED
    BY <2>1, <2>2 DEF Get
<1>3. Blocked' = Blocked /\ Sleepers' = Sleepers
  BY <1>1 DEF Blocked, Sleepers
<1>4. TypeOK'
  BY <1>1, <1>2 DEF IInv, TypeOK, settings, life
<1>5. CountExact'
  <2>1. /\ phase' = phase /\ m_count \in Nat
        /\ Len(m_resourceList) \in Nat /\ Len(m_resourceList') \in Nat
    BY <1>1, <1>2 DEF life, IInv, TypeOK
  <2>2. ASSUME phase # "gone"
        PROVE  m_count' = Len(m_resourceList') + Cardinality(Holders')
    <3>1. m_count = Len(m_resourceList) + Cardinality(Holders)
      BY <2>2 DEF IInv, CountExact
    <3>2. /\ m_count' + Len(m_resourceList) + Cardinality(Holders)
               = m_count + Len(m_resourceList') + Cardinality(Holders')
          /\ Cardinality(Holders') \in Nat /\ m_count' \in Nat
          /\ Cardinality(Holders) \in Nat
      BY <1>2, Finite
    <3>3. m_count' + Len(m_resourceList) + Cardinality(Holders)
            = (Len(m_resourceList) + Cardinality(Holders)) + Len(m_resourceList') + Cardinality(Holders')
      BY <3>1, <3>2
    <3>4. QED
      BY <2>1, <3>2, <3>3
  <2>3. QED
    BY <2>1, <2>2 DEF CountExact
<1>6. NoSleeperMissedWakeup' /\ DestructorWaitsForGetters'
  BY <1>1, <1>2, <1>3 DEF IInv, NoSleeperMissedWakeup, DestructorWaitsForGetters, life
<1>7. Bookkeeping' /\ NoCloserPointsToDestroyedPool'
  BY <1>1, <1>2, <1>3 DEF IInv, Bookkeeping, NoCloserPointsToDestroyedPool, life, Holders, Blocked, TypeOK
<1>8. QED
  BY <1>2, <1>4, <1>5, <1>6, <1>7 DEF IInv

LEMMA GetWaitForStep == ASSUME IInv, NEW c \in Clients, GetWaitFor(c) PROVE IInv'
<1>1. /\ held[c] = NoRes /\ pc[c] = "out" /\ ~m_closed /\ m_resourceList = <<>>
      /\ m_waiting' = m_waiting + 1
      /\ pc' = [pc EXCEPT ![c] = "asleep"]
      /\ UNCHANGED <<settings, life, m_count, m_resourceList, m_closer_set, bound, held>>
  BY DEF GetWaitFor, CanCall
<1>2. timed' \in [Clients -> BOOLEAN]
  BY DEF GetWaitFor, IInv, TypeOK
<1>3. TypeOK'
  <2>1. pc' \in [Clients -> Places] /\ m_waiting' \in Nat
    BY <1>1 DEF IInv, TypeOK, Places
  <2>2. QED
    BY <1>1, <1>2, <2>1 DEF IInv, TypeOK, settings, life
<1>4. Blocked' = Blocked \cup {c} /\ c \notin Blocked
  BY <1>1 DEF Blocked, IInv, TypeOK
<1>5. Cardinality(Blocked') = Cardinality(Blocked) + 1
  BY <1>4, Finite, FS_AddElement
<1>6. Holders' = Holders /\ Idle' = Idle
  BY <1>1 DEF Holders, Idle
<1>7. Exclusive' /\ CountExact' /\ NoSleeperMissedWakeup'
  BY <1>1, <1>6 DEF IInv, Exclusive, CountExact, NoSleeperMissedWakeup, life
<1>8. DestructorWaitsForGetters'
  BY <1>1, <1>5, Finite DEF IInv, DestructorWaitsForGetters, Bookkeeping, life
<1>9. Bookkeeping' /\ NoCloserPointsToDestroyedPool'
  BY <1>1, <1>4, <1>6 DEF IInv, Bookkeeping, NoCloserPointsToDestroyedPool, life, TypeOK
<1>10. QED
  BY <1>3, <1>7, <1>8, <1>9 DEF IInv

(* A getter that moves inside the wait changes nothing but its place.      *)
LEMMA MoveInsideWait ==
  ASSUME IInv, NEW c \in Blocked, NEW p \in {"asleep", "awake", "expired"},
         pc' = [pc EXCEPT ![c] = p], p = "asleep" => ~WaitPred,
         UNCHANGED <<settings, life, m_count, m_resourceList, m_waiting,
                     m_closer_set, bound, held, timed>>
  PROVE  IInv'
<1>1. c \in Clients
  BY DEF Blocked
<1>2. TypeOK'
  BY <1>1 DEF IInv, TypeOK, settings, life, Places
<1>3. Blocked' = Blocked /\ Holders' = Holders /\ Idle' = Idle
  BY <1>1 DEF Blocked, Holders, Idle, IInv, TypeOK
<1>4. Exclusive' /\ CountExact' /\ DestructorWaitsForGetters'
  BY <1>3 DEF IInv, Exclusive, CountExact, DestructorWaitsForGetters, life
<1>5. NoSleeperMissedWakeup'
  BY <1>1 DEF IInv, NoSleeperMissedWakeup, Sleepers, WaitPred, life, TypeOK
<1>6. Bookkeeping' /\ NoCloserPointsToDestroyedPool'
  BY <1>1, <1>3 DEF IInv, Bookkeeping, NoCloserPointsToDestroyedPool, life, TypeOK
<1>7. QED
  BY <1>2, <1>4, <1>5, <1>6 DEF IInv

LEMMA LeaveWaitStep == ASSUME IInv, NEW c \in Clients, LeaveWait(c) PROVE IInv'
<1>1. /\ c \in Blocked /\ held[c] = NoRes
      /\ m_waiting' = m_waiting - 1
      /\ pc' = [pc EXCEPT ![c] = "out"]
      /\ timed' = [timed EXCEPT ![c] = FALSE]
      /\ UNCHANGED <<settings, life>>
      /\ phase # "gone"
  BY DEF LeaveWait, MayLeave, Blocked, IInv, Bookkeeping, DestructorWaitsForGetters
<1>2. /\ Cardinality(Blocked') = Cardinality(Blocked) - 1
      /\ Cardinality(Blocked') \in Nat
      /\ Blocked' = Blocked \ {c}
  BY <1>1, OneBlockedLess DEF IInv
<1>3. m_waiting' = Cardinality(Blocked') /\ m_waiting' \in Nat
  BY <1>1, <1>2, Finite DEF IInv, DestructorWaitsForGetters
<1>4. Sleepers' = Sleepers \ {c}
  BY <1>1 DEF Sleepers, IInv, TypeOK
<1>5. CASE UNCHANGED <<m_count, m_resourceList, m_closer_set, bound, held>>
  <2>1. Holders' = Holders /\ Idle' = Idle
    BY <1>5 DEF Holders, Idle
  <2>2. TypeOK'
    BY <1>1, <1>3, <1>5 DEF IInv, TypeOK, settings, life, Places
  <2>3. Exclusive' /\ CountExact' /\ NoSleeperMissedWakeup' /\ DestructorWaitsForGetters'
    BY <1>1, <1>3, <1>4, <1>5, <2>1 DEF IInv, Exclusive, CountExact,
       NoSleeperMissedWakeup, DestructorWaitsForGetters, life
  <2>4. Bookkeeping' /\ NoCloserPointsToDestroyedPool'
    BY <1>1, <1>2, <1>5, <2>1 DEF IInv, Bookkeeping, NoCloserPointsToDestroyedPool, life, TypeOK
  <2>5. QED
    BY <2>2, <2>3, <2>4 DEF IInv
<1>6. CASE TakeIdle(c)
  <2>1. /\ m_closer_set' = m_closer_set \cup {c} /\ bound' = bound \cup {c}
        /\ m_count' = m_count /\ m_resourceList # <<>>
    BY <1>6 DEF TakeIdle, HandOut
  <2>2. /\ m_resourceList' \in Seq(Resources)
        /\ held' \in [Clients -> Resources \cup {NoRes}]
        /\ Exclusive'
        /\ Holders' = Holders \cup {c}
        /\ Len(m_resourceList') + Cardinality(Holders')
             = Len(m_resourceList) + Cardinality(Holders)
    BY <1>1, <1>6, TakeIdleStep
  <2>3. TypeOK'
    BY <1>1, <1>3, <2>1, <2>2 DEF IInv, TypeOK, settings, life, Places
  <2>4. CountExact' /\ NoSleeperMissedWakeup' /\ DestructorWaitsForGetters'
    BY <1>1, <1>3, <1>4, <2>1, <2>2 DEF IInv, CountExact,
       NoSleeperMissedWakeup, DestructorWaitsForGetters, life
  <2>5. \A d \in Blocked' : held'[d] = NoRes
    BY <1>1, <1>2, <1>6 DEF IInv, Bookkeeping, TakeIdle, HandOut, TypeOK, Blocked
  <2>6. \A d \in Clients : pc'[d] = "returning" => held'[d] # NoRes
    BY <1>1, <1>6 DEF IInv, Bookkeeping, TakeIdle, HandOut, TypeOK
  <2>7. Bookkeeping' /\ NoCloserPointsToDestroyedPool'
    BY <1>1, <2>1, <2>2, <2>5, <2>6 DEF IInv, Bookkeeping, NoCloserPointsToDestroyedPool, life
  <2>8. QED
    BY <2>2, <2>3, <2>4, <2>7 DEF IInv
<1>7. QED
  BY <1>5, <1>6 DEF LeaveWait

LEMMA CloserSeesPoolStep == ASSUME IInv, NEW c \in Clients, CloserSeesPool(c) PROVE IInv'
<1>1. /\ pc[c] = "out" /\ held[c] # NoRes
      /\ pc' = [pc EXCEPT ![c] = "returning"]
      /\ UNCHANGED <<settings, life, m_count, m_resourceList, m_waiting,
                     m_closer_set, bound, held, timed>>
  BY DEF CloserSeesPool
<1>2. TypeOK'
  BY <1>1 DEF IInv, TypeOK, settings, life, Places
<1>3. Blocked' = Blocked /\ Sleepers' = Sleepers /\ Holders' = Holders /\ Idle' = Idle
  BY <1>1 DEF Blocked, Sleepers, Holders, Idle, IInv, TypeOK
<1>4. Exclusive' /\ CountExact' /\ NoSleeperMissedWakeup' /\ DestructorWaitsForGetters'
  BY <1>1, <1>3 DEF IInv, Exclusive, CountExact, NoSleeperMissedWakeup,
     DestructorWaitsForGetters, life
<1>5. Bookkeeping' /\ NoCloserPointsToDestroyedPool'
  BY <1>1, <1>3 DEF IInv, Bookkeeping, NoCloserPointsToDestroyedPool, life, TypeOK
<1>6. QED
  BY <1>2, <1>4, <1>5 DEF IInv

(* Only a holder the destructor has cut off deletes for itself.            *)
LEMMA CloserDeletesStep == ASSUME IInv, NEW c \in Clients, CloserDeletes(c) PROVE IInv'
<1>1. /\ pc[c] = "out" /\ held[c] # NoRes /\ c \notin bound
      /\ held' = [held EXCEPT ![c] = NoRes]
      /\ UNCHANGED <<settings, life, m_count, m_resourceList, m_waiting,
                     m_closer_set, bound, pc, timed>>
  BY DEF CloserDeletes
<1>2. phase = "gone"
  BY <1>1 DEF IInv, Bookkeeping, Holders
<1>3. TypeOK'
  BY <1>1 DEF IInv, TypeOK, settings, life
<1>4. /\ Blocked' = Blocked /\ Sleepers' = Sleepers /\ Idle' = Idle
      /\ Holders' \subseteq Holders
      /\ \A d \in Holders' : held'[d] = held[d]
  BY <1>1 DEF Blocked, Sleepers, Holders, Idle, IInv, TypeOK
<1>5. Exclusive' /\ CountExact' /\ NoSleeperMissedWakeup' /\ DestructorWaitsForGetters'
  BY <1>1, <1>2, <1>4 DEF IInv, Exclusive, CountExact, NoSleeperMissedWakeup,
     DestructorWaitsForGetters, life
<1>6. Bookkeeping' /\ NoCloserPointsToDestroyedPool'
  BY <1>1, <1>2, <1>4 DEF IInv, Bookkeeping, NoCloserPointsToDestroyedPool, life, TypeOK
<1>7. QED
  BY <1>3, <1>5, <1>6 DEF IInv

LEMMA ReturnResourceStep == ASSUME IInv, NEW c \in Clients, ReturnResource(c) PROVE IInv'
<1> DEFINE at == [pc EXCEPT ![c] = "out"]
<1>1. /\ pc[c] = "returning" /\ phase # "gone"
      /\ held' = [held EXCEPT ![c] = NoRes]
      /\ m_closer_set' = m_closer_set \ {c} /\ bound' = bound \ {c}
      /\ UNCHANGED <<settings, life, m_waiting, timed>>
  BY DEF ReturnResource
<1>2. held[c] # NoRes /\ held[c] \in Resources
  BY <1>1 DEF IInv, Bookkeeping, TypeOK
<1>3. /\ Holders' = Holders \ {c}
      /\ Cardinality(Holders') = Cardinality(Holders) - 1
      /\ Cardinality(Holders') \in Nat
      /\ \A d \in Holders' : held'[d] = held[d]
  <2>1. Holders' = Holders \ {c} /\ \A d \in Holders' : held'[d] = held[d]
    BY <1>1 DEF Holders, IInv, TypeOK
  <2>2. QED
    BY <1>1, <1>2, <2>1, OneHolderLess DEF IInv
<1>4. at \in [Clients -> Places] /\ at[c] = "out" /\ \A d \in Clients \ {c} : at[d] = pc[d]
  BY DEF IInv, TypeOK, Places
<1>5. /\ held' \in [Clients -> Resources \cup {NoRes}]
      /\ m_closer_set' \in SUBSET Clients /\ bound' \in SUBSET Clients
  BY <1>1 DEF IInv, TypeOK
<1>6. phase' # "gone" => bound' = Holders' /\ m_closer_set' = Holders'
  BY <1>1, <1>3 DEF IInv, Bookkeeping, life
<1>7. m_count = Len(m_resourceList) + Cardinality(Holders)
  BY <1>1 DEF IInv, CountExact
<1>8. NoCloserPointsToDestroyedPool'
  BY <1>1 DEF NoCloserPointsToDestroyedPool, life
<1>9. CASE /\ ~m_closed
           /\ m_resourceList' = Append(m_resourceList, held[c])
           /\ pc' = NotifyAll(at)
           /\ m_count' = m_count
  <2>1. /\ pc' \in [Clients -> Places]
        /\ \A d \in Clients : /\ pc'[d] # "asleep"
                              /\ pc[d] = "asleep" => pc'[d] = "awake"
                              /\ pc[d] # "asleep" => pc'[d] = at[d]
    BY <1>1, <1>4, <1>9, AfterNotifyAll
  <2>2. Blocked' = Blocked /\ Sleepers' = {}
    BY <1>1, <1>4, <2>1 DEF Blocked, Sleepers
  <2>3. /\ m_resourceList \in Seq(Resources) /\ m_resourceList' \in Seq(Resources)
        /\ Len(m_resourceList') = Len(m_resourceList) + 1
        /\ DOMAIN m_resourceList' = 1 .. Len(m_resourceList) + 1
        /\ DOMAIN m_resourceList = 1 .. Len(m_resourceList)
        /\ Len(m_resourceList) \in Nat
        /\ m_resourceList'[Len(m_resourceList) + 1] = held[c]
        /\ \A i \in DOMAIN m_resourceList : m_resourceList'[i] = m_resourceList[i]
    BY <1>2, <1>9 DEF IInv, TypeOK
  <2>4. TypeOK'
    BY <1>1, <1>5, <1>9, <2>1, <2>3 DEF IInv, TypeOK, settings, life
  <2>5. CountExact'
    <3>1. Cardinality(Holders) = Cardinality(Holders') + 1
      BY <1>3, Finite
    <3>2. m_count' = Len(m_resourceList) + (Cardinality(Holders') + 1)
      BY <1>7, <1>9, <3>1
    <3>3. QED
      BY <1>3, <2>3, <3>2 DEF CountExact
  <2>6. Exclusive'
    <3>1. /\ \A i, j \in DOMAIN m_resourceList : m_resourceList[i] = m_resourceList[j] => i = j
          /\ \A d \in Holders : \A i \in DOMAIN m_resourceList : held[d] # m_resourceList[i]
          /\ \A d, e \in Holders : held[d] = held[e] => d = e
          /\ c \in Holders
      BY <1>2 DEF IInv, Exclusive, Idle, ToSet, IsInjective, Holders
    <3>2. IsInjective(m_resourceList')
      <4> SUFFICES ASSUME NEW i \in DOMAIN m_resourceList', NEW j \in DOMAIN m_resourceList',
                          m_resourceList'[i] = m_resourceList'[j]
                   PROVE  i = j
        BY DEF IsInjective
      <4>1. i \in DOMAIN m_resourceList \/ i = Len(m_resourceList) + 1
        BY <2>3
      <4>2. j \in DOMAIN m_resourceList \/ j = Len(m_resourceList) + 1
        BY <2>3
      <4>3. QED
        BY <2>3, <3>1, <4>1, <4>2
    <3>3. ASSUME NEW d \in Holders', NEW i \in DOMAIN m_resourceList'
          PROVE  held'[d] # m_resourceList'[i]
      <4>1. i \in DOMAIN m_resourceList \/ i = Len(m_resourceList) + 1
        BY <2>3
      <4>2. QED
        BY <1>3, <2>3, <3>1, <4>1
    <3>4. QED
      BY <1>3, <3>1, <3>2, <3>3 DEF Exclusive, Idle, ToSet
  <2>7. NoSleeperMissedWakeup' /\ DestructorWaitsForGetters'
    BY <1>1, <2>2 DEF IInv, NoSleeperMissedWakeup, DestructorWaitsForGetters, life
  <2>8. Bookkeeping'
    BY <1>1, <1>4, <1>6, <2>1, <2>2 DEF IInv, Bookkeeping, life, TypeOK, Blocked
  <2>9. QED
    BY <1>8, <2>4, <2>5, <2>6, <2>7, <2>8 DEF IInv
<1>10. CASE m_count' = m_count - 1 /\ pc' = at /\ m_resourceList' = m_resourceList
  <2>1. Blocked' = Blocked /\ Sleepers' = Sleepers /\ Idle' = Idle
    BY <1>1, <1>4, <1>10 DEF Blocked, Sleepers, Idle
  <2>2. m_count' = Len(m_resourceList') + Cardinality(Holders') /\ m_count' \in Nat
    <3>1. Cardinality(Holders) = Cardinality(Holders') + 1 /\ Len(m_resourceList) \in Nat
      BY <1>3, Finite DEF IInv, TypeOK
    <3>2. m_count = Len(m_resourceList) + (Cardinality(Holders') + 1)
      BY <1>7, <3>1
    <3>3. QED
      BY <1>3, <1>10, <3>1, <3>2
  <2>3. TypeOK'
    BY <1>1, <1>4, <1>5, <1>10, <2>2 DEF IInv, TypeOK, settings, life
  <2>4. Exclusive' /\ CountExact'
    BY <1>3, <1>10, <2>1, <2>2 DEF IInv, Exclusive, CountExact
  <2>5. NoSleeperMissedWakeup' /\ DestructorWaitsForGetters'
    BY <1>1, <1>10, <2>1 DEF IInv, NoSleeperMissedWakeup, DestructorWaitsForGetters, life
  <2>6. Bookkeeping'
    BY <1>1, <1>4, <1>6, <1>10, <2>1 DEF IInv, Bookkeeping, life, TypeOK, Blocked
  <2>7. QED
    BY <1>8, <2>3, <2>4, <2>5, <2>6 DEF IInv
<1>11. QED
  BY <1>9, <1>10 DEF ReturnResource, Delete

LEMMA ReleaseIdleResourceStep == ASSUME IInv, ReleaseIdleResource PROVE IInv'
<1>1. /\ phase = "open" /\ m_resourceList' = <<>>
      /\ m_count' = m_count - Len(m_resourceList)
      /\ UNCHANGED <<settings, life, m_waiting, m_closer_set, bound, held, pc, timed>>
  BY DEF ReleaseIdleResource, Delete
<1>2. Holders' = Holders /\ Blocked' = Blocked /\ Sleepers' = Sleepers /\ Idle' = {}
  BY <1>1 DEF Holders, Blocked, Sleepers, Idle, ToSet
<1>3. m_count' = Cardinality(Holders) /\ m_count' \in Nat
  <2>1. m_count = Len(m_resourceList) + Cardinality(Holders) /\ Len(m_resourceList) \in Nat
    BY <1>1 DEF IInv, CountExact, TypeOK
  <2>2. QED
    BY <1>1, <2>1, Finite
<1>4. TypeOK'
  BY <1>1, <1>3 DEF IInv, TypeOK, settings, life
<1>5. Len(m_resourceList') = 0
  BY <1>1
<1>6. CountExact'
  BY <1>2, <1>3, <1>5, Finite DEF CountExact
<1>7. Exclusive'
  BY <1>1, <1>2 DEF IInv, Exclusive, IsInjective
<1>8. NoSleeperMissedWakeup' /\ DestructorWaitsForGetters'
  BY <1>1, <1>2 DEF IInv, NoSleeperMissedWakeup, DestructorWaitsForGetters, life
<1>9. Bookkeeping' /\ NoCloserPointsToDestroyedPool'
  BY <1>1, <1>2 DEF IInv, Bookkeeping, NoCloserPointsToDestroyedPool, life
<1>10. QED
  BY <1>4, <1>6, <1>7, <1>8, <1>9 DEF IInv

LEMMA SettingsStep == ASSUME IInv, SetMaxPoolSize \/ SetMaxIdleSize PROVE IInv'
<1>1. /\ m_maxPoolSize' \in PoolSizes /\ m_maxIdelSize' \in IdleSizes
      /\ UNCHANGED <<life, m_count, m_resourceList, m_waiting, m_closer_set, bound,
                     held, pc, timed>>
  BY DEF SetMaxPoolSize, SetMaxIdleSize, IInv, TypeOK
<1>2. Holders' = Holders /\ Blocked' = Blocked /\ Sleepers' = Sleepers /\ Idle' = Idle
  BY <1>1 DEF Holders, Blocked, Sleepers, Idle
<1>3. TypeOK'
  BY <1>1 DEF IInv, TypeOK, life
<1>4. QED
  BY <1>1, <1>2, <1>3 DEF IInv, Exclusive, CountExact, NoSleeperMissedWakeup,
     DestructorWaitsForGetters, Bookkeeping, NoCloserPointsToDestroyedPool, life

(* The last step of the destructor, alone or together with closing.        *)
LEMMA TearDownStep ==
  ASSUME IInv, TearDown, NobodyWaits, m_closed',
         pc' \in [Clients -> Places], Blocked' = Blocked, Sleepers' \subseteq Sleepers,
         \A c \in Clients : pc'[c] = "returning" => pc[c] = "returning",
         phase # "gone",
         UNCHANGED <<settings, m_count, m_waiting, m_closer_set, held, timed>>
  PROVE  IInv'
<1>1. /\ phase' = "gone" /\ m_resourceList' = <<>> /\ bound' = {}
  BY DEF TearDown, Unbind, IInv, Bookkeeping
<1>2. Blocked = {}
  <2>1. Cardinality(Blocked) = 0
    BY DEF IInv, DestructorWaitsForGetters, NobodyWaits
  <2>2. QED
    BY <2>1, Finite, FS_EmptySet
<1>3. Sleepers' = {}
  BY <1>2 DEF Sleepers, Blocked
<1>4. Holders' = Holders /\ Idle' = {}
  BY <1>1 DEF Holders, Idle, ToSet
<1>5. TypeOK'
  BY <1>1 DEF IInv, TypeOK, settings
<1>6. Exclusive' /\ CountExact' /\ NoSleeperMissedWakeup'
  BY <1>1, <1>3, <1>4 DEF IInv, Exclusive, CountExact, NoSleeperMissedWakeup, IsInjective
<1>7. DestructorWaitsForGetters' /\ NoCloserPointsToDestroyedPool' /\ Bookkeeping'
  BY <1>1, <1>2, <1>4 DEF IInv, DestructorWaitsForGetters, NoCloserPointsToDestroyedPool, Bookkeeping
<1>8. QED
  BY <1>5, <1>6, <1>7 DEF IInv

LEMMA DestructorClosesStep == ASSUME IInv, DestructorCloses PROVE IInv'
<1>1. /\ phase = "open" /\ m_closed' = TRUE /\ pc' = NotifyAll(pc)
      /\ UNCHANGED <<settings, m_count, m_waiting, m_closer_set, held, timed>>
  BY DEF DestructorCloses
<1>2. /\ pc' \in [Clients -> Places]
      /\ \A d \in Clients : /\ pc'[d] # "asleep"
                            /\ pc[d] = "asleep" => pc'[d] = "awake"
                            /\ pc[d] # "asleep" => pc'[d] = pc[d]
  BY <1>1, AfterNotifyAll DEF IInv, TypeOK
<1>3. Blocked' = Blocked /\ Sleepers' = {}
  BY <1>2 DEF Blocked, Sleepers
<1>4. CASE NobodyWaits /\ TearDown
  BY <1>1, <1>2, <1>3, <1>4, TearDownStep
<1>5. CASE phase' = "closing" /\ UNCHANGED <<bound, m_resourceList>>
  <2>1. Holders' = Holders /\ Idle' = Idle
    BY <1>1, <1>5 DEF Holders, Idle
  <2>2. TypeOK'
    BY <1>1, <1>2, <1>5 DEF IInv, TypeOK, settings
  <2>3. Exclusive' /\ CountExact' /\ NoSleeperMissedWakeup' /\ DestructorWaitsForGetters'
    BY <1>1, <1>3, <1>5, <2>1 DEF IInv, Exclusive, CountExact, NoSleeperMissedWakeup,
       DestructorWaitsForGetters
  <2>4. Bookkeeping' /\ NoCloserPointsToDestroyedPool'
    BY <1>1, <1>2, <1>3, <1>5, <2>1 DEF IInv, Bookkeeping, NoCloserPointsToDestroyedPool
  <2>5. QED
    BY <2>2, <2>3, <2>4 DEF IInv
<1>6. QED
  BY <1>4, <1>5 DEF DestructorCloses

LEMMA DestructorEndsStep == ASSUME IInv, DestructorEnds PROVE IInv'
<1>1. /\ phase = "closing" /\ NobodyWaits /\ TearDown
      /\ UNCHANGED <<settings, m_closed, m_count, m_waiting, m_closer_set, held, pc, timed>>
  BY DEF DestructorEnds
<1>2. m_closed' /\ pc' \in [Clients -> Places] /\ Blocked' = Blocked /\ Sleepers' = Sleepers
  BY <1>1 DEF IInv, Bookkeeping, TypeOK, Blocked, Sleepers
<1>3. QED
  BY <1>1, <1>2, TearDownStep

-----------------------------------------------------------------------------
LEMMA StepIInv == IInv /\ [Next]_vars => IInv'
<1> SUFFICES ASSUME IInv, [Next]_vars PROVE IInv'
  OBVIOUS
<1>1. ASSUME NEW c \in Clients, Timeout(c) PROVE IInv'
  BY <1>1, MoveInsideWait DEF Timeout, Blocked
<1>2. ASSUME NEW c \in Clients, SleepAgain(c) PROVE IInv'
  BY <1>2, MoveInsideWait DEF SleepAgain, Blocked
<1>3. ASSUME NEW c \in Clients, Client(c) PROVE IInv'
  BY <1>1, <1>2, <1>3, GetStep, GetWaitForStep, LeaveWaitStep, CloserSeesPoolStep,
     CloserDeletesStep, ReturnResourceStep DEF Client
<1>4. CASE Owner
  BY <1>4, ReleaseIdleResourceStep, SettingsStep, DestructorClosesStep,
     DestructorEndsStep DEF Owner
<1>5. CASE UNCHANGED vars
  <2>1. Holders' = Holders /\ Blocked' = Blocked /\ Sleepers' = Sleepers /\ Idle' = Idle
    BY <1>5 DEF vars, Holders, Blocked, Sleepers, Idle
  <2>2. QED
    BY <1>5, <2>1 DEF vars, IInv, TypeOK, Exclusive, CountExact, NoSleeperMissedWakeup,
       DestructorWaitsForGetters, NoCloserPointsToDestroyedPool, Bookkeeping
<1>6. QED
  BY <1>3, <1>4, <1>5 DEF Next

(* IInv is an invariant of the pool.                                       *)
THEOREM Invariance == Spec => []IInv
BY InitIInv, StepIInv, PTL DEF Spec

(* The pool's counter is exact in every state before the pool is gone      *)
(* (lines 152, 164, 212-213, 262, 317 of ResourcePool.h).                  *)
THEOREM CountIsExact == Spec => []CountExact
<1>1. IInv => CountExact
  BY DEF IInv
<1>2. QED
  BY <1>1, Invariance, PTL

(* No getter sleeps on m_cond beside an idle resource or in a closed pool. *)
THEOREM NoLostWakeup == Spec => []NoSleeperMissedWakeup
<1>1. IInv => NoSleeperMissedWakeup
  BY DEF IInv
<1>2. QED
  BY <1>1, Invariance, PTL

(* ~ResourcePool() ends only after the last blocked getter has left.       *)
THEOREM DestructorIsLast == Spec => []DestructorWaitsForGetters
<1>1. IInv => DestructorWaitsForGetters
  BY DEF IInv
<1>2. QED
  BY <1>1, Invariance, PTL

-----------------------------------------------------------------------------
(* The pool implements PoolContract.  First: what the pool counts is the   *)
(* number of resources the contract says exist.                            *)
LEMMA CountIsCardinality ==
  ASSUME IInv, phase # "gone"
  PROVE  IsFiniteSet(Live) /\ m_count = Cardinality(Live)
<1> DEFINE Out == {held[c] : c \in Holders}
           f == [c \in Holders |-> held[c]]
<1>1. /\ m_resourceList \in Seq(Resources) /\ Len(m_resourceList) \in Nat
      /\ IsInjective(m_resourceList)
      /\ \A c \in Holders : held[c] \notin Idle
      /\ \A c, d \in Holders : held[c] = held[d] => c = d
  BY DEF IInv, TypeOK, Exclusive
<1>2. IsFiniteSet(Idle) /\ Cardinality(Idle) = Len(m_resourceList)
  <2>1. m_resourceList \in Bijection(1 .. Len(m_resourceList), Idle)
    BY <1>1 DEF Bijection, Injection, Surjection, IsInjective, Idle, ToSet
  <2>2. IsFiniteSet(1 .. Len(m_resourceList))
        /\ Cardinality(1 .. Len(m_resourceList)) = Len(m_resourceList)
    <3>1. 1 \in Int /\ \A n \in Nat : n \in Int /\ (1 > n => n = 0) /\ n - 1 + 1 = n
      OBVIOUS
    <3>2. \A n \in Nat : IsFiniteSet(1 .. n) /\ Cardinality(1 .. n) = n
      BY <3>1, FS_Interval
    <3>3. QED
      BY <1>1, <3>2
  <2>3. QED
    BY <2>1, <2>2, FS_Bijection DEF ExistsBijection
<1>3. IsFiniteSet(Out) /\ Cardinality(Out) = Cardinality(Holders)
  <2>1. f \in Bijection(Holders, Out)
    BY <1>1 DEF Bijection, Injection, Surjection, IsInjective
  <2>2. QED
    BY <2>1, Finite, FS_Bijection DEF ExistsBijection
<1>4. Idle \cap Out = {}
  BY <1>1
<1>5. IsFiniteSet(Idle \cup Out)
      /\ Cardinality(Idle \cup Out) = Cardinality(Idle) + Cardinality(Out)
  <2>1. Cardinality(Idle \cap Out) = 0
    BY <1>4, FS_EmptySet
  <2>2. /\ IsFiniteSet(Idle \cup Out)
        /\ Cardinality(Idle \cup Out)
             = Cardinality(Idle) + Cardinality(Out) - Cardinality(Idle \cap Out)
    BY <1>2, <1>3, FS_Union
  <2>3. Cardinality(Idle) \in Nat /\ Cardinality(Out) \in Nat
    BY <1>2, <1>3, FS_CardinalityType
  <2>4. QED
    BY <2>1, <2>2, <2>3
<1>6. QED
  BY <1>2, <1>3, <1>5 DEF IInv, CountExact, Live

(* HolderOf is the client that holds a resource, if any.                   *)
LEMMA HolderOfOne ==
  ASSUME NEW h, NEW r, NEW c \in Clients, h[c] = r,
         \A d \in Clients : h[d] = r => d = c
  PROVE  HolderOf(h, r) = c
BY DEF HolderOf

LEMMA HolderOfNone ==
  ASSUME NEW h, NEW r, \A d \in Clients : h[d] # r
  PROVE  HolderOf(h, r) = NoRes
BY DEF HolderOf

(* Handing r out makes c its owner and changes no other owner.             *)
LEMMA OwnerAfterHandOut ==
  ASSUME IInv, NEW c \in Clients, NEW r \in Resources, held[c] = NoRes,
         \A d \in Clients : held[d] # r, held' = [held EXCEPT ![c] = r]
  PROVE  [q \in Resources |-> HolderOf(held', q)]
           = [[q \in Resources |-> HolderOf(held, q)] EXCEPT ![r] = c]
<1>1. held \in [Clients -> Resources \cup {NoRes}] /\ NoRes \notin Resources
  BY ConstantsOK DEF IInv, TypeOK
<1>2. \A q \in Resources : \A d, e \in Clients : held[d] = q /\ held[e] = q => d = e
  BY <1>1 DEF IInv, Exclusive, Holders
<1>4. HolderOf(held', r) = c
  <2>1. held'[c] = r /\ \A d \in Clients : held'[d] = r => d = c
    BY <1>1
  <2>2. QED
    BY <2>1, SMT DEF HolderOf
<1>5. ASSUME NEW q \in Resources, q # r PROVE HolderOf(held', q) = HolderOf(held, q)
  <2>1. \A d \in Clients : held'[d] = q <=> held[d] = q
    BY <1>1, <1>5
  <2>2. CASE \E d \in Clients : held[d] = q
    <3>1. PICK d \in Clients : held[d] = q
      BY <2>2
    <3>2. \A e \in Clients : held[e] = q => e = d
      BY <1>2, <3>1
    <3>3. HolderOf(held, q) = d
      BY <3>1, <3>2, HolderOfOne
    <3>4. held'[d] = q /\ \A e \in Clients : held'[e] = q => e = d
      BY <2>1, <3>1, <3>2
    <3>5. HolderOf(held', q) = d
      BY <3>4, SMT DEF HolderOf
    <3>6. QED
      BY <3>3, <3>5
  <2>3. CASE \A d \in Clients : held[d] # q
    <3>1. HolderOf(held, q) = NoRes
      BY <2>3, HolderOfNone
    <3>2. \A d \in Clients : held'[d] # q
      BY <2>1, <2>3
    <3>3. HolderOf(held', q) = NoRes
      BY <3>2, HolderOfNone
    <3>4. QED
      BY <3>1, <3>3
  <2>4. QED
    BY <2>2, <2>3
<1>6. QED
  BY <1>4, <1>5

(* A drop makes its resource nobody's and changes no other owner.          *)
LEMMA OwnerAfterDrop ==
  ASSUME IInv, NEW c \in Clients, NEW r \in Resources, held[c] = r,
         held' = [held EXCEPT ![c] = NoRes]
  PROVE  /\ HolderOf(held, r) = c
         /\ [q \in Resources |-> HolderOf(held', q)]
              = [[q \in Resources |-> HolderOf(held, q)] EXCEPT ![r] = NoRes]
<1>1. held \in [Clients -> Resources \cup {NoRes}] /\ NoRes \notin Resources
  BY ConstantsOK DEF IInv, TypeOK
<1>2. \A q \in Resources : \A d, e \in Clients : held[d] = q /\ held[e] = q => d = e
  BY <1>1 DEF IInv, Exclusive, Holders
<1>4. HolderOf(held, r) = c /\ HolderOf(held', r) = NoRes
  <2>1. \A d \in Clients : held'[d] # r
    BY <1>1, <1>2
  <2>2. \A d \in Clients : held[d] = r => d = c
    BY <1>2
  <2>3. HolderOf(held, r) = c
    BY <2>2, HolderOfOne
  <2>4. QED
    BY <2>1, <2>3, HolderOfNone
<1>5. ASSUME NEW q \in Resources, q # r PROVE HolderOf(held', q) = HolderOf(held, q)
  <2>1. \A d \in Clients : held'[d] = q <=> held[d] = q
    BY <1>1, <1>5
  <2>2. CASE \E d \in Clients : held[d] = q
    <3>1. PICK d \in Clients : held[d] = q
      BY <2>2
    <3>2. \A e \in Clients : held[e] = q => e = d
      BY <1>2, <3>1
    <3>3. HolderOf(held, q) = d
      BY <3>1, <3>2, HolderOfOne
    <3>4. held'[d] = q /\ \A e \in Clients : held'[e] = q => e = d
      BY <2>1, <3>1, <3>2
    <3>5. HolderOf(held', q) = d
      BY <3>4, SMT DEF HolderOf
    <3>6. QED
      BY <3>3, <3>5
  <2>3. CASE \A d \in Clients : held[d] # q
    <3>1. HolderOf(held, q) = NoRes
      BY <2>3, HolderOfNone
    <3>2. \A d \in Clients : held'[d] # q
      BY <2>1, <2>3
    <3>3. HolderOf(held', q) = NoRes
      BY <3>2, HolderOfNone
    <3>4. QED
      BY <3>1, <3>3
  <2>4. QED
    BY <2>2, <2>3
<1>6. QED
  BY <1>4, <1>5

LEMMA TakeIdleRefines ==
  ASSUME IInv, NEW c \in Clients, held[c] = NoRes, TakeIdle(c), UNCHANGED m_maxPoolSize
  PROVE  Contract!Next
<1> DEFINE r == Head(m_resourceList)
<1>1. /\ m_resourceList \in Seq(Resources) /\ m_resourceList # <<>>
      /\ m_resourceList' = Tail(m_resourceList)
      /\ held' = [held EXCEPT ![c] = r]
      /\ held \in [Clients -> Resources \cup {NoRes}]
  BY DEF IInv, TypeOK, TakeIdle, HandOut
<1>2. r \in Resources /\ r \in Idle /\ Idle = Idle' \cup {r}
  <2>1. /\ r = m_resourceList[1] /\ 1 \in DOMAIN m_resourceList
        /\ DOMAIN m_resourceList = 1 .. Len(m_resourceList)
        /\ DOMAIN m_resourceList' = 1 .. Len(m_resourceList) - 1
        /\ \A i \in DOMAIN m_resourceList' : m_resourceList'[i] = m_resourceList[i + 1]
        /\ Len(m_resourceList) \in Nat
    BY <1>1
  <2>2. Idle \subseteq Idle' \cup {r}
    <3> SUFFICES ASSUME NEW i \in DOMAIN m_resourceList, i # 1
                 PROVE  m_resourceList[i] \in Idle'
      BY <2>1 DEF Idle, ToSet
    <3>1. i - 1 \in DOMAIN m_resourceList' /\ m_resourceList[i] = m_resourceList'[i - 1]
      BY <2>1
    <3>2. QED
      BY <3>1 DEF Idle, ToSet
  <2>3. Idle' \subseteq Idle
    BY <2>1 DEF Idle, ToSet
  <2>4. QED
    BY <1>1, <2>1, <2>2, <2>3 DEF Idle, ToSet
<1>3. \A d \in Clients : held[d] # r
  BY <1>2, ConstantsOK DEF IInv, Exclusive, Holders
<1>4. Live' = Live
  <2>1. /\ \A d \in Holders : d \in Holders' /\ held'[d] = held[d]
        /\ c \in Holders' /\ held'[c] = r
        /\ \A d \in Holders' : d = c \/ (d \in Holders /\ held'[d] = held[d])
    BY <1>1, <1>2, ConstantsOK DEF Holders
  <2>2. QED
    BY <1>2, <2>1 DEF Live
<1>5. r \in Contract!Free
  <2>1. HolderOf(held, r) = NoRes
    BY <1>3, HolderOfNone
  <2>2. QED
    BY <1>2, <2>1 DEF Contract!Free, Contract!Owned, Live
<1>6. Contract!Acquire(c, r)
  BY <1>1, <1>2, <1>3, <1>4, <1>5, OwnerAfterHandOut DEF Contract!Acquire
<1>7. QED
  BY <1>2, <1>6 DEF Contract!Next

LEMMA CreateRefines ==
  ASSUME IInv, phase # "gone", NEW c \in Clients, held[c] = NoRes, Create(c),
         UNCHANGED m_maxPoolSize
  PROVE  Contract!Next
<1>1. PICK r \in Resources \ Live : held' = [held EXCEPT ![c] = r]
  BY DEF Create, HandOut
<1>2. \A d \in Clients : held[d] # r
  BY <1>1, ConstantsOK DEF Live, Holders
<1>3. Live' = Live \cup {r}
  <2>1. Idle' = Idle
    BY DEF Create, Idle
  <2>2. /\ \A d \in Holders : d \in Holders' /\ held'[d] = held[d]
        /\ c \in Holders' /\ held'[c] = r
        /\ \A d \in Holders' : d = c \/ (d \in Holders /\ held'[d] = held[d])
    BY <1>1, ConstantsOK DEF Holders, IInv, TypeOK
  <2>3. QED
    BY <2>1, <2>2 DEF Live
<1>4. m_maxPoolSize = 0 \/ Cardinality(Live) < m_maxPoolSize
  <2>1. /\ m_maxPoolSize \in Nat /\ m_count \in Nat
        /\ ~(m_maxPoolSize > 0 /\ m_count >= m_maxPoolSize)
    BY ConstantsOK DEF Create, AtLimit, IInv, TypeOK
  <2>2. m_maxPoolSize = 0 \/ m_count < m_maxPoolSize
    BY <2>1
  <2>3. QED
    BY <2>2, CountIsCardinality
<1>5. Contract!Create(c, r)
  <2>1. r \in Resources /\ r \notin Live
    BY <1>1
  <2>2. [d \in Resources |-> HolderOf(held', d)]
          = [[d \in Resources |-> HolderOf(held, d)] EXCEPT ![r] = c]
    BY <1>1, <1>2, <2>1, OwnerAfterHandOut
  <2>3. m_maxPoolSize' = m_maxPoolSize
    OBVIOUS
  <2>4. Contract!Cardinality(Live) = Cardinality(Live)
    BY DEF Contract!Cardinality, Cardinality
  <2>5. QED
    BY <1>3, <1>4, <2>1, <2>2, <2>3, <2>4 DEF Contract!Create
<1>6. QED
  BY <1>1, <1>5 DEF Contract!Next

(* A drop maps to Keep when the resource goes to the idle list, to Drop    *)
(* when it is deleted, by the pool or by the cut-off holder.               *)
LEMMA DropRefines ==
  ASSUME IInv, NEW c \in Clients, held[c] # NoRes, held' = [held EXCEPT ![c] = NoRes],
         UNCHANGED m_maxPoolSize,
         \/ m_resourceList' = m_resourceList
         \/ m_resourceList' = Append(m_resourceList, held[c])
  PROVE  Contract!Next
<1> DEFINE r == held[c]
<1>1. /\ r \in Resources /\ c \in Holders /\ r \notin Idle
      /\ m_resourceList \in Seq(Resources)
      /\ \A d \in Holders : d # c => held[d] # r
      /\ held \in [Clients -> Resources \cup {NoRes}]
  BY DEF IInv, TypeOK, Holders, Exclusive
<1>2. Holders' = Holders \ {c} /\ \A d \in Holders' : held'[d] = held[d]
  BY <1>1 DEF Holders
<1>3. /\ HolderOf(held, r) = c
      /\ [q \in Resources |-> HolderOf(held', q)]
           = [[q \in Resources |-> HolderOf(held, q)] EXCEPT ![r] = NoRes]
  BY <1>1, OwnerAfterDrop
<1>4. r \in Contract!Owned(c)
  BY <1>1, <1>3 DEF Contract!Owned, Live
<1>5. CASE m_resourceList' = m_resourceList
  <2>1. Idle' = Idle
    BY <1>5 DEF Idle
  <2>2. Live' = Live \ {r}
    BY <1>1, <1>2, <2>1 DEF Live
  <2>3. Contract!Drop(c, r)
    BY <1>3, <1>4, <2>2 DEF Contract!Drop
  <2>4. QED
    BY <1>1, <2>3 DEF Contract!Next
<1>6. CASE m_resourceList' = Append(m_resourceList, r)
  <2>1. Idle' = Idle \cup {r}
    BY <1>1, <1>6 DEF Idle, ToSet
  <2>2. Live' = Live
    BY <1>1, <1>2, <2>1 DEF Live
  <2>3. Contract!Keep(c, r)
    BY <1>3, <1>4, <2>2 DEF Contract!Keep
  <2>4. QED
    BY <1>1, <2>3 DEF Contract!Next
<1>7. QED
  BY <1>5, <1>6

(* Emptying the idle list maps to Trim.                                    *)
LEMMA EmptyIdleRefines ==
  ASSUME IInv, m_resourceList' = <<>>, UNCHANGED <<held, m_maxPoolSize>>
  PROVE  Contract!Next
<1>1. Idle' = {} /\ Holders' = Holders
  BY DEF Idle, ToSet, Holders
<1>2. Live' \subseteq Live /\ Live \ Live' \subseteq Idle
  BY <1>1 DEF Live
<1>3. ASSUME NEW r \in Live \ Live' PROVE r \in Contract!Free
  <2>1. r \in Resources
    BY <1>2, <1>3 DEF IInv, TypeOK, Idle, ToSet
  <2>2. \A d \in Clients : held[d] # r
    BY <1>2, <1>3, <2>1, ConstantsOK DEF IInv, Exclusive, Holders
  <2>3. HolderOf(held, r) = NoRes
    BY <2>2, HolderOfNone
  <2>4. QED
    BY <1>3, <2>1, <2>3 DEF Contract!Free, Contract!Owned
<1>4. Contract!Trim
  BY <1>2, <1>3 DEF Contract!Trim
<1>5. QED
  BY <1>4 DEF Contract!Next

LEMMA SameRefines ==
  ASSUME UNCHANGED <<m_resourceList, held, m_maxPoolSize>>
  PROVE  UNCHANGED Contract!cvars
BY DEF Contract!cvars, Live, Idle, Holders

LEMMA StepRefines == IInv /\ [Next]_vars => [Contract!Next]_(Contract!cvars)
<1> SUFFICES ASSUME IInv, [Next]_vars PROVE Contract!Next \/ UNCHANGED Contract!cvars
  OBVIOUS
<1>1. ASSUME NEW c \in Clients, Get(c) PROVE Contract!Next
  <2>1. held[c] = NoRes /\ ~m_closed /\ UNCHANGED m_maxPoolSize
    BY <1>1 DEF Get, CanCall, settings
  <2>2. phase # "gone"
    BY <2>1 DEF IInv, Bookkeeping
  <2>3. QED
    BY <1>1, <2>1, <2>2, TakeIdleRefines, CreateRefines DEF Get
<1>2. ASSUME NEW c \in Clients, LeaveWait(c) PROVE Contract!Next \/ UNCHANGED Contract!cvars
  <2>1. held[c] = NoRes /\ UNCHANGED m_maxPoolSize
    BY <1>2 DEF LeaveWait, MayLeave, settings, IInv, Bookkeeping, Blocked
  <2>2. QED
    BY <1>2, <2>1, TakeIdleRefines, SameRefines DEF LeaveWait
<1>3. ASSUME NEW c \in Clients, ReturnResource(c) \/ CloserDeletes(c) PROVE Contract!Next
  <2>1. /\ held[c] # NoRes /\ held' = [held EXCEPT ![c] = NoRes]
        /\ UNCHANGED m_maxPoolSize
        /\ \/ m_resourceList' = m_resourceList
           \/ m_resourceList' = Append(m_resourceList, held[c])
    BY <1>3 DEF ReturnResource, CloserDeletes, settings, IInv, Bookkeeping
  <2>2. QED
    BY <2>1, DropRefines
<1>4. ASSUME NEW c \in Clients,
             GetWaitFor(c) \/ Timeout(c) \/ SleepAgain(c) \/ CloserSeesPool(c)
      PROVE  UNCHANGED Contract!cvars
  BY <1>4, SameRefines DEF GetWaitFor, Timeout, SleepAgain, CloserSeesPool, settings
<1>5. CASE ReleaseIdleResource
  BY <1>5, EmptyIdleRefines DEF ReleaseIdleResource, settings
<1>6. CASE SetMaxPoolSize
  <2>1. m_maxPoolSize' \in Nat /\ UNCHANGED <<m_resourceList, held>>
    BY <1>6, ConstantsOK DEF SetMaxPoolSize
  <2>2. UNCHANGED <<Live, [q \in Resources |-> HolderOf(held, q)]>>
    BY <2>1 DEF Live, Idle, Holders
  <2>3. QED
    BY <2>1, <2>2 DEF Contract!SetLimit, Contract!Next
<1>7. CASE SetMaxIdleSize
  BY <1>7, SameRefines DEF SetMaxIdleSize
<1>8. CASE DestructorCloses
  BY <1>8, EmptyIdleRefines, SameRefines DEF DestructorCloses, TearDown, settings
<1>9. CASE DestructorEnds
  BY <1>9, EmptyIdleRefines DEF DestructorEnds, TearDown, settings
<1>10. CASE UNCHANGED vars
  BY <1>10, SameRefines DEF vars
<1>11. QED
  BY <1>1, <1>2, <1>3, <1>4, <1>5, <1>6, <1>7, <1>8, <1>9, <1>10 DEF Next, Client, Owner

LEMMA InitRefines == Init => Contract!Init
<1> SUFFICES ASSUME Init PROVE Contract!Init
  OBVIOUS
<1>1. Live = {}
  BY DEF Init, Live, Idle, Holders, ToSet
<1>2. \A r \in Resources : HolderOf(held, r) = NoRes
  <2>1. \A r \in Resources, d \in Clients : held[d] # r
    BY ConstantsOK DEF Init
  <2>2. QED
    BY <2>1, HolderOfNone
<1>3. m_maxPoolSize \in Nat
  BY ConstantsOK DEF Init
<1>4. QED
  BY <1>1, <1>2, <1>3 DEF Contract!Init

(* ResourcePool implements PoolContract: whatever its threads do, every    *)
(* resource has at most one owner, only free ones are handed out or        *)
(* trimmed, and one is created only below the limit then in force.         *)
THEOREM Refinement == Spec => ImplementsContract
<1>1. Spec => []IInv
  BY Invariance
<1>2. QED
  BY <1>1, InitRefines, StepRefines, PTL DEF Spec, ImplementsContract, Contract!Spec
=============================================================================
