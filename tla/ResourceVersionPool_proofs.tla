--------------------- MODULE ResourceVersionPool_proofs ---------------------
(***************************************************************************)
(* Proofs about hku::ResourceVersionPool, for any number of clients,       *)
(* resources, parameters and versions: what is handed out was made with    *)
(* the parameters of the moment, a getter without a timeout is never told  *)
(* that it timed out, every resource has one owner and is counted once,    *)
(* and the pool implements PoolContract.                                   *)
(***************************************************************************)
EXTENDS ResourceVersionPool, SequenceTheorems, FiniteSetTheorems, TLAPS

(* The types of what the properties look at.                               *)
TypeInv ==
  /\ m_version \in Nat /\ m_param \in Params
  /\ m_resourceList \in Seq(Resources)
  /\ held \in [Clients -> Resources \cup {NoRes}]
  /\ made \in [Resources -> [version : Nat, param : Params]]
  /\ pc \in [Clients -> Places]
  /\ timed \in [Clients -> BOOLEAN]

(* A raised version empties the idle list, and only current resources      *)
(* return to it.                                                           *)
IdleCurrent ==
  \A i \in DOMAIN m_resourceList : made[m_resourceList[i]].version = m_version

(* The version alone tells whether a resource has the present parameters.  *)
NamesParam(r) == /\ made[r].version <= m_version
                 /\ made[r].version = m_version => made[r].param = m_param

VersionNamesParam == \A r \in Live : NamesParam(r)

ExpiredHasTimeout == \A c \in Clients : pc[c] = "expired" => timed[c]

Stamped == TypeInv /\ IdleCurrent /\ VersionNamesParam /\ ExpiredHasTimeout

(* A closer that is giving back still has what it gives back.              *)
ReturnerHolds == \A c \in Clients : pc[c] = "returning" => held[c] # NoRes

IInv == Stamped /\ ReturnerHolds

LEMMA LiveIs == Live = {m_resourceList[i] : i \in DOMAIN m_resourceList}
                         \cup {held[c] : c \in Holders}
BY DEF Live, ToSet

LEMMA InitStamped == Init => Stamped
<1> SUFFICES ASSUME Init PROVE Stamped
  OBVIOUS
<1>1. Live = {}
  BY DEF Init, Live, ToSet, Holders
<1>2. TypeInv
  <2>1. m_resourceList \in Seq(Resources)
    BY DEF Init
  <2>2. made \in [Resources -> [version : Nat, param : Params]]
    BY DEF Init
  <2>3. QED
    BY <2>1, <2>2 DEF Init, TypeInv, Places
<1>3. QED
  BY <1>1, <1>2 DEF Init, Stamped, IdleCurrent, VersionNamesParam, ExpiredHasTimeout

-----------------------------------------------------------------------------
(* What a step does to the resources.                                      *)

(* Nothing new is alive, no stamp and no version changes, and the idle     *)
(* list keeps only what it had or a current resource.                      *)
LEMMA NothingNew ==
  ASSUME Stamped,
         m_resourceList' \in Seq(Resources),
         \A i \in DOMAIN m_resourceList' :
            /\ m_resourceList'[i] \in Live
            /\ made[m_resourceList'[i]].version = m_version,
         \A c \in Holders' : held'[c] \in Live,
         UNCHANGED <<pvars, made>>
  PROVE  IdleCurrent' /\ VersionNamesParam'
<1>1. Live' \subseteq Live
  BY DEF Live, ToSet
<1>2. IdleCurrent'
  BY DEF IdleCurrent, pvars
<1>3. VersionNamesParam'
  BY <1>1 DEF Stamped, VersionNamesParam, NamesParam, pvars
<1>4. QED
  BY <1>2, <1>3

(* Everything idle is current, so the first entry is taken, and nothing is *)
(* discarded.                                                              *)
LEMMA PopStep ==
  ASSUME Stamped, NEW c \in Clients, PopCurrentIdle(c)
  PROVE  /\ m_resourceList' \in Seq(Resources)
         /\ \A i \in DOMAIN m_resourceList' : \E j \in DOMAIN m_resourceList :
              m_resourceList'[i] = m_resourceList[j]
         /\ \E j \in DOMAIN m_resourceList :
              held' = [held EXCEPT ![c] = m_resourceList[j]]
         /\ made' = made
<1>1. /\ m_resourceList \in Seq(Resources)
      /\ Len(m_resourceList) \in Nat
      /\ DOMAIN m_resourceList = 1 .. Len(m_resourceList)
  BY DEF Stamped, TypeInv
<1>2. PICK i \in Current :
        /\ HandOut(c, m_resourceList[i])
        /\ m_resourceList' = SubSeq(m_resourceList, i + 1, Len(m_resourceList))
        /\ made' = made
  <2>1. Current \subseteq 1 .. Len(m_resourceList) /\ Current # {}
    BY <1>1 DEF Current, PopCurrentIdle
  <2>2. \E j \in Current : \A k \in Current : j <= k
    <3>1. Current = DOMAIN m_resourceList
      BY DEF Current, Stamped, IdleCurrent
    <3>2. 1 \in Current /\ \A k \in Current : 1 <= k
      BY <1>1, <2>1, <3>1
    <3>3. QED
      BY <3>2
  <2>3. QED
    BY <2>2 DEF PopCurrentIdle
<1>3. i \in 1 .. Len(m_resourceList)
  BY <1>1 DEF Current
<1>4. /\ m_resourceList' \in Seq(Resources)
      /\ Len(m_resourceList') = Len(m_resourceList) - i
      /\ \A k \in 1 .. Len(m_resourceList) - i : m_resourceList'[k] = m_resourceList[i + k]
  <2> DEFINE s == m_resourceList
             n == Len(m_resourceList)
  <2>1. /\ SubSeq(s, i + 1, n) \in Seq(Resources)
        /\ Len(SubSeq(s, i + 1, n)) = IF i + 1 <= n THEN n - (i + 1) + 1 ELSE 0
        /\ \A k \in 1 .. n - (i + 1) + 1 : SubSeq(s, i + 1, n)[k] = s[(i + 1) + k - 1]
    BY <1>1, <1>3, SubSeqProperties
  <2>2. i \in Nat /\ n \in Nat /\ i <= n
    BY <1>1, <1>3
  <2>3. QED
    BY <1>2, <2>1, <2>2
<1>5. ASSUME NEW k \in DOMAIN m_resourceList'
      PROVE  \E j \in DOMAIN m_resourceList : m_resourceList'[k] = m_resourceList[j]
  <2>1. k \in 1 .. Len(m_resourceList) - i
    BY <1>4
  <2>2. i + k \in DOMAIN m_resourceList
    BY <1>1, <1>3, <2>1
  <2>3. QED
    BY <1>4, <2>1, <2>2
<1>6. QED
  BY <1>1, <1>2, <1>3, <1>4, <1>5 DEF HandOut

LEMMA PopKeeps ==
  ASSUME Stamped, NEW c \in Clients, PopCurrentIdle(c), UNCHANGED pvars
  PROVE  /\ m_resourceList' \in Seq(Resources)
         /\ held' \in [Clients -> Resources \cup {NoRes}]
         /\ made' \in [Resources -> [version : Nat, param : Params]]
         /\ IdleCurrent' /\ VersionNamesParam'
         /\ held'[c] # NoRes
         /\ made'[held'[c]].version = m_version /\ made'[held'[c]].param = m_param
         /\ \A d \in Clients \ {c} : held'[d] = held[d]
<1>1. /\ m_resourceList' \in Seq(Resources)
      /\ \A i \in DOMAIN m_resourceList' : \E j \in DOMAIN m_resourceList :
           m_resourceList'[i] = m_resourceList[j]
      /\ \E j \in DOMAIN m_resourceList :
           held' = [held EXCEPT ![c] = m_resourceList[j]]
      /\ made' = made
  BY PopStep
<1>2. PICK j \in DOMAIN m_resourceList : held' = [held EXCEPT ![c] = m_resourceList[j]]
  BY <1>1
<1>3. /\ m_resourceList[j] \in Resources /\ m_resourceList[j] \in Live
      /\ held \in [Clients -> Resources \cup {NoRes}]
      /\ made \in [Resources -> [version : Nat, param : Params]]
  BY LiveIs DEF Stamped, TypeInv
<1>4. /\ held' \in [Clients -> Resources \cup {NoRes}]
      /\ held'[c] = m_resourceList[j]
      /\ \A d \in Clients \ {c} : held'[d] = held[d]
  BY <1>2, <1>3
<1>5. /\ made[m_resourceList[j]].version = m_version
      /\ made[m_resourceList[j]].param = m_param
  BY <1>3 DEF Stamped, IdleCurrent, VersionNamesParam, NamesParam
<1>6. \A d \in Holders' : held'[d] \in Live
  BY <1>3, <1>4 DEF Holders, Live
<1>7. \A i \in DOMAIN m_resourceList' :
            /\ m_resourceList'[i] \in Live
            /\ made[m_resourceList'[i]].version = m_version
  BY <1>1, LiveIs DEF Stamped, IdleCurrent
<1>8. IdleCurrent' /\ VersionNamesParam'
  BY <1>1, <1>6, <1>7, NothingNew
<1>9. held'[c] # NoRes
  BY <1>3, <1>4, ConstantsOK
<1>10. QED
  BY <1>1, <1>3, <1>4, <1>5, <1>8, <1>9

(* A new resource carries the present version and parameters.              *)
LEMMA CreateKeeps ==
  ASSUME Stamped, NEW c \in Clients, Create(c), UNCHANGED pvars
  PROVE  /\ m_resourceList' \in Seq(Resources)
         /\ held' \in [Clients -> Resources \cup {NoRes}]
         /\ made' \in [Resources -> [version : Nat, param : Params]]
         /\ IdleCurrent' /\ VersionNamesParam'
         /\ held'[c] # NoRes
         /\ made'[held'[c]] = [version |-> m_version, param |-> m_param]
         /\ \A d \in Clients \ {c} : held'[d] = held[d]
<1>1. PICK r \in Resources \ Live :
        /\ held' = [held EXCEPT ![c] = r]
        /\ made' = [made EXCEPT ![r] = [version |-> m_version, param |-> m_param]]
  BY DEF Create, HandOut, StampNew
<1>2. /\ held \in [Clients -> Resources \cup {NoRes}]
      /\ made \in [Resources -> [version : Nat, param : Params]]
      /\ m_version \in Nat /\ m_param \in Params
      /\ m_resourceList' = <<>>
      /\ m_version' = m_version /\ m_param' = m_param
  BY DEF Stamped, TypeInv, Create, pvars
<1>3. /\ held' \in [Clients -> Resources \cup {NoRes}]
      /\ held'[c] = r /\ r # NoRes
      /\ \A d \in Clients \ {c} : held'[d] = held[d]
  BY <1>1, <1>2, ConstantsOK
<1>4. /\ made' \in [Resources -> [version : Nat, param : Params]]
      /\ made'[r] = [version |-> m_version, param |-> m_param]
      /\ \A s \in Resources \ {r} : made'[s] = made[s]
  BY <1>1, <1>2
<1>5. IdleCurrent'
  BY <1>2 DEF IdleCurrent
<1>6. Live' \subseteq Live \cup {r}
  BY <1>2, <1>3 DEF Live, ToSet, Holders
<1>7. Live \subseteq Resources
  BY <1>2, LiveIs DEF Holders, Stamped, TypeInv
<1>8. VersionNamesParam'
  <2> SUFFICES ASSUME NEW s \in Live' PROVE NamesParam(s)'
    BY DEF VersionNamesParam
  <2>1. CASE s = r
    BY <1>2, <1>4, <2>1 DEF NamesParam
  <2>2. CASE s # r
    <3>1. s \in Live /\ made'[s] = made[s]
      BY <1>4, <1>6, <1>7, <2>2
    <3>2. NamesParam(s)
      BY <3>1 DEF Stamped, VersionNamesParam
    <3>3. QED
      BY <1>2, <3>1, <3>2 DEF NamesParam
  <2>3. QED
    BY <2>1, <2>2
<1>9. m_resourceList' \in Seq(Resources)
  BY <1>2
<1>10. QED
  BY <1>3, <1>4, <1>5, <1>8, <1>9

(* Dropping idle resources.                                                *)
LEMMA EmptiedKeeps ==
  ASSUME Stamped, m_resourceList' = <<>>, UNCHANGED <<pvars, made, held>>
  PROVE  m_resourceList' \in Seq(Resources) /\ IdleCurrent' /\ VersionNamesParam'
<1>1. m_resourceList' \in Seq(Resources) /\ DOMAIN m_resourceList' = {}
  OBVIOUS
<1>2. \A c \in Holders' : held'[c] \in Live
  BY DEF Holders, Live
<1>3. IdleCurrent' /\ VersionNamesParam'
  BY <1>1, <1>2, NothingNew
<1>4. QED
  BY <1>1, <1>3

-----------------------------------------------------------------------------
(* The actions.                                                            *)

LEMMA GetStep == ASSUME Stamped, NEW c \in Clients, Get(c) PROVE Stamped'
<1>1. UNCHANGED <<pvars, pc, timed>>
  BY DEF Get
<1>2. /\ m_resourceList' \in Seq(Resources)
      /\ held' \in [Clients -> Resources \cup {NoRes}]
      /\ made' \in [Resources -> [version : Nat, param : Params]]
      /\ IdleCurrent' /\ VersionNamesParam'
  <2>1. CASE PopCurrentIdle(c)
    BY <1>1, <2>1, PopKeeps
  <2>2. CASE Create(c)
    BY <1>1, <2>2, CreateKeeps
  <2>3. CASE DiscardStale /\ UNCHANGED <<made, m_closer_set, bound, held>>
    BY <1>1, <2>3, EmptiedKeeps DEF DiscardStale, Stamped, TypeInv
  <2>4. QED
    BY <2>1, <2>2, <2>3 DEF Get
<1>3. QED
  BY <1>1, <1>2 DEF Stamped, TypeInv, ExpiredHasTimeout, pvars

LEMMA GetWaitForStep == ASSUME Stamped, NEW c \in Clients, GetWaitFor(c) PROVE Stamped'
<1>1. /\ m_resourceList' = <<>> /\ pc' = [pc EXCEPT ![c] = "asleep"]
      /\ UNCHANGED <<pvars, made, held>>
  BY DEF GetWaitFor, DiscardStale
<1>2. PICK finite \in BOOLEAN : timed' = [timed EXCEPT ![c] = finite]
  BY DEF GetWaitFor
<1>3. m_resourceList' \in Seq(Resources) /\ IdleCurrent' /\ VersionNamesParam'
  BY <1>1, EmptiedKeeps
<1>4. TypeInv'
  BY <1>1, <1>2, <1>3 DEF Stamped, TypeInv, pvars, Places
<1>5. ExpiredHasTimeout'
  BY <1>1, <1>2 DEF Stamped, TypeInv, ExpiredHasTimeout
<1>6. QED
  BY <1>3, <1>4, <1>5 DEF Stamped

(* Nothing but the places of the getters changes.                          *)
LEMMA PlacesStep ==
  ASSUME Stamped, pc' \in [Clients -> Places],
         \A c \in Clients : pc'[c] = "expired" => pc[c] = "expired" \/ timed[c],
         UNCHANGED <<pvars, made, m_resourceList, held, timed>>
  PROVE  Stamped'
<1>1. \A c \in Holders' : held'[c] \in Live
  BY DEF Holders, Live
<1>2. /\ m_resourceList' \in Seq(Resources)
      /\ \A i \in DOMAIN m_resourceList' :
            /\ m_resourceList'[i] \in Live
            /\ made[m_resourceList'[i]].version = m_version
  BY LiveIs DEF Stamped, TypeInv, IdleCurrent
<1>3. IdleCurrent' /\ VersionNamesParam'
  BY <1>1, <1>2, NothingNew
<1>4. QED
  BY <1>2, <1>3 DEF Stamped, TypeInv, ExpiredHasTimeout, pvars

LEMMA MovesStep ==
  ASSUME Stamped, NEW c \in Clients, Timeout(c) \/ SleepAgain(c) \/ CloserSeesPool(c)
  PROVE  Stamped'
<1>1. PICK p \in {"expired", "asleep", "returning"} :
        /\ pc' = [pc EXCEPT ![c] = p]
        /\ p = "expired" => timed[c]
  BY DEF Timeout, SleepAgain, CloserSeesPool
<1>2. UNCHANGED <<pvars, made, m_resourceList, held, timed>>
  BY DEF Timeout, SleepAgain, CloserSeesPool
<1>3. /\ pc' \in [Clients -> Places]
      /\ \A d \in Clients : pc'[d] = "expired" => pc[d] = "expired" \/ timed[d]
  BY <1>1 DEF Stamped, TypeInv, Places
<1>4. QED
  BY <1>2, <1>3, PlacesStep

LEMMA LeaveWaitStep == ASSUME Stamped, NEW c \in Clients, LeaveWait(c) PROVE Stamped'
<1>1. /\ pc' = [pc EXCEPT ![c] = "out"] /\ timed' = [timed EXCEPT ![c] = FALSE]
      /\ UNCHANGED pvars
  BY DEF LeaveWait
<1>2. /\ m_resourceList' \in Seq(Resources)
      /\ held' \in [Clients -> Resources \cup {NoRes}]
      /\ made' \in [Resources -> [version : Nat, param : Params]]
      /\ IdleCurrent' /\ VersionNamesParam'
  <2>1. CASE UNCHANGED <<made, m_resourceList, held>>
    <3>1. \A d \in Holders' : held'[d] \in Live
      BY <2>1 DEF Holders, Live
    <3>2. /\ m_resourceList' \in Seq(Resources)
          /\ \A i \in DOMAIN m_resourceList' :
                /\ m_resourceList'[i] \in Live
                /\ made[m_resourceList'[i]].version = m_version
      BY <2>1, LiveIs DEF Stamped, TypeInv, IdleCurrent
    <3>3. IdleCurrent' /\ VersionNamesParam'
      BY <1>1, <2>1, <3>1, <3>2, NothingNew
    <3>4. QED
      BY <2>1, <3>2, <3>3 DEF Stamped, TypeInv
  <2>2. CASE PopCurrentIdle(c)
    BY <1>1, <2>2, PopKeeps
  <2>3. CASE Create(c)
    BY <1>1, <2>3, CreateKeeps
  <2>4. CASE DiscardStale /\ UNCHANGED <<made, held>>
    BY <1>1, <2>4, EmptiedKeeps DEF DiscardStale, Stamped, TypeInv
  <2>5. QED
    BY <2>1, <2>2, <2>3, <2>4 DEF LeaveWait
<1>3. TypeInv'
  BY <1>1, <1>2 DEF Stamped, TypeInv, pvars, Places
<1>4. ExpiredHasTimeout'
  BY <1>1 DEF Stamped, TypeInv, ExpiredHasTimeout
<1>5. QED
  BY <1>2, <1>3, <1>4 DEF Stamped

(* Waking the sleepers moves nobody else.                                  *)
LEMMA NotifiedPlaces ==
  ASSUME NEW at \in [Clients -> Places]
  PROVE  /\ NotifyAll(at) \in [Clients -> Places]
         /\ \A c \in Clients : NotifyAll(at)[c] \in {"awake", at[c]}
BY DEF NotifyAll, Places

LEMMA CloserDeletesStep == ASSUME Stamped, NEW c \in Clients, CloserDeletes(c) PROVE Stamped'
<1>1. /\ held' = [held EXCEPT ![c] = NoRes]
      /\ UNCHANGED <<pvars, made, m_resourceList, pc, timed>>
  BY DEF CloserDeletes
<1>2. \A d \in Holders' : held'[d] \in Live
  BY <1>1 DEF Holders, Live, Stamped, TypeInv
<1>3. /\ m_resourceList' \in Seq(Resources)
      /\ \A i \in DOMAIN m_resourceList' :
            /\ m_resourceList'[i] \in Live
            /\ made[m_resourceList'[i]].version = m_version
  BY <1>1, LiveIs DEF Stamped, TypeInv, IdleCurrent
<1>4. IdleCurrent' /\ VersionNamesParam'
  BY <1>1, <1>2, <1>3, NothingNew
<1>5. TypeInv'
  BY <1>1, <1>3 DEF Stamped, TypeInv, pvars
<1>6. QED
  BY <1>1, <1>4, <1>5 DEF Stamped, ExpiredHasTimeout

(* Only a current resource comes back to the list.                         *)
LEMMA ReturnResourceStep ==
  ASSUME Stamped, NEW c \in Clients, held[c] # NoRes, ReturnResource(c) PROVE Stamped'
<1> DEFINE at == [pc EXCEPT ![c] = "out"]
<1>1. /\ held' = [held EXCEPT ![c] = NoRes]
      /\ UNCHANGED <<pvars, made, timed>>
  BY DEF ReturnResource
<1>2. /\ held \in [Clients -> Resources \cup {NoRes}]
      /\ held[c] \in Resources /\ held[c] \in Live
      /\ m_resourceList \in Seq(Resources)
  BY DEF Stamped, TypeInv, Live, Holders
<1>3. \A d \in Holders' : held'[d] \in Live
  BY <1>1, <1>2 DEF Holders, Live
<1>4. /\ m_resourceList' \in Seq(Resources)
      /\ \A i \in DOMAIN m_resourceList' :
            /\ m_resourceList'[i] \in Live
            /\ made[m_resourceList'[i]].version = m_version
  <2>1. CASE /\ Acceptable(held[c])
             /\ m_resourceList' = Append(m_resourceList, held[c])
    <3>1. m_resourceList' \in Seq(Resources)
      BY <1>2, <2>1
    <3>2. \A i \in DOMAIN m_resourceList' :
            \/ i \in DOMAIN m_resourceList /\ m_resourceList'[i] = m_resourceList[i]
            \/ m_resourceList'[i] = held[c]
      BY <1>2, <2>1
    <3>3. made[held[c]].version = m_version
      BY <2>1 DEF Acceptable
    <3>4. QED
      BY <1>2, <3>1, <3>2, <3>3, LiveIs DEF Stamped, IdleCurrent
  <2>2. CASE UNCHANGED m_resourceList
    BY <1>2, <2>2, LiveIs DEF Stamped, IdleCurrent
  <2>3. QED
    BY <2>1, <2>2 DEF ReturnResource
<1>5. IdleCurrent' /\ VersionNamesParam'
  BY <1>1, <1>3, <1>4, NothingNew
<1>6. /\ pc' \in [Clients -> Places]
      /\ \A d \in Clients : pc'[d] = "expired" => pc[d] = "expired"
  <2>1. at \in [Clients -> Places]
    BY DEF Stamped, TypeInv, Places
  <2>2. /\ NotifyAll(at) \in [Clients -> Places]
        /\ \A d \in Clients : NotifyAll(at)[d] \in {"awake", at[d]}
    BY <2>1, NotifiedPlaces
  <2>3. pc' = at \/ pc' = NotifyAll(at)
    BY DEF ReturnResource
  <2>4. \A d \in Clients : at[d] \in {"out", pc[d]}
    BY DEF Stamped, TypeInv
  <2>5. QED
    BY <2>1, <2>2, <2>3, <2>4
<1>7. TypeInv'
  BY <1>1, <1>2, <1>4, <1>6 DEF Stamped, TypeInv, pvars
<1>8. ExpiredHasTimeout'
  BY <1>1, <1>6 DEF Stamped, ExpiredHasTimeout
<1>9. QED
  BY <1>5, <1>7, <1>8 DEF Stamped

(* A raised version: no live resource has it yet, and none is idle.        *)
LEMMA RaisedKeeps ==
  ASSUME Stamped, m_version' \in Nat, m_version' > m_version, m_param' \in Params,
         m_resourceList' = <<>>, UNCHANGED <<made, held, pc, timed>>
  PROVE  Stamped'
<1>1. m_resourceList' \in Seq(Resources) /\ DOMAIN m_resourceList' = {}
  OBVIOUS
<1>2. Live' \subseteq Live /\ Live \subseteq Resources
  BY LiveIs DEF Live, ToSet, Holders, Stamped, TypeInv
<1>3. VersionNamesParam'
  <2> SUFFICES ASSUME NEW r \in Live' PROVE NamesParam(r)'
    BY DEF VersionNamesParam
  <2>1. made[r].version <= m_version
    BY <1>2 DEF Stamped, VersionNamesParam, NamesParam
  <2>2. made[r].version \in Nat /\ m_version \in Nat
    BY <1>2 DEF Stamped, TypeInv
  <2>3. made[r].version <= m_version' /\ made[r].version # m_version'
    BY <2>1, <2>2
  <2>4. QED
    BY <2>3 DEF NamesParam
<1>4. IdleCurrent'
  BY <1>1 DEF IdleCurrent
<1>5. QED
  BY <1>1, <1>3, <1>4 DEF Stamped, TypeInv, ExpiredHasTimeout

LEMMA OwnerRaises ==
  ASSUME Stamped, SetParam \/ SetParameter \/ IncVersion PROVE Stamped'
<1>1. /\ m_resourceList' = <<>> /\ m_param' \in Params
      /\ UNCHANGED <<made, held, pc, timed>>
  BY DEF SetParam, SetParameter, IncVersion, ReleaseIdleNoLock, Stamped, TypeInv
<1>2. PICK n \in Nat \ {0} : m_version' = m_version + n
  BY ConstantsOK DEF SetParam, SetParameter, IncVersion, RaiseVersion
<1>3. m_version' \in Nat /\ m_version' > m_version
  BY <1>2 DEF Stamped, TypeInv
<1>4. QED
  BY <1>1, <1>3, RaisedKeeps

(* A changed limit touches no resource and no getter.                      *)
LEMMA LimitsStep == ASSUME Stamped, SetMaxPoolSize \/ SetMaxIdleSize PROVE Stamped'
<1>1. UNCHANGED <<pvars, made, m_resourceList, held, pc, timed>>
  BY DEF SetMaxPoolSize, SetMaxIdleSize
<1>2. pc' \in [Clients -> Places] /\ \A c \in Clients : pc'[c] = "expired" => pc[c] = "expired"
  BY <1>1 DEF Stamped, TypeInv
<1>3. QED
  BY <1>1, <1>2, PlacesStep

LEMMA ReleaseStep == ASSUME Stamped, ReleaseIdleResource PROVE Stamped'
<1>1. m_resourceList' = <<>> /\ UNCHANGED <<pvars, made, held, pc, timed>>
  BY DEF ReleaseIdleResource, ReleaseIdleNoLock
<1>2. m_resourceList' \in Seq(Resources) /\ IdleCurrent' /\ VersionNamesParam'
  BY <1>1, EmptiedKeeps
<1>3. QED
  BY <1>1, <1>2 DEF Stamped, TypeInv, ExpiredHasTimeout, pvars

(* The destructor wakes the sleepers and may drop what is idle.            *)
LEMMA DestructorStep ==
  ASSUME Stamped, DestructorCloses \/ DestructorEnds PROVE Stamped'
<1>1. /\ UNCHANGED <<pvars, made, held, timed>>
      /\ m_resourceList' = <<>> \/ m_resourceList' = m_resourceList
      /\ pc' = pc \/ pc' = NotifyAll(pc)
  BY DEF DestructorCloses, DestructorEnds, TearDown
<1>2. m_resourceList' \in Seq(Resources) /\ IdleCurrent' /\ VersionNamesParam'
  <2>1. CASE m_resourceList' = <<>>
    BY <1>1, <2>1, EmptiedKeeps
  <2>2. CASE m_resourceList' = m_resourceList
    <3>1. \A d \in Holders' : held'[d] \in Live
      BY <1>1 DEF Holders, Live
    <3>2. /\ m_resourceList' \in Seq(Resources)
          /\ \A i \in DOMAIN m_resourceList' :
                /\ m_resourceList'[i] \in Live
                /\ made[m_resourceList'[i]].version = m_version
      BY <2>2, LiveIs DEF Stamped, TypeInv, IdleCurrent
    <3>3. IdleCurrent' /\ VersionNamesParam'
      BY <1>1, <3>1, <3>2, NothingNew
    <3>4. QED
      BY <3>2, <3>3
  <2>3. QED
    BY <1>1, <2>1, <2>2
<1>3. /\ pc' \in [Clients -> Places]
      /\ \A d \in Clients : pc'[d] = "expired" => pc[d] = "expired"
  <2>1. pc \in [Clients -> Places]
    BY DEF Stamped, TypeInv
  <2>2. /\ NotifyAll(pc) \in [Clients -> Places]
        /\ \A d \in Clients : NotifyAll(pc)[d] \in {"awake", pc[d]}
    BY <2>1, NotifiedPlaces
  <2>3. QED
    BY <1>1, <2>1, <2>2
<1>4. QED
  BY <1>1, <1>2, <1>3 DEF Stamped, TypeInv, ExpiredHasTimeout, pvars

-----------------------------------------------------------------------------
LEMMA StampedStep == ASSUME IInv, [Next]_vars PROVE Stamped'
<1>1. Stamped /\ ReturnerHolds
  BY DEF IInv
<1>2. CASE \E c \in Clients : Client(c)
  <2> PICK c \in Clients : Client(c)
    BY <1>2
  <2>1. CASE Get(c)
    BY <1>1, <2>1, GetStep
  <2>2. CASE GetWaitFor(c)
    BY <1>1, <2>2, GetWaitForStep
  <2>3. CASE Timeout(c) \/ SleepAgain(c) \/ CloserSeesPool(c)
    BY <1>1, <2>3, MovesStep
  <2>4. CASE LeaveWait(c)
    BY <1>1, <2>4, LeaveWaitStep
  <2>5. CASE CloserDeletes(c)
    BY <1>1, <2>5, CloserDeletesStep
  <2>6. CASE ReturnResource(c)
    <3>1. held[c] # NoRes
      BY <1>1, <2>6 DEF ReturnerHolds, ReturnResource
    <3>2. QED
      BY <1>1, <2>6, <3>1, ReturnResourceStep
  <2>7. QED
    BY <2>1, <2>2, <2>3, <2>4, <2>5, <2>6 DEF Client
<1>3. CASE Owner
  BY <1>1, <1>3, ReleaseStep, LimitsStep, OwnerRaises, DestructorStep DEF Owner
<1>4. CASE UNCHANGED vars
  <2>1. \A d \in Clients : pc'[d] = "expired" => pc[d] = "expired"
    BY <1>4 DEF vars
  <2>2. QED
    BY <1>1, <1>4, <2>1, PlacesStep DEF vars, pvars, Stamped, TypeInv
<1>5. QED
  BY <1>2, <1>3, <1>4 DEF Next

(* What a step hands out: nothing, or a current resource to the getter c   *)
(* that makes it; nobody else's hands change.                              *)
LEMMA LeavesWith ==
  ASSUME Stamped, NEW c \in Clients, Get(c) \/ LeaveWait(c)
  PROVE  \/ held' = held
         \/ /\ held'[c] # NoRes
            /\ made'[held'[c]] = [version |-> m_version, param |-> m_param]
            /\ \A d \in Clients \ {c} : held'[d] = held[d]
<1>1. UNCHANGED pvars
  BY DEF Get, LeaveWait
<1>2. CASE held' = held
  BY <1>2
<1>3. CASE PopCurrentIdle(c)
  <2>1. /\ held' \in [Clients -> Resources \cup {NoRes}]
        /\ made' \in [Resources -> [version : Nat, param : Params]]
        /\ held'[c] # NoRes
        /\ made'[held'[c]].version = m_version /\ made'[held'[c]].param = m_param
        /\ \A d \in Clients \ {c} : held'[d] = held[d]
    BY <1>1, <1>3, PopKeeps
  <2>2. made'[held'[c]] \in [version : Nat, param : Params]
    BY <2>1
  <2>3. made'[held'[c]] = [version |-> m_version, param |-> m_param]
    BY <2>1, <2>2
  <2>4. QED
    BY <2>1, <2>3
<1>4. CASE Create(c)
  BY <1>1, <1>4, CreateKeeps
<1>5. QED
  BY <1>2, <1>3, <1>4 DEF Get, LeaveWait

LEMMA OthersHandOutNothing ==
  ASSUME Stamped, [Next]_vars,
         ~ \E c \in Clients : Get(c) \/ LeaveWait(c)
  PROVE  \A c \in Clients : held'[c] \in {held[c], NoRes}
<1>1. held \in [Clients -> Resources \cup {NoRes}]
  BY DEF Stamped, TypeInv
<1>2. CASE \E d \in Clients : held' = [held EXCEPT ![d] = NoRes]
  BY <1>1, <1>2
<1>3. CASE held' = held
  BY <1>3
<1>4. CASE \E c \in Clients : Client(c)
  BY <1>2, <1>3, <1>4 DEF Client, GetWaitFor, Timeout, SleepAgain,
       CloserSeesPool, CloserDeletes, ReturnResource
<1>5. CASE Owner
  BY <1>3, <1>5 DEF Owner, ReleaseIdleResource, SetMaxPoolSize, SetMaxIdleSize,
       SetParam, SetParameter, IncVersion,
       DestructorCloses, DestructorEnds
<1>6. QED
  BY <1>3, <1>4, <1>5 DEF Next, vars

LEMMA ReturnerStep == ASSUME IInv, [Next]_vars PROVE ReturnerHolds'
<1>1. Stamped /\ ReturnerHolds
  BY DEF IInv
<1>2. /\ held \in [Clients -> Resources \cup {NoRes}]
      /\ pc \in [Clients -> Places]
  BY <1>1 DEF Stamped, TypeInv
<1>3. ASSUME NEW c \in Clients, Get(c) \/ LeaveWait(c) PROVE ReturnerHolds'
  <2>1. pc[c] \in {"out", "awake", "expired"} /\ pc'[c] = "out"
    BY <1>2, <1>3 DEF Get, LeaveWait, CanCall
  <2>2. \A d \in Clients \ {c} : held'[d] = held[d] /\ pc'[d] = pc[d]
    BY <1>1, <1>2, <1>3, LeavesWith DEF Get, LeaveWait
  <2>3. QED
    BY <1>1, <2>1, <2>2 DEF ReturnerHolds
<1>4. ASSUME NEW c \in Clients,
             GetWaitFor(c) \/ Timeout(c) \/ SleepAgain(c) \/ CloserSeesPool(c)
      PROVE  ReturnerHolds'
  <2>1. /\ held' = held
        /\ \A d \in Clients \ {c} : pc'[d] = pc[d]
        /\ pc'[c] = "returning" => held[c] # NoRes
    BY <1>2, <1>4 DEF GetWaitFor, Timeout, SleepAgain, CloserSeesPool
  <2>2. QED
    BY <1>1, <2>1 DEF ReturnerHolds
<1>5. ASSUME NEW c \in Clients, CloserDeletes(c) \/ ReturnResource(c)
      PROVE  ReturnerHolds'
  <2> DEFINE at == [pc EXCEPT ![c] = "out"]
  <2>1. held' = [held EXCEPT ![c] = NoRes]
    BY <1>5 DEF CloserDeletes, ReturnResource
  <2>2. pc' \in {at, NotifyAll(at)} \/ (pc' = pc /\ pc[c] = "out")
    BY <1>5 DEF CloserDeletes, ReturnResource
  <2>3. at \in [Clients -> Places] /\ at[c] = "out"
    BY <1>2 DEF Places
  <2>4. \A d \in Clients : NotifyAll(at)[d] \in {"awake", at[d]}
    BY <2>3, NotifiedPlaces
  <2>5. /\ pc'[c] # "returning"
        /\ \A d \in Clients \ {c} : pc'[d] \in {"awake", pc[d]} /\ held'[d] = held[d]
    BY <1>2, <2>1, <2>2, <2>3, <2>4
  <2>6. QED
    BY <1>1, <2>5 DEF ReturnerHolds
<1>6. CASE Owner
  <2>1. held' = held /\ (pc' = pc \/ pc' = NotifyAll(pc))
    BY <1>6 DEF Owner, ReleaseIdleResource, SetMaxPoolSize, SetMaxIdleSize,
       SetParam, SetParameter, IncVersion,
       DestructorCloses, DestructorEnds
  <2>2. \A d \in Clients : NotifyAll(pc)[d] \in {"awake", pc[d]}
    BY <1>2, NotifiedPlaces
  <2>3. QED
    BY <1>1, <2>1, <2>2 DEF ReturnerHolds
<1>7. CASE UNCHANGED vars
  BY <1>1, <1>7 DEF vars, ReturnerHolds
<1>8. QED
  BY <1>3, <1>4, <1>5, <1>6, <1>7 DEF Next, Client

(* The inductive invariant: nothing idle is stale, a live resource's       *)
(* version tells its parameters, only a getter with a timeout expires and  *)
(* a closer that gives back has something to give.                         *)
THEOREM Invariance == Spec => []IInv
<1>1. Init => IInv
  BY InitStamped DEF Init, IInv, ReturnerHolds
<1>2. IInv /\ [Next]_vars => IInv'
  BY StampedStep, ReturnerStep DEF IInv
<1>3. QED
  BY <1>1, <1>2, PTL DEF Spec

-----------------------------------------------------------------------------
(* For any number of clients, resources and versions: get(), getWaitFor()  *)
(* and getAndWait() hand out only resources made with the parameters the   *)
(* pool has at that moment.                                                *)
THEOREM HandedOut == Spec => HandedOutIsCurrent
<1> DEFINE A == \A c \in Clients : held[c] = NoRes /\ held'[c] # NoRes =>
                  made'[held'[c]] = [version |-> m_version, param |-> m_param]
<1>1. ASSUME IInv, [Next]_vars PROVE A
  <2> SUFFICES ASSUME NEW c \in Clients, held[c] = NoRes, held'[c] # NoRes
               PROVE  made'[held'[c]] = [version |-> m_version, param |-> m_param]
    OBVIOUS
  <2>1. Stamped
    BY <1>1 DEF IInv
  <2>2. PICK d \in Clients : Get(d) \/ LeaveWait(d)
    BY <1>1, <2>1, OthersHandOutNothing
  <2>3. QED
    BY <2>1, <2>2, LeavesWith
<1>2. IInv /\ [Next]_vars => [A]_vars
  BY <1>1
<1>3. QED
  BY <1>2, Invariance, PTL DEF Spec, HandedOutIsCurrent

(* Everything idle is current, so a getter woken because the list is not   *)
(* empty takes from it.                                                    *)
LEMMA WokenTakes ==
  ASSUME IInv, NEW c \in Clients, LeaveWait(c), ~timed[c], ~m_closed
  PROVE  held'[c] # NoRes
<1>1. Stamped /\ pc[c] # "expired"
  BY DEF IInv, Stamped, ExpiredHasTimeout
<1>2. m_resourceList # <<>> /\ m_resourceList \in Seq(Resources)
  BY <1>1 DEF LeaveWait, WaitPred, Stamped, TypeInv
<1>3. 1 \in DOMAIN m_resourceList
  BY <1>2
<1>4. Current # {}
  BY <1>1, <1>3 DEF Current, Stamped, IdleCurrent
<1>5. PopCurrentIdle(c) /\ UNCHANGED pvars
  BY <1>4 DEF LeaveWait, DiscardStale, Create
<1>6. QED
  BY <1>1, <1>5, PopKeeps

(* For any number of clients, resources and versions: getAndWait() leaves  *)
(* its wait with a resource, or because the pool closed, never with the    *)
(* exception of a timeout it did not ask for.                              *)
THEOREM NeverTimesOut == Spec => AndWaitNeverTimesOut
<1> DEFINE A == \A c \in Clients : c \in Blocked /\ ~timed[c] /\ pc'[c] = "out" =>
                  held'[c] # NoRes \/ m_closed
<1>1. ASSUME IInv, [Next]_vars PROVE A
  <2> SUFFICES ASSUME NEW c \in Clients, c \in Blocked, ~timed[c], pc'[c] = "out",
                      ~m_closed
               PROVE  held'[c] # NoRes
    OBVIOUS
  <2>1. pc \in [Clients -> Places] /\ pc[c] \in {"asleep", "awake", "expired"}
    BY <1>1 DEF IInv, Stamped, TypeInv, Blocked
  <2>2. LeaveWait(c)
    <3>1. CASE \E d \in Clients : Client(d)
      <4> PICK d \in Clients : Client(d)
        BY <3>1
      <4>1. d = c \/ pc'[c] \in {"awake", pc[c]}
        <5> DEFINE at == [pc EXCEPT ![d] = "out"]
        <5>1. at \in [Clients -> Places]
          BY <2>1 DEF Places
        <5>2. \A e \in Clients : NotifyAll(at)[e] \in {"awake", at[e]}
          BY <5>1, NotifiedPlaces
        <5>3. pc' = pc \/ pc' = NotifyAll(at) \/ \E p \in Places : pc' = [pc EXCEPT ![d] = p]
          BY DEF Client, Get, GetWaitFor, Timeout, SleepAgain, LeaveWait,
             CloserSeesPool, CloserDeletes, ReturnResource, Places
        <5>4. QED
          BY <2>1, <5>2, <5>3
      <4>2. d = c
        BY <2>1, <4>1
      <4>3. QED
        BY <2>1, <4>2 DEF Client, Get, GetWaitFor, Timeout, SleepAgain, CanCall,
           CloserSeesPool, CloserDeletes, ReturnResource
    <3>2. CASE Owner
      <4>1. pc' = pc \/ pc' = NotifyAll(pc)
        BY <3>2 DEF Owner, ReleaseIdleResource, SetMaxPoolSize, SetMaxIdleSize,
       SetParam, SetParameter, IncVersion,
           DestructorCloses, DestructorEnds
      <4>2. NotifyAll(pc)[c] \in {"awake", pc[c]}
        BY <2>1, NotifiedPlaces
      <4>3. QED
        BY <2>1, <4>1, <4>2
    <3>3. CASE UNCHANGED vars
      BY <2>1, <3>3 DEF vars
    <3>4. QED
      BY <1>1, <3>1, <3>2, <3>3 DEF Next
  <2>3. QED
    BY <1>1, <2>2, WokenTakes
<1>2. IInv /\ [Next]_vars => [A]_vars
  BY <1>1
<1>3. QED
  BY <1>2, Invariance, PTL DEF Spec, AndWaitNeverTimesOut

-----------------------------------------------------------------------------
(* The pool against its contract.  What a step does to the resources is    *)
(* one of five moves of one client or of the pool, whatever the threads    *)
(* are doing: the moves are what maps to PoolContract.                     *)

(* An idle resource is idle once and not held, a held one has one holder.  *)
Exclusive == /\ \A i, j \in DOMAIN m_resourceList :
                   m_resourceList[i] = m_resourceList[j] => i = j
             /\ \A c \in Holders : \A i \in DOMAIN m_resourceList :
                   held[c] # m_resourceList[i]
             /\ \A c, d \in Holders : held[c] = held[d] => c = d

(* Until the pool is torn down its count is what is idle or held.          *)
CountExact ==
  /\ m_count \in Int
  /\ phase # "gone" => m_count = Len(m_resourceList) + Cardinality(Holders)

(* Only an open pool is not closed; until it is gone every holder's closer *)
(* reaches it; who waits holds nothing.                                    *)
Bookkeeping ==
  /\ phase \in {"open", "closing", "gone"} /\ (m_closed <=> phase # "open")
  /\ phase # "gone" => \A c \in Holders : c \in bound
  /\ \A c \in Clients : pc[c] \in {"asleep", "awake", "expired"} => held[c] = NoRes

LimitOK == m_maxPoolSize \in Nat

RInv == IInv /\ LimitOK /\ Exclusive /\ CountExact /\ Bookkeeping

Take(c) == /\ held[c] = NoRes
           /\ m_resourceList # <<>>
           /\ held' = [held EXCEPT ![c] = Head(m_resourceList)]
           /\ m_resourceList' = Tail(m_resourceList)
           /\ m_count' = m_count

Make(c, r) == /\ held[c] = NoRes
              /\ phase # "gone"
              /\ r \in Resources \ Live
              /\ m_maxPoolSize = 0 \/ m_count < m_maxPoolSize
              /\ held' = [held EXCEPT ![c] = r]
              /\ m_resourceList' = m_resourceList
              /\ m_count' = m_count + 1

GiveBack(c) == /\ held[c] # NoRes
               /\ held' = [held EXCEPT ![c] = NoRes]
               /\ m_resourceList' = Append(m_resourceList, held[c])
               /\ m_count' = m_count

Lose(c) == /\ held[c] # NoRes
           /\ held' = [held EXCEPT ![c] = NoRes]
           /\ m_resourceList' = m_resourceList
           /\ m_count' \in Int
           /\ phase # "gone" => m_count' = m_count - 1

Empty == /\ m_resourceList' = <<>>
         /\ held' = held
         /\ m_count' \in Int
         /\ phase' # "gone" => m_count' = m_count - Len(m_resourceList)

Same == UNCHANGED <<m_resourceList, held, m_count>>

Move == \/ Empty \/ Same
        \/ \E c \in Clients : Take(c) \/ GiveBack(c) \/ Lose(c)
        \/ \E c \in Clients, r \in Resources : Make(c, r)

LEMMA HoldersFinite == IsFiniteSet(Holders) /\ Cardinality(Holders) \in Nat
<1>1. Holders \subseteq Clients
  BY DEF Holders
<1>2. QED
  BY <1>1, ConstantsOK, FS_Subset, FS_CardinalityType

(* Everything idle is current: a pop takes the head of the list, and a     *)
(* step that finds nothing current finds nothing.                          *)
LEMMA PopTakes ==
  ASSUME RInv, NEW c \in Clients, held[c] = NoRes, PopCurrentIdle(c)
  PROVE  Take(c)
<1> DEFINE s == m_resourceList
<1>1. s \in Seq(Resources) /\ Len(s) \in Nat /\ DOMAIN s = 1 .. Len(s)
  BY DEF RInv, IInv, Stamped, TypeInv
<1>2. Current = DOMAIN s /\ Current # {}
  BY DEF Current, RInv, IInv, Stamped, IdleCurrent, PopCurrentIdle
<1>3. Len(s) >= 1 /\ s # <<>>
  BY <1>1, <1>2
<1>4. (CHOOSE j \in Current : \A k \in Current : j <= k) = 1
  <2>1. 1 \in Current /\ \A k \in Current : 1 <= k
    BY <1>1, <1>2, <1>3
  <2>2. \A j \in Current : (\A k \in Current : j <= k) => j = 1
    BY <1>1, <1>2, <2>1
  <2>3. QED
    BY <2>1, <2>2
<1>5. /\ HandOut(c, s[1]) /\ m_resourceList' = SubSeq(s, 1 + 1, Len(s))
      /\ m_count' = m_count - (1 - 1)
  BY <1>4 DEF PopCurrentIdle
<1>6. SubSeq(s, 1 + 1, Len(s)) = Tail(s) /\ s[1] = Head(s)
  <2>1. Head(s) = s[1] /\ Tail(s) \in Seq(Resources) /\ Len(Tail(s)) = Len(s) - 1
        /\ \A i \in 1 .. Len(Tail(s)) : Tail(s)[i] = s[i + 1]
    BY <1>1, <1>3, HeadTailProperties
  <2>2. /\ SubSeq(s, 2, Len(s)) \in Seq(Resources)
        /\ Len(SubSeq(s, 2, Len(s))) = IF 2 <= Len(s) THEN Len(s) - 2 + 1 ELSE 0
        /\ \A i \in 1 .. Len(s) - 2 + 1 : SubSeq(s, 2, Len(s))[i] = s[2 + i - 1]
    BY <1>1, <1>3, SubSeqProperties
  <2>3. Len(SubSeq(s, 2, Len(s))) = Len(Tail(s))
    BY <1>1, <1>3, <2>1, <2>2
  <2>4. \A i \in 1 .. Len(Tail(s)) : SubSeq(s, 2, Len(s))[i] = Tail(s)[i]
    BY <1>1, <1>3, <2>1, <2>2
  <2>5. SubSeq(s, 2, Len(s)) = Tail(s)
    BY <2>1, <2>2, <2>3, <2>4, SeqEqual
  <2>6. QED
    BY <2>1, <2>5
<1>7. m_count' = m_count
  BY <1>5 DEF RInv, CountExact
<1>8. QED
  BY <1>3, <1>5, <1>6, <1>7 DEF Take, HandOut

LEMMA NothingCurrent ==
  ASSUME RInv, Current = {}
  PROVE  m_resourceList = <<>> /\ Len(m_resourceList) = 0 /\ CountLeft = m_count
<1>1. m_resourceList \in Seq(Resources) /\ m_count \in Int
  BY DEF RInv, IInv, Stamped, TypeInv, CountExact
<1>2. DOMAIN m_resourceList = {}
  BY DEF Current, RInv, IInv, Stamped, IdleCurrent
<1>3. m_resourceList = <<>> /\ Len(m_resourceList) = 0
  BY <1>1, <1>2
<1>4. QED
  BY <1>1, <1>3 DEF CountLeft

LEMMA DiscardsNothing == ASSUME RInv, DiscardStale PROVE UNCHANGED <<m_resourceList, m_count>>
<1>1. /\ m_resourceList = <<>> /\ Len(m_resourceList) = 0
      /\ m_resourceList' = <<>> /\ m_count' = m_count - Len(m_resourceList)
      /\ m_count \in Int
  BY NothingCurrent DEF DiscardStale, RInv, CountExact
<1>2. QED
  BY <1>1

LEMMA CreateMakes ==
  ASSUME RInv, NEW c \in Clients, held[c] = NoRes, phase # "gone", Create(c),
         m_maxPoolSize = 0 \/ CountLeft < m_maxPoolSize
  PROVE  \E r \in Resources : Make(c, r)
<1>1. m_resourceList = <<>> /\ CountLeft = m_count
  BY NothingCurrent DEF Create
<1>2. PICK r \in Resources \ Live : held' = [held EXCEPT ![c] = r]
  BY DEF Create, HandOut
<1>3. Make(c, r)
  BY <1>1, <1>2 DEF Make, Create
<1>4. QED
  BY <1>2, <1>3

(* Every step is a move.                                                   *)
LEMMA StepMoves == ASSUME RInv, [Next]_vars PROVE Move /\ (phase' # phase => Empty \/ Same)
<1>1. m_count \in Int /\ m_maxPoolSize \in Nat /\ CountLeft \in Int
  BY NothingCurrent DEF RInv, LimitOK, CountExact, CountLeft, IInv, Stamped, TypeInv
<1>2. ASSUME NEW c \in Clients, Get(c) PROVE Move /\ phase' = phase
  <2>1. held[c] = NoRes /\ phase # "gone" /\ phase' = phase
    BY <1>2 DEF Get, CanCall, RInv, Bookkeeping, life
  <2>2. CASE PopCurrentIdle(c)
    BY <2>1, <2>2, PopTakes DEF Move
  <2>3. CASE ~Full /\ Create(c)
    <3>1. m_maxPoolSize = 0 \/ CountLeft < m_maxPoolSize
      BY <1>1, <2>3 DEF Full
    <3>2. QED
      BY <2>1, <2>3, <3>1, CreateMakes DEF Move
  <2>4. CASE DiscardStale /\ UNCHANGED held
    BY <2>1, <2>4, DiscardsNothing DEF Move, Same
  <2>5. QED
    BY <1>2, <2>2, <2>3, <2>4 DEF Get
<1>3. ASSUME NEW c \in Clients, GetWaitFor(c) PROVE Same /\ phase' = phase
  BY <1>3, DiscardsNothing DEF GetWaitFor, Same, life
<1>4. ASSUME NEW c \in Clients, Timeout(c) \/ SleepAgain(c) \/ CloserSeesPool(c)
      PROVE  Same /\ phase' = phase
  BY <1>4 DEF Timeout, SleepAgain, CloserSeesPool, Same, life
<1>5. ASSUME NEW c \in Clients, LeaveWait(c) PROVE Move /\ phase' = phase
  <2>1. held[c] = NoRes /\ phase' = phase
    BY <1>5 DEF LeaveWait, RInv, Bookkeeping, life
  <2>2. CASE m_closed
    BY <1>5, <2>1, <2>2 DEF LeaveWait, Move, Same
  <2>3. CASE ~m_closed /\ PopCurrentIdle(c)
    BY <2>1, <2>3, PopTakes DEF Move
  <2>4. CASE ~m_closed /\ CountLeft < m_maxPoolSize /\ Create(c)
    <3>1. phase # "gone"
      BY <2>4 DEF RInv, Bookkeeping
    <3>2. QED
      BY <2>1, <2>4, <3>1, CreateMakes DEF Move
  <2>5. CASE DiscardStale /\ UNCHANGED held
    BY <2>1, <2>5, DiscardsNothing DEF Move, Same
  <2>6. QED
    BY <1>5, <2>2, <2>3, <2>4, <2>5 DEF LeaveWait
<1>6. ASSUME NEW c \in Clients, CloserDeletes(c) PROVE Move /\ phase' = phase
  <2>1. phase = "gone" /\ phase' = phase
    BY <1>6 DEF CloserDeletes, RInv, Bookkeeping, Holders, life
  <2>2. Lose(c)
    BY <1>1, <1>6, <2>1 DEF CloserDeletes, Lose
  <2>3. QED
    BY <2>1, <2>2 DEF Move
<1>7. ASSUME NEW c \in Clients, ReturnResource(c) PROVE Move /\ phase' = phase
  <2>1. held[c] # NoRes
    BY <1>7 DEF ReturnResource, RInv, IInv, ReturnerHolds
  <2>2. GiveBack(c) \/ Lose(c)
    BY <1>1, <1>7, <2>1 DEF ReturnResource, GiveBack, Lose
  <2>3. QED
    BY <1>7, <2>2 DEF Move, ReturnResource, life
<1>8. CASE ReleaseIdleResource \/ SetParam \/ SetParameter \/ IncVersion
  <2>1. /\ m_resourceList' = <<>> /\ held' = held /\ phase' = phase
        /\ m_count' = m_count - Len(m_resourceList)
    BY <1>8 DEF ReleaseIdleResource, SetParam, SetParameter, IncVersion, ReleaseIdleNoLock, life
  <2>2. Len(m_resourceList) \in Nat
    BY DEF RInv, IInv, Stamped, TypeInv
  <2>3. Empty
    BY <1>1, <2>1, <2>2 DEF Empty
  <2>4. QED
    BY <2>1, <2>3 DEF Move
<1>9. CASE DestructorCloses \/ DestructorEnds
  BY <1>1, <1>9 DEF DestructorCloses, DestructorEnds, TearDown, Empty, Same, Move
<1>10. CASE SetMaxPoolSize \/ SetMaxIdleSize \/ UNCHANGED vars
  BY <1>10 DEF SetMaxPoolSize, SetMaxIdleSize, life, vars, Same, Move
<1>11. QED
  BY <1>2, <1>3, <1>4, <1>5, <1>6, <1>7, <1>8, <1>9, <1>10 DEF Next, Client, Owner, Move
(* The types the moves need.                                               *)
LEMMA RTypes ==
  ASSUME RInv
  PROVE  /\ m_resourceList \in Seq(Resources) /\ Len(m_resourceList) \in Nat
         /\ DOMAIN m_resourceList = 1 .. Len(m_resourceList)
         /\ held \in [Clients -> Resources \cup {NoRes}] /\ NoRes \notin Resources
         /\ m_count \in Int
BY ConstantsOK DEF RInv, IInv, Stamped, TypeInv, CountExact

LEMMA TakeKeeps ==
  ASSUME RInv, NEW c \in Clients, Take(c), phase' = phase
  PROVE  Exclusive' /\ CountExact' /\ Holders' = Holders \cup {c}
<1> DEFINE s == m_resourceList
           r == Head(s)
<1>1. /\ s \in Seq(Resources) /\ Len(s) \in Nat /\ DOMAIN s = 1 .. Len(s)
      /\ held \in [Clients -> Resources \cup {NoRes}] /\ NoRes \notin Resources
      /\ m_count \in Int
  BY RTypes
<1>2. /\ r \in Resources /\ r = s[1] /\ 1 \in DOMAIN s
      /\ Len(s') = Len(s) - 1 /\ DOMAIN s' = 1 .. Len(s) - 1
      /\ \A i \in DOMAIN s' : s'[i] = s[i + 1] /\ i + 1 \in DOMAIN s /\ i + 1 # 1
  BY <1>1 DEF Take
<1>3. /\ held'[c] = r /\ \A d \in Clients \ {c} : held'[d] = held[d]
      /\ c \notin Holders /\ Holders' = Holders \cup {c}
  BY <1>1, <1>2 DEF Take, Holders
<1>4. Exclusive'
  <2>1. \A i, j \in DOMAIN s' : s'[i] = s'[j] => i = j
    <3> SUFFICES ASSUME NEW i \in DOMAIN s', NEW j \in DOMAIN s', s'[i] = s'[j]
                 PROVE  i = j
      OBVIOUS
    <3>1. i + 1 = j + 1
      BY <1>2 DEF RInv, Exclusive
    <3>2. QED
      BY <1>1, <1>2, <3>1
  <2>2. ASSUME NEW d \in Holders', NEW i \in DOMAIN s' PROVE held'[d] # s'[i]
    BY <1>2, <1>3 DEF RInv, Exclusive, Holders
  <2>3. ASSUME NEW d \in Holders', NEW e \in Holders', held'[d] = held'[e] PROVE d = e
    BY <1>2, <1>3, <2>3 DEF RInv, Exclusive, Holders
  <2>4. QED
    BY <2>1, <2>2, <2>3 DEF Exclusive
<1>5. CountExact'
  <2>1. Cardinality(Holders') = Cardinality(Holders) + 1
    BY <1>3, HoldersFinite, FS_AddElement
  <2>2. m_count' = m_count /\ phase' = phase
    BY DEF Take
  <2>3. QED
    BY <1>1, <1>2, <2>1, <2>2, HoldersFinite DEF RInv, CountExact
<1>6. QED
  BY <1>3, <1>4, <1>5

LEMMA MakeKeeps ==
  ASSUME RInv, NEW c \in Clients, NEW r \in Resources, Make(c, r), phase' = phase
  PROVE  Exclusive' /\ CountExact' /\ Holders' = Holders \cup {c}
<1>1. /\ m_resourceList \in Seq(Resources) /\ Len(m_resourceList) \in Nat
      /\ DOMAIN m_resourceList = 1 .. Len(m_resourceList)
      /\ held \in [Clients -> Resources \cup {NoRes}] /\ NoRes \notin Resources
      /\ m_count \in Int
  BY RTypes
<1>2. /\ held'[c] = r /\ \A d \in Clients \ {c} : held'[d] = held[d]
      /\ c \notin Holders /\ Holders' = Holders \cup {c}
      /\ m_resourceList' = m_resourceList
  BY <1>1 DEF Make, Holders
<1>3. /\ \A i \in DOMAIN m_resourceList : m_resourceList[i] # r
      /\ \A d \in Holders : held[d] # r
  BY LiveIs DEF Make
<1>4. Exclusive'
  <2>1. ASSUME NEW d \in Holders', NEW i \in DOMAIN m_resourceList'
        PROVE  held'[d] # m_resourceList'[i]
    BY <1>2, <1>3 DEF RInv, Exclusive, Holders
  <2>2. ASSUME NEW d \in Holders', NEW e \in Holders', held'[d] = held'[e] PROVE d = e
    BY <1>2, <1>3, <2>2 DEF RInv, Exclusive, Holders
  <2>3. QED
    BY <1>2, <2>1, <2>2 DEF RInv, Exclusive
<1>5. CountExact'
  <2>1. Cardinality(Holders') = Cardinality(Holders) + 1
    BY <1>2, HoldersFinite, FS_AddElement
  <2>2. m_count' = m_count + 1 /\ phase' = phase
    BY DEF Make
  <2>3. QED
    BY <1>1, <1>2, <2>1, <2>2, HoldersFinite DEF RInv, CountExact
<1>6. QED
  BY <1>2, <1>4, <1>5

LEMMA OneHolderLess ==
  ASSUME RInv, NEW c \in Clients, held[c] # NoRes, held' = [held EXCEPT ![c] = NoRes]
  PROVE  /\ Holders' = Holders \ {c} /\ \A d \in Holders' : held'[d] = held[d]
         /\ Cardinality(Holders') = Cardinality(Holders) - 1
<1>1. held \in [Clients -> Resources \cup {NoRes}]
  BY RTypes
<1>2. c \in Holders /\ Holders' = Holders \ {c} /\ \A d \in Holders' : held'[d] = held[d]
  BY <1>1 DEF Holders
<1>3. Cardinality(Holders') = Cardinality(Holders) - 1
  BY <1>2, HoldersFinite, FS_RemoveElement
<1>4. QED
  BY <1>2, <1>3

LEMMA DropKeeps ==
  ASSUME RInv, NEW c \in Clients, GiveBack(c) \/ Lose(c), phase' = phase
  PROVE  Exclusive' /\ CountExact' /\ Holders' \subseteq Holders
<1> DEFINE s == m_resourceList
<1>1. /\ s \in Seq(Resources) /\ Len(s) \in Nat /\ DOMAIN s = 1 .. Len(s)
      /\ held \in [Clients -> Resources \cup {NoRes}] /\ NoRes \notin Resources
      /\ m_count \in Int
  BY RTypes
<1>2. /\ Holders' = Holders \ {c} /\ \A d \in Holders' : held'[d] = held[d]
      /\ Cardinality(Holders') = Cardinality(Holders) - 1
  BY OneHolderLess DEF GiveBack, Lose
<1>3. c \in Holders /\ held[c] \in Resources
  BY <1>1 DEF GiveBack, Lose, Holders
<1>4. \A d, e \in Holders' : held'[d] = held'[e] => d = e
  BY <1>2 DEF RInv, Exclusive
<1>5. CASE GiveBack(c)
  <2>1. /\ Len(s') = Len(s) + 1 /\ DOMAIN s' = 1 .. Len(s) + 1
        /\ s'[Len(s) + 1] = held[c]
        /\ \A i \in DOMAIN s : s'[i] = s[i]
        /\ \A i \in DOMAIN s' : i = Len(s) + 1 \/ i \in DOMAIN s
    BY <1>1, <1>3, <1>5 DEF GiveBack
  <2>2. \A i, j \in DOMAIN s' : s'[i] = s'[j] => i = j
    <3> SUFFICES ASSUME NEW i \in DOMAIN s', NEW j \in DOMAIN s', s'[i] = s'[j]
                 PROVE  i = j
      OBVIOUS
    <3>1. CASE i \in DOMAIN s /\ j \in DOMAIN s
      BY <2>1, <3>1 DEF RInv, Exclusive
    <3>2. CASE i = Len(s) + 1 \/ j = Len(s) + 1
      BY <1>3, <2>1, <3>2 DEF RInv, Exclusive
    <3>3. QED
      BY <2>1, <3>1, <3>2
  <2>3. \A d \in Holders' : \A i \in DOMAIN s' : held'[d] # s'[i]
    BY <1>2, <1>3, <2>1 DEF RInv, Exclusive
  <2>4. Exclusive'
    BY <1>4, <2>2, <2>3 DEF Exclusive
  <2>5. m_count' = m_count /\ phase' = phase
    BY <1>5 DEF GiveBack
  <2>6. CountExact'
    BY <1>1, <1>2, <2>1, <2>5, HoldersFinite DEF RInv, CountExact
  <2>7. QED
    BY <1>2, <2>4, <2>6
<1>6. CASE Lose(c)
  <2>1. s' = s /\ m_count' \in Int /\ (phase # "gone" => m_count' = m_count - 1)
    BY <1>6 DEF Lose
  <2>2. Exclusive'
    BY <1>2, <1>4, <2>1 DEF RInv, Exclusive
  <2>3. CountExact'
    BY <1>1, <1>2, <2>1, HoldersFinite DEF RInv, CountExact
  <2>4. QED
    BY <1>2, <2>2, <2>3
<1>7. QED
  BY <1>5, <1>6

LEMMA PoolMovesKeep ==
  ASSUME RInv, Empty \/ Same, phase = "gone" => phase' = "gone"
  PROVE  Exclusive' /\ CountExact' /\ Holders' = Holders
<1>1. /\ m_resourceList \in Seq(Resources) /\ Len(m_resourceList) \in Nat
      /\ m_count \in Int
  BY RTypes
<1>2. Holders' = Holders
  BY DEF Empty, Same, Holders
<1>3. CASE Empty
  <2>1. m_resourceList' = <<>> /\ DOMAIN m_resourceList' = {} /\ Len(m_resourceList') = 0
    BY <1>3 DEF Empty
  <2>2. Exclusive'
    BY <1>2, <1>3, <2>1 DEF Empty, RInv, Exclusive
  <2>3. CountExact'
    BY <1>1, <1>2, <1>3, <2>1, HoldersFinite DEF Empty, RInv, CountExact
  <2>4. QED
    BY <1>2, <2>2, <2>3
<1>4. CASE Same
  BY <1>2, <1>4 DEF Same, RInv, Exclusive, CountExact
<1>5. QED
  BY <1>3, <1>4

LEMMA MovesKeep ==
  ASSUME RInv, [Next]_vars PROVE Exclusive' /\ CountExact'
<1>1. Move /\ (phase' # phase => Empty \/ Same)
  BY StepMoves
<1>2. phase = "gone" => phase' = "gone"
  <2>1. CASE \E c \in Clients : Client(c)
    BY <2>1 DEF Client, Get, GetWaitFor, Timeout, SleepAgain, LeaveWait,
       CloserSeesPool, CloserDeletes, ReturnResource, life
  <2>2. CASE Owner
    BY <2>2 DEF Owner, ReleaseIdleResource, SetMaxPoolSize, SetMaxIdleSize,
       SetParam, SetParameter, IncVersion,
       DestructorCloses, DestructorEnds, life
  <2>3. QED
    BY <2>1, <2>2 DEF Next, vars
<1>3. CASE Empty \/ Same
  BY <1>2, <1>3, PoolMovesKeep
<1>4. CASE phase' = phase /\ \E c \in Clients : Take(c) \/ GiveBack(c) \/ Lose(c)
  BY <1>4, TakeKeeps, DropKeeps
<1>5. CASE phase' = phase /\ \E c \in Clients, r \in Resources : Make(c, r)
  BY <1>5, MakeKeeps
<1>6. QED
  BY <1>1, <1>3, <1>4, <1>5 DEF Move
(* Whoever gets a resource is registered with the pool.                    *)
LEMMA BookkeepingStep == ASSUME RInv, [Next]_vars PROVE Bookkeeping'
<1> DEFINE Waiting == {"asleep", "awake", "expired"}
<1>1. /\ held \in [Clients -> Resources \cup {NoRes}] /\ pc \in [Clients -> Places]
      /\ phase \in {"open", "closing", "gone"} /\ (m_closed <=> phase # "open")
      /\ phase # "gone" => \A c \in Holders : c \in bound
      /\ \A c \in Clients : pc[c] \in Waiting => held[c] = NoRes
      /\ \A c \in Clients : pc[c] = "returning" => held[c] # NoRes
  BY DEF RInv, IInv, Stamped, TypeInv, Bookkeeping, ReturnerHolds
<1>2. ASSUME NEW c \in Clients, Get(c) \/ LeaveWait(c) PROVE Bookkeeping'
  <2>1. /\ UNCHANGED life /\ pc'[c] = "out"
        /\ \A d \in Clients \ {c} : pc'[d] = pc[d]
    BY <1>1, <1>2 DEF Get, LeaveWait, CanCall
  <2>2. \/ held' = held /\ bound' = bound
        \/ /\ \E r : held' = [held EXCEPT ![c] = r]
           /\ bound' = bound \cup {c}
    BY <1>2 DEF Get, LeaveWait, PopCurrentIdle, Create, HandOut
  <2>3. /\ bound \subseteq bound' /\ (held' # held => c \in bound')
        /\ \A d \in Clients \ {c} : held'[d] = held[d]
    BY <1>1, <2>2
  <2>4. phase # "gone" => \A d \in Holders' : d \in bound'
    BY <1>1, <2>3 DEF Holders
  <2>5. \A d \in Clients : pc'[d] \in Waiting => held'[d] = NoRes
    BY <1>1, <2>1, <2>3
  <2>6. QED
    BY <1>1, <2>1, <2>4, <2>5 DEF Bookkeeping, life
<1>3. ASSUME NEW c \in Clients,
             GetWaitFor(c) \/ Timeout(c) \/ SleepAgain(c) \/ CloserSeesPool(c)
      PROVE  Bookkeeping'
  <2>1. /\ UNCHANGED <<life, held, bound>>
        /\ \A d \in Clients \ {c} : pc'[d] = pc[d]
        /\ pc'[c] \in Waiting => held[c] = NoRes
    BY <1>1, <1>3 DEF GetWaitFor, Timeout, SleepAgain, CloserSeesPool, CanCall
  <2>2. QED
    BY <1>1, <2>1 DEF Bookkeeping, life, Holders
<1>4. ASSUME NEW c \in Clients, CloserDeletes(c) \/ ReturnResource(c)
      PROVE  Bookkeeping'
  <2> DEFINE at == [pc EXCEPT ![c] = "out"]
  <2>1. /\ held' = [held EXCEPT ![c] = NoRes] /\ UNCHANGED life
        /\ bound' = bound \/ bound' = bound \ {c}
        /\ pc' \in {at, NotifyAll(at)} \/ (pc' = pc /\ pc[c] = "out")
    BY <1>4 DEF CloserDeletes, ReturnResource
  <2>2. Holders' = Holders \ {c} /\ held'[c] = NoRes /\ \A d \in Clients \ {c} : held'[d] = held[d]
    BY <1>1, <2>1 DEF Holders
  <2>3. \A d \in Clients \ {c} : pc'[d] \in Waiting => pc[d] \in Waiting
    <3>1. at \in [Clients -> Places]
      BY <1>1 DEF Places
    <3>2. \A d \in Clients : NotifyAll(at)[d] \in {"awake", at[d]}
      BY <3>1, NotifiedPlaces
    <3>3. \A d \in Clients \ {c} : at[d] = pc[d]
      BY <1>1
    <3>4. \A d \in Clients : NotifyAll(at)[d] = "awake" /\ at[d] # "awake" => pc[d] \in Waiting
      BY DEF NotifyAll, Sleepers
    <3>5. QED
      BY <2>1, <3>2, <3>3, <3>4
  <2>4. QED
    BY <1>1, <2>1, <2>2, <2>3 DEF Bookkeeping, life
<1>5. CASE Owner
  <2>1. held' = held /\ Holders' = Holders
    BY <1>5 DEF Owner, ReleaseIdleResource, SetMaxPoolSize, SetMaxIdleSize,
       SetParam, SetParameter, IncVersion,
       DestructorCloses, DestructorEnds, Holders
  <2>2. \A d \in Clients : pc'[d] \in Waiting => pc[d] \in Waiting
    <3>1. pc' = pc \/ pc' = NotifyAll(pc)
      BY <1>5 DEF Owner, ReleaseIdleResource, SetMaxPoolSize, SetMaxIdleSize,
       SetParam, SetParameter, IncVersion,
         DestructorCloses, DestructorEnds
    <3>2. \A d \in Clients : NotifyAll(pc)[d] = pc[d] \/ pc[d] = "asleep"
      BY DEF NotifyAll, Sleepers
    <3>3. QED
      BY <3>1, <3>2
  <2>3. /\ phase' \in {"open", "closing", "gone"} /\ (m_closed' <=> phase' # "open")
        /\ phase' # "gone" => phase # "gone" /\ bound' = bound
    BY <1>1, <1>5 DEF Owner, ReleaseIdleResource, SetMaxPoolSize, SetMaxIdleSize,
       SetParam, SetParameter, IncVersion,
       DestructorCloses, DestructorEnds, TearDown, life
  <2>4. QED
    BY <1>1, <2>1, <2>2, <2>3 DEF Bookkeeping
<1>6. CASE UNCHANGED vars
  BY <1>1, <1>6 DEF vars, Bookkeeping, Holders
<1>7. QED
  BY <1>2, <1>3, <1>4, <1>5, <1>6 DEF Next, Client

(* Only the setter changes the limit, and to a value it may be called with. *)
LEMMA LimitKept == ASSUME [Next]_vars PROVE UNCHANGED m_maxPoolSize \/ SetMaxPoolSize
BY DEF Next, Client, Owner, Get, GetWaitFor, Timeout, SleepAgain, LeaveWait,
   CloserSeesPool, CloserDeletes, ReturnResource, ReleaseIdleResource, SetMaxIdleSize,
   SetParam, SetParameter, IncVersion, DestructorCloses, DestructorEnds, vars, settings

LEMMA LimitStep == ASSUME LimitOK, [Next]_vars PROVE LimitOK'
BY LimitKept, ConstantsOK DEF LimitOK, SetMaxPoolSize

(* For any number of clients: an idle resource is idle once and not held,  *)
(* a held one has one holder, and m_count is exact until the pool is gone. *)
THEOREM RInvariance == Spec => []RInv
<1>1. Init => RInv
  <2> SUFFICES ASSUME Init PROVE RInv
    OBVIOUS
  <2>1. IInv
    BY InitStamped DEF Init, IInv, ReturnerHolds
  <2>2. Holders = {} /\ DOMAIN m_resourceList = {} /\ Len(m_resourceList) = 0
    BY DEF Init, Holders
  <2>3. Cardinality(Holders) = 0
    BY <2>2, FS_EmptySet
  <2>4. QED
    BY <2>1, <2>2, <2>3, ConstantsOK DEF Init, RInv, LimitOK, Exclusive, CountExact, Bookkeeping
<1>2. RInv /\ [Next]_vars => RInv'
  BY StampedStep, ReturnerStep, LimitStep, MovesKeep, BookkeepingStep DEF RInv, IInv
<1>3. QED
  BY <1>1, <1>2, PTL DEF Spec

-----------------------------------------------------------------------------
(* The refinement mapping.                                                 *)

LEMMA CountIsCardinality ==
  ASSUME RInv, phase # "gone" PROVE m_count = Cardinality(Live)
<1> DEFINE s == m_resourceList
           Idle == {s[i] : i \in DOMAIN s}
           Out == {held[c] : c \in Holders}
           f == [c \in Holders |-> held[c]]
<1>1. /\ s \in Seq(Resources) /\ Len(s) \in Nat /\ DOMAIN s = 1 .. Len(s)
      /\ \A i, j \in DOMAIN s : s[i] = s[j] => i = j
      /\ \A c \in Holders : held[c] \notin Idle
      /\ \A c, d \in Holders : held[c] = held[d] => c = d
  BY RTypes DEF RInv, Exclusive
<1>2. IsFiniteSet(Idle) /\ Cardinality(Idle) = Len(s)
  <2>1. s \in Bijection(1 .. Len(s), Idle)
    BY <1>1 DEF Bijection, Injection, Surjection, IsInjective
  <2>2. \A n \in Nat : IsFiniteSet(1 .. n) /\ Cardinality(1 .. n) = n
    <3>1. 1 \in Int /\ \A n \in Nat : n \in Int /\ (1 > n => n = 0) /\ n - 1 + 1 = n
      OBVIOUS
    <3>2. QED
      BY <3>1, FS_Interval
  <2>3. QED
    BY <1>1, <2>1, <2>2, FS_Bijection DEF ExistsBijection
<1>3. IsFiniteSet(Out) /\ Cardinality(Out) = Cardinality(Holders)
  <2>1. f \in Bijection(Holders, Out)
    BY <1>1 DEF Bijection, Injection, Surjection, IsInjective
  <2>2. QED
    BY <2>1, HoldersFinite, FS_Bijection DEF ExistsBijection
<1>4. Cardinality(Idle \cup Out) = Len(s) + Cardinality(Holders)
  <2>1. Cardinality(Idle \cap Out) = 0
    <3>1. Idle \cap Out = {}
      BY <1>1
    <3>2. QED
      BY <3>1, FS_EmptySet
  <2>2. Cardinality(Idle \cup Out)
          = Cardinality(Idle) + Cardinality(Out) - Cardinality(Idle \cap Out)
    BY <1>2, <1>3, FS_Union
  <2>3. /\ Cardinality(Idle) = Len(s) /\ Cardinality(Out) = Cardinality(Holders)
        /\ Len(s) \in Nat /\ Cardinality(Holders) \in Nat
    BY <1>1, <1>2, <1>3, HoldersFinite
  <2> HIDE DEF Idle, Out
  <2>4. QED
    BY <2>1, <2>2, <2>3
<1>5. QED
  BY <1>4, LiveIs DEF RInv, CountExact

LEMMA HolderOfOne ==
  ASSUME NEW h, NEW r, NEW c \in Clients, \A d \in Clients : h[d] = r <=> d = c
  PROVE  HolderOf(h, r) = c
<1>1. \E d \in Clients : h[d] = r
  OBVIOUS
<1>2. (CHOOSE d \in Clients : h[d] = r) = c
  OBVIOUS
<1>3. QED
  BY <1>1, <1>2 DEF HolderOf

LEMMA HolderOfNone ==
  ASSUME NEW h, NEW r, \A d \in Clients : h[d] # r
  PROVE  HolderOf(h, r) = NoRes
BY DEF HolderOf

(* Who holds q, and how a change of one client's hand changes that.        *)
LEMMA HolderOfSame ==
  ASSUME RInv, NEW q \in Resources, \A d \in Clients : held'[d] = q <=> held[d] = q
  PROVE  HolderOf(held', q) = HolderOf(held, q)
<1>1. CASE \E c \in Clients : held[c] = q
  <2>1. PICK c \in Clients : held[c] = q
    BY <1>1
  <2>2. \A d \in Clients : held[d] = q <=> d = c
    BY <2>1, RTypes DEF RInv, Exclusive, Holders
  <2>3. \A d \in Clients : held'[d] = q <=> d = c
    BY <2>2
  <2>4. HolderOf(held, q) = c
    BY <2>2, HolderOfOne
  <2>5. HolderOf(held', q) = c
    BY <2>3, HolderOfOne
  <2>6. QED
    BY <2>4, <2>5
<1>2. CASE \A c \in Clients : held[c] # q
  <2>1. \A c \in Clients : held'[c] # q
    BY <1>2
  <2>2. HolderOf(held, q) = NoRes /\ HolderOf(held', q) = NoRes
    BY <1>2, <2>1, HolderOfNone
  <2>3. QED
    BY <2>2
<1>3. QED
  BY <1>1, <1>2

LEMMA OwnerAfterHandOut ==
  ASSUME RInv, NEW c \in Clients, NEW r \in Resources, held[c] = NoRes,
         \A d \in Clients : held[d] # r, held' = [held EXCEPT ![c] = r]
  PROVE  /\ HolderOf(held, r) = NoRes
         /\ [q \in Resources |-> HolderOf(held', q)]
              = [[q \in Resources |-> HolderOf(held, q)] EXCEPT ![r] = c]
<1>1. held \in [Clients -> Resources \cup {NoRes}] /\ NoRes \notin Resources
  BY RTypes
<1>2. HolderOf(held', r) = c
  <2>1. held'[c] = r /\ \A d \in Clients \ {c} : held'[d] = held[d]
    BY <1>1
  <2>2. \A d \in Clients : held'[d] = r <=> d = c
    BY <2>1
  <2>3. \A d \in Clients : held'[d] = r => d = c
    BY <2>2
  <2>4. QED
    BY <2>1, <2>3, SMT DEF HolderOf
<1>3. ASSUME NEW q \in Resources, q # r PROVE HolderOf(held', q) = HolderOf(held, q)
  <2>1. \A d \in Clients : held'[d] = q <=> held[d] = q
    BY <1>1, <1>3
  <2>2. QED
    BY <2>1, HolderOfSame
<1>4. QED
  BY <1>2, <1>3, HolderOfNone

LEMMA OwnerAfterDrop ==
  ASSUME RInv, NEW c \in Clients, NEW r \in Resources, held[c] = r,
         held' = [held EXCEPT ![c] = NoRes]
  PROVE  /\ HolderOf(held, r) = c
         /\ [q \in Resources |-> HolderOf(held', q)]
              = [[q \in Resources |-> HolderOf(held, q)] EXCEPT ![r] = NoRes]
<1>1. held \in [Clients -> Resources \cup {NoRes}] /\ NoRes \notin Resources
  BY RTypes
<1>2. \A d \in Clients : held[d] = r <=> d = c
  BY <1>1 DEF RInv, Exclusive, Holders
<1>3. HolderOf(held, r) = c
  BY <1>2, HolderOfOne
<1>4. HolderOf(held', r) = NoRes
  <2>1. \A d \in Clients : held'[d] # r
    BY <1>1, <1>2
  <2>2. QED
    BY <2>1, HolderOfNone
<1>5. ASSUME NEW q \in Resources, q # r PROVE HolderOf(held', q) = HolderOf(held, q)
  <2>1. \A d \in Clients : held'[d] = q <=> held[d] = q
    BY <1>1, <1>5
  <2>2. QED
    BY <2>1, HolderOfSame
<1>6. QED
  BY <1>3, <1>4, <1>5
(* Taking the oldest idle resource maps to Acquire.                        *)
LEMMA TakeRefines == ASSUME RInv, NEW c \in Clients, Take(c), UNCHANGED m_maxPoolSize
   PROVE Contract!Next
<1> DEFINE s == m_resourceList
           r == Head(s)
<1>1. /\ s \in Seq(Resources) /\ Len(s) \in Nat /\ DOMAIN s = 1 .. Len(s)
      /\ held \in [Clients -> Resources \cup {NoRes}] /\ NoRes \notin Resources
  BY RTypes
<1>2. /\ r \in Resources /\ r = s[1] /\ 1 \in DOMAIN s
      /\ DOMAIN s' = 1 .. Len(s) - 1
      /\ \A i \in DOMAIN s' : s'[i] = s[i + 1] /\ i + 1 \in DOMAIN s
      /\ \A i \in DOMAIN s : i = 1 \/ (i - 1 \in DOMAIN s' /\ s[i] = s'[i - 1])
  BY <1>1 DEF Take
<1>3. \A d \in Clients : held[d] # r
  BY <1>1, <1>2 DEF RInv, Exclusive, Holders
<1>4. /\ held'[c] = r /\ \A d \in Holders : held'[d] = held[d]
      /\ c \notin Holders /\ Holders' = Holders \cup {c}
  BY <1>1, <1>2 DEF Take, Holders
<1>5. Live' = Live /\ r \in Live
  <2>1. {s[i] : i \in DOMAIN s} = {s'[i] : i \in DOMAIN s'} \cup {r}
    BY <1>2
  <2>2. {held'[d] : d \in Holders'} = {held[d] : d \in Holders} \cup {r}
    BY <1>4, Zenon
  <2>3. Live' = {s'[i] : i \in DOMAIN s'} \cup {held'[d] : d \in Holders'}
    BY DEF Live, ToSet
  <2>4. QED
    BY <2>1, <2>2, <2>3, LiveIs
<1>6. HolderOf(held, r) = NoRes
      /\ [q \in Resources |-> HolderOf(held', q)]
           = [[q \in Resources |-> HolderOf(held, q)] EXCEPT ![r] = c]
  BY <1>2, <1>3, OwnerAfterHandOut DEF Take
<1>7. r \in Contract!Free
  BY <1>2, <1>5, <1>6 DEF Contract!Free, Contract!Owned
<1>8. Contract!Acquire(c, r)
  BY <1>5, <1>6, <1>7 DEF Contract!Acquire
<1>9. QED
  BY <1>2, <1>8 DEF Contract!Next

(* A new resource maps to Create: the exact count was below the limit.     *)
LEMMA MakeRefines ==
  ASSUME RInv, NEW c \in Clients, NEW r \in Resources, Make(c, r), UNCHANGED m_maxPoolSize
  PROVE  Contract!Next
<1>1. /\ held \in [Clients -> Resources \cup {NoRes}] /\ NoRes \notin Resources
      /\ m_resourceList' = m_resourceList
  BY RTypes DEF Make
<1>2. \A d \in Clients : held[d] # r
  BY <1>1, LiveIs DEF Make, Holders
<1>3. /\ held'[c] = r /\ \A d \in Holders : held'[d] = held[d]
      /\ c \notin Holders /\ Holders' = Holders \cup {c}
  BY <1>1 DEF Make, Holders
<1>4. Live' = Live \cup {r} /\ r \notin Live
  <2>1. {held'[d] : d \in Holders'} = {held[d] : d \in Holders} \cup {r}
    BY <1>3, Zenon
  <2>2. Live' = {m_resourceList[i] : i \in DOMAIN m_resourceList} \cup {held'[d] : d \in Holders'}
    BY <1>1 DEF Live, ToSet
  <2>3. QED
    BY <2>1, <2>2, LiveIs DEF Make
<1>5. [q \in Resources |-> HolderOf(held', q)]
        = [[q \in Resources |-> HolderOf(held, q)] EXCEPT ![r] = c]
  BY <1>2, OwnerAfterHandOut DEF Make
<1>6. m_maxPoolSize = 0 \/ Cardinality(Live) < m_maxPoolSize
  BY CountIsCardinality DEF Make
<1>7. Contract!Cardinality(Live) = Cardinality(Live)
  BY DEF Contract!Cardinality, Cardinality
<1>8. Contract!Create(c, r)
  BY <1>4, <1>5, <1>6, <1>7 DEF Contract!Create
<1>9. QED
  BY <1>8 DEF Contract!Next

(* A resource given back maps to Keep when it becomes idle, to Drop when   *)
(* the pool or a cut-off holder deletes it.                                *)
LEMMA DropRefines ==
  ASSUME RInv, NEW c \in Clients, GiveBack(c) \/ Lose(c), UNCHANGED m_maxPoolSize
  PROVE  Contract!Next
<1> DEFINE s == m_resourceList
           r == held[c]
<1>1. /\ s \in Seq(Resources) /\ Len(s) \in Nat /\ DOMAIN s = 1 .. Len(s)
      /\ held \in [Clients -> Resources \cup {NoRes}] /\ NoRes \notin Resources
      /\ held' = [held EXCEPT ![c] = NoRes] /\ r # NoRes
  BY RTypes DEF GiveBack, Lose
<1>2. r \in Resources /\ c \in Holders /\ r \in Live
  BY <1>1 DEF Holders, Live
<1>3. /\ Holders' = Holders \ {c} /\ \A d \in Holders' : held'[d] = held[d]
  BY <1>1, OneHolderLess
<1>4. /\ \A i \in DOMAIN s : s[i] # r
      /\ \A d \in Holders' : held[d] # r
  BY <1>2, <1>3 DEF RInv, Exclusive
<1>5. HolderOf(held, r) = c
      /\ [q \in Resources |-> HolderOf(held', q)]
           = [[q \in Resources |-> HolderOf(held, q)] EXCEPT ![r] = NoRes]
  BY <1>1, <1>2, OwnerAfterDrop
<1>6. r \in Contract!Owned(c)
  BY <1>2, <1>5 DEF Contract!Owned
<1>7. {held'[d] : d \in Holders'} = {held[d] : d \in Holders} \ {r}
  BY <1>2, <1>3, <1>4
<1>8. Live' = {s'[i] : i \in DOMAIN s'} \cup {held'[d] : d \in Holders'}
  BY DEF Live, ToSet
<1>9. CASE GiveBack(c)
  <2>1. {s'[i] : i \in DOMAIN s'} = {s[i] : i \in DOMAIN s} \cup {r}
    <3>1. /\ s' = Append(s, r) /\ DOMAIN s' = 1 .. Len(s) + 1
          /\ s'[Len(s) + 1] = r /\ \A i \in DOMAIN s : s'[i] = s[i] /\ i \in DOMAIN s'
          /\ \A i \in DOMAIN s' : i = Len(s) + 1 \/ i \in DOMAIN s
      BY <1>1, <1>2, <1>9 DEF GiveBack
    <3>2. QED
      BY <1>1, <3>1
  <2>2. Live' = Live
    BY <1>2, <1>7, <1>8, <2>1, LiveIs
  <2>3. Contract!Keep(c, r)
    BY <1>5, <1>6, <2>2 DEF Contract!Keep
  <2>4. QED
    BY <1>2, <2>3 DEF Contract!Next
<1>10. CASE Lose(c)
  <2>1. s' = s
    BY <1>10 DEF Lose
  <2>2. Live' = Live \ {r}
    BY <1>4, <1>7, <1>8, <2>1, LiveIs
  <2>3. Contract!Drop(c, r)
    BY <1>5, <1>6, <2>2 DEF Contract!Drop
  <2>4. QED
    BY <1>2, <2>3 DEF Contract!Next
<1>11. QED
  BY <1>9, <1>10

(* Emptying the idle list maps to Trim.                                    *)
LEMMA EmptyRefines == ASSUME RInv, Empty, UNCHANGED m_maxPoolSize PROVE Contract!Next
<1>1. m_resourceList' = <<>> /\ held' = held /\ Holders' = Holders
  BY DEF Empty, Holders
<1>2. Live' = {held[d] : d \in Holders}
  BY <1>1 DEF Live, ToSet
<1>3. Live' \subseteq Live /\ \A r \in Live \ Live' : \E i \in DOMAIN m_resourceList : r = m_resourceList[i]
  BY <1>2, LiveIs
<1>4. ASSUME NEW r \in Live \ Live' PROVE r \in Contract!Free
  <2>1. PICK i \in DOMAIN m_resourceList : r = m_resourceList[i]
    BY <1>3
  <2>2. r \in Resources
    BY <2>1, RTypes
  <2>3. \A d \in Clients : held[d] # r
    BY <2>1, <2>2, RTypes DEF RInv, Exclusive, Holders
  <2>4. HolderOf(held, r) = NoRes
    BY <2>3, HolderOfNone
  <2>5. QED
    BY <1>4, <2>2, <2>4 DEF Contract!Free, Contract!Owned
<1>5. [q \in Resources |-> HolderOf(held', q)] = [q \in Resources |-> HolderOf(held, q)]
  BY <1>1
<1>6. Contract!Trim
  BY <1>3, <1>4, <1>5 DEF Contract!Trim
<1>7. QED
  BY <1>6 DEF Contract!Next

LEMMA SameRefines ==
  ASSUME UNCHANGED <<m_resourceList, held, m_maxPoolSize>> PROVE UNCHANGED Contract!cvars
<1>1. Live' = Live
  BY DEF Live, Holders
<1>2. [q \in Resources |-> HolderOf(held', q)] = [q \in Resources |-> HolderOf(held, q)]
  OBVIOUS
<1>3. QED
  BY <1>1, <1>2 DEF Contract!cvars

(* A changed limit maps to SetLimit.                                       *)
LEMMA LimitRefines == ASSUME SetMaxPoolSize PROVE Contract!Next
<1>1. m_maxPoolSize' \in Nat /\ UNCHANGED <<m_resourceList, held>>
  BY ConstantsOK DEF SetMaxPoolSize
<1>2. UNCHANGED <<Live, [q \in Resources |-> HolderOf(held, q)]>>
  BY <1>1 DEF Live, Holders
<1>3. QED
  BY <1>1, <1>2 DEF Contract!SetLimit, Contract!Next

LEMMA StepRefines == ASSUME RInv, [Next]_vars PROVE Contract!Next \/ UNCHANGED Contract!cvars
<1>1. CASE SetMaxPoolSize
  BY <1>1, LimitRefines
<1>2. CASE UNCHANGED m_maxPoolSize
  <2>1. Move
    BY StepMoves
  <2>2. CASE Same
    BY <1>2, <2>2, SameRefines DEF Same
  <2>3. QED
    BY <1>2, <2>1, <2>2, TakeRefines, MakeRefines, DropRefines, EmptyRefines DEF Move
<1>3. QED
  BY <1>1, <1>2, LimitKept

LEMMA InitRefines == ASSUME Init PROVE Contract!Init
<1>1. Live = {}
  BY DEF Init, Live, Holders, ToSet
<1>2. \A r \in Resources : HolderOf(held, r) = NoRes
  <2>1. \A r \in Resources, d \in Clients : held[d] # r
    BY ConstantsOK DEF Init
  <2>2. QED
    BY <2>1, HolderOfNone
<1>3. m_maxPoolSize \in Nat
  BY ConstantsOK DEF Init
<1>4. QED
  BY <1>1, <1>2, <1>3 DEF Contract!Init

(* ResourceVersionPool implements PoolContract, whatever its threads do    *)
(* and however often the parameters change: a resource has one owner, only *)
(* free ones are handed out or trimmed, and one is created only below the  *)
(* limit.                                                                  *)
THEOREM Refinement == Spec => ImplementsContract
<1>1. Init => Contract!Init
  BY InitRefines
<1>2. RInv /\ [Next]_vars => [Contract!Next]_(Contract!cvars)
  BY StepRefines
<1>3. QED
  BY <1>1, <1>2, RInvariance, PTL DEF Spec, ImplementsContract, Contract!Spec
=============================================================================
