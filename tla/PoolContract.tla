---------------------------- MODULE PoolContract ----------------------------
(***************************************************************************)
(* What every resource pool of utilities/ promises its users, without a    *)
(* mutex, a wait queue or a counter: a resource exists or not, it is owned *)
(* by at most one client or free, and a new one is made only while fewer   *)
(* than `limit' exist (0: no limit).  ResourcePool and ResourceVersionPool *)
(* are shown to implement it.                                              *)
(***************************************************************************)
EXTENDS Integers, FiniteSets

CONSTANTS Clients,    \* the users that hold resources
          Resources,  \* the identities a resource can have
          Nobody      \* the owner of a free or non-existing resource

VARIABLES exists,     \* the resources that have been created and not deleted
          owner,      \* who holds each resource
          limit       \* the greatest number of resources, 0 for no limit

cvars == <<exists, owner, limit>>

Owned(c)  == {r \in exists : owner[r] = c}
Free      == Owned(Nobody)

Init == /\ exists = {}
        /\ owner  = [r \in Resources |-> Nobody]
        /\ limit \in Nat

(* A client gets a resource nobody holds. *)
Acquire(c, r) == /\ r \in Free
                 /\ owner' = [owner EXCEPT ![r] = c]
                 /\ UNCHANGED <<exists, limit>>

(* A client gets a resource made for it; there must be room. *)
Create(c, r) == /\ r \in Resources \ exists
                /\ limit = 0 \/ Cardinality(exists) < limit
                /\ exists' = exists \cup {r}
                /\ owner'  = [owner EXCEPT ![r] = c]
                /\ UNCHANGED limit

(* A holder gives its resource back: it is kept, or it is deleted. *)
Keep(c, r) == /\ r \in Owned(c)
              /\ owner' = [owner EXCEPT ![r] = Nobody]
              /\ UNCHANGED <<exists, limit>>

Drop(c, r) == /\ r \in Owned(c)
              /\ owner'  = [owner EXCEPT ![r] = Nobody]
              /\ exists' = exists \ {r}
              /\ UNCHANGED limit

(* The pool deletes free resources, never one that is held. *)
Trim == /\ exists' \in SUBSET exists
        /\ exists \ exists' \subseteq Free
        /\ UNCHANGED <<owner, limit>>

SetLimit == limit' \in Nat /\ UNCHANGED <<exists, owner>>

Next == \/ Trim
        \/ SetLimit
        \/ \E c \in Clients, r \in Resources :
              Acquire(c, r) \/ Create(c, r) \/ Keep(c, r) \/ Drop(c, r)

Spec == Init /\ [][Next]_cvars
=============================================================================
