--------------------- MODULE ResourceAsioPool_proofs ---------------------
(***************************************************************************)
(* Proofs about ResourceAsioPool: the types, that every resource is in one *)
(* place, what the two counters count, and that the destructor is the last *)
(* to use the pool.  A state is read as cells, what each shared_ptr, call, *)
(* node and room of the idle list holds; a step moves one resource between *)
(* cells, makes one or deletes one, and the counters follow it.            *)
(***************************************************************************)
EXTENDS ResourceAsioPool, FiniteSetTheorems, SequenceTheorems,
        WellFoundedInduction, TLAPS

-----------------------------------------------------------------------------
(* A set of numbers with 0 that is closed under successor has them all.    *)
LEMMA SetInduction ==
  ASSUME NEW T, T \subseteq Nat, 0 \in T, \A n \in T : n + 1 \in T
  PROVE  T = Nat
<1> DEFINE R == OpToRel(<, Nat)
<1>1. IsWellFoundedOn(R, Nat)
  BY NatLessThanWellFounded
<1>2. SUFFICES ASSUME Nat \ T # {} PROVE FALSE
  OBVIOUS
<1>3. \E x \in Nat \ T : \A y \in Nat \ T : ~ (<<y, x>> \in R)
  <2>1. Nat \ T \subseteq Nat
    OBVIOUS
  <2> HIDE DEF R
  <2>2. QED
    BY <1>1, <1>2, <2>1, WFMin
<1>4. PICK x \in Nat \ T : \A y \in Nat \ T : ~ (<<y, x>> \in R)
  BY <1>3
<1>5. x # 0 /\ x - 1 \in Nat /\ (x - 1) + 1 = x
  OBVIOUS
<1>6. x - 1 \notin T
  BY <1>5
<1>7. <<x - 1, x>> \in R
  BY <1>5 DEF OpToRel
<1>8. QED
  BY <1>4, <1>5, <1>6, <1>7

(* What is kept of the first i nodes, f being what is kept of one less.    *)
Kept(q, ws, f, i) == IF i = 0 THEN <<>>
                     ELSE IF q[i] \in ws THEN f[i - 1] ELSE Append(f[i - 1], q[i])

LEMMA WithoutQueue ==
  ASSUME NEW A, NEW q \in Seq(A), NEW ws
  PROVE  Without(q, ws) \in Seq(A)
<1>1. Len(q) \in Nat /\ \A i \in 1 .. Len(q) : q[i] \in A
  OBVIOUS
<1> DEFINE Ok(f, n) == f \in [0 .. n -> Seq(A)] /\ \A i \in 0 .. n : f[i] = Kept(q, ws, f, i)
           Some(n) == \E f \in [0 .. n -> Seq(A)] : Ok(f, n)
           T == {n \in Nat : n <= Len(q) => Some(n)}
           K(f) == [i \in 0 .. Len(q) |-> Kept(q, ws, f, i)]
<1>2. 0 \in T
  <2> DEFINE f == [i \in 0 .. 0 |-> <<>>]
  <2>1. f \in [0 .. 0 -> Seq(A)] /\ \A i \in 0 .. 0 : f[i] = Kept(q, ws, f, i)
    BY DEF Kept
  <2>2. QED
    BY <2>1
<1>3. ASSUME NEW n \in T PROVE n + 1 \in T
  <2> SUFFICES ASSUME n + 1 <= Len(q) PROVE Some(n + 1)
    <3> HIDE DEF Some
    <3> QED
      OBVIOUS
  <2>1. n \in Nat /\ n <= Len(q)
    BY <1>1
  <2>2. PICK f \in [0 .. n -> Seq(A)] : Ok(f, n)
    BY <2>1
  <2> DEFINE g == [i \in 0 .. n + 1 |-> IF i <= n THEN f[i]
                     ELSE IF q[n + 1] \in ws THEN f[n] ELSE Append(f[n], q[n + 1])]
  <2>3. f[n] \in Seq(A) /\ n + 1 \in 1 .. Len(q) /\ q[n + 1] \in A
    BY <1>1, <2>1, <2>2
  <2>4. Append(f[n], q[n + 1]) \in Seq(A)
    BY <2>3
  <2>5. g \in [0 .. n + 1 -> Seq(A)]
    BY <2>1, <2>2, <2>3, <2>4
  <2>6. ASSUME NEW i \in 0 .. n + 1 PROVE g[i] = Kept(q, ws, g, i)
    <3>1. CASE i = 0
      BY <2>1, <2>2, <3>1 DEF Kept
    <3>2. CASE i \in 1 .. n
      <4>1. g[i] = f[i] /\ g[i - 1] = f[i - 1]
        BY <2>1, <3>2
      <4>2. f[i] = Kept(q, ws, f, i)
        BY <2>1, <2>2, <3>2
      <4>3. QED
        BY <3>2, <4>1, <4>2 DEF Kept
    <3>3. CASE i = n + 1
      <4>1. g[i - 1] = f[n]
        BY <2>1, <3>3
      <4>2. g[i] = IF q[n + 1] \in ws THEN f[n] ELSE Append(f[n], q[n + 1])
        BY <2>1, <3>3
      <4>3. i # 0
        BY <2>1, <3>3
      <4>4. QED
        BY <3>3, <4>1, <4>2, <4>3 DEF Kept
    <3>4. QED
      BY <2>1, <3>1, <3>2, <3>3
  <2>7. QED
    BY <2>5, <2>6
<1>4. T = Nat
  <2>1. T \subseteq Nat
    OBVIOUS
  <2> HIDE DEF T
  <2>2. QED
    BY <1>2, <1>3, <2>1, SetInduction
<1>5. Some(Len(q))
  <2> HIDE DEF Some
  <2>1. Len(q) \in T
    BY <1>1, <1>4
  <2>2. QED
    BY <1>1, <2>1
<1>5a. PICK f \in [0 .. Len(q) -> Seq(A)] : Ok(f, Len(q))
  BY <1>5
<1>6. f = K(f)
  BY <1>5a
<1> DEFINE F == CHOOSE h : h = K(h)
<1>7. F = K(F)
  BY <1>6
<1> HIDE DEF F
<1>8. \A i \in 0 .. Len(q) : F[i] = Kept(q, ws, F, i)
  BY <1>7, Zenon
<1> DEFINE U == {n \in Nat : n <= Len(q) => F[n] \in Seq(A)}
<1>9. 0 \in U
  <2>1. 0 \in 0 .. Len(q)
    BY <1>1
  <2>2. F[0] = <<>>
    BY <1>8, <2>1 DEF Kept
  <2>3. F[0] \in Seq(A)
    BY <2>2
  <2>4. QED
    BY <2>3
<1>10. ASSUME NEW n \in U PROVE n + 1 \in U
  <2> SUFFICES ASSUME n + 1 <= Len(q) PROVE F[n + 1] \in Seq(A)
    OBVIOUS
  <2>1. n \in Nat /\ F[n] \in Seq(A) /\ n + 1 \in 0 .. Len(q) /\ n + 1 \in 1 .. Len(q)
    BY <1>1
  <2>2. F[n + 1] = Kept(q, ws, F, n + 1) /\ (n + 1) - 1 = n /\ n + 1 # 0 /\ q[n + 1] \in A
    BY <1>1, <1>8, <2>1
  <2>3. Append(F[n], q[n + 1]) \in Seq(A)
    BY <2>1, <2>2
  <2>4. QED
    BY <2>1, <2>2, <2>3 DEF Kept
<1>11. U = Nat
  <2>1. U \subseteq Nat
    OBVIOUS
  <2> HIDE DEF U
  <2>2. QED
    BY <1>9, <1>10, <2>1, SetInduction
<1>12. F[Len(q)] \in Seq(A)
  BY <1>1, <1>11
<1>13. Without(q, ws) = F[Len(q)]
  BY DEF Without, F, Kept
<1>14. QED
  BY <1>12, <1>13

-----------------------------------------------------------------------------
(* Where the resources are.  A cell is what a client's shared_ptr, call or *)
(* node holds, or the room of a resource in the idle list; a step moves a  *)
(* resource from a cell to another, takes one out, or puts one in.         *)
Cells == ({"held", "inhand", "handed"} \X Clients) \cup ({"idle"} \X Resources)
Held(c)   == <<"held", c>>
Inhand(c) == <<"inhand", c>>
Handed(c) == <<"handed", c>>
Idle(r)   == <<"idle", r>>

Content == [p \in Cells |-> IF p[1] = "held" THEN held[p[2]]
                            ELSE IF p[1] = "inhand" THEN inhand[p[2]]
                            ELSE IF p[1] = "handed" THEN handed[p[2]]
                            ELSE IF p[2] \in m_resourceList THEN p[2] ELSE NoRes]

OneEach(F) == \A p, q \in Cells : F[p] = F[q] /\ F[p] \in Resources => p = q
In(F) == {r \in Resources : \E p \in Cells : F[p] = r}

(* The same resource, or none in both.                                     *)
Alike(a, b) == a = b \/ (a \notin Resources /\ b \notin Resources)

LEMMA CellsAre ==
  /\ \A p \in Cells : \/ \E c \in Clients : p \in {Held(c), Inhand(c), Handed(c)}
                      \/ \E r \in Resources : p = Idle(r)
  /\ \A c \in Clients : {Held(c), Inhand(c), Handed(c)} \subseteq Cells
  /\ \A r \in Resources : Idle(r) \in Cells
  /\ \A c, d \in Clients : /\ (Held(c) = Held(d) => c = d)
                           /\ (Inhand(c) = Inhand(d) => c = d)
                           /\ (Handed(c) = Handed(d) => c = d)
                           /\ Held(c) # Inhand(d) /\ Held(c) # Handed(d)
                           /\ Inhand(c) # Handed(d)
  /\ \A c \in Clients, r \in Resources :
        Idle(r) \notin {Held(c), Inhand(c), Handed(c)}
  /\ \A r, s \in Resources : Idle(r) = Idle(s) => r = s
BY DEF Cells, Held, Inhand, Handed, Idle

LEMMA ContentIs ==
  /\ \A c \in Clients : /\ Content[Held(c)] = held[c]
                        /\ Content[Inhand(c)] = inhand[c]
                        /\ Content[Handed(c)] = handed[c]
  /\ \A r \in Resources : Content[Idle(r)] = IF r \in m_resourceList THEN r ELSE NoRes
BY DEF Cells, Held, Inhand, Handed, Idle, Content

LEMMA ContentNext ==
  /\ \A c \in Clients : /\ Content'[Held(c)] = held'[c]
                        /\ Content'[Inhand(c)] = inhand'[c]
                        /\ Content'[Handed(c)] = handed'[c]
  /\ \A r \in Resources : Content'[Idle(r)] = IF r \in m_resourceList' THEN r ELSE NoRes
BY DEF Cells, Held, Inhand, Handed, Idle, Content

LEMMA InIsLive == ASSUME TypeOK PROVE In(Content) = Live
<1>1. NoRes \notin Resources /\ GaveUp \notin Resources
  BY ConstantsOK
<1>2. \A r \in Resources : r \in Live <=>
        r \in m_resourceList \/ \E c \in Clients : r \in {held[c], inhand[c], handed[c]}
  BY <1>1 DEF Live
<1>3. Live \subseteq Resources
  BY DEF Live, TypeOK
<1>4. ASSUME NEW r \in Resources PROVE r \in In(Content) <=> r \in Live
  <2>1. ASSUME NEW p \in Cells, Content[p] = r PROVE r \in Live
    <3>1. CASE \E c \in Clients : p \in {Held(c), Inhand(c), Handed(c)}
      BY <1>2, <2>1, <3>1, ContentIs
    <3>2. CASE \E s \in Resources : p = Idle(s)
      BY <1>1, <1>2, <2>1, <3>2, ContentIs
    <3>3. QED
      BY <3>1, <3>2, CellsAre
  <2>2. ASSUME r \in Live PROVE \E p \in Cells : Content[p] = r
    <3>1. CASE r \in m_resourceList
      BY <3>1, CellsAre, ContentIs
    <3>2. CASE \E c \in Clients : r \in {held[c], inhand[c], handed[c]}
      <4>1. PICK c \in Clients : r \in {held[c], inhand[c], handed[c]}
        BY <3>2
      <4>2. {Held(c), Inhand(c), Handed(c)} \subseteq Cells
        BY CellsAre
      <4>3. QED
        BY <4>1, <4>2, ContentIs
    <3>3. QED
      BY <1>2, <2>2, <3>1, <3>2
  <2>3. QED
    BY <2>1, <2>2 DEF In
<1>5. QED
  BY <1>3, <1>4 DEF In

CellsHoldLive == In(Content) = Live

LEMMA LiveCells == TypeOK => CellsHoldLive
BY InIsLive DEF CellsHoldLive

LEMMA LiveCellsNow == TypeOK' => CellsHoldLive'
BY LiveCells, PTL

LEMMA LiveCellsNext == TypeOK' => In(Content') = Live'
BY LiveCellsNow DEF CellsHoldLive, In

-----------------------------------------------------------------------------
(* What a step does to the cells.                                          *)
Rests(F, G) == \A p \in Cells : Alike(G[p], F[p])

Moves(F, G, p, q) ==
  /\ p # q /\ F[p] \in Resources /\ F[q] \notin Resources
  /\ G[q] = F[p] /\ G[p] \notin Resources
  /\ \A x \in Cells \ {p, q} : Alike(G[x], F[x])

TakesOut(F, G, p) ==
  /\ F[p] \in Resources /\ G[p] \notin Resources
  /\ \A x \in Cells \ {p} : Alike(G[x], F[x])

PutsIn(F, G, q, r) ==
  /\ r \in Resources /\ F[q] \notin Resources /\ G[q] = r
  /\ \A x \in Cells \ {q} : Alike(G[x], F[x])

LEMMA Rested ==
  ASSUME NEW F, NEW G, OneEach(F), Rests(F, G)
  PROVE  OneEach(G) /\ In(G) = In(F)
BY DEF OneEach, In, Rests, Alike

LEMMA MovedOver ==
  ASSUME NEW F, NEW G, OneEach(F), NEW p \in Cells, NEW q \in Cells, Moves(F, G, p, q)
  PROVE  OneEach(G) /\ In(G) = In(F)
<1>1. \A x \in Cells : G[x] \in Resources => x = q \/ (x # p /\ G[x] = F[x])
  BY DEF Moves, Alike
<1>2. \A x \in Cells \ {p, q} : F[x] # F[p] \/ F[x] \notin Resources
  BY DEF OneEach
<1>3. OneEach(G)
  <2> SUFFICES ASSUME NEW x \in Cells, NEW y \in Cells, G[x] = G[y], G[x] \in Resources
               PROVE  x = y
    BY DEF OneEach
  <2>1. CASE x = q /\ y # q
    BY <1>1, <1>2, <2>1 DEF Moves
  <2>2. CASE x # q /\ y = q
    BY <1>1, <1>2, <2>2 DEF Moves
  <2>3. CASE x # q /\ y # q
    BY <1>1, <2>3 DEF OneEach
  <2>4. QED
    BY <2>1, <2>2, <2>3
<1>4. In(G) = In(F)
  <2>1. ASSUME NEW r \in In(G) PROVE r \in In(F)
    BY <1>1 DEF In, Moves
  <2>2. ASSUME NEW r \in In(F) PROVE r \in In(G)
    <3>1. PICK x \in Cells : F[x] = r
      BY DEF In
    <3>2. x # q
      BY <3>1 DEF In, Moves
    <3>3. CASE x = p
      BY <3>1, <3>3 DEF In, Moves
    <3>4. CASE x # p
      BY <3>1, <3>2, <3>4 DEF In, Moves, Alike
    <3>5. QED
      BY <3>3, <3>4
  <2>3. QED
    BY <2>1, <2>2
<1>5. QED
  BY <1>3, <1>4

LEMMA TakenOut ==
  ASSUME NEW F, NEW G, OneEach(F), NEW p \in Cells, TakesOut(F, G, p)
  PROVE  OneEach(G) /\ In(G) = In(F) \ {F[p]} /\ F[p] \in In(F)
<1>1. \A x \in Cells : G[x] \in Resources => x # p /\ G[x] = F[x]
  BY DEF TakesOut, Alike
<1>2. OneEach(G)
  BY <1>1 DEF OneEach
<1>3. ASSUME NEW r \in In(G) PROVE r \in In(F) \ {F[p]}
  BY <1>1 DEF In, OneEach
<1>4. ASSUME NEW r \in In(F), r # F[p] PROVE r \in In(G)
  BY <1>4 DEF In, TakesOut, Alike
<1>5. F[p] \in In(F)
  BY DEF TakesOut, In
<1>6. QED
  BY <1>2, <1>3, <1>4, <1>5

LEMMA PutIn ==
  ASSUME NEW F, NEW G, OneEach(F), NEW q \in Cells, NEW r, PutsIn(F, G, q, r), r \notin In(F)
  PROVE  OneEach(G) /\ In(G) = In(F) \cup {r}
<1>1. \A x \in Cells : G[x] \in Resources => x = q \/ G[x] = F[x]
  BY DEF PutsIn, Alike
<1>2. \A x \in Cells : F[x] # r
  BY DEF PutsIn, In
<1>3. OneEach(G)
  BY <1>1, <1>2 DEF OneEach, PutsIn
<1>4. ASSUME NEW s \in In(G) PROVE s \in In(F) \cup {r}
  BY <1>1 DEF In, PutsIn
<1>5. ASSUME NEW s \in In(F) PROVE s \in In(G)
  BY DEF In, PutsIn, Alike
<1>6. r \in In(G)
  BY DEF In, PutsIn
<1>7. QED
  BY <1>3, <1>4, <1>5, <1>6

-----------------------------------------------------------------------------
(* The counters.                                                           *)
Making   == {"reserved", "making", "comaking"}
Popped   == {"popped", "repopped"}
Counting == {"counting"}

Counts ==
  /\ IsFiniteSet(Live) /\ IsFiniteSet(m_resourceList)
  /\ IsFiniteSet(At(Making)) /\ IsFiniteSet(At(Popped)) /\ IsFiniteSet(At(Counting))
  /\ m_count = Cardinality(Live) + Cardinality(At(Making))
  /\ m_idleCount = Cardinality(m_resourceList) + Cardinality(At(Popped))
                     - Cardinality(At(Counting))
  /\ MaxCount = 0 \/ m_count <= MaxCount

(* A finite set S becomes T, of n elements more.                           *)
Grows(S, T, n) == /\ IsFiniteSet(T) /\ Cardinality(T) = Cardinality(S) + n
                  /\ Cardinality(S) \in Nat /\ Cardinality(T) \in Nat

LEMMA GrowsBy ==
  ASSUME NEW S, IsFiniteSet(S), NEW x
  PROVE  /\ Grows(S, S, 0)
         /\ x \notin S => Grows(S, S \cup {x}, 1)
         /\ x \in S => Grows(S, S \ {x}, -1)
<1>1. Cardinality(S) \in Nat /\ Grows(S, S, 0)
  BY FS_CardinalityType DEF Grows
<1>2. ASSUME x \notin S PROVE Grows(S, S \cup {x}, 1)
  BY <1>1, <1>2, FS_AddElement, FS_CardinalityType DEF Grows
<1>3. ASSUME x \in S PROVE Grows(S, S \ {x}, -1)
  BY <1>1, <1>3, FS_RemoveElement, FS_CardinalityType DEF Grows
<1>4. QED
  BY <1>1, <1>2, <1>3

LEMMA CountStep ==
  ASSUME Counts, NEW l \in Int, NEW k \in Int, NEW r \in Int, NEW p \in Int, NEW q \in Int,
         Grows(Live, Live', l), Grows(m_resourceList, m_resourceList', r),
         Grows(At(Making), At(Making)', k), Grows(At(Popped), At(Popped)', p),
         Grows(At(Counting), At(Counting)', q),
         m_count' = m_count + l + k, m_idleCount' = m_idleCount + r + p - q,
         MaxCount = 0 \/ m_count' <= m_count \/ m_count' <= MaxCount
  PROVE  Counts'
<1>1. MaxCount \in Nat /\ m_count \in Int
  BY ConstantsOK DEF Counts, Grows
<1>2. m_count' = Cardinality(Live') + Cardinality(At(Making)')
  BY DEF Counts, Grows
<1>3. m_idleCount' = Cardinality(m_resourceList') + Cardinality(At(Popped)')
                       - Cardinality(At(Counting)')
  BY DEF Counts, Grows
<1>4. m_count' \in Int
  BY <1>1
<1>5. MaxCount = 0 \/ m_count' <= MaxCount
  BY <1>1, <1>4 DEF Counts
<1>6. QED
  BY <1>2, <1>3, <1>5 DEF Counts, Grows

(* Where client c is when it alone moves.                                  *)
LEMMA AtMoves ==
  ASSUME TypeOK, NEW c \in Clients, NEW p, Go(c, p), NEW Q
  PROVE  /\ p \in Q => At(Q)' = At(Q) \cup {c}
         /\ p \notin Q => At(Q)' = At(Q) \ {c}
         /\ c \in At(Q) <=> pc[c] \in Q
BY DEF TypeOK, Go, At

(* A client moves between places; b says whether the first is in Q, and e  *)
(* whether the second is.                                                  *)
Shift(b, e) == IF b = e THEN 0 ELSE IF e THEN 1 ELSE -1

LEMMA AtGrows ==
  ASSUME TypeOK, NEW c \in Clients, NEW p, Go(c, p), NEW Q, IsFiniteSet(At(Q))
  PROVE  Grows(At(Q), At(Q)', Shift(pc[c] \in Q, p \in Q))
<1> DEFINE S == At(Q)
           T == At(Q)'
<1>1. /\ p \in Q => T = S \cup {c}
      /\ p \notin Q => T = S \ {c}
      /\ c \in S <=> pc[c] \in Q
  BY AtMoves
<1>2. IsFiniteSet(S)
  OBVIOUS
<1> HIDE DEF S, T
<1>3. /\ Grows(S, S, 0)
      /\ c \notin S => Grows(S, S \cup {c}, 1)
      /\ c \in S => Grows(S, S \ {c}, -1)
  BY <1>2, GrowsBy
<1>4. CASE pc[c] \in Q /\ p \in Q
  <2>1. T = S
    BY <1>1, <1>4
  <2>2. QED
    BY <1>3, <1>4, <2>1 DEF Shift, S, T
<1>5. CASE pc[c] \notin Q /\ p \notin Q
  <2>1. T = S
    BY <1>1, <1>5
  <2>2. QED
    BY <1>3, <1>5, <2>1 DEF Shift, S, T
<1>6. CASE pc[c] \in Q /\ p \notin Q
  <2>1. T = S \ {c} /\ c \in S
    BY <1>1, <1>6
  <2>2. QED
    BY <1>3, <1>6, <2>1 DEF Shift, S, T
<1>7. CASE pc[c] \notin Q /\ p \in Q
  <2>1. T = S \cup {c} /\ c \notin S
    BY <1>1, <1>7
  <2>2. QED
    BY <1>3, <1>7, <2>1 DEF Shift, S, T
<1>8. QED
  BY <1>4, <1>5, <1>6, <1>7

-----------------------------------------------------------------------------
(* Where a client must, or may, have a resource in its hands.              *)
Busy == {"popped", "repopped", "holding", "returning", "handing", "claiming",
         "pushing", "deleting"}
Holding == {"out", "leaving", "returning", "handing", "claiming", "pushing",
            "counting", "deleting", "notifying", "locking"}
Waited == {"joined", "repopped", "asleep", "holding", "destroyed"}

Hands ==
  /\ \A c \in Clients : pc[c] \in Busy => inhand[c] \in Resources
  /\ \A c \in Clients : inhand[c] # NoRes => pc[c] \in Busy \cup {"leaving", "destroyed"}
  /\ \A c \in Clients : held[c] # NoRes => pc[c] \in Holding
  /\ \A c \in Clients : handed[c] # GaveUp => pc[c] \in Waited

(* No call is running when the destructor is.                              *)
Destroying == m_is_destroying => owner_at = "idle" /\ At(Getting) = {}

Over == {"out", "asleep", "leaving", "notifying", "locking", "destroyed"}

IInv == /\ TypeOK /\ Hands /\ OneEach(Content) /\ Destroying
        /\ dtor # "gone" => Counts
        /\ DestructorIsLast

(* What a step does to the resources, l more of them, and to the idle      *)
(* list, r longer.                                                         *)
CellStep(l) ==
  \/ l = 0 /\ Rests(Content, Content')
  \/ l = 0 /\ \E p, q \in Cells : Moves(Content, Content', p, q)
  \/ l = -1 /\ \E p \in Cells : TakesOut(Content, Content', p)
  \/ l = 1 /\ \E q \in Cells : \E r \in Resources \ Live : PutsIn(Content, Content', q, r)

ListStep(r) ==
  \/ r = 0 /\ UNCHANGED m_resourceList
  \/ r = 1 /\ \E x \in Resources \ m_resourceList : m_resourceList' = m_resourceList \cup {x}
  \/ r = -1 /\ \E x \in m_resourceList : m_resourceList' = m_resourceList \ {x}

LEMMA LiveStep ==
  ASSUME TypeOK, TypeOK', OneEach(Content), NEW l, CellStep(l)
  PROVE  /\ OneEach(Content)'
         /\ l = 0 => Live' = Live
         /\ IsFiniteSet(Live) => Grows(Live, Live', l)
<1>1. In(Content) = Live /\ In(Content') = Live'
  BY LiveCells, LiveCellsNext DEF CellsHoldLive
<1>2. CASE l = 0 /\ Rests(Content, Content')
  <2>1. OneEach(Content') /\ Live' = Live
    BY <1>1, <1>2, Rested
  <2>2. QED
    BY <1>2, <2>1, GrowsBy
<1>3. CASE l = 0 /\ \E p, q \in Cells : Moves(Content, Content', p, q)
  <2>1. OneEach(Content') /\ Live' = Live
    BY <1>1, <1>3, MovedOver
  <2>2. QED
    BY <1>3, <2>1, GrowsBy
<1>4. CASE l = -1 /\ \E p \in Cells : TakesOut(Content, Content', p)
  <2>1. PICK p \in Cells : TakesOut(Content, Content', p)
    BY <1>4
  <2> DEFINE r == Content[p]
  <2>2. OneEach(Content') /\ In(Content') = In(Content) \ {r} /\ r \in In(Content)
    BY <2>1, TakenOut
  <2> HIDE DEF r
  <2>3. Live' = Live \ {r} /\ r \in Live
    BY <1>1, <2>2
  <2>4. IsFiniteSet(Live) => Grows(Live, Live', -1)
    BY <2>3, GrowsBy
  <2>5. l = -1
    BY <1>4
  <2>6. IsFiniteSet(Live) => Grows(Live, Live', l)
    BY <2>4, <2>5, Zenon
  <2>7. l # 0
    BY <2>5
  <2>8. OneEach(Content)'
    BY <2>2
  <2>9. QED
    BY <2>6, <2>7, <2>8, Zenon
<1>5. CASE l = 1 /\ \E q \in Cells : \E r \in Resources \ Live : PutsIn(Content, Content', q, r)
  <2>1. PICK q \in Cells : \E r \in Resources \ Live : PutsIn(Content, Content', q, r)
    BY <1>5
  <2> PICK r \in Resources \ Live : PutsIn(Content, Content', q, r)
    BY <2>1
  <2>2. OneEach(Content') /\ Live' = Live \cup {r}
    BY <1>1, <2>1, PutIn
  <2>3. IsFiniteSet(Live) => Grows(Live, Live', 1)
    BY <2>2, GrowsBy
  <2>4. l = 1
    BY <1>5
  <2>5. IsFiniteSet(Live) => Grows(Live, Live', l)
    BY <2>3, <2>4, Zenon
  <2>6. l # 0
    BY <2>4
  <2>7. OneEach(Content)'
    BY <2>2
  <2>8. QED
    BY <2>5, <2>6, <2>7, Zenon
<1>6. QED
  BY <1>2, <1>3, <1>4, <1>5 DEF CellStep

LEMMA ListGrows ==
  ASSUME NEW r, ListStep(r), IsFiniteSet(m_resourceList)
  PROVE  Grows(m_resourceList, m_resourceList', r)
BY GrowsBy DEF ListStep

(* One client moves, and what it does to the cells and the counters        *)
(* agrees.                                                                 *)
LEMMA ClientStep ==
  ASSUME IInv, TypeOK', Hands', NEW c \in Clients, NEW p, Go(c, p),
         NEW l \in {-1, 0, 1}, CellStep(l), NEW r \in {-1, 0, 1}, ListStep(r),
         m_count' = m_count + l + Shift(pc[c] \in Making, p \in Making),
         m_idleCount' = m_idleCount + r + Shift(pc[c] \in Popped, p \in Popped)
                          - Shift(pc[c] \in Counting, p \in Counting),
         MaxCount = 0 \/ m_count' <= m_count \/ m_count' <= MaxCount,
         UNCHANGED owner_at, dtor' = dtor \/ (dtor = "asleep" /\ dtor' = "locked"),
         m_is_destroying /\ p \in Getting => pc[c] \in Getting,
         dtor = "gone" => p \in Over /\ l = 0
  PROVE  IInv'
<1>1. TypeOK /\ OneEach(Content)
  BY DEF IInv
<1>2. /\ OneEach(Content)' /\ (l = 0 => Live' = Live)
      /\ IsFiniteSet(Live) => Grows(Live, Live', l)
  BY <1>1, LiveStep
<1>3. Destroying'
  <2>1. m_is_destroying' = m_is_destroying
    BY DEF m_is_destroying
  <2>2. ASSUME m_is_destroying PROVE At(Getting)' = {}
    <3>1. At(Getting) = {} /\ (c \in At(Getting) <=> pc[c] \in Getting)
      BY <1>1, <2>2, AtMoves DEF IInv, Destroying
    <3>2. p \notin Getting
      BY <2>2, <3>1
    <3>3. At(Getting)' = At(Getting) \ {c}
      BY <1>1, <3>2, AtMoves
    <3>4. QED
      BY <3>1, <3>3
  <2>3. QED
    BY <2>1, <2>2 DEF IInv, Destroying
<1>4. DestructorIsLast'
  <2>1. dtor' = "gone" => dtor = "gone"
    OBVIOUS
  <2>2. \A d \in Clients : pc'[d] = IF d = c THEN p ELSE pc[d]
    BY <1>1 DEF TypeOK, Go
  <2>3. QED
    BY <1>2, <2>1, <2>2 DEF IInv, DestructorIsLast, Over
<1>5. ASSUME dtor # "gone" PROVE Counts'
  <2>1. Counts
    BY <1>5 DEF IInv
  <2> DEFINE k == Shift(pc[c] \in Making, p \in Making)
             u == Shift(pc[c] \in Popped, p \in Popped)
             v == Shift(pc[c] \in Counting, p \in Counting)
  <2>2. /\ Grows(At(Making), At(Making)', k)
        /\ Grows(At(Popped), At(Popped)', u)
        /\ Grows(At(Counting), At(Counting)', v)
    BY <1>1, <2>1, AtGrows DEF Counts
  <2>3. Grows(Live, Live', l) /\ Grows(m_resourceList, m_resourceList', r)
    BY <1>2, <2>1, ListGrows DEF Counts
  <2>4. k \in Int /\ u \in Int /\ v \in Int /\ l \in Int /\ r \in Int
    BY DEF Shift
  <2>5. m_count' = m_count + l + k /\ m_idleCount' = m_idleCount + r + u - v
    OBVIOUS
  <2> HIDE DEF k, u, v
  <2>6. QED
    BY <2>1, <2>2, <2>3, <2>4, <2>5, CountStep
<1>6. dtor' # "gone" => dtor # "gone"
  OBVIOUS
<1>7. QED
  BY <1>2, <1>3, <1>4, <1>5, <1>6 DEF IInv

-----------------------------------------------------------------------------
LEMMA FirstIsWaiting ==
  ASSUME TypeOK, Waiting # {}
  PROVE  FirstWaiting \in Waiting /\ FirstWaiting \in 1 .. Len(queue)
<1>1. Waiting \subseteq Nat /\ Waiting \subseteq 1 .. Len(queue)
  BY DEF Waiting, TypeOK
<1>2. \E i \in Waiting : \A j \in Waiting : i <= j
  <2> DEFINE T == {n \in Nat : \A i \in Waiting : n <= i}
  <2>1. SUFFICES ASSUME \A i \in Waiting : \E j \in Waiting : ~ (i <= j) PROVE FALSE
    OBVIOUS
  <2>2. 0 \in T /\ T \subseteq Nat
    BY <1>1
  <2>3. \A n \in T : n + 1 \in T
    <3> SUFFICES ASSUME NEW n \in T, NEW i \in Waiting PROVE n + 1 <= i
      OBVIOUS
    <3>1. n <= i /\ i \in Nat /\ n \in Nat
      BY <1>1
    <3>2. n # i
      BY <2>1, <3>1
    <3>3. QED
      BY <3>1, <3>2
  <2>4. T = Nat
    <3> HIDE DEF T
    <3> QED
      BY <2>2, <2>3, SetInduction
  <2>5. PICK i \in Waiting : TRUE
    OBVIOUS
  <2>6. i + 1 \in T
    <3>1. i + 1 \in Nat
      BY <1>1, <2>5
    <3> HIDE DEF T
    <3>2. QED
      BY <2>4, <3>1
  <2>7. QED
    BY <1>1, <2>5, <2>6
<1>3. QED
  BY <1>1, <1>2 DEF FirstWaiting

LEMMA CallType ==
  ASSUME TypeOK, NEW c \in Clients, NEW f \in Places, NEW n \in Places, Pop(c, f, n)
  PROVE  TypeOK'
BY DEF TypeOK, Pop, Go, counters, versions, owner

LEMMA ClientType ==
  ASSUME TypeOK, Hands, NEW c \in Clients,
         Call(c) \/ Continue(c) \/ DestroyCoroutine(c)
  PROVE  TypeOK'
<1> USE DEF TypeOK, Go, counters, versions, owner
<1>0. Getting \subseteq Places /\ {"popped", "slot", "repopped", "asleep"} \subseteq Places
  BY DEF Getting, Places
<1>100. \A p \in Places : Go(c, p) => pc' \in [Clients -> Places]
  OBVIOUS
<1>1. CASE Call(c)
  BY <1>0, <1>1, CallType DEF Call
<1>2. CASE Took(c)
  <2>1. pc' \in [Clients -> Places]
    BY <1>0, <1>2, <1>100 DEF Took, TakeCurrent, DeleteStale, Places
  <2>2. m_count' \in Int /\ m_idleCount' \in Int /\ stale' \subseteq Resources
    BY <1>2 DEF Took, TakeCurrent, DeleteStale
  <2>3. inhand' \in [Clients -> Resources \cup {NoRes}]
    BY <1>2 DEF Took
  <2>4. held' \in [Clients -> Resources \cup {NoRes}]
    BY <1>2 DEF Took
  <2>5. QED
    BY <1>2, <2>1, <2>2, <2>3, <2>4 DEF Took
<1>3. CASE Reserve(c)
  BY <1>3 DEF Reserve, Getting, Places
<1>4. CASE CopyParam(c)
  BY <1>4 DEF CopyParam, Getting, Places
<1>5. CASE Make(c)
  <2>1. pc' \in [Clients -> Places]
    BY <1>5, <1>100 DEF Make, Places
  <2> DEFINE P == Places
  <2> HIDE DEF P
  <2>2. m_count' \in Int /\ held' \in [Clients -> Resources \cup {NoRes}] /\ stale' \subseteq Resources
    BY <1>5 DEF Make
  <2>3. outdated' \subseteq Clients
    BY <1>5 DEF Make
  <2>4. QED
    BY <1>5, <2>1, <2>2, <2>3 DEF Make
<1>6. CASE PushWaiter(c)
  <2>1. Append(queue, c) \in Seq(Clients)
    OBVIOUS
  <2>2. pc' \in [Clients -> Places]
    BY <1>6, <1>100 DEF PushWaiter, Getting, Places
  <2>3. queue' \in Seq(Clients)
    BY <1>6, <2>1 DEF PushWaiter
  <2>4. handed' \in [Clients -> Resources \cup {NoRes, GaveUp}]
    BY <1>6 DEF PushWaiter
  <2>5. target' \in [Clients -> Clients \cup {NoRes}]
    BY <1>6 DEF PushWaiter
  <2>6. QED
    BY <1>6, <2>2, <2>3, <2>4, <2>5 DEF PushWaiter
<1>7. CASE LookAgain(c)
  BY <1>0, <1>7, CallType DEF LookAgain
<1>8. CASE TookAgain(c)
  <2>1. pc' \in [Clients -> Places]
    BY <1>8, <1>100 DEF TookAgain, TakeCurrent, DeleteStale, Places
  <2>2. m_count' \in Int /\ m_idleCount' \in Int /\ stale' \subseteq Resources
    BY <1>8 DEF TookAgain, TakeCurrent, DeleteStale
  <2>3. inhand' \in [Clients -> Resources \cup {NoRes}]
    BY <1>8 DEF TookAgain
  <2>4. QED
    BY <1>8, <2>1, <2>2, <2>3 DEF TookAgain
<1>9. CASE Resume(c)
  BY <1>9 DEF Resume, Exchange, Places
<1>10. CASE Leave(c)
  <2>1. Without(queue, {c}) \in Seq(Clients)
    BY WithoutQueue
  <2>2. QED
    BY <1>10, <2>1 DEF Leave, Places
<1>11. CASE Drop(c)
  BY <1>11 DEF Drop, Places
<1>12. CASE ReturnResource(c)
  BY <1>12 DEF ReturnResource, Places
<1>13. CASE Scan(c)
  <2>1. Living(queue) \in Seq(Clients)
    BY WithoutQueue DEF Living
  <2>2. ASSUME Waiting # {}
        PROVE  /\ queue[FirstWaiting] \in Clients
               /\ Living(SubSeq(queue, 1, FirstWaiting - 1))
                    \o SubSeq(queue, FirstWaiting, Len(queue)) \in Seq(Clients)
    <3>1. FirstWaiting \in 1 .. Len(queue)
      BY <2>2, FirstIsWaiting
    <3> DEFINE s == SubSeq(queue, 1, FirstWaiting - 1)
               u == SubSeq(queue, FirstWaiting, Len(queue))
    <3>2. s \in Seq(Clients) /\ u \in Seq(Clients)
      BY <3>1
    <3> HIDE DEF s, u
    <3>3. Living(s) \in Seq(Clients)
      BY <3>2, WithoutQueue DEF Living
    <3>4. Living(s) \o u \in Seq(Clients)
      BY <3>2, <3>3
    <3>5. QED
      BY <3>1, <3>4 DEF s, u
  <2> HIDE DEF TypeOK
  <2>3. queue' \in Seq(Clients)
    BY <1>13, <2>1, <2>2, Zenon DEF Scan
  <2>4. target' \in [Clients -> Clients \cup {NoRes}]
    <3>1. CASE Waiting = {}
      BY <1>13, <3>1 DEF Scan, TypeOK
    <3>2. CASE Waiting # {}
      <4> DEFINE w == queue[FirstWaiting]
      <4>1. w \in Clients /\ target' = [target EXCEPT ![c] = w]
        BY <1>13, <2>2, <3>2 DEF Scan
      <4> HIDE DEF w
      <4>2. QED
        BY <4>1 DEF TypeOK
    <3>3. QED
      BY <3>1, <3>2
  <2>5. pc' \in [Clients -> Places]
    <3>1. pc' = [pc EXCEPT ![c] = "pushing"] \/ pc' = [pc EXCEPT ![c] = "claiming"]
      BY <1>13 DEF Scan
    <3>2. QED
      BY <3>1 DEF TypeOK, Places
  <2>6. UNCHANGED <<counters, m_resourceList, versions, handed, held, inhand, owner>>
    BY <1>13 DEF Scan
  <2>7. QED
    BY <2>3, <2>4, <2>5, <2>6 DEF TypeOK
<1>14. CASE Claim(c)
  BY <1>14 DEF Claim, Places
<1>15. CASE Push(c)
  <2>1. inhand[c] \in Resources
    BY <1>15 DEF Hands, Busy, Push
  <2>2. pc' \in [Clients -> Places]
    BY <1>15, <1>100 DEF Push, Places
  <2>3. m_resourceList' \subseteq Resources /\ inhand' \in [Clients -> Resources \cup {NoRes}]
    BY <1>15, <2>1 DEF Push
  <2>4. QED
    BY <1>15, <2>2, <2>3 DEF Push
<1>16. CASE CountIdle(c)
  BY <1>16 DEF CountIdle, Places
<1>17. CASE Delete(c)
  BY <1>17 DEF Delete, Places
<1>18. CASE ReadWaiting(c)
  BY <1>18 DEF ReadWaiting, Places
<1>19. CASE Notify(c)
  BY <1>19 DEF Notify, NotifyOne, Places, DtorPlaces
<1>20. CASE DestroyCoroutine(c)
  BY <1>20 DEF DestroyCoroutine, Places
<1> HIDE DEF TypeOK
<1>21. QED
  BY <1>1, <1>2, <1>3, <1>4, <1>5, <1>6, <1>7, <1>8, <1>9, <1>10, <1>11, <1>12, <1>13,
     <1>14, <1>15, <1>16, <1>17, <1>18, <1>19, <1>20 DEF Continue

-----------------------------------------------------------------------------
LEMMA CellsAlike ==
  ASSUME NEW P,
         \A d \in Clients : Held(d) \in P \/ Alike(held'[d], held[d]),
         \A d \in Clients : Inhand(d) \in P \/ Alike(inhand'[d], inhand[d]),
         \A d \in Clients : Handed(d) \in P \/ Alike(handed'[d], handed[d]),
         \A r \in Resources : Idle(r) \in P \/ (r \in m_resourceList' <=> r \in m_resourceList)
  PROVE  \A x \in Cells \ P : Alike(Content'[x], Content[x])
<1> SUFFICES ASSUME NEW x \in Cells, x \notin P PROVE Alike(Content'[x], Content[x])
  OBVIOUS
<1>1. CASE \E d \in Clients : x \in {Held(d), Inhand(d), Handed(d)}
  <2>1. PICK d \in Clients : x \in {Held(d), Inhand(d), Handed(d)}
    BY <1>1
  <2>2. CASE x = Held(d)
    <3>1. Content[x] = held[d] /\ Content'[x] = held'[d]
      BY <2>2, ContentIs, ContentNext
    <3>2. QED
      BY <2>2, <3>1, Zenon
  <2>3. CASE x = Inhand(d)
    <3>1. Content[x] = inhand[d] /\ Content'[x] = inhand'[d]
      BY <2>3, ContentIs, ContentNext
    <3>2. QED
      BY <2>3, <3>1, Zenon
  <2>4. CASE x = Handed(d)
    <3>1. Content[x] = handed[d] /\ Content'[x] = handed'[d]
      BY <2>4, ContentIs, ContentNext
    <3>2. QED
      BY <2>4, <3>1, Zenon
  <2>5. QED
    BY <2>1, <2>2, <2>3, <2>4
<1>2. CASE \E r \in Resources : x = Idle(r)
  <2>1. PICK r \in Resources : x = Idle(r)
    BY <1>2
  <2>2. r \in m_resourceList' <=> r \in m_resourceList
    BY <2>1
  <2>3. Content[x] = (IF r \in m_resourceList THEN r ELSE NoRes)
    BY <2>1, ContentIs
  <2>4. Content'[x] = (IF r \in m_resourceList' THEN r ELSE NoRes)
    BY <2>1, ContentNext
  <2>5. Content'[x] = Content[x]
    BY <2>2, <2>3, <2>4
  <2>6. QED
    BY <2>5 DEF Alike
<1>3. QED
  BY <1>1, <1>2, CellsAre

LEMMA HandsMove ==
  ASSUME TypeOK, Hands, NEW c \in Clients, NEW p, Go(c, p),
         \A d \in Clients \ {c} : /\ inhand'[d] = inhand[d] /\ held'[d] = held[d]
                                  /\ handed'[d] # GaveUp => handed[d] # GaveUp,
         p \in Busy => inhand'[c] \in Resources,
         inhand'[c] # NoRes => p \in Busy \cup {"leaving", "destroyed"},
         held'[c] # NoRes => p \in Holding,
         handed'[c] # GaveUp => p \in Waited
  PROVE  Hands'
<1>1. pc'[c] = p /\ \A d \in Clients \ {c} : pc'[d] = pc[d]
  BY DEF TypeOK, Go
<1>2. ASSUME NEW d \in Clients
      PROVE  /\ pc'[d] \in Busy => inhand'[d] \in Resources
             /\ inhand'[d] # NoRes => pc'[d] \in Busy \cup {"leaving", "destroyed"}
             /\ held'[d] # NoRes => pc'[d] \in Holding
             /\ handed'[d] # GaveUp => pc'[d] \in Waited
  <2>1. CASE d = c
    BY <1>1, <2>1
  <2>2. CASE d # c
    BY <1>1, <2>2 DEF Hands
  <2>3. QED
    BY <2>1, <2>2
<1>3. QED
  BY <1>2 DEF Hands

(* A client that only moves, past a counter or to or from its node: no     *)
(* resource goes anywhere.                                                 *)
LEMMA QuietStep ==
  ASSUME IInv, TypeOK', NEW c \in Clients, NEW p, Go(c, p),
         UNCHANGED <<m_resourceList, held, inhand, owner_at>>,
         \A d \in Clients : Alike(handed'[d], handed[d]),
         \A d \in Clients \ {c} : handed'[d] = handed[d],
         p \in Busy => pc[c] \in Busy \/ inhand[c] \in Resources,
         inhand[c] # NoRes => p \in Busy \cup {"leaving", "destroyed"},
         held[c] # NoRes => p \in Holding,
         handed'[c] # GaveUp => p \in Waited,
         m_count' = m_count + Shift(pc[c] \in Making, p \in Making),
         m_idleCount' = m_idleCount + Shift(pc[c] \in Popped, p \in Popped)
                          - Shift(pc[c] \in Counting, p \in Counting),
         MaxCount = 0 \/ m_count' <= m_count \/ m_count' <= MaxCount,
         dtor' = dtor \/ (dtor = "asleep" /\ dtor' = "locked"),
         m_is_destroying /\ p \in Getting => pc[c] \in Getting,
         dtor = "gone" => p \in Over
  PROVE  IInv'
<1>1. TypeOK /\ Hands
  BY DEF IInv
<1>2. Hands'
  <2>1. \A d \in Clients \ {c} : /\ inhand'[d] = inhand[d] /\ held'[d] = held[d]
                                 /\ handed'[d] # GaveUp => handed[d] # GaveUp
    OBVIOUS
  <2>2. p \in Busy => inhand'[c] \in Resources
    BY <1>1 DEF Hands
  <2>3. QED
    BY <1>1, <2>1, <2>2, HandsMove
<1>3. CellStep(0)
  <2>1. \A x \in Cells \ {} : Alike(Content'[x], Content[x])
    <3>1. \A d \in Clients : Alike(held'[d], held[d]) /\ Alike(inhand'[d], inhand[d])
      BY DEF Alike
    <3>2. \A r \in Resources : r \in m_resourceList' <=> r \in m_resourceList
      OBVIOUS
    <3>3. QED
      BY <3>1, <3>2, CellsAlike
  <2>2. QED
    BY <2>1 DEF CellStep, Rests
<1>4. ListStep(0)
  BY DEF ListStep
<1> DEFINE k == Shift(pc[c] \in Making, p \in Making)
           u == Shift(pc[c] \in Popped, p \in Popped)
           v == Shift(pc[c] \in Counting, p \in Counting)
<1>5. k \in Int /\ u \in Int /\ v \in Int
  BY DEF Shift
<1>6. m_count \in Int /\ m_idleCount \in Int
  BY <1>1 DEF TypeOK
<1>7. m_count' = m_count + k /\ m_idleCount' = m_idleCount + u - v
  OBVIOUS
<1> HIDE DEF k, u, v
<1>8. m_count' = m_count + 0 + k /\ m_idleCount' = m_idleCount + 0 + u - v
  BY <1>5, <1>6, <1>7
<1>9. 0 \in {-1, 0, 1}
  OBVIOUS
<1>10. dtor = "gone" => p \in Over /\ 0 = 0
  OBVIOUS
<1>11. UNCHANGED owner_at
  OBVIOUS
<1>12. QED
  BY <1>2, <1>3, <1>4, <1>8, <1>9, <1>10, <1>11, ClientStep DEF k, u, v

-----------------------------------------------------------------------------
LEMMA GoneIsOver ==
  ASSUME IInv, dtor = "gone", NEW c \in Clients
  PROVE  pc[c] \in Over /\ held[c] = NoRes /\ handed[c] \in {NoRes, GaveUp} /\ inhand[c] = NoRes
<1>1. Live = {}
  BY DEF IInv, DestructorIsLast
<1>2. \A d \in Clients : pc[d] \in {"out", "asleep", "leaving", "notifying", "locking", "destroyed"}
  BY DEF IInv, DestructorIsLast
<1>3. TypeOK
  BY DEF IInv
<1>4. /\ inhand[c] \in Resources \cup {NoRes} /\ held[c] \in Resources \cup {NoRes}
      /\ handed[c] \in Resources \cup {NoRes, GaveUp}
  BY <1>3 DEF TypeOK
<1>5. /\ inhand[c] \notin {NoRes, GaveUp} => inhand[c] \in Live
      /\ held[c] \notin {NoRes, GaveUp} => held[c] \in Live
      /\ handed[c] \notin {NoRes, GaveUp} => handed[c] \in Live
  BY DEF Live
<1>6. GaveUp \notin Resources \cup {NoRes}
  BY ConstantsOK
<1>7. QED
  BY <1>1, <1>2, <1>4, <1>5, <1>6 DEF Over

(* The steps that move no resource.                                        *)
LEMMA ReserveStep ==
  ASSUME IInv, TypeOK', NEW c \in Clients, Reserve(c)
  PROVE  IInv'
<1>1. /\ pc[c] = "slot" /\ UNCHANGED <<m_resourceList, held, inhand, owner_at, handed, dtor, m_idleCount>>
  BY DEF Reserve, owner
<1>2. dtor # "gone" /\ inhand[c] = NoRes /\ held[c] = NoRes /\ handed[c] = GaveUp
  BY <1>1, GoneIsOver DEF Over, IInv, Hands, Busy, Holding, Waited
<1>3. m_count \in Int /\ m_idleCount \in Int /\ MaxCount \in Nat
  BY ConstantsOK DEF IInv, TypeOK
<1>4. \A d \in Clients : handed'[d] = handed[d] /\ Alike(handed'[d], handed[d])
  BY <1>1 DEF Alike
<1>5. CASE Room /\ m_count' = m_count + 1 /\ Go(c, "reserved")
  <2>1. m_count' = m_count + Shift(pc[c] \in Making, "reserved" \in Making)
    BY <1>1, <1>5 DEF Shift, Making
  <2>2. m_idleCount' = m_idleCount + Shift(pc[c] \in Popped, "reserved" \in Popped)
                         - Shift(pc[c] \in Counting, "reserved" \in Counting)
    BY <1>1, <1>3 DEF Shift, Popped, Counting
  <2>3. MaxCount = 0 \/ m_count' <= MaxCount
    BY <1>3, <1>5 DEF Room
  <2>4. "reserved" \notin Busy /\ pc[c] \in Getting
    BY <1>1 DEF Busy, Getting
  <2>5. QED
    BY <1>1, <1>2, <1>4, <1>5, <2>1, <2>2, <2>3, <2>4, QuietStep
<1>6. ASSUME NEW p \in {"out", "joining"}, Go(c, p), UNCHANGED m_count PROVE IInv'
  <2>1. m_count' = m_count + Shift(pc[c] \in Making, p \in Making)
    BY <1>1, <1>3, <1>6 DEF Shift, Making
  <2>2. m_idleCount' = m_idleCount + Shift(pc[c] \in Popped, p \in Popped)
                         - Shift(pc[c] \in Counting, p \in Counting)
    BY <1>1, <1>3, <1>6 DEF Shift, Popped, Counting
  <2>3. m_count' <= m_count
    BY <1>3, <1>6
  <2>4. p \notin Busy /\ pc[c] \in Getting
    BY <1>1, <1>6 DEF Busy, Getting
  <2>5. QED
    BY <1>1, <1>2, <1>4, <1>6, <2>1, <2>2, <2>3, <2>4, QuietStep
<1>7. QED
  BY <1>5, <1>6 DEF Reserve

LEMMA CopyParamStep ==
  ASSUME IInv, TypeOK', NEW c \in Clients, CopyParam(c)
  PROVE  IInv'
<1>1. /\ pc[c] = "reserved"
      /\ UNCHANGED <<m_resourceList, held, inhand, owner_at, handed, dtor, m_idleCount, m_count>>
  BY DEF CopyParam, owner, counters
<1>2. dtor # "gone" /\ inhand[c] = NoRes /\ held[c] = NoRes /\ handed[c] = GaveUp
  BY <1>1, GoneIsOver DEF Over, IInv, Hands, Busy, Holding, Waited
<1>3. m_count \in Int /\ m_idleCount \in Int
  BY DEF IInv, TypeOK
<1>4. \A d \in Clients : handed'[d] = handed[d] /\ Alike(handed'[d], handed[d])
  BY <1>1 DEF Alike
<1>5. ASSUME NEW p \in {"making", "comaking"}, Go(c, p) PROVE IInv'
  <2>1. m_count' = m_count + Shift(pc[c] \in Making, p \in Making)
    BY <1>1, <1>3, <1>5 DEF Shift, Making
  <2>2. m_idleCount' = m_idleCount + Shift(pc[c] \in Popped, p \in Popped)
                         - Shift(pc[c] \in Counting, p \in Counting)
    BY <1>1, <1>3, <1>5 DEF Shift, Popped, Counting
  <2>3. m_count' <= m_count
    BY <1>1, <1>3
  <2>4. p \notin Busy /\ pc[c] \in Getting
    BY <1>1, <1>5 DEF Busy, Getting
  <2>5. QED
    BY <1>1, <1>2, <1>4, <1>5, <2>1, <2>2, <2>3, <2>4, QuietStep
<1>6. QED
  BY <1>5 DEF CopyParam

LEMMA PushWaiterStep ==
  ASSUME IInv, TypeOK', NEW c \in Clients, PushWaiter(c)
  PROVE  IInv'
<1>1. /\ pc[c] = "joining"
      /\ UNCHANGED <<m_resourceList, held, inhand, owner_at, dtor, m_idleCount, m_count>>
  BY DEF PushWaiter, owner, counters
<1>2. dtor # "gone" /\ inhand[c] = NoRes /\ held[c] = NoRes /\ handed[c] = GaveUp
  BY <1>1, GoneIsOver DEF Over, IInv, Hands, Busy, Holding, Waited
<1>3. m_count \in Int /\ m_idleCount \in Int
  BY DEF IInv, TypeOK
<1>4. PICK p \in {"out", "joined"} : /\ Go(c, p)
                                     /\ p = "out" => UNCHANGED handed
                                     /\ p = "joined" => handed' = [handed EXCEPT ![c] = NoRes]
  BY DEF PushWaiter
<1>5. /\ \A d \in Clients \ {c} : handed'[d] = handed[d]
      /\ \A d \in Clients : Alike(handed'[d], handed[d])
      /\ handed'[c] # GaveUp => p \in Waited
  <2>1. handed \in [Clients -> Resources \cup {NoRes, GaveUp}]
    BY DEF IInv, TypeOK
  <2>2. CASE p = "out"
    BY <1>2, <1>4, <2>2 DEF Alike
  <2>3. CASE p = "joined"
    <3>1. /\ \A d \in Clients \ {c} : handed'[d] = handed[d]
          /\ handed'[c] = NoRes /\ handed[c] = GaveUp
      BY <1>2, <1>4, <2>1, <2>3
    <3>2. Alike(handed'[c], handed[c])
      BY <3>1, ConstantsOK DEF Alike
    <3>3. QED
      BY <2>3, <3>1, <3>2 DEF Alike, Waited
  <2>4. QED
    BY <2>2, <2>3
<1>6. m_count' = m_count + Shift(pc[c] \in Making, p \in Making)
  BY <1>1, <1>3, <1>4 DEF Shift, Making
<1>7. m_idleCount' = m_idleCount + Shift(pc[c] \in Popped, p \in Popped)
                       - Shift(pc[c] \in Counting, p \in Counting)
  BY <1>1, <1>3, <1>4 DEF Shift, Popped, Counting
<1>8. m_count' <= m_count
  BY <1>1, <1>3
<1>9. p \notin Busy /\ pc[c] \in Getting
  BY <1>1, <1>4 DEF Busy, Getting
<1>10. QED
  BY <1>1, <1>2, <1>4, <1>5, <1>6, <1>7, <1>8, <1>9, QuietStep

LEMMA ReturnResourceStep ==
  ASSUME IInv, TypeOK', NEW c \in Clients, ReturnResource(c)
  PROVE  IInv'
<1>1. /\ pc[c] = "returning"
      /\ UNCHANGED <<m_resourceList, held, inhand, owner_at, handed, dtor, m_idleCount, m_count>>
  BY DEF ReturnResource, owner, counters
<1>2. dtor # "gone" /\ handed[c] = GaveUp
  BY <1>1, GoneIsOver DEF Over, IInv, Hands, Waited
<1>3. m_count \in Int /\ m_idleCount \in Int
  BY DEF IInv, TypeOK
<1>4. \A d \in Clients : handed'[d] = handed[d] /\ Alike(handed'[d], handed[d])
  BY <1>1 DEF Alike
<1>5. PICK p \in {"deleting", "handing"} : Go(c, p)
  BY DEF ReturnResource
<1>6. m_count' = m_count + Shift(pc[c] \in Making, p \in Making)
  BY <1>1, <1>3, <1>5 DEF Shift, Making
<1>7. m_idleCount' = m_idleCount + Shift(pc[c] \in Popped, p \in Popped)
                       - Shift(pc[c] \in Counting, p \in Counting)
  BY <1>1, <1>3, <1>5 DEF Shift, Popped, Counting
<1>8. m_count' <= m_count
  BY <1>1, <1>3
<1>9. p \in Busy /\ pc[c] \in Busy /\ p \in Holding /\ p \notin Getting
  BY <1>1, <1>5 DEF Busy, Holding, Getting
<1>10. QED
  BY <1>1, <1>2, <1>4, <1>5, <1>6, <1>7, <1>8, <1>9, QuietStep

LEMMA ScanStep ==
  ASSUME IInv, TypeOK', NEW c \in Clients, Scan(c)
  PROVE  IInv'
<1>1. /\ pc[c] = "handing"
      /\ UNCHANGED <<m_resourceList, held, inhand, owner_at, handed, dtor, m_idleCount, m_count>>
  BY DEF Scan, owner, counters
<1>2. dtor # "gone" /\ handed[c] = GaveUp
  BY <1>1, GoneIsOver DEF Over, IInv, Hands, Waited
<1>3. m_count \in Int /\ m_idleCount \in Int
  BY DEF IInv, TypeOK
<1>4. \A d \in Clients : handed'[d] = handed[d] /\ Alike(handed'[d], handed[d])
  BY <1>1 DEF Alike
<1>5. PICK p \in {"pushing", "claiming"} : Go(c, p)
  BY Zenon DEF Scan
<1>6. m_count' = m_count + Shift(pc[c] \in Making, p \in Making)
  BY <1>1, <1>3, <1>5 DEF Shift, Making
<1>7. m_idleCount' = m_idleCount + Shift(pc[c] \in Popped, p \in Popped)
                       - Shift(pc[c] \in Counting, p \in Counting)
  BY <1>1, <1>3, <1>5 DEF Shift, Popped, Counting
<1>8. m_count' <= m_count
  BY <1>1, <1>3
<1>9. p \in Busy /\ pc[c] \in Busy /\ p \in Holding /\ p \notin Getting
  BY <1>1, <1>5 DEF Busy, Holding, Getting
<1>10. QED
  BY <1>1, <1>2, <1>4, <1>5, <1>6, <1>7, <1>8, <1>9, QuietStep

LEMMA CountIdleStep ==
  ASSUME IInv, TypeOK', NEW c \in Clients, CountIdle(c)
  PROVE  IInv'
<1>1. /\ pc[c] = "counting" /\ Go(c, "notifying") /\ m_idleCount' = m_idleCount + 1
      /\ UNCHANGED <<m_resourceList, held, inhand, owner_at, handed, dtor, m_count>>
  BY DEF CountIdle, owner
<1>2. dtor # "gone" /\ handed[c] = GaveUp /\ inhand[c] = NoRes
  BY <1>1, GoneIsOver DEF Over, IInv, Hands, Waited, Busy
<1>3. m_count \in Int /\ m_idleCount \in Int
  BY DEF IInv, TypeOK
<1>4. \A d \in Clients : handed'[d] = handed[d] /\ Alike(handed'[d], handed[d])
  BY <1>1 DEF Alike
<1>6. m_count' = m_count + Shift(pc[c] \in Making, "notifying" \in Making)
  BY <1>1, <1>3 DEF Shift, Making
<1>7. m_idleCount' = m_idleCount + Shift(pc[c] \in Popped, "notifying" \in Popped)
                       - Shift(pc[c] \in Counting, "notifying" \in Counting)
  BY <1>1, <1>3 DEF Shift, Popped, Counting
<1>8. m_count' <= m_count
  BY <1>1, <1>3
<1>9. "notifying" \notin Busy /\ "notifying" \in Holding /\ "notifying" \notin Getting
  BY DEF Busy, Holding, Getting
<1>10. QED
  BY <1>1, <1>2, <1>4, <1>6, <1>7, <1>8, <1>9, QuietStep

LEMMA NotifyStep ==
  ASSUME IInv, TypeOK', NEW c \in Clients, ReadWaiting(c) \/ Notify(c)
  PROVE  IInv'
<1>1. /\ pc[c] \in {"notifying", "locking"}
      /\ UNCHANGED <<m_resourceList, held, inhand, owner_at, handed, m_idleCount, m_count>>
  BY DEF ReadWaiting, Notify, owner, counters
<1>2. PICK p \in {"locking", "out"} : Go(c, p)
  BY DEF ReadWaiting, Notify
<1>3. m_count \in Int /\ m_idleCount \in Int
  BY DEF IInv, TypeOK
<1>4. \A d \in Clients : handed'[d] = handed[d] /\ Alike(handed'[d], handed[d])
  BY <1>1 DEF Alike
<1>5. dtor' = dtor \/ (dtor = "asleep" /\ dtor' = "locked")
  BY DEF ReadWaiting, Notify, NotifyOne, owner
<1>6. m_count' = m_count + Shift(pc[c] \in Making, p \in Making)
  BY <1>1, <1>2, <1>3 DEF Shift, Making
<1>7. m_idleCount' = m_idleCount + Shift(pc[c] \in Popped, p \in Popped)
                       - Shift(pc[c] \in Counting, p \in Counting)
  BY <1>1, <1>2, <1>3 DEF Shift, Popped, Counting
<1>8. m_count' <= m_count
  BY <1>1, <1>3
<1>9. p \notin Busy /\ p \in Holding /\ p \notin Getting /\ p \in Over
  BY <1>2 DEF Busy, Holding, Getting, Over
<1>10. handed[c] = GaveUp /\ inhand[c] = NoRes
  BY <1>1 DEF IInv, Hands, Waited, Busy
<1>11. QED
  BY <1>1, <1>2, <1>4, <1>5, <1>6, <1>7, <1>8, <1>9, <1>10, QuietStep

LEMMA DestroyCoroutineStep ==
  ASSUME IInv, TypeOK', NEW c \in Clients, DestroyCoroutine(c)
  PROVE  IInv'
<1>1. /\ pc[c] \in {"asleep", "holding"} /\ Go(c, "destroyed")
      /\ UNCHANGED <<m_resourceList, held, inhand, owner_at, handed, dtor, m_idleCount, m_count>>
  BY DEF DestroyCoroutine, owner, counters
<1>2. held[c] = NoRes
  BY <1>1 DEF IInv, Hands, Holding
<1>3. m_count \in Int /\ m_idleCount \in Int
  BY DEF IInv, TypeOK
<1>4. \A d \in Clients : handed'[d] = handed[d] /\ Alike(handed'[d], handed[d])
  BY <1>1 DEF Alike
<1>6. m_count' = m_count + Shift(pc[c] \in Making, "destroyed" \in Making)
  BY <1>1, <1>3 DEF Shift, Making
<1>7. m_idleCount' = m_idleCount + Shift(pc[c] \in Popped, "destroyed" \in Popped)
                       - Shift(pc[c] \in Counting, "destroyed" \in Counting)
  BY <1>1, <1>3 DEF Shift, Popped, Counting
<1>8. m_count' <= m_count
  BY <1>1, <1>3
<1>9. "destroyed" \notin Busy /\ "destroyed" \in Waited /\ "destroyed" \notin Getting /\ "destroyed" \in Over
  BY DEF Busy, Waited, Getting, Over
<1>10. QED
  BY <1>1, <1>2, <1>4, <1>6, <1>7, <1>8, <1>9, QuietStep

-----------------------------------------------------------------------------
(* The steps that move a resource from cell to cell, make one or delete    *)
(* one.                                                                    *)
LEMMA PopStep ==
  ASSUME IInv, TypeOK', NEW c \in Clients,
         NEW f \in {"popped", "repopped"}, NEW n \in {"slot", "asleep"},
         pc[c] \in {"out", "joined"}, held[c] = NoRes, inhand[c] = NoRes,
         pc[c] = "out" => ~m_is_destroying /\ f = "popped" /\ n = "slot",
         pc[c] = "joined" => f = "repopped" /\ n = "asleep",
         Pop(c, f, n)
  PROVE  IInv'
<1>1. /\ UNCHANGED <<held, owner_at, handed, dtor, m_idleCount, m_count>>
  BY DEF Pop, owner, counters
<1>2. /\ inhand \in [Clients -> Resources \cup {NoRes}] /\ NoRes \notin Resources /\ TypeOK
      /\ m_resourceList \subseteq Resources /\ m_count \in Int /\ m_idleCount \in Int
      /\ IInv
  BY ConstantsOK DEF IInv, TypeOK
<1>3. dtor # "gone"
  <2>1. CASE pc[c] = "out"
    BY <2>1 DEF m_is_destroying
  <2>2. CASE pc[c] = "joined"
    BY <2>2, GoneIsOver DEF Over
  <2>3. QED
    BY <2>1, <2>2
<1>4. /\ m_is_destroying /\ f \in Getting => pc[c] \in Getting
      /\ m_is_destroying /\ n \in Getting => pc[c] \in Getting
  BY DEF Getting
<1>5. CASE m_resourceList = {}
  <2>1. Go(c, n) /\ UNCHANGED <<m_resourceList, inhand>>
    BY <1>5 DEF Pop
  <2>2. \A d \in Clients : handed'[d] = handed[d] /\ Alike(handed'[d], handed[d])
    BY <1>1 DEF Alike
  <2>3. m_count' = m_count + Shift(pc[c] \in Making, n \in Making)
    BY <1>1, <1>2 DEF Shift, Making
  <2>4. m_idleCount' = m_idleCount + Shift(pc[c] \in Popped, n \in Popped)
                         - Shift(pc[c] \in Counting, n \in Counting)
    BY <1>1, <1>2 DEF Shift, Popped, Counting
  <2>5. m_count' <= m_count
    BY <1>1, <1>2
  <2>6. n \notin Busy /\ (handed[c] # GaveUp => n \in Waited)
    BY <1>2 DEF Busy, Waited, IInv, Hands
  <2>7. QED
    BY <1>1, <1>3, <1>4, <2>1, <2>2, <2>3, <2>4, <2>5, <2>6, QuietStep
<1>6. CASE m_resourceList # {}
  <2>1. PICK r \in m_resourceList : /\ m_resourceList' = m_resourceList \ {r}
                                    /\ inhand' = [inhand EXCEPT ![c] = r]
                                    /\ Go(c, f)
    BY <1>6 DEF Pop
  <2>2. inhand'[c] = r /\ \A d \in Clients \ {c} : inhand'[d] = inhand[d]
    BY <1>2, <2>1
  <2>3. Hands'
    <3>1. r \in Resources /\ f \in Busy /\ (handed[c] # GaveUp => f \in Waited)
      BY <1>2, <2>1 DEF Busy, Waited, IInv, Hands
    <3>2. TypeOK /\ Hands /\ Go(c, f) /\ held'[c] = NoRes /\ handed'[c] = handed[c]
      BY <1>1, <1>2, <2>1 DEF IInv
    <3>3. \A d \in Clients \ {c} : /\ inhand'[d] = inhand[d] /\ held'[d] = held[d]
                                   /\ handed'[d] # GaveUp => handed[d] # GaveUp
      BY <1>1, <2>2
    <3>4. /\ f \in Busy => inhand'[c] \in Resources
          /\ inhand'[c] # NoRes => f \in Busy \cup {"leaving", "destroyed"}
          /\ held'[c] # NoRes => f \in Holding
          /\ handed'[c] # GaveUp => f \in Waited
      BY <1>2, <2>1, <2>2, <3>1, <3>2
    <3>5. QED
      BY <3>2, <3>3, <3>4, HandsMove
  <2>4. CellStep(0)
    <3> DEFINE p == Idle(r)
               q == Inhand(c)
    <3>1. p \in Cells /\ q \in Cells /\ p # q
      BY <1>2, <2>1, CellsAre
    <3>2. Content[p] = r /\ Content[q] = NoRes
      BY <1>2, <2>1, ContentIs
    <3>3. Content'[q] = r /\ Content'[p] = NoRes
      BY <1>2, <2>1, <2>2, ContentNext
    <3>4. \A x \in Cells \ {p, q} : Alike(Content'[x], Content[x])
      <4>1. \A d \in Clients : Alike(held'[d], held[d]) /\ Alike(handed'[d], handed[d])
        BY <1>1 DEF Alike
      <4>2. \A d \in Clients : Inhand(d) \in {p, q} \/ Alike(inhand'[d], inhand[d])
        BY <2>2 DEF Alike
      <4>3. \A s \in Resources : Idle(s) \in {p, q} \/ (s \in m_resourceList' <=> s \in m_resourceList)
        BY <2>1
      <4> HIDE DEF p, q
      <4>4. QED
        BY <4>1, <4>2, <4>3, CellsAlike
    <3>5. r \in Resources
      BY <1>2, <2>1
    <3> HIDE DEF p, q
    <3>6. Moves(Content, Content', p, q)
      BY <1>2, <3>1, <3>2, <3>3, <3>4, <3>5 DEF Moves
    <3>7. QED
      BY <3>1, <3>6 DEF CellStep
  <2>5. ListStep(-1)
    BY <2>1 DEF ListStep
  <2>6. m_count' = m_count + 0 + Shift(pc[c] \in Making, f \in Making)
    BY <1>1, <1>2 DEF Shift, Making
  <2>7. m_idleCount' = m_idleCount + (-1) + Shift(pc[c] \in Popped, f \in Popped)
                         - Shift(pc[c] \in Counting, f \in Counting)
    BY <1>1, <1>2 DEF Shift, Popped, Counting
  <2>8. m_count' <= m_count
    BY <1>1, <1>2
  <2>9. 0 \in {-1, 0, 1} /\ -1 \in {-1, 0, 1} /\ Go(c, f) /\ UNCHANGED owner_at /\ dtor' = dtor
    BY <1>1, <2>1
  <2>10. QED
    BY <1>3, <1>4, <2>3, <2>4, <2>5, <2>6, <2>7, <2>8, <2>9, ClientStep
<1>7. QED
  BY <1>5, <1>6

LEMMA CallStep ==
  ASSUME IInv, TypeOK', NEW c \in Clients, Call(c)
  PROVE  IInv'
<1>1. pc[c] = "out" /\ held[c] = NoRes /\ ~m_is_destroying /\ Pop(c, "popped", "slot")
  BY DEF Call
<1>2. inhand[c] = NoRes
  BY <1>1 DEF IInv, Hands, Busy
<1>3. QED
  BY <1>1, <1>2, PopStep

LEMMA LookAgainStep ==
  ASSUME IInv, TypeOK', NEW c \in Clients, LookAgain(c)
  PROVE  IInv'
<1>1. pc[c] = "joined" /\ Pop(c, "repopped", "asleep")
  BY DEF LookAgain
<1>2. inhand[c] = NoRes /\ held[c] = NoRes
  BY <1>1 DEF IInv, Hands, Busy, Holding
<1>3. QED
  BY <1>1, <1>2, PopStep

-----------------------------------------------------------------------------
LEMMA MoveCell ==
  ASSUME NEW p \in Cells, NEW q \in Cells, p # q, NEW r \in Resources,
         Content[p] = r, Content[q] \notin Resources,
         Content'[q] = r, Content'[p] \notin Resources,
         \A d \in Clients : Held(d) \in {p, q} \/ held'[d] = held[d],
         \A d \in Clients : Inhand(d) \in {p, q} \/ inhand'[d] = inhand[d],
         \A d \in Clients : Handed(d) \in {p, q} \/ Alike(handed'[d], handed[d]),
         \A s \in Resources : Idle(s) \in {p, q} \/ (s \in m_resourceList' <=> s \in m_resourceList)
  PROVE  CellStep(0)
<1>1. /\ \A d \in Clients : Held(d) \in {p, q} \/ Alike(held'[d], held[d])
      /\ \A d \in Clients : Inhand(d) \in {p, q} \/ Alike(inhand'[d], inhand[d])
  BY DEF Alike
<1>2. \A x \in Cells \ {p, q} : Alike(Content'[x], Content[x])
  BY <1>1, CellsAlike
<1>3. QED
  BY <1>2 DEF Moves, CellStep

LEMMA EmptyCell ==
  ASSUME NEW p \in Cells, Content[p] \in Resources, Content'[p] \notin Resources,
         \A d \in Clients : Held(d) = p \/ held'[d] = held[d],
         \A d \in Clients : Inhand(d) = p \/ inhand'[d] = inhand[d],
         \A d \in Clients : Handed(d) = p \/ handed'[d] = handed[d],
         \A s \in Resources : Idle(s) = p \/ (s \in m_resourceList' <=> s \in m_resourceList)
  PROVE  CellStep(-1)
<1>1. /\ \A d \in Clients : Held(d) \in {p} \/ Alike(held'[d], held[d])
      /\ \A d \in Clients : Inhand(d) \in {p} \/ Alike(inhand'[d], inhand[d])
      /\ \A d \in Clients : Handed(d) \in {p} \/ Alike(handed'[d], handed[d])
      /\ \A s \in Resources : Idle(s) \in {p} \/ (s \in m_resourceList' <=> s \in m_resourceList)
  BY DEF Alike
<1>2. \A x \in Cells \ {p} : Alike(Content'[x], Content[x])
  BY <1>1, CellsAlike
<1>3. QED
  BY <1>2 DEF TakesOut, CellStep

LEMMA FillCell ==
  ASSUME NEW q \in Cells, NEW r \in Resources \ Live, Content[q] \notin Resources, Content'[q] = r,
         \A d \in Clients : Held(d) = q \/ held'[d] = held[d],
         UNCHANGED <<inhand, handed, m_resourceList>>
  PROVE  CellStep(1)
<1>1. /\ \A d \in Clients : Held(d) \in {q} \/ Alike(held'[d], held[d])
      /\ \A d \in Clients : Inhand(d) \in {q} \/ Alike(inhand'[d], inhand[d])
      /\ \A d \in Clients : Handed(d) \in {q} \/ Alike(handed'[d], handed[d])
      /\ \A s \in Resources : Idle(s) \in {q} \/ (s \in m_resourceList' <=> s \in m_resourceList)
  BY DEF Alike
<1>2. \A x \in Cells \ {q} : Alike(Content'[x], Content[x])
  BY <1>1, CellsAlike
<1>3. QED
  BY <1>2 DEF PutsIn, CellStep

LEMMA SameCells ==
  ASSUME UNCHANGED <<held, inhand, m_resourceList>>,
         \A d \in Clients : Alike(handed'[d], handed[d])
  PROVE  CellStep(0)
<1>1. \A d \in Clients : Alike(held'[d], held[d]) /\ Alike(inhand'[d], inhand[d])
  BY DEF Alike
<1>2. \A s \in Resources : s \in m_resourceList' <=> s \in m_resourceList
  OBVIOUS
<1>3. \A x \in Cells \ {} : Alike(Content'[x], Content[x])
  BY <1>1, <1>2, CellsAlike
<1>4. QED
  BY <1>3 DEF CellStep, Rests

(* What client c has moves from its call to its shared_ptr.                *)
LEMMA InhandToHeld ==
  ASSUME TypeOK, NEW c \in Clients, inhand[c] \in Resources, held[c] = NoRes,
         held' = [held EXCEPT ![c] = inhand[c]], inhand' = [inhand EXCEPT ![c] = NoRes],
         UNCHANGED <<handed, m_resourceList>>
  PROVE  /\ CellStep(0)
         /\ held'[c] = inhand[c] /\ inhand'[c] = NoRes
         /\ \A d \in Clients \ {c} : held'[d] = held[d] /\ inhand'[d] = inhand[d]
<1>1. held'[c] = inhand[c] /\ inhand'[c] = NoRes
  BY DEF TypeOK
<1>2. \A d \in Clients \ {c} : held'[d] = held[d] /\ inhand'[d] = inhand[d]
  BY DEF TypeOK
<1> DEFINE p == Inhand(c)
           q == Held(c)
           r == inhand[c]
<1>3. p \in Cells /\ q \in Cells /\ p # q
  BY CellsAre
<1>4. /\ Content[p] = r /\ Content[q] \notin Resources
      /\ Content'[q] = r /\ Content'[p] \notin Resources
  BY <1>1, ContentIs, ContentNext, ConstantsOK
<1>5. \A d \in Clients : Held(d) \in {p, q} \/ held'[d] = held[d]
  BY <1>2
<1>6. \A d \in Clients : Inhand(d) \in {p, q} \/ inhand'[d] = inhand[d]
  BY <1>2
<1>7. \A d \in Clients : Alike(handed'[d], handed[d])
  BY DEF Alike
<1>8. \A s \in Resources : s \in m_resourceList' <=> s \in m_resourceList
  OBVIOUS
<1> HIDE DEF p, q, r
<1>9. r \in Resources
  BY DEF r
<1>10. CellStep(0)
  BY <1>3, <1>4, <1>5, <1>6, <1>7, <1>8, <1>9, MoveCell
<1>11. QED
  BY <1>1, <1>2, <1>10

(* The resource in the hands of client c is deleted.                       *)
LEMMA InhandDeleted ==
  ASSUME TypeOK, NEW c \in Clients, inhand[c] \in Resources,
         inhand' = [inhand EXCEPT ![c] = NoRes],
         UNCHANGED <<held, handed, m_resourceList>>
  PROVE  /\ CellStep(-1) /\ inhand'[c] = NoRes
         /\ \A d \in Clients \ {c} : inhand'[d] = inhand[d]
<1>1. inhand'[c] = NoRes /\ \A d \in Clients \ {c} : inhand'[d] = inhand[d]
  BY DEF TypeOK
<1> DEFINE p == Inhand(c)
<1>2. p \in Cells
  BY CellsAre
<1>3. Content[p] \in Resources /\ Content'[p] \notin Resources
  BY <1>1, ContentIs, ContentNext, ConstantsOK
<1>4. \A d \in Clients : Inhand(d) = p \/ inhand'[d] = inhand[d]
  BY <1>1
<1>5. \A s \in Resources : s \in m_resourceList' <=> s \in m_resourceList
  OBVIOUS
<1>6. \A d \in Clients : held'[d] = held[d] /\ handed'[d] = handed[d]
  OBVIOUS
<1> HIDE DEF p
<1>7. CellStep(-1)
  BY <1>2, <1>3, <1>4, <1>5, <1>6, EmptyCell
<1>8. QED
  BY <1>1, <1>7

-----------------------------------------------------------------------------
LEMMA TookStep ==
  ASSUME IInv, TypeOK', NEW c \in Clients, Took(c)
  PROVE  IInv'
<1>1. /\ pc[c] = "popped" /\ inhand' = [inhand EXCEPT ![c] = NoRes]
      /\ m_idleCount' = m_idleCount - 1
      /\ UNCHANGED <<m_resourceList, handed, owner_at, dtor>>
  BY DEF Took, TakeCurrent, DeleteStale, owner
<1>2. TypeOK /\ Hands /\ m_count \in Int /\ m_idleCount \in Int
  BY DEF IInv, TypeOK
<1>3. inhand[c] \in Resources /\ held[c] = NoRes /\ handed[c] = GaveUp /\ dtor # "gone"
  BY <1>1, <1>2, GoneIsOver DEF Hands, Busy, Holding, Waited, Over
<1>4. pc[c] \in Getting
  BY <1>1 DEF Getting
<1>5. CASE Go(c, "out") /\ m_count' = m_count /\ held' = [held EXCEPT ![c] = inhand[c]]
  <2>1. /\ CellStep(0)
        /\ held'[c] = inhand[c] /\ inhand'[c] = NoRes
        /\ \A d \in Clients \ {c} : held'[d] = held[d] /\ inhand'[d] = inhand[d]
    BY <1>1, <1>2, <1>3, <1>5, InhandToHeld
  <2>2. Hands'
    <3>1. \A d \in Clients \ {c} : /\ inhand'[d] = inhand[d] /\ held'[d] = held[d]
                                   /\ handed'[d] # GaveUp => handed[d] # GaveUp
      BY <1>1, <2>1
    <3>2. "out" \notin Busy /\ "out" \in Holding /\ handed'[c] = GaveUp
      BY <1>1, <1>3 DEF Busy, Holding
    <3>3. QED
      BY <1>2, <1>5, <2>1, <3>1, <3>2, HandsMove
  <2>3. ListStep(0)
    BY <1>1 DEF ListStep
  <2>4. m_count' = m_count + 0 + Shift(pc[c] \in Making, "out" \in Making)
    BY <1>1, <1>2, <1>5 DEF Shift, Making
  <2>5. m_idleCount' = m_idleCount + 0 + Shift(pc[c] \in Popped, "out" \in Popped)
                         - Shift(pc[c] \in Counting, "out" \in Counting)
    BY <1>1, <1>2 DEF Shift, Popped, Counting
  <2>6. m_count' <= m_count /\ 0 \in {-1, 0, 1} /\ UNCHANGED owner_at /\ dtor' = dtor
    BY <1>1, <1>2, <1>5
  <2>7. QED
    BY <1>2, <1>3, <1>4, <1>5, <2>2, <2>1, <2>3, <2>4, <2>5, <2>6, ClientStep
<1>6. CASE Go(c, "slot") /\ m_count' = m_count - 1 /\ UNCHANGED held
  <2>1. /\ CellStep(-1) /\ inhand'[c] = NoRes
        /\ \A d \in Clients \ {c} : inhand'[d] = inhand[d]
    BY <1>1, <1>2, <1>3, <1>6, InhandDeleted
  <2>2. Hands'
    <3>1. \A d \in Clients \ {c} : /\ inhand'[d] = inhand[d] /\ held'[d] = held[d]
                                   /\ handed'[d] # GaveUp => handed[d] # GaveUp
      BY <1>1, <1>6, <2>1
    <3>2. "slot" \notin Busy /\ handed'[c] = GaveUp /\ held'[c] = NoRes
      BY <1>1, <1>3, <1>6 DEF Busy
    <3>3. QED
      BY <1>2, <1>6, <2>1, <3>1, <3>2, HandsMove
  <2>3. ListStep(0)
    BY <1>1 DEF ListStep
  <2>4. m_count' = m_count + (-1) + Shift(pc[c] \in Making, "slot" \in Making)
    BY <1>1, <1>2, <1>6 DEF Shift, Making
  <2>5. m_idleCount' = m_idleCount + 0 + Shift(pc[c] \in Popped, "slot" \in Popped)
                         - Shift(pc[c] \in Counting, "slot" \in Counting)
    BY <1>1, <1>2 DEF Shift, Popped, Counting
  <2>6. /\ m_count' <= m_count /\ 0 \in {-1, 0, 1} /\ -1 \in {-1, 0, 1}
        /\ UNCHANGED owner_at /\ dtor' = dtor
    BY <1>1, <1>2, <1>6
  <2>7. QED
    BY <1>2, <1>3, <1>4, <1>6, <2>2, <2>1, <2>3, <2>4, <2>5, <2>6, ClientStep
<1>7. QED
  BY <1>5, <1>6 DEF Took, TakeCurrent, DeleteStale

LEMMA MakeStep ==
  ASSUME IInv, TypeOK', NEW c \in Clients, Make(c)
  PROVE  IInv'
<1>1. /\ pc[c] \in {"making", "comaking"} /\ Go(c, "out")
      /\ UNCHANGED <<m_idleCount, m_resourceList, inhand, handed, owner_at, dtor>>
  BY DEF Make, owner
<1>2. TypeOK /\ Hands /\ m_count \in Int /\ m_idleCount \in Int
  BY DEF IInv, TypeOK
<1>3. inhand[c] = NoRes /\ held[c] = NoRes /\ handed[c] = GaveUp /\ dtor # "gone"
  BY <1>1, <1>2, GoneIsOver DEF Hands, Busy, Holding, Waited, Over
<1>4. m_idleCount' = m_idleCount + Shift(pc[c] \in Popped, "out" \in Popped)
                       - Shift(pc[c] \in Counting, "out" \in Counting)
  BY <1>1, <1>2 DEF Shift, Popped, Counting
<1>5. "out" \notin Busy /\ "out" \in Holding /\ "out" \notin Getting
  BY DEF Busy, Holding, Getting
<1>6. ASSUME NEW r \in Resources \ Live, held' = [held EXCEPT ![c] = r], UNCHANGED m_count
      PROVE  IInv'
  <2>1. held'[c] = r /\ \A d \in Clients \ {c} : held'[d] = held[d]
    BY <1>2, <1>6 DEF TypeOK
  <2>2. CellStep(1)
    <3> DEFINE q == Held(c)
    <3>1. q \in Cells /\ Content[q] \notin Resources /\ Content'[q] = r
      BY <1>3, <2>1, CellsAre, ContentIs, ContentNext, ConstantsOK
    <3>2. \A d \in Clients : Held(d) = q \/ held'[d] = held[d]
      BY <2>1
    <3> HIDE DEF q
    <3>3. QED
      BY <1>1, <3>1, <3>2, FillCell
  <2>3. Hands'
    <3>1. \A d \in Clients \ {c} : /\ inhand'[d] = inhand[d] /\ held'[d] = held[d]
                                   /\ handed'[d] # GaveUp => handed[d] # GaveUp
      BY <1>1, <2>1
    <3>2. handed'[c] = GaveUp /\ inhand'[c] = NoRes
      BY <1>1, <1>3
    <3>3. QED
      BY <1>1, <1>2, <1>5, <3>1, <3>2, HandsMove
  <2>4. ListStep(0)
    BY <1>1 DEF ListStep
  <2>5. m_count' = m_count + 1 + Shift(pc[c] \in Making, "out" \in Making)
    BY <1>1, <1>2, <1>6 DEF Shift, Making
  <2>6. m_idleCount' = m_idleCount + 0 + Shift(pc[c] \in Popped, "out" \in Popped)
                         - Shift(pc[c] \in Counting, "out" \in Counting)
    BY <1>2, <1>4
  <2>7. /\ m_count' <= m_count /\ 0 \in {-1, 0, 1} /\ 1 \in {-1, 0, 1}
        /\ UNCHANGED owner_at /\ dtor' = dtor
    BY <1>1, <1>2, <1>6
  <2>8. QED
    BY <1>1, <1>2, <1>3, <1>5, <2>2, <2>3, <2>4, <2>5, <2>6, <2>7, ClientStep
<1>7. CASE m_count' = m_count - 1 /\ UNCHANGED held
  <2>1. m_count' = m_count + Shift(pc[c] \in Making, "out" \in Making)
    BY <1>1, <1>2, <1>7 DEF Shift, Making
  <2>2. \A d \in Clients : handed'[d] = handed[d] /\ Alike(handed'[d], handed[d])
    BY <1>1 DEF Alike
  <2>3. m_count' <= m_count
    BY <1>2, <1>7
  <2>4. QED
    BY <1>1, <1>3, <1>4, <1>5, <1>7, <2>1, <2>2, <2>3, QuietStep
<1>8. QED
  BY <1>6, <1>7 DEF Make

LEMMA TookAgainStep ==
  ASSUME IInv, TypeOK', NEW c \in Clients, TookAgain(c)
  PROVE  IInv'
<1>1. /\ pc[c] = "repopped"
      /\ m_idleCount' = m_idleCount - 1
      /\ UNCHANGED <<m_resourceList, held, handed, owner_at, dtor>>
  BY DEF TookAgain, TakeCurrent, DeleteStale, owner
<1>2. TypeOK /\ Hands /\ m_count \in Int /\ m_idleCount \in Int
  BY DEF IInv, TypeOK
<1>3. inhand[c] \in Resources /\ held[c] = NoRes /\ dtor # "gone"
  BY <1>1, <1>2, GoneIsOver DEF Hands, Busy, Holding, Over
<1>4. pc[c] \in Getting /\ pc[c] \in Busy
  BY <1>1 DEF Getting, Busy
<1>5. \A d \in Clients : handed'[d] = handed[d] /\ Alike(handed'[d], handed[d])
  BY <1>1 DEF Alike
<1>6. CASE Go(c, "holding") /\ m_count' = m_count /\ UNCHANGED inhand
  <2>1. m_count' = m_count + Shift(pc[c] \in Making, "holding" \in Making)
    BY <1>1, <1>2, <1>6 DEF Shift, Making
  <2>2. m_idleCount' = m_idleCount + Shift(pc[c] \in Popped, "holding" \in Popped)
                         - Shift(pc[c] \in Counting, "holding" \in Counting)
    BY <1>1, <1>2 DEF Shift, Popped, Counting
  <2>3. m_count' <= m_count
    BY <1>2, <1>6
  <2>4. "holding" \in Busy /\ "holding" \in Waited
    BY DEF Busy, Waited
  <2>5. QED
    BY <1>1, <1>3, <1>4, <1>5, <1>6, <2>1, <2>2, <2>3, <2>4, QuietStep
<1>7. CASE Go(c, "asleep") /\ m_count' = m_count - 1 /\ inhand' = [inhand EXCEPT ![c] = NoRes]
  <2>1. /\ CellStep(-1) /\ inhand'[c] = NoRes
        /\ \A d \in Clients \ {c} : inhand'[d] = inhand[d]
    BY <1>1, <1>2, <1>3, <1>7, InhandDeleted
  <2>2. Hands'
    <3>1. \A d \in Clients \ {c} : /\ inhand'[d] = inhand[d] /\ held'[d] = held[d]
                                   /\ handed'[d] # GaveUp => handed[d] # GaveUp
      BY <1>1, <2>1
    <3>2. "asleep" \notin Busy /\ "asleep" \in Waited /\ held'[c] = NoRes
      BY <1>1, <1>3 DEF Busy, Waited
    <3>3. QED
      BY <1>2, <1>7, <2>1, <3>1, <3>2, HandsMove
  <2>3. ListStep(0)
    BY <1>1 DEF ListStep
  <2>4. m_count' = m_count + (-1) + Shift(pc[c] \in Making, "asleep" \in Making)
    BY <1>1, <1>2, <1>7 DEF Shift, Making
  <2>5. m_idleCount' = m_idleCount + 0 + Shift(pc[c] \in Popped, "asleep" \in Popped)
                         - Shift(pc[c] \in Counting, "asleep" \in Counting)
    BY <1>1, <1>2 DEF Shift, Popped, Counting
  <2>6. /\ m_count' <= m_count /\ 0 \in {-1, 0, 1} /\ -1 \in {-1, 0, 1}
        /\ UNCHANGED owner_at /\ dtor' = dtor
    BY <1>1, <1>2, <1>7
  <2>7. QED
    BY <1>2, <1>3, <1>4, <1>7, <2>2, <2>1, <2>3, <2>4, <2>5, <2>6, ClientStep
<1>8. QED
  BY <1>6, <1>7 DEF TookAgain, TakeCurrent, DeleteStale

LEMMA DeleteStep ==
  ASSUME IInv, TypeOK', NEW c \in Clients, Delete(c)
  PROVE  IInv'
<1>1. /\ pc[c] = "deleting" /\ Go(c, "notifying")
      /\ inhand' = [inhand EXCEPT ![c] = NoRes] /\ m_count' = m_count - 1
      /\ UNCHANGED <<m_resourceList, held, handed, owner_at, dtor, m_idleCount>>
  BY DEF Delete, owner
<1>2. TypeOK /\ Hands /\ m_count \in Int /\ m_idleCount \in Int
  BY DEF IInv, TypeOK
<1>3. inhand[c] \in Resources /\ dtor # "gone" /\ handed[c] = GaveUp
  BY <1>1, <1>2, GoneIsOver DEF Hands, Busy, Waited, Over
<1>4. /\ CellStep(-1) /\ inhand'[c] = NoRes
      /\ \A d \in Clients \ {c} : inhand'[d] = inhand[d]
  BY <1>1, <1>2, <1>3, InhandDeleted
<1>5. "notifying" \notin Busy /\ "notifying" \in Holding /\ "notifying" \notin Getting
  BY DEF Busy, Holding, Getting
<1>6. Hands'
  <2>1. \A d \in Clients \ {c} : /\ inhand'[d] = inhand[d] /\ held'[d] = held[d]
                                 /\ handed'[d] # GaveUp => handed[d] # GaveUp
    BY <1>1, <1>4
  <2>2. handed'[c] = GaveUp
    BY <1>1, <1>3
  <2>3. QED
    BY <1>1, <1>2, <1>4, <1>5, <2>1, <2>2, HandsMove
<1>7. ListStep(0)
  BY <1>1 DEF ListStep
<1>8. m_count' = m_count + (-1) + Shift(pc[c] \in Making, "notifying" \in Making)
  BY <1>1, <1>2 DEF Shift, Making
<1>9. m_idleCount' = m_idleCount + 0 + Shift(pc[c] \in Popped, "notifying" \in Popped)
                       - Shift(pc[c] \in Counting, "notifying" \in Counting)
  BY <1>1, <1>2 DEF Shift, Popped, Counting
<1>10. /\ m_count' <= m_count /\ 0 \in {-1, 0, 1} /\ -1 \in {-1, 0, 1}
       /\ UNCHANGED owner_at /\ dtor' = dtor
  BY <1>1, <1>2
<1>11. QED
  BY <1>1, <1>2, <1>3, <1>4, <1>5, <1>6, <1>7, <1>8, <1>9, <1>10, ClientStep

-----------------------------------------------------------------------------
LEMMA ResumeStep ==
  ASSUME IInv, TypeOK', NEW c \in Clients, Resume(c)
  PROVE  IInv'
<1>1. /\ pc[c] \in {"asleep", "holding"} /\ Go(c, "leaving")
      /\ held' = [held EXCEPT ![c] = IF handed[c] \in Resources THEN handed[c] ELSE NoRes]
      /\ handed' = [handed EXCEPT ![c] = GaveUp]
      /\ UNCHANGED <<m_resourceList, inhand, owner_at, dtor, m_count, m_idleCount>>
  BY DEF Resume, Exchange, owner, counters
<1>2. TypeOK /\ Hands /\ m_count \in Int /\ m_idleCount \in Int
  BY DEF IInv, TypeOK
<1>3. held[c] = NoRes
  BY <1>1, <1>2 DEF Hands, Holding
<1>4. handed'[c] = GaveUp /\ \A d \in Clients \ {c} : handed'[d] = handed[d]
  BY <1>1, <1>2 DEF TypeOK
<1>5. "leaving" \notin Busy /\ "leaving" \in Holding /\ "leaving" \notin Getting /\ "leaving" \in Over
  BY DEF Busy, Holding, Getting, Over
<1>6. m_count' = m_count + Shift(pc[c] \in Making, "leaving" \in Making)
  BY <1>1, <1>2 DEF Shift, Making
<1>7. m_idleCount' = m_idleCount + Shift(pc[c] \in Popped, "leaving" \in Popped)
                       - Shift(pc[c] \in Counting, "leaving" \in Counting)
  BY <1>1, <1>2 DEF Shift, Popped, Counting
<1>8. m_count' <= m_count
  BY <1>1, <1>2
<1>9. CASE handed[c] \in Resources
  <2>1. held'[c] = handed[c] /\ \A d \in Clients \ {c} : held'[d] = held[d]
    BY <1>1, <1>2, <1>9 DEF TypeOK
  <2>2. CellStep(0)
    <3> DEFINE p == Handed(c)
               q == Held(c)
               r == handed[c]
    <3>1. p \in Cells /\ q \in Cells /\ p # q
      BY CellsAre
    <3>2. /\ Content[p] = r /\ Content[q] \notin Resources
          /\ Content'[q] = r /\ Content'[p] \notin Resources
      BY <1>3, <1>4, <2>1, ContentIs, ContentNext, ConstantsOK
    <3>3. \A d \in Clients : Held(d) \in {p, q} \/ held'[d] = held[d]
      BY <2>1
    <3>4. \A d \in Clients : Handed(d) \in {p, q} \/ Alike(handed'[d], handed[d])
      BY <1>4 DEF Alike
    <3>5. \A d \in Clients : inhand'[d] = inhand[d]
      BY <1>1
    <3>6. \A s \in Resources : s \in m_resourceList' <=> s \in m_resourceList
      BY <1>1
    <3> HIDE DEF p, q, r
    <3>7. r \in Resources
      BY <1>9 DEF r
    <3>8. QED
      BY <3>1, <3>2, <3>3, <3>4, <3>5, <3>6, <3>7, MoveCell
  <2>3. Hands'
    <3>1. \A d \in Clients \ {c} : /\ inhand'[d] = inhand[d] /\ held'[d] = held[d]
                                   /\ handed'[d] # GaveUp => handed[d] # GaveUp
      BY <1>1, <1>4, <2>1
    <3>2. QED
      BY <1>1, <1>2, <1>4, <1>5, <3>1, HandsMove
  <2>4. ListStep(0)
    BY <1>1 DEF ListStep
  <2>5. m_count' = m_count + 0 + Shift(pc[c] \in Making, "leaving" \in Making)
    BY <1>2, <1>6
  <2>6. m_idleCount' = m_idleCount + 0 + Shift(pc[c] \in Popped, "leaving" \in Popped)
                         - Shift(pc[c] \in Counting, "leaving" \in Counting)
    BY <1>2, <1>7
  <2>7. 0 \in {-1, 0, 1} /\ UNCHANGED owner_at /\ dtor' = dtor
    BY <1>1
  <2>8. QED
    BY <1>1, <1>5, <1>8, <2>2, <2>3, <2>4, <2>5, <2>6, <2>7, ClientStep
<1>10. CASE handed[c] \notin Resources
  <2>1. held' = held
    BY <1>1, <1>2, <1>3, <1>10 DEF TypeOK
  <2>2. \A d \in Clients : Alike(handed'[d], handed[d])
    BY <1>4, <1>10, ConstantsOK DEF Alike
  <2>3. QED
    BY <1>1, <1>3, <1>4, <1>5, <1>6, <1>7, <1>8, <2>1, <2>2, QuietStep
<1>11. QED
  BY <1>9, <1>10

LEMMA LeaveStep ==
  ASSUME IInv, TypeOK', NEW c \in Clients, Leave(c)
  PROVE  IInv'
<1>1. /\ pc[c] = "leaving"
      /\ UNCHANGED <<m_resourceList, handed, owner_at, dtor, m_count, m_idleCount>>
  BY DEF Leave, owner, counters
<1>2. TypeOK /\ Hands /\ m_count \in Int /\ m_idleCount \in Int
  BY DEF IInv, TypeOK
<1>3. handed[c] = GaveUp /\ (inhand[c] # NoRes => inhand[c] \in Resources)
  BY <1>1, <1>2 DEF Hands, Waited, TypeOK
<1>4. \A d \in Clients : handed'[d] = handed[d] /\ Alike(handed'[d], handed[d])
  BY <1>1 DEF Alike
<1>5. \A p \in {"out", "returning"} :
        /\ p \in Holding /\ p \notin Getting
        /\ m_count' = m_count + Shift(pc[c] \in Making, p \in Making)
        /\ m_idleCount' = m_idleCount + Shift(pc[c] \in Popped, p \in Popped)
                            - Shift(pc[c] \in Counting, p \in Counting)
  BY <1>1, <1>2 DEF Shift, Making, Popped, Counting, Holding, Getting
<1>6. "out" \notin Busy /\ "out" \in Over /\ "returning" \in Busy /\ m_count' <= m_count
  BY <1>1, <1>2 DEF Busy, Over
<1>7. CASE inhand[c] = NoRes /\ Go(c, "out") /\ UNCHANGED <<held, inhand>>
  <2>1. /\ "out" \in Holding /\ "out" \notin Getting
        /\ m_count' = m_count + Shift(pc[c] \in Making, "out" \in Making)
        /\ m_idleCount' = m_idleCount + Shift(pc[c] \in Popped, "out" \in Popped)
                            - Shift(pc[c] \in Counting, "out" \in Counting)
    BY <1>5
  <2>2. QED
    BY <1>1, <1>3, <1>4, <1>6, <1>7, <2>1, QuietStep
<1>8. CASE /\ inhand[c] # NoRes /\ held[c] # NoRes
           /\ Go(c, "returning") /\ UNCHANGED <<held, inhand>>
  <2>1. /\ "returning" \in Holding /\ "returning" \notin Getting
        /\ m_count' = m_count + Shift(pc[c] \in Making, "returning" \in Making)
        /\ m_idleCount' = m_idleCount + Shift(pc[c] \in Popped, "returning" \in Popped)
                            - Shift(pc[c] \in Counting, "returning" \in Counting)
    BY <1>5
  <2>2. dtor # "gone"
    BY <1>8, GoneIsOver
  <2>3. QED
    BY <1>1, <1>3, <1>4, <1>6, <1>8, <2>1, <2>2, QuietStep
<1>9. CASE /\ inhand[c] # NoRes /\ held[c] = NoRes
           /\ held' = [held EXCEPT ![c] = inhand[c]]
           /\ inhand' = [inhand EXCEPT ![c] = NoRes]
           /\ Go(c, "out")
  <2>1. /\ CellStep(0)
        /\ held'[c] = inhand[c] /\ inhand'[c] = NoRes
        /\ \A d \in Clients \ {c} : held'[d] = held[d] /\ inhand'[d] = inhand[d]
    BY <1>1, <1>2, <1>3, <1>9, InhandToHeld
  <2>2. Hands'
    <3>1. \A d \in Clients \ {c} : /\ inhand'[d] = inhand[d] /\ held'[d] = held[d]
                                   /\ handed'[d] # GaveUp => handed[d] # GaveUp
      BY <1>1, <2>1
    <3>2. "out" \in Holding /\ handed'[c] = GaveUp
      BY <1>3, <1>4, <1>5
    <3>3. QED
      BY <1>2, <1>6, <1>9, <2>1, <3>1, <3>2, HandsMove
  <2>3. ListStep(0)
    BY <1>1 DEF ListStep
  <2>4. m_count' = m_count + 0 + Shift(pc[c] \in Making, "out" \in Making)
    BY <1>2, <1>5
  <2>5. m_idleCount' = m_idleCount + 0 + Shift(pc[c] \in Popped, "out" \in Popped)
                         - Shift(pc[c] \in Counting, "out" \in Counting)
    BY <1>2, <1>5
  <2>6. 0 \in {-1, 0, 1} /\ UNCHANGED owner_at /\ dtor' = dtor /\ "out" \notin Getting
    BY <1>1, <1>5
  <2>7. QED
    BY <1>6, <1>9, <2>1, <2>2, <2>3, <2>4, <2>5, <2>6, ClientStep
<1>10. QED
  BY <1>7, <1>8, <1>9 DEF Leave

LEMMA DropStep ==
  ASSUME IInv, TypeOK', NEW c \in Clients, Drop(c)
  PROVE  IInv'
<1>1. /\ pc[c] = "out" /\ held[c] # NoRes /\ Go(c, "returning")
      /\ inhand' = [inhand EXCEPT ![c] = held[c]] /\ held' = [held EXCEPT ![c] = NoRes]
      /\ UNCHANGED <<m_resourceList, handed, owner_at, dtor, m_count, m_idleCount>>
  BY DEF Drop, owner, counters
<1>2. TypeOK /\ Hands /\ m_count \in Int /\ m_idleCount \in Int
  BY DEF IInv, TypeOK
<1>3. inhand[c] = NoRes /\ held[c] \in Resources /\ handed[c] = GaveUp /\ dtor # "gone"
  BY <1>1, <1>2, GoneIsOver DEF Hands, Busy, Waited, TypeOK
<1>4. /\ inhand'[c] = held[c] /\ held'[c] = NoRes
      /\ \A d \in Clients \ {c} : held'[d] = held[d] /\ inhand'[d] = inhand[d]
  BY <1>1, <1>2 DEF TypeOK
<1>5. CellStep(0)
  <2> DEFINE p == Held(c)
             q == Inhand(c)
             r == held[c]
  <2>1. p \in Cells /\ q \in Cells /\ p # q
    BY CellsAre
  <2>2. /\ Content[p] = r /\ Content[q] \notin Resources
        /\ Content'[q] = r /\ Content'[p] \notin Resources
    BY <1>3, <1>4, ContentIs, ContentNext, ConstantsOK
  <2>3. \A d \in Clients : Held(d) \in {p, q} \/ held'[d] = held[d]
    BY <1>4
  <2>4. \A d \in Clients : Inhand(d) \in {p, q} \/ inhand'[d] = inhand[d]
    BY <1>4
  <2>5. \A d \in Clients : Alike(handed'[d], handed[d])
    BY <1>1 DEF Alike
  <2>6. \A s \in Resources : s \in m_resourceList' <=> s \in m_resourceList
    BY <1>1
  <2> HIDE DEF p, q, r
  <2>7. r \in Resources
    BY <1>3 DEF r
  <2>8. QED
    BY <2>1, <2>2, <2>3, <2>4, <2>5, <2>6, <2>7, MoveCell
<1>6. "returning" \in Busy /\ "returning" \notin Getting
  BY DEF Busy, Getting
<1>7. Hands'
  <2>1. \A d \in Clients \ {c} : /\ inhand'[d] = inhand[d] /\ held'[d] = held[d]
                                 /\ handed'[d] # GaveUp => handed[d] # GaveUp
    BY <1>1, <1>4
  <2>2. handed'[c] = GaveUp /\ inhand'[c] \in Resources
    BY <1>1, <1>3, <1>4
  <2>3. QED
    BY <1>1, <1>2, <1>4, <1>6, <2>1, <2>2, HandsMove
<1>8. ListStep(0)
  BY <1>1 DEF ListStep
<1>9. m_count' = m_count + 0 + Shift(pc[c] \in Making, "returning" \in Making)
  BY <1>1, <1>2 DEF Shift, Making
<1>10. m_idleCount' = m_idleCount + 0 + Shift(pc[c] \in Popped, "returning" \in Popped)
                        - Shift(pc[c] \in Counting, "returning" \in Counting)
  BY <1>1, <1>2 DEF Shift, Popped, Counting
<1>11. m_count' <= m_count /\ 0 \in {-1, 0, 1} /\ UNCHANGED owner_at /\ dtor' = dtor
  BY <1>1, <1>2
<1>12. QED
  BY <1>1, <1>3, <1>5, <1>6, <1>7, <1>8, <1>9, <1>10, <1>11, ClientStep

LEMMA ClaimStep ==
  ASSUME IInv, TypeOK', NEW c \in Clients, Claim(c)
  PROVE  IInv'
<1>1. /\ pc[c] = "claiming"
      /\ UNCHANGED <<m_resourceList, held, owner_at, dtor, m_count, m_idleCount>>
  BY DEF Claim, owner, counters
<1>2. TypeOK /\ Hands /\ m_count \in Int /\ m_idleCount \in Int
  BY DEF IInv, TypeOK
<1>3. inhand[c] \in Resources /\ handed[c] = GaveUp /\ dtor # "gone"
  BY <1>1, <1>2, GoneIsOver DEF Hands, Busy, Waited, Over
<1>4. m_count' <= m_count /\ 0 \in {-1, 0, 1} /\ UNCHANGED owner_at /\ dtor' = dtor
  BY <1>1, <1>2
<1>5. CASE StillWaiting(target[c])
  <2> DEFINE w == target[c]
  <2>1. /\ handed' = [handed EXCEPT ![w] = inhand[c]]
        /\ inhand' = [inhand EXCEPT ![c] = NoRes] /\ Go(c, "out")
    BY <1>5 DEF Claim
  <2>2. w \in Clients /\ handed[w] = NoRes /\ w # c
    BY <1>2, <1>3, <1>5, ConstantsOK DEF StillWaiting, TypeOK
  <2> HIDE DEF w
  <2>3. /\ handed'[w] = inhand[c] /\ inhand'[c] = NoRes
        /\ \A d \in Clients \ {w} : handed'[d] = handed[d]
        /\ \A d \in Clients \ {c} : inhand'[d] = inhand[d]
    BY <1>2, <2>1, <2>2 DEF TypeOK
  <2>4. CellStep(0)
    <3> DEFINE p == Inhand(c)
               q == Handed(w)
               r == inhand[c]
    <3>1. p \in Cells /\ q \in Cells /\ p # q
      BY <2>2, CellsAre
    <3>2. /\ Content[p] = r /\ Content[q] \notin Resources
          /\ Content'[q] = r /\ Content'[p] \notin Resources
      BY <2>2, <2>3, ContentIs, ContentNext, ConstantsOK
    <3>3. \A d \in Clients : held'[d] = held[d]
      BY <1>1
    <3>4. \A d \in Clients : Inhand(d) \in {p, q} \/ inhand'[d] = inhand[d]
      BY <2>3
    <3>5. \A d \in Clients : Handed(d) \in {p, q} \/ Alike(handed'[d], handed[d])
      BY <2>3 DEF Alike
    <3>6. \A s \in Resources : s \in m_resourceList' <=> s \in m_resourceList
      BY <1>1
    <3> HIDE DEF p, q, r
    <3>7. r \in Resources
      BY <1>3 DEF r
    <3>8. QED
      BY <3>1, <3>2, <3>3, <3>4, <3>5, <3>6, <3>7, MoveCell
  <2>5. Hands'
    <3>1. \A d \in Clients \ {c} : /\ inhand'[d] = inhand[d] /\ held'[d] = held[d]
                                   /\ handed'[d] # GaveUp => handed[d] # GaveUp
      BY <1>1, <2>2, <2>3, ConstantsOK
    <3>2. "out" \notin Busy /\ "out" \in Holding /\ handed'[c] = GaveUp
      BY <1>3, <2>2, <2>3 DEF Busy, Holding
    <3>3. QED
      BY <1>1, <1>2, <2>1, <2>3, <3>1, <3>2, HandsMove
  <2>6. ListStep(0)
    BY <1>1 DEF ListStep
  <2>7. m_count' = m_count + 0 + Shift(pc[c] \in Making, "out" \in Making)
    BY <1>1, <1>2 DEF Shift, Making
  <2>8. m_idleCount' = m_idleCount + 0 + Shift(pc[c] \in Popped, "out" \in Popped)
                         - Shift(pc[c] \in Counting, "out" \in Counting)
    BY <1>1, <1>2 DEF Shift, Popped, Counting
  <2>9. "out" \notin Getting
    BY DEF Getting
  <2>10. QED
    BY <1>3, <1>4, <2>1, <2>4, <2>5, <2>6, <2>7, <2>8, <2>9, ClientStep
<1>6. CASE ~ StillWaiting(target[c])
  <2>1. Go(c, "handing") /\ UNCHANGED <<handed, inhand>>
    BY <1>6 DEF Claim
  <2>2. \A d \in Clients : handed'[d] = handed[d] /\ Alike(handed'[d], handed[d])
    BY <2>1 DEF Alike
  <2>3. m_count' = m_count + Shift(pc[c] \in Making, "handing" \in Making)
    BY <1>1, <1>2 DEF Shift, Making
  <2>4. m_idleCount' = m_idleCount + Shift(pc[c] \in Popped, "handing" \in Popped)
                         - Shift(pc[c] \in Counting, "handing" \in Counting)
    BY <1>1, <1>2 DEF Shift, Popped, Counting
  <2>5. "handing" \in Busy /\ "handing" \in Holding /\ "handing" \notin Getting
    BY DEF Busy, Holding, Getting
  <2>6. QED
    BY <1>1, <1>3, <1>4, <2>1, <2>2, <2>3, <2>4, <2>5, QuietStep
<1>7. QED
  BY <1>5, <1>6

LEMMA PushStep ==
  ASSUME IInv, TypeOK', NEW c \in Clients, Push(c)
  PROVE  IInv'
<1>1. /\ pc[c] = "pushing"
      /\ UNCHANGED <<held, handed, owner_at, dtor, m_count, m_idleCount>>
  BY DEF Push, owner, counters
<1>2. TypeOK /\ Hands /\ OneEach(Content) /\ m_count \in Int /\ m_idleCount \in Int
  BY DEF IInv, TypeOK
<1>3. inhand[c] \in Resources /\ handed[c] = GaveUp /\ dtor # "gone"
  BY <1>1, <1>2, GoneIsOver DEF Hands, Busy, Waited, Over
<1>4. m_count' <= m_count /\ UNCHANGED owner_at /\ dtor' = dtor
  BY <1>1, <1>2
<1>5. \A d \in Clients : handed'[d] = handed[d] /\ Alike(handed'[d], handed[d])
  BY <1>1 DEF Alike
<1>6. CASE /\ m_resourceList' = m_resourceList \cup {inhand[c]}
           /\ inhand' = [inhand EXCEPT ![c] = NoRes] /\ Go(c, "counting")
  <2> DEFINE p == Inhand(c)
             r == inhand[c]
             q == Idle(r)
  <2>1. p \in Cells /\ q \in Cells /\ p # q
    BY <1>3, CellsAre
  <2>2. inhand'[c] = NoRes /\ \A d \in Clients \ {c} : inhand'[d] = inhand[d]
    BY <1>2, <1>6 DEF TypeOK
  <2>3. r \in Resources /\ r \notin m_resourceList
    <3>1. Content[p] = r /\ (r \in m_resourceList => Content[q] = r)
      BY <1>3, ContentIs
    <3> HIDE DEF p, q
    <3>2. QED
      BY <1>2, <1>3, <2>1, <3>1 DEF OneEach
  <2>4. ListStep(1)
    BY <1>6, <2>3 DEF ListStep
  <2>5. CellStep(0)
    <3>1. /\ Content[p] = r /\ Content[q] \notin Resources
          /\ Content'[q] = r /\ Content'[p] \notin Resources
      BY <1>6, <2>2, <2>3, ContentIs, ContentNext, ConstantsOK
    <3>2. \A d \in Clients : held'[d] = held[d]
      BY <1>1
    <3>3. \A d \in Clients : Inhand(d) \in {p, q} \/ inhand'[d] = inhand[d]
      BY <2>2
    <3>4. \A s \in Resources : Idle(s) \in {p, q} \/ (s \in m_resourceList' <=> s \in m_resourceList)
      BY <1>6
    <3> HIDE DEF p, q, r
    <3>5. QED
      BY <1>5, <2>1, <2>3, <3>1, <3>2, <3>3, <3>4, MoveCell
  <2>6. Hands'
    <3>1. \A d \in Clients \ {c} : /\ inhand'[d] = inhand[d] /\ held'[d] = held[d]
                                   /\ handed'[d] # GaveUp => handed[d] # GaveUp
      BY <1>1, <2>2
    <3>2. "counting" \notin Busy /\ "counting" \in Holding /\ handed'[c] = GaveUp
      BY <1>3, <1>5 DEF Busy, Holding
    <3>3. QED
      BY <1>2, <1>6, <2>2, <3>1, <3>2, HandsMove
  <2>7. m_count' = m_count + 0 + Shift(pc[c] \in Making, "counting" \in Making)
    BY <1>1, <1>2 DEF Shift, Making
  <2>8. m_idleCount' = m_idleCount + 1 + Shift(pc[c] \in Popped, "counting" \in Popped)
                         - Shift(pc[c] \in Counting, "counting" \in Counting)
    BY <1>1, <1>2 DEF Shift, Popped, Counting
  <2>9. "counting" \notin Getting /\ 0 \in {-1, 0, 1} /\ 1 \in {-1, 0, 1}
    BY DEF Getting
  <2> HIDE DEF p, q, r
  <2>10. QED
    BY <1>3, <1>4, <1>6, <2>4, <2>5, <2>6, <2>7, <2>8, <2>9, ClientStep
<1>7. CASE Go(c, "deleting") /\ UNCHANGED <<m_resourceList, inhand>>
  <2>1. m_count' = m_count + Shift(pc[c] \in Making, "deleting" \in Making)
    BY <1>1, <1>2 DEF Shift, Making
  <2>2. m_idleCount' = m_idleCount + Shift(pc[c] \in Popped, "deleting" \in Popped)
                         - Shift(pc[c] \in Counting, "deleting" \in Counting)
    BY <1>1, <1>2 DEF Shift, Popped, Counting
  <2>3. "deleting" \in Busy /\ "deleting" \in Holding /\ "deleting" \notin Getting
    BY DEF Busy, Holding, Getting
  <2>4. QED
    BY <1>1, <1>3, <1>4, <1>5, <1>7, <2>1, <2>2, <2>3, QuietStep
<1>8. QED
  BY <1>6, <1>7 DEF Push

-----------------------------------------------------------------------------
(* The owner and the destructor: no client moves.                          *)
LEMMA StillStep ==
  ASSUME IInv, TypeOK', dtor # "gone", dtor' # "gone",
         UNCHANGED <<pc, held, inhand>>,
         \A d \in Clients : handed'[d] # GaveUp => handed[d] # GaveUp,
         NEW l \in {-1, 0}, CellStep(l), NEW r \in {-1, 0}, ListStep(r),
         m_count' = m_count + l, m_idleCount' = m_idleCount + r,
         Destroying'
  PROVE  IInv'
<1>1. TypeOK /\ OneEach(Content) /\ Hands /\ Counts /\ m_count \in Int /\ m_idleCount \in Int
  BY DEF IInv, TypeOK
<1>2. Hands'
  BY <1>1 DEF Hands
<1>3. /\ OneEach(Content)'
      /\ IsFiniteSet(Live) => Grows(Live, Live', l)
  BY <1>1, LiveStep
<1>4. Counts'
  <2>1. \A Q : At(Q)' = At(Q)
    BY DEF At
  <2>2. /\ Grows(At(Making), At(Making)', 0)
        /\ Grows(At(Popped), At(Popped)', 0)
        /\ Grows(At(Counting), At(Counting)', 0)
    <3>1. /\ IsFiniteSet(At(Making)) /\ IsFiniteSet(At(Popped)) /\ IsFiniteSet(At(Counting))
      BY <1>1 DEF Counts
    <3>2. /\ Grows(At(Making), At(Making), 0)
          /\ Grows(At(Popped), At(Popped), 0)
          /\ Grows(At(Counting), At(Counting), 0)
      BY <3>1, GrowsBy
    <3>3. QED
      BY <2>1, <3>2
  <2>3. Grows(Live, Live', l) /\ Grows(m_resourceList, m_resourceList', r)
    BY <1>1, <1>3, ListGrows DEF Counts
  <2>4. 0 \in Int /\ l \in Int /\ r \in Int
    OBVIOUS
  <2>5. m_count' = m_count + l + 0 /\ m_idleCount' = m_idleCount + r + 0 - 0
    BY <1>1
  <2>6. m_count' <= m_count
    BY <1>1
  <2>7. QED
    BY <1>1, <2>2, <2>3, <2>4, <2>5, <2>6, CountStep
<1>5. DestructorIsLast'
  BY DEF DestructorIsLast
<1>6. QED
  BY <1>2, <1>3, <1>4, <1>5 DEF IInv

(* No cell and no counter changes.                                         *)
LEMMA IdleStep ==
  ASSUME IInv, TypeOK', dtor # "gone", dtor' # "gone",
         UNCHANGED <<pc, held, inhand, handed, counters, m_resourceList>>, Destroying'
  PROVE  IInv'
<1>1. \A d \in Clients : Alike(handed'[d], handed[d]) /\ (handed'[d] # GaveUp => handed[d] # GaveUp)
  BY DEF Alike
<1>2. CellStep(0)
  BY <1>1, SameCells
<1>3. ListStep(0)
  BY DEF ListStep
<1>4. m_count' = m_count + 0 /\ m_idleCount' = m_idleCount + 0 /\ 0 \in {-1, 0}
  BY DEF counters, IInv, TypeOK
<1>5. QED
  BY <1>1, <1>2, <1>3, <1>4, StillStep

LEMMA OwnerType ==
  ASSUME TypeOK, Owner
  PROVE  TypeOK'
<1> USE DEF TypeOK, counters, versions, owner
<1>1. Live \subseteq Resources
  BY DEF Live
<1>2. CASE SetParam
  BY <1>1, <1>2 DEF SetParam, NewVersion
<1>3. CASE IncVersion
  BY <1>1, <1>3 DEF IncVersion, NewVersion
<1>4. CASE ReleaseIdleResource
  BY <1>4 DEF ReleaseIdleResource
<1>5. CASE ReleaseOne
  BY <1>5 DEF ReleaseOne
<1>6. CASE DestructorBegins
  BY <1>6 DEF DestructorBegins, DtorPlaces
<1>7. QED
  BY <1>2, <1>3, <1>4, <1>5, <1>6 DEF Owner

LEMMA DestructorType ==
  ASSUME TypeOK, Destructor
  PROVE  TypeOK'
<1> USE DEF TypeOK, counters, versions, owner
<1>1. CASE SwapWaiters
  BY <1>1 DEF SwapWaiters, DtorPlaces
<1>2. CASE TakeBack
  <2>1. Head(taken) \in Clients /\ Tail(taken) \in Seq(Clients)
    BY <1>2 DEF TakeBack
  <2>2. m_count' \in Int
    BY <1>2 DEF TakeBack, ReleaseHanded
  <2>3. handed' \in [Clients -> Resources \cup {NoRes, GaveUp}]
    BY <1>2, <2>1 DEF TakeBack
  <2>4. QED
    BY <1>2, <2>1, <2>2, <2>3 DEF TakeBack
<1>3. CASE LockDestroyMutex
  BY <1>3 DEF LockDestroyMutex, DtorPlaces
<1>4. CASE Check
  BY <1>4 DEF Check, DtorPlaces
<1>5. QED
  BY <1>1, <1>2, <1>3, <1>4 DEF Destructor

LEMMA OwnerStep ==
  ASSUME IInv, TypeOK', Owner
  PROVE  IInv'
<1>1. TypeOK /\ Destroying
  BY DEF IInv
<1>2. CASE SetParam \/ IncVersion \/ ReleaseIdleResource
  <2>1. /\ dtor = "none" /\ dtor' = dtor
        /\ UNCHANGED <<pc, held, inhand, handed, counters, m_resourceList>>
    BY <1>2 DEF SetParam, IncVersion, ReleaseIdleResource, m_is_destroying, owner
  <2>2. Destroying'
    BY <2>1 DEF Destroying, m_is_destroying
  <2>3. QED
    BY <2>1, <2>2, IdleStep
<1>3. CASE ReleaseOne
  <2>1. dtor = "none" /\ dtor' = dtor /\ UNCHANGED <<pc, held, inhand, handed>>
    BY <1>1, <1>3 DEF ReleaseOne, Destroying, m_is_destroying
  <2>2. Destroying'
    BY <2>1 DEF Destroying, m_is_destroying
  <2>3. CASE m_resourceList = {}
    <3>1. UNCHANGED <<counters, m_resourceList>>
      BY <1>3, <2>3 DEF ReleaseOne
    <3>2. QED
      BY <2>1, <2>2, <3>1, IdleStep
  <2>4. CASE m_resourceList # {}
    <3>1. PICK r \in m_resourceList : m_resourceList' = m_resourceList \ {r}
      BY <1>3, <2>4 DEF ReleaseOne
    <3>2. m_count' = m_count + (-1) /\ m_idleCount' = m_idleCount + (-1)
      BY <1>1, <1>3, <2>4 DEF ReleaseOne, TypeOK
    <3>3. r \in Resources
      BY <1>1, <3>1 DEF TypeOK
    <3>4. CellStep(-1)
      <4> DEFINE p == Idle(r)
      <4>1. p \in Cells
        BY <3>3, CellsAre
      <4>2. Content[p] \in Resources /\ Content'[p] \notin Resources
        BY <3>1, <3>3, ContentIs, ContentNext, ConstantsOK
      <4>3. \A s \in Resources : Idle(s) = p \/ (s \in m_resourceList' <=> s \in m_resourceList)
        BY <3>1
      <4>4. \A d \in Clients : held'[d] = held[d] /\ inhand'[d] = inhand[d] /\ handed'[d] = handed[d]
        BY <2>1
      <4> HIDE DEF p
      <4>5. QED
        BY <4>1, <4>2, <4>3, <4>4, EmptyCell
    <3>5. ListStep(-1)
      BY <3>1 DEF ListStep
    <3>6. -1 \in {-1, 0} /\ dtor # "gone" /\ dtor' # "gone"
          /\ \A d \in Clients : handed'[d] # GaveUp => handed[d] # GaveUp
      BY <2>1
    <3>7. QED
      BY <2>1, <2>2, <3>2, <3>4, <3>5, <3>6, StillStep
  <2>5. QED
    BY <2>3, <2>4
<1>4. CASE DestructorBegins
  <2>1. /\ dtor = "none" /\ dtor' = "swap" /\ owner_at = "idle" /\ owner_at' = owner_at
        /\ \A c \in Clients : pc[c] \notin Getting
        /\ UNCHANGED <<pc, held, inhand, handed, counters, m_resourceList>>
    BY <1>4 DEF DestructorBegins
  <2>2. Destroying'
    BY <2>1 DEF Destroying, At
  <2>3. QED
    BY <2>1, <2>2, IdleStep
<1>5. QED
  BY <1>2, <1>3, <1>4 DEF Owner

(* The predicate of the wait: when the counters agree, nothing but idle    *)
(* resources is left and no call is between the list and its counter.      *)
LEMMA NothingOut ==
  ASSUME IInv, dtor = "locked", AllIdle
  PROVE  /\ Live = m_resourceList
         /\ \A c \in Clients : /\ pc[c] \in Over
                               /\ held[c] = NoRes /\ inhand[c] = NoRes
                               /\ handed[c] \notin Resources
<1>1. TypeOK /\ Hands /\ OneEach(Content) /\ Counts
  BY DEF IInv
<1>2. At(Getting) = {}
  BY DEF IInv, Destroying, m_is_destroying
<1>3. At(Making) = {} /\ At(Popped) = {}
  BY <1>2 DEF At, Getting, Making, Popped
<1>4. Cardinality(At(Making)) = 0 /\ Cardinality(At(Popped)) = 0
  BY <1>3, FS_EmptySet
<1>5. m_resourceList \subseteq Live
  BY <1>1, ConstantsOK DEF TypeOK, Live
<1>6. IsFiniteSet(Live) /\ IsFiniteSet(m_resourceList) /\ IsFiniteSet(At(Counting))
  BY <1>1 DEF Counts
<1>7. /\ Cardinality(Live) \in Nat /\ Cardinality(m_resourceList) \in Nat
      /\ Cardinality(At(Counting)) \in Nat
  BY <1>6, FS_CardinalityType
<1>8. Cardinality(m_resourceList) <= Cardinality(Live)
  BY <1>5, <1>6, FS_Subset
<1>9. Cardinality(Live) = Cardinality(m_resourceList) - Cardinality(At(Counting))
  <2>1. /\ m_count = Cardinality(Live) + Cardinality(At(Making))
        /\ m_idleCount = Cardinality(m_resourceList) + Cardinality(At(Popped))
                           - Cardinality(At(Counting))
    BY <1>1 DEF Counts
  <2>2. m_count = m_idleCount
    BY DEF AllIdle
  <2>3. QED
    BY <1>4, <1>7, <2>1, <2>2
<1>10. Cardinality(At(Counting)) = 0 /\ Cardinality(Live) = Cardinality(m_resourceList)
  BY <1>7, <1>8, <1>9
<1>11. Live = m_resourceList
  BY <1>5, <1>6, <1>10, FS_Subset
<1>12. At(Counting) = {}
  BY <1>6, <1>10, FS_EmptySet
<1>13. ASSUME NEW c \in Clients
       PROVE  held[c] \notin Resources /\ inhand[c] \notin Resources /\ handed[c] \notin Resources
  <2>1. ASSUME NEW p \in {Held(c), Inhand(c), Handed(c)} PROVE Content[p] \notin Resources
    <3>1. p \in Cells /\ \A r \in Resources : p # Idle(r) /\ Idle(r) \in Cells
      BY CellsAre
    <3>2. ASSUME NEW r \in Resources, Content[p] = r PROVE FALSE
      <4>1. r \in In(Content)
        BY <3>1, <3>2 DEF In
      <4>2. r \in m_resourceList
        BY <1>1, <1>11, <4>1, LiveCells DEF CellsHoldLive
      <4>3. Content[Idle(r)] = r
        BY <4>2, ContentIs
      <4>4. QED
        BY <1>1, <3>1, <3>2, <4>3 DEF OneEach
    <3>3. QED
      BY <3>2
  <2>2. Content[Held(c)] = held[c] /\ Content[Inhand(c)] = inhand[c] /\ Content[Handed(c)] = handed[c]
    BY ContentIs
  <2>3. QED
    BY <2>1, <2>2
<1>14. ASSUME NEW c \in Clients
       PROVE  pc[c] \in Over /\ held[c] = NoRes /\ inhand[c] = NoRes
  <2>1. held[c] = NoRes /\ inhand[c] = NoRes
    BY <1>1, <1>13 DEF TypeOK
  <2>2. pc[c] \notin Busy
    BY <1>1, <1>13 DEF Hands
  <2>3. pc[c] \in Places /\ pc[c] \notin Getting /\ pc[c] # "counting"
    BY <1>1, <1>2, <1>12 DEF TypeOK, At, Counting
  <2>4. QED
    BY <2>1, <2>2, <2>3 DEF Places, Busy, Over
<1>15. QED
  BY <1>11, <1>13, <1>14

LEMMA DestructorStep ==
  ASSUME IInv, TypeOK', Destructor
  PROVE  IInv'
<1>1. TypeOK /\ Destroying /\ OneEach(Content) /\ Hands
  BY DEF IInv
<1>2. CASE SwapWaiters \/ LockDestroyMutex
  <2>1. /\ dtor \in {"swap", "taking"} /\ dtor' # "gone" /\ UNCHANGED owner_at
        /\ UNCHANGED <<pc, held, inhand, handed, counters, m_resourceList>>
    BY <1>2 DEF SwapWaiters, LockDestroyMutex
  <2>2. Destroying'
    BY <1>1, <2>1 DEF Destroying, m_is_destroying, At
  <2>3. QED
    BY <2>1, <2>2, IdleStep
<1>3. CASE TakeBack
  <2>1. /\ dtor = "taking" /\ dtor' = dtor
        /\ UNCHANGED <<pc, held, inhand, m_resourceList, m_idleCount, owner_at>>
    BY <1>3 DEF TakeBack
  <2>2. Destroying'
    BY <1>1, <2>1 DEF Destroying, m_is_destroying, At
  <2> DEFINE w == Head(taken)
  <2>3. w \in Clients
    BY <1>1, <1>3 DEF TakeBack, TypeOK
  <2>4. CASE UNCHANGED <<handed, m_count>>
    BY <2>1, <2>2, <2>4, IdleStep DEF counters
  <2>5. CASE handed' = [handed EXCEPT ![w] = GaveUp] /\ ReleaseHanded(w)
    <3> HIDE DEF w
    <3>1. handed'[w] = GaveUp /\ \A d \in Clients \ {w} : handed'[d] = handed[d]
      BY <1>1, <2>3, <2>5 DEF TypeOK
    <3>2. \A d \in Clients : handed'[d] # GaveUp => handed[d] # GaveUp
      BY <3>1
    <3>3. m_idleCount' = m_idleCount + 0 /\ 0 \in {-1, 0} /\ -1 \in {-1, 0}
      BY <1>1, <2>1 DEF TypeOK
    <3>4. ListStep(0)
      BY <2>1 DEF ListStep
    <3>5. dtor # "gone" /\ dtor' # "gone" /\ UNCHANGED <<pc, held, inhand>>
      BY <2>1
    <3>6. CASE handed[w] \in Resources
      <4>1. m_count' = m_count + (-1)
        BY <1>1, <2>5, <3>6 DEF ReleaseHanded, TypeOK
      <4>2. CellStep(-1)
        <5> DEFINE p == Handed(w)
        <5>1. p \in Cells
          BY <2>3, CellsAre
        <5>2. Content[p] \in Resources /\ Content'[p] \notin Resources
          BY <2>3, <3>1, <3>6, ContentIs, ContentNext, ConstantsOK
        <5>3. \A d \in Clients : Handed(d) = p \/ handed'[d] = handed[d]
          BY <3>1
        <5>4. /\ \A d \in Clients : held'[d] = held[d] /\ inhand'[d] = inhand[d]
              /\ \A s \in Resources : s \in m_resourceList' <=> s \in m_resourceList
          BY <2>1
        <5> HIDE DEF p
        <5>5. QED
          BY <5>1, <5>2, <5>3, <5>4, EmptyCell
      <4>3. QED
        BY <2>2, <3>2, <3>3, <3>4, <3>5, <4>1, <4>2, StillStep
    <3>7. CASE handed[w] \notin Resources
      <4>1. m_count' = m_count + 0
        BY <1>1, <2>5, <3>7 DEF ReleaseHanded, TypeOK
      <4>2. \A d \in Clients : Alike(handed'[d], handed[d])
        BY <3>1, <3>7, ConstantsOK DEF Alike
      <4>3. CellStep(0)
        BY <2>1, <4>2, SameCells
      <4>4. QED
        BY <2>2, <3>2, <3>3, <3>4, <3>5, <4>1, <4>3, StillStep
    <3>8. QED
      BY <3>6, <3>7
  <2>6. QED
    BY <1>3, <2>4, <2>5 DEF TakeBack
<1>4. CASE Check
  <2>1. /\ dtor = "locked" /\ dtor' \in {"gone", "asleep"}
        /\ UNCHANGED <<counters, pc, held, inhand, handed, owner_at>>
    BY <1>4 DEF Check
  <2>2. Destroying'
    BY <1>1, <2>1 DEF Destroying, m_is_destroying, At
  <2>3. CASE ~ AllIdle
    <3>1. dtor' # "gone" /\ UNCHANGED m_resourceList
      BY <1>4, <2>3 DEF Check
    <3>2. QED
      BY <2>1, <2>2, <3>1, IdleStep
  <2>4. CASE AllIdle
    <3>1. dtor' = "gone" /\ m_resourceList' = {}
      BY <1>4, <2>4 DEF Check
    <3>2. \A c \in Clients : /\ pc[c] \in Over
                             /\ held[c] = NoRes /\ inhand[c] = NoRes
                             /\ handed[c] \notin Resources
      BY <2>1, <2>4, NothingOut
    <3>3. Live' = {}
      BY <1>1, <2>1, <3>1, <3>2 DEF Live, TypeOK
    <3>4. DestructorIsLast'
      BY <2>1, <3>2, <3>3 DEF DestructorIsLast, Over
    <3>5. Hands'
      BY <1>1, <2>1 DEF Hands
    <3>6. OneEach(Content)'
      <4>1. \A p \in Cells : Content'[p] \notin Resources
        <5> SUFFICES ASSUME NEW p \in Cells, Content'[p] \in Resources PROVE FALSE
          OBVIOUS
        <5>1. Content'[p] \in In(Content')
          BY DEF In
        <5>2. Content'[p] \in Live'
          BY <5>1, LiveCellsNext
        <5>3. QED
          BY <3>3, <5>2
      <4>2. OneEach(Content')
        BY <4>1 DEF OneEach
      <4>3. QED
        BY <4>2
    <3>7. QED
      BY <2>2, <3>1, <3>4, <3>5, <3>6 DEF IInv
  <2>5. QED
    BY <2>3, <2>4
<1>5. QED
  BY <1>2, <1>3, <1>4 DEF Destructor

-----------------------------------------------------------------------------
LEMMA NextKeeps == ASSUME IInv, Next PROVE IInv'
<1>1. TypeOK /\ Hands
  BY DEF IInv
<1>2. ASSUME NEW c \in Clients, Call(c) \/ Continue(c) \/ DestroyCoroutine(c) PROVE IInv'
  <2>1. TypeOK'
    BY <1>1, <1>2, ClientType
  <2>2. CASE Call(c)
    BY <2>1, <2>2, CallStep
  <2>3. CASE Took(c)
    BY <2>1, <2>3, TookStep
  <2>4. CASE Reserve(c)
    BY <2>1, <2>4, ReserveStep
  <2>5. CASE CopyParam(c)
    BY <2>1, <2>5, CopyParamStep
  <2>6. CASE Make(c)
    BY <2>1, <2>6, MakeStep
  <2>7. CASE PushWaiter(c)
    BY <2>1, <2>7, PushWaiterStep
  <2>8. CASE LookAgain(c)
    BY <2>1, <2>8, LookAgainStep
  <2>9. CASE TookAgain(c)
    BY <2>1, <2>9, TookAgainStep
  <2>10. CASE Resume(c)
    BY <2>1, <2>10, ResumeStep
  <2>11. CASE Leave(c)
    BY <2>1, <2>11, LeaveStep
  <2>12. CASE Drop(c)
    BY <2>1, <2>12, DropStep
  <2>13. CASE ReturnResource(c)
    BY <2>1, <2>13, ReturnResourceStep
  <2>14. CASE Scan(c)
    BY <2>1, <2>14, ScanStep
  <2>15. CASE Claim(c)
    BY <2>1, <2>15, ClaimStep
  <2>16. CASE Push(c)
    BY <2>1, <2>16, PushStep
  <2>17. CASE CountIdle(c)
    BY <2>1, <2>17, CountIdleStep
  <2>18. CASE Delete(c)
    BY <2>1, <2>18, DeleteStep
  <2>19. CASE ReadWaiting(c) \/ Notify(c)
    BY <2>1, <2>19, NotifyStep
  <2>20. CASE DestroyCoroutine(c)
    BY <2>1, <2>20, DestroyCoroutineStep
  <2>21. QED
    BY <1>2, <2>2, <2>3, <2>4, <2>5, <2>6, <2>7, <2>8, <2>9, <2>10, <2>11, <2>12,
       <2>13, <2>14, <2>15, <2>16, <2>17, <2>18, <2>19, <2>20 DEF Continue
<1>3. CASE Owner
  BY <1>1, <1>3, OwnerType, OwnerStep
<1>4. CASE Destructor
  BY <1>1, <1>4, DestructorType, DestructorStep
<1>5. QED
  BY <1>2, <1>3, <1>4 DEF Next

LEMMA InitHolds == ASSUME Init PROVE IInv
<1>1. TypeOK
  BY DEF Init, TypeOK, Places, DtorPlaces
<1>2. /\ \A c \in Clients : pc[c] = "out" /\ held[c] = NoRes /\ inhand[c] = NoRes /\ handed[c] = GaveUp
      /\ m_resourceList = {} /\ m_count = 0 /\ m_idleCount = 0 /\ dtor = "none"
  BY DEF Init
<1>3. Hands
  BY <1>2 DEF Hands, Busy, Holding, Waited
<1>4. Live = {}
  BY <1>2 DEF Live
<1>5. OneEach(Content)
  <2>1. \A p \in Cells : Content[p] \notin Resources
    <3> SUFFICES ASSUME NEW p \in Cells, Content[p] \in Resources PROVE FALSE
      OBVIOUS
    <3>1. Content[p] \in In(Content)
      BY DEF In
    <3>2. QED
      BY <1>1, <1>4, <3>1, LiveCells DEF CellsHoldLive
  <2>2. QED
    BY <2>1 DEF OneEach
<1>6. At(Making) = {} /\ At(Popped) = {} /\ At(Counting) = {}
  BY <1>2 DEF At, Making, Popped, Counting
<1>7. Counts
  <2>1. IsFiniteSet({}) /\ Cardinality({}) = 0
    BY FS_EmptySet
  <2>2. QED
    BY <1>2, <1>4, <1>6, <2>1, ConstantsOK DEF Counts
<1>8. Destroying /\ DestructorIsLast
  BY <1>2 DEF Destroying, DestructorIsLast, m_is_destroying
<1>9. QED
  BY <1>1, <1>3, <1>5, <1>7, <1>8 DEF IInv

LEMMA StutterKeeps == ASSUME IInv, UNCHANGED vars PROVE IInv'
<1>1. UNCHANGED <<counters, m_resourceList, handed, pc, held, inhand>>
  BY DEF vars, counters
<1>2. TypeOK'
  BY DEF IInv, TypeOK, vars
<1>3. Live' = Live /\ Content' = Content /\ \A Q : At(Q)' = At(Q)
  BY <1>1 DEF Live, Content, At
<1>4. Hands'
  BY <1>1 DEF IInv, Hands
<1>5. OneEach(Content)'
  BY <1>3 DEF IInv
<1>6. Destroying' /\ DestructorIsLast'
  BY <1>1, <1>3 DEF IInv, Destroying, DestructorIsLast, m_is_destroying, vars
<1>7. dtor' = dtor
  BY DEF vars
<1>8. ASSUME Counts PROVE Counts'
  BY <1>1, <1>3, <1>8 DEF Counts, counters
<1>9. QED
  BY <1>2, <1>4, <1>5, <1>6, <1>7, <1>8 DEF IInv

(* The types, one owner for every resource, and the counters of the        *)
(* lock-free pool: what get(), asyncGet(), the closers, the owner and the  *)
(* destructor keep together.                                               *)
THEOREM AsioInvariance == Spec => []IInv
<1>1. Init => IInv
  BY InitHolds
<1>2. IInv /\ [Next]_vars => IInv'
  BY NextKeeps, StutterKeeps
<1>3. QED
  BY <1>1, <1>2, PTL DEF Spec

(* m_count counts every resource that exists and every slot reserved for   *)
(* one, never passes m_maxCount, and m_idleCount is the length of the idle *)
(* list but for the calls between the two: the CAS of                      *)
(* reserveResourceSlot(), the hand-over to waiters and the counters of     *)
(* takeIdleResource() and pushIdleResource() lose and invent nothing.      *)
THEOREM AsioCountIsExact == Spec => []CountExact
<1>1. IInv => CountExact
  BY DEF IInv, CountExact, Counts, Making, Popped, Counting
<1>2. QED
  BY <1>1, AsioInvariance, PTL

(* When the destructor has waited for m_count to reach m_idleCount, no     *)
(* resource is left anywhere and every client is out of the pool, asleep,  *)
(* or past its last access but a notification.                             *)
THEOREM AsioDestructorIsLast == Spec => []DestructorIsLast
<1>1. IInv => DestructorIsLast
  BY DEF IInv
<1>2. QED
  BY <1>1, AsioInvariance, PTL

(* The variables keep their types, whatever the clients, the owner and the *)
(* destructor interleave.                                                  *)
THEOREM AsioTypeInvariance == Spec => []TypeOK
<1>1. IInv => TypeOK
  BY DEF IInv
<1>2. QED
  BY <1>1, AsioInvariance, PTL
=============================================================================
