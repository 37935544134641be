-------------------------- MODULE GraphPath_proofs --------------------------
(***************************************************************************)
(* shortest_path finds a shortest path, for every edge list, start and     *)
(* goal: the layers of the search, and that its answer is a walk to the    *)
(* goal that no other walk to the goal undercuts.                          *)
(***************************************************************************)
EXTENDS GraphPath, FiniteSetTheorems, SequenceTheorems, WellFoundedInduction, TLAPS

Edge == [from : State, to : State]
Item == [state : State, path : Seq(DOMAIN edges)]

(***************************************************************************)
(* Natural numbers: the least number of a set, and induction as a fact     *)
(* about sets of numbers.                                                  *)
(***************************************************************************)

LEMMA LeastNumber ==
    ASSUME NEW T \in SUBSET Nat, T # {}
    PROVE  \E m \in T : \A n \in T : m <= n
  <1>1. \E m \in T : \A n \in T : ~ (<<n, m>> \in OpToRel(<, Nat))
    BY WFMin, NatLessThanWellFounded, Zenon
  <1>2. \E m \in T : \A n \in T : ~ (n < m)
    BY <1>1, Zenon DEF OpToRel
  <1> QED
    BY <1>2

LEMMA AllNumbers ==
    ASSUME NEW T \in SUBSET Nat, 0 \in T, \A n \in T : n + 1 \in T
    PROVE  T = Nat
  <1> SUFFICES ASSUME Nat \ T # {}
               PROVE  FALSE
    OBVIOUS
  <1>1. PICK m \in Nat \ T : \A n \in Nat \ T : m <= n
    BY LeastNumber
  <1>2. m # 0 /\ m - 1 \in Nat
    BY <1>1
  <1>3. m - 1 \in T
    BY <1>1, <1>2
  <1>4. (m - 1) + 1 \in T
    BY <1>3
  <1> QED
    BY <1>1, <1>4

(***************************************************************************)
(* The order of the edges.                                                 *)
(***************************************************************************)

\* InOrder lists every member of a set of positions once, and nothing else.
LEMMA InOrderLists ==
    ASSUME NEW n \in Nat, NEW I \in SUBSET (1 .. n)
    PROVE  /\ InOrder(I) \in Seq(I)
           /\ \A i \in I : \E k \in DOMAIN InOrder(I) : InOrder(I)[k] = i
           /\ \A j, k \in DOMAIN InOrder(I) : InOrder(I)[j] = InOrder(I)[k] => j = k
  <1> DEFINE UpTo(i) == {j \in I : j <= i}
             rank(i) == Cardinality(UpTo(i))
             N == Cardinality(I)
             f == [i \in I |-> rank(i)]
  <1>0. \A i \in I : i \in Nat /\ i <= i
    OBVIOUS
  <1>1. IsFiniteSet(I) /\ N \in Nat
    <2>1. IsFiniteSet(1 .. n)
      BY FS_Interval
    <2>2. IsFiniteSet(I)
      BY <2>1, FS_Subset
    <2> QED
      BY <2>2, FS_CardinalityType
  <1>2. ASSUME NEW i \in I
        PROVE  IsFiniteSet(UpTo(i)) /\ rank(i) \in 1 .. N
    <2>1. UpTo(i) \in SUBSET I /\ i \in UpTo(i)
      OBVIOUS
    <2> HIDE DEF UpTo
    <2>2. IsFiniteSet(UpTo(i)) /\ rank(i) <= N /\ rank(i) \in Nat
      BY <1>1, <2>1, FS_Subset, FS_CardinalityType
    <2>3. rank(i) # 0
      BY <2>1, <2>2, FS_EmptySet
    <2> QED
      BY <1>1, <2>2, <2>3
  <1>3. ASSUME NEW i \in I, NEW j \in I, i < j
        PROVE  rank(i) # rank(j)
    <2>1. UpTo(i) \in SUBSET UpTo(j) /\ j \in UpTo(j) /\ j \notin UpTo(i)
      <3>1. \A k \in I : k <= i => k <= j
        BY <1>0, <1>3
      <3>2. ~ (j <= i)
        BY <1>0, <1>3
      <3> QED
        BY <1>0, <3>1, <3>2
    <2> HIDE DEF UpTo
    <2> QED
      BY <1>2, <2>1, FS_Subset
  <1> HIDE DEF UpTo, N, rank
  <1>4. \A i, j \in I : rank(i) = rank(j) => i = j
    <2>1. \A i, j \in I : i < j \/ j < i \/ i = j
      OBVIOUS
    <2> QED
      BY <1>3, <2>1
  <1>5. f \in Injection(I, 1 .. N)
    BY <1>2, <1>4 DEF Injection, IsInjective
  <1>6. IsFiniteSet(1 .. N) /\ Cardinality(1 .. N) = N
    BY <1>1, FS_Interval
  <1>7. f \in Surjection(I, 1 .. N)
    <2> HIDE DEF f
    <2> QED
      BY <1>5, <1>6, FS_Injection DEF N
  <1>8. \A k \in 1 .. N : \E i \in I : rank(i) = k
    BY <1>7 DEF Surjection
  <1>9. InOrder(I) = [k \in 1 .. N |-> CHOOSE i \in I : rank(i) = k]
    BY DEF InOrder, N, rank, UpTo
  <1>10. \A k \in 1 .. N : InOrder(I)[k] \in I /\ rank(InOrder(I)[k]) = k
    BY <1>8, <1>9
  <1>11. InOrder(I) \in [1 .. N -> I]
    BY <1>9, <1>10
  <1>12. InOrder(I) \in Seq(I)
    BY <1>1, <1>11
  <1>13. \A i \in I : rank(i) \in 1 .. N /\ InOrder(I)[rank(i)] = i
    BY <1>2, <1>4, <1>10
  <1>14. \A j, k \in 1 .. N : InOrder(I)[j] = InOrder(I)[k] => j = k
    BY <1>10
  <1> QED
    BY <1>11, <1>12, <1>13, <1>14

-----------------------------------------------------------------------------
(***************************************************************************)
(* Walks, and what Within means.                                           *)
(***************************************************************************)

\* The successors of a set of states, and the equation that Within satisfies.
Beyond(W) == {edges[i].to : i \in {j \in DOMAIN edges : edges[j].from \in W}}
Layering(g) == [n \in Nat |-> IF n = 0 THEN {Start} ELSE g[n - 1] \cup Beyond(g[n - 1])]

\* The states that a walk of at most n edges leads to.
Walked == [n \in Nat |->
    {s \in State : \E p \in Seq(DOMAIN edges) : Len(p) <= n /\ IsWalk(p, s)}]

LEMMA EdgeFacts ==
    ASSUME edges \in Seq(Edge)
    PROVE  /\ DOMAIN edges = 1 .. Len(edges) /\ Len(edges) \in Nat
           /\ \A i \in DOMAIN edges : edges[i].from \in State /\ edges[i].to \in State
  <1>1. \A i \in DOMAIN edges : edges[i] \in Edge
    OBVIOUS
  <1> QED
    BY <1>1 DEF Edge

LEMMA EmptyWalk == \A s : IsWalk(<<>>, s) <=> s = Start
  BY DEF IsWalk

\* One edge more makes a walk to its target.
LEMMA LongerWalk ==
    ASSUME edges \in Seq(Edge), NEW p \in Seq(DOMAIN edges), NEW s, IsWalk(p, s),
           NEW i \in DOMAIN edges, edges[i].from = s
    PROVE  Append(p, i) \in Seq(DOMAIN edges) /\ IsWalk(Append(p, i), edges[i].to)
  <1> DEFINE q == Append(p, i)
             L == Len(p)
  <1>1. /\ q \in Seq(DOMAIN edges) /\ L \in Nat /\ Len(q) = L + 1 /\ q # <<>>
        /\ q[L + 1] = i /\ DOMAIN q = 1 .. L + 1 /\ DOMAIN p = 1 .. L
        /\ \A k \in 1 .. L : q[k] = p[k]
    OBVIOUS
  <1>2. p = <<>> <=> L = 0
    OBVIOUS
  <1> HIDE DEF q
  <1>3. \A k \in DOMAIN q : q[k] \in DOMAIN edges
    BY <1>1
  <1>4. ASSUME NEW k \in DOMAIN q
        PROVE  edges[q[k]].from = IF k = 1 THEN Start ELSE edges[q[k - 1]].to
    <2>1. CASE k = L + 1
      <3>1. CASE L = 0
        BY <1>1, <1>2, <2>1, <3>1 DEF IsWalk
      <3>2. CASE L # 0
        <4>1. q[k] = i /\ q[k - 1] = p[L] /\ k # 1
          BY <1>1, <2>1, <3>2
        <4>2. s = edges[p[L]].to
          BY <1>2, <3>2 DEF IsWalk
        <4> QED
          BY <4>1, <4>2
      <3> QED
        BY <3>1, <3>2
    <2>2. CASE k # L + 1
      <3>1. k \in 1 .. L /\ q[k] = p[k] /\ (k # 1 => q[k - 1] = p[k - 1])
        BY <1>1, <2>2
      <3>2. edges[p[k]].from = IF k = 1 THEN Start ELSE edges[p[k - 1]].to
        BY <1>1, <3>1 DEF IsWalk
      <3> QED
        BY <3>1, <3>2
    <2> QED
      BY <2>1, <2>2
  <1>5. edges[i].to = IF q = <<>> THEN Start ELSE edges[q[Len(q)]].to
    BY <1>1
  <1>6. IsWalk(q, edges[i].to)
    BY <1>3, <1>4, <1>5 DEF IsWalk
  <1> QED
    BY <1>1, <1>6 DEF q

\* A walk that is not empty is one edge longer than a walk.
LEMMA ShorterWalk ==
    ASSUME edges \in Seq(Edge), NEW q \in Seq(DOMAIN edges), NEW s, IsWalk(q, s),
           q # <<>>
    PROVE  \E p \in Seq(DOMAIN edges), i \in DOMAIN edges :
              Len(p) = Len(q) - 1 /\ IsWalk(p, edges[i].from) /\ s = edges[i].to
  <1> DEFINE M == Len(q) - 1
             p == [k \in 1 .. M |-> q[k]]
             i == q[M + 1]
  <1>1. M \in Nat /\ Len(q) = M + 1 /\ DOMAIN q = 1 .. M + 1
    OBVIOUS
  <1>2. \A k \in 1 .. M : k \in DOMAIN q
    BY <1>1
  <1>3. p \in Seq(DOMAIN edges) /\ Len(p) = M /\ DOMAIN p = 1 .. M
    BY <1>1, <1>2
  <1>4. i \in DOMAIN edges /\ s = edges[i].to
    BY <1>1 DEF IsWalk
  <1>5. \A k \in 1 .. M : p[k] = q[k]
    OBVIOUS
  <1>6. p = <<>> <=> M = 0
    <2> HIDE DEF p, M
    <2> QED
      BY <1>3
  <1>7. \A k \in 1 .. M + 1 :
           edges[q[k]].from = IF k = 1 THEN Start ELSE edges[q[k - 1]].to
    BY <1>1 DEF IsWalk
  <1> HIDE DEF M, p, i
  <1>8. \A k \in DOMAIN p : edges[p[k]].from = IF k = 1 THEN Start ELSE edges[p[k - 1]].to
    <2> SUFFICES ASSUME NEW k \in 1 .. M
                 PROVE  edges[p[k]].from = IF k = 1 THEN Start ELSE edges[p[k - 1]].to
      BY <1>3
    <2>1. k \in 1 .. M + 1 /\ (k # 1 => k - 1 \in 1 .. M)
      BY <1>1
    <2> QED
      BY <1>5, <1>7, <2>1
  <1>9. edges[i].from = IF p = <<>> THEN Start ELSE edges[p[Len(p)]].to
    <2>1. edges[i].from = IF M = 0 THEN Start ELSE edges[q[M]].to
      <3>1. M + 1 \in 1 .. M + 1 /\ (M + 1) - 1 = M /\ (M + 1 = 1 <=> M = 0)
        BY <1>1
      <3> QED
        BY <1>7, <3>1 DEF i
    <2>2. M # 0 => M \in 1 .. M
      BY <1>1
    <2> QED
      BY <1>3, <1>5, <1>6, <2>1, <2>2
  <1>10. IsWalk(p, edges[i].from)
    BY <1>3, <1>8, <1>9 DEF IsWalk
  <1> QED
    BY <1>3, <1>4, <1>10 DEF M

\* The walks are layered like Within.
LEMMA WalkedLayers ==
    ASSUME edges \in Seq(Edge)
    PROVE  Walked = Layering(Walked)
  <1>1. Walked[0] = {Start}
    <2>1. \A p \in Seq(DOMAIN edges) : Len(p) <= 0 <=> p = <<>>
      OBVIOUS
    <2>2. <<>> \in Seq(DOMAIN edges)
      OBVIOUS
    <2> QED
      BY <2>1, <2>2, EmptyWalk, PathAssumption DEF Walked
  <1>2. ASSUME NEW n \in Nat, n # 0
        PROVE  Walked[n] = Walked[n - 1] \cup Beyond(Walked[n - 1])
    <2>1. n - 1 \in Nat /\ \A p \in Seq(DOMAIN edges) : Len(p) <= n - 1 => Len(p) <= n
      BY <1>2
    <2>2. ASSUME NEW s \in Walked[n]
          PROVE  s \in Walked[n - 1] \cup Beyond(Walked[n - 1])
      <3>1. PICK q \in Seq(DOMAIN edges) : Len(q) <= n /\ IsWalk(q, s)
        BY <2>2 DEF Walked
      <3>2. s \in State
        BY <2>2 DEF Walked
      <3>3. CASE q = <<>>
        <4>1. Len(q) <= n - 1
          BY <2>1, <3>3
        <4> QED
          BY <2>1, <3>1, <3>2, <4>1 DEF Walked
      <3>4. CASE q # <<>>
        <4>1. PICK p \in Seq(DOMAIN edges), i \in DOMAIN edges :
                 Len(p) = Len(q) - 1 /\ IsWalk(p, edges[i].from) /\ s = edges[i].to
          BY <3>1, <3>4, ShorterWalk
        <4>2. Len(p) <= n - 1
          BY <2>1, <3>1, <4>1
        <4>3. edges[i].from \in Walked[n - 1]
          BY <2>1, <4>1, <4>2, EdgeFacts DEF Walked
        <4> QED
          BY <4>1, <4>3 DEF Beyond
      <3> QED
        BY <3>3, <3>4
    <2>3. ASSUME NEW s \in Beyond(Walked[n - 1])
          PROVE  s \in Walked[n]
      <3>1. PICK i \in DOMAIN edges : edges[i].from \in Walked[n - 1] /\ s = edges[i].to
        BY <2>3 DEF Beyond
      <3>2. PICK p \in Seq(DOMAIN edges) : Len(p) <= n - 1 /\ IsWalk(p, edges[i].from)
        BY <2>1, <3>1 DEF Walked
      <3>3. Append(p, i) \in Seq(DOMAIN edges) /\ IsWalk(Append(p, i), s)
        BY <3>1, <3>2, LongerWalk
      <3>4. Len(Append(p, i)) <= n
        BY <2>1, <3>2
      <3>5. s \in State
        BY <3>1, EdgeFacts
      <3> QED
        BY <3>3, <3>4, <3>5 DEF Walked
    <2>4. Walked[n - 1] \subseteq Walked[n]
      BY <2>1 DEF Walked
    <2> QED
      BY <2>2, <2>3, <2>4
  <1>3. \A n \in Nat : Walked[n] = Layering(Walked)[n]
    BY <1>1, <1>2 DEF Layering
  <1>4. Walked = [n \in Nat |-> Walked[n]] /\ Layering(Walked) = [n \in Nat |-> Layering(Walked)[n]]
    BY DEF Walked, Layering
  <1> HIDE DEF Walked
  <1> QED
    BY <1>3, <1>4

\* Within is what its equation says it is.
LEMMA WithinLayers ==
    ASSUME edges \in Seq(Edge)
    PROVE  /\ Within[0] = {Start}
           /\ \A n \in Nat : Within[n + 1] = Within[n] \cup Beyond(Within[n])
  <1>1. Within = CHOOSE g : g = Layering(g)
    BY DEF Within, Layering, Beyond
  <1>2. Within = Layering(Within)
    BY <1>1, WalkedLayers
  <1>3. \A n \in Nat : Within[n] = IF n = 0 THEN {Start}
                                   ELSE Within[n - 1] \cup Beyond(Within[n - 1])
    BY <1>2 DEF Layering
  <1>4. \A n \in Nat : n + 1 \in Nat /\ n + 1 # 0 /\ (n + 1) - 1 = n
    OBVIOUS
  <1> HIDE DEF Within
  <1> QED
    BY <1>3, <1>4

\* The states within n steps are those that a walk of at most n edges leads to.
LEMMA WithinWalked ==
    ASSUME edges \in Seq(Edge)
    PROVE  \A n \in Nat : Within[n] = Walked[n]
  <1> DEFINE T == {n \in Nat : Within[n] = Walked[n]}
  <1>1. Walked[0] = {Start} /\ \A n \in Nat : Walked[n + 1] = Walked[n] \cup Beyond(Walked[n])
    <2>1. \A n \in Nat : Walked[n] = IF n = 0 THEN {Start}
                                     ELSE Walked[n - 1] \cup Beyond(Walked[n - 1])
      BY WalkedLayers DEF Layering
    <2>2. \A n \in Nat : n + 1 \in Nat /\ n + 1 # 0 /\ (n + 1) - 1 = n
      OBVIOUS
    <2> QED
      BY <2>1, <2>2
  <1>2. 0 \in T
    BY <1>1, WithinLayers
  <1>3. ASSUME NEW n \in T
        PROVE  n + 1 \in T
    <2>1. n \in Nat /\ n + 1 \in Nat /\ Within[n] = Walked[n]
      OBVIOUS
    <2>2. Within[n + 1] = Walked[n + 1]
      BY <1>1, <2>1, WithinLayers
    <2> QED
      BY <2>1, <2>2
  <1>4. T = Nat
    <2> HIDE DEF T
    <2>1. T \in SUBSET Nat
      BY DEF T
    <2> QED
      BY <1>2, <1>3, <2>1, AllNumbers
  <1> QED
    BY <1>4

-----------------------------------------------------------------------------
(***************************************************************************)
(* The search.                                                             *)
(***************************************************************************)

\* The queue holds walks of two lengths at most, the shorter ones first, and no
\* state in it can be reached by a shorter walk than the one that is queued.
Depth == Len(Head(queue).path)
Layered ==
    /\ \A k \in DOMAIN queue :
          /\ IsWalk(queue[k].path, queue[k].state)
          /\ Len(queue[k].path) \in {Depth, Depth + 1}
          /\ queue[k].path # <<>> => queue[k].state \notin Within[Len(queue[k].path) - 1]
    /\ \A j, k \in DOMAIN queue : j < k => Len(queue[j].path) <= Len(queue[k].path)

\* The goal is waited for as long as the search goes on, and an answer is right.
Answered ==
    /\ pc = "search" => goal # Start /\ answer = None
    /\ pc = "done" /\ answer = None => \A n \in Nat : goal \notin Within[n]
    /\ PathShortest

Inv == TypeOK /\ Explored /\ Layered /\ Answered

\* What is at the head of the queue.
LEMMA HeadFacts ==
    ASSUME TypeOK, queue # <<>>
    PROVE  /\ Head(queue) = queue[1] /\ 1 \in DOMAIN queue /\ DOMAIN queue = 1 .. Len(queue)
           /\ Len(queue) \in Nat /\ Head(queue).state \in State
           /\ Head(queue).path \in Seq(DOMAIN edges) /\ Depth \in Nat
           /\ \A k \in DOMAIN queue : /\ queue[k].state \in State
                                      /\ queue[k].path \in Seq(DOMAIN edges)
                                      /\ Len(queue[k].path) \in Nat
  <1>1. queue \in Seq(Item)
    BY DEF TypeOK, Item
  <1>2. /\ Head(queue) = queue[1] /\ 1 \in DOMAIN queue /\ DOMAIN queue = 1 .. Len(queue)
        /\ Len(queue) \in Nat /\ \A k \in DOMAIN queue : queue[k] \in Item
    BY <1>1
  <1> QED
    BY <1>2 DEF Item, Depth

\* What the expansion of a queued entry adds: one edge more for every successor
\* that has not been visited.
LEMMA DiscoveredFacts ==
    ASSUME TypeOK, NEW h \in Item
    PROVE  /\ Discovered(h) \in Seq(Item)
           /\ \A k \in DOMAIN Discovered(h) : \E i \in Out(h.state) :
                 /\ Discovered(h)[k].state = edges[i].to /\ edges[i].to \notin visited
                 /\ Discovered(h)[k].path = Append(h.path, i)
           /\ \A i \in Out(h.state) : edges[i].to \notin visited =>
                 \E k \in DOMAIN Discovered(h) : Discovered(h)[k].state = edges[i].to
           /\ \A j, k \in DOMAIN Discovered(h) :
                 Discovered(h)[j].state = Discovered(h)[k].state => j = k
  <1> DEFINE D == Discovering(h.state)
             new == InOrder(D)
             q == Discovered(h)
  <1>1. edges \in Seq(Edge) /\ h.state \in State /\ h.path \in Seq(DOMAIN edges)
    BY DEF TypeOK, Edge, Item
  <1>2. DOMAIN edges = 1 .. Len(edges) /\ Len(edges) \in Nat
    BY <1>1, EdgeFacts
  <1>3. D \in SUBSET (1 .. Len(edges)) /\ D \subseteq Out(h.state)
    BY <1>2 DEF Discovering, Out
  <1> HIDE DEF D
  <1>4. /\ new \in Seq(D) /\ \A i \in D : \E k \in DOMAIN new : new[k] = i
        /\ \A j, k \in DOMAIN new : new[j] = new[k] => j = k
    BY <1>2, <1>3, InOrderLists
  <1>5. q = [k \in DOMAIN new |-> [state |-> edges[new[k]].to, path |-> Append(h.path, new[k])]]
    BY DEF Discovered, D
  <1> HIDE DEF new, q
  <1>6. DOMAIN q = DOMAIN new /\ DOMAIN new = 1 .. Len(new) /\ Len(new) \in Nat
    BY <1>4, <1>5
  <1>7. ASSUME NEW k \in DOMAIN q
        PROVE  /\ new[k] \in D /\ new[k] \in Out(h.state) /\ new[k] \in DOMAIN edges
               /\ q[k].state = edges[new[k]].to /\ q[k].path = Append(h.path, new[k])
               /\ q[k] \in Item
    <2>1. new[k] \in D /\ new[k] \in Out(h.state) /\ new[k] \in DOMAIN edges
      <3>1. k \in DOMAIN new /\ k \in 1 .. Len(new)
        BY <1>6
      <3>2. new[k] \in D
        BY <1>4, <3>1
      <3> QED
        BY <1>2, <1>3, <3>2
    <2>2. q[k] = [state |-> edges[new[k]].to, path |-> Append(h.path, new[k])]
      BY <1>5, <1>6, <1>7
    <2>3. edges[new[k]].to \in State /\ Append(h.path, new[k]) \in Seq(DOMAIN edges)
      BY <1>1, <2>1, EdgeFacts
    <2> QED
      BY <2>1, <2>2, <2>3 DEF Item
  <1>8. q \in Seq(Item)
    <2>1. q \in [1 .. Len(new) -> Item]
      BY <1>5, <1>6, <1>7
    <2> QED
      BY <1>6, <2>1
  <1>9. \A i \in D : edges[i].to \notin visited
    BY DEF D, Discovering
  <1>10. ASSUME NEW i \in Out(h.state), edges[i].to \notin visited
         PROVE  \E k \in DOMAIN q : q[k].state = edges[i].to
    <2> DEFINE Same == {j \in Out(h.state) : edges[j].to = edges[i].to}
    <2>1. Same \in SUBSET Nat /\ i \in Same
      BY <1>2 DEF Out
    <2>2. PICK m \in Same : \A j \in Same : m <= j
      BY <2>1, LeastNumber
    <2>3. m \in D
      <3>1. ASSUME NEW j \in Out(h.state), j < m
            PROVE  edges[j].to # edges[m].to
        BY <2>1, <2>2, <3>1
      <3> QED
        BY <1>10, <2>2, <3>1 DEF D, Discovering
    <2>4. PICK k \in DOMAIN new : new[k] = m
      BY <1>4, <2>3
    <2> QED
      BY <1>6, <1>7, <2>2, <2>4
  <1>11. ASSUME NEW j \in DOMAIN q, NEW k \in DOMAIN q, q[j].state = q[k].state
         PROVE  j = k
    <2>1. /\ new[j] \in D /\ new[j] \in Out(h.state) /\ new[j] \in Nat
          /\ new[k] \in D /\ new[k] \in Out(h.state) /\ new[k] \in Nat
          /\ edges[new[j]].to = edges[new[k]].to
      BY <1>2, <1>7, <1>11
    <2>2. ~ (new[j] < new[k]) /\ ~ (new[k] < new[j])
      BY <2>1 DEF D, Discovering
    <2>3. new[j] = new[k]
      BY <2>1, <2>2
    <2> QED
      BY <1>4, <1>6, <2>3
  <1> QED
    BY <1>7, <1>8, <1>9, <1>10, <1>11 DEF q

\* An edge to the goal that Found takes.
LEMMA GoalEdge ==
    ASSUME TypeOK, NEW s, ToGoal(s) # {}
    PROVE  LET i == InOrder(ToGoal(s))[1] IN i \in Out(s) /\ i \in DOMAIN edges /\ edges[i].to = goal
  <1> DEFINE I == ToGoal(s)
  <1>1. edges \in Seq(Edge)
    BY DEF TypeOK, Edge
  <1>2. I \in SUBSET (1 .. Len(edges)) /\ Len(edges) \in Nat
    BY <1>1, EdgeFacts DEF ToGoal, Out
  <1>3. \A i \in I : i \in Out(s) /\ i \in DOMAIN edges /\ edges[i].to = goal
    BY DEF ToGoal, Out
  <1> HIDE DEF I
  <1>4. InOrder(I) \in Seq(I) /\ \A i \in I : \E k \in DOMAIN InOrder(I) : InOrder(I)[k] = i
    BY <1>2, InOrderLists
  <1>5. InOrder(I)[1] \in I
    <2>1. PICK i \in I : TRUE
      BY DEF I
    <2>2. PICK k \in DOMAIN InOrder(I) : InOrder(I)[k] = i
      BY <1>4, <2>1
    <2>3. 1 \in DOMAIN InOrder(I)
      BY <1>4, <2>2
    <2> QED
      BY <1>4, <2>3
  <1> QED
    BY <1>3, <1>5 DEF I

\* The graph and the goal are the same for the whole search.
LEMMA SameGraph ==
    ASSUME edges' = edges
    PROVE  /\ Within' = Within
           /\ \A p, s : IsWalk(p, s)' <=> IsWalk(p, s)
           /\ \A s : Out(s)' = Out(s)
           /\ \A R : Closed(R)' <=> Closed(R)
  BY DEF Within, IsWalk, Out, Closed

LEMMA SearchInit == Init => Inv
  <1> SUFFICES ASSUME Init
               PROVE  Inv
    OBVIOUS
  <1>1. /\ edges \in Seq(Edge) /\ goal \in State /\ visited = {Start}
        /\ queue = <<[state |-> Start, path |-> <<>>]>>
        /\ pc = IF goal = Start THEN "done" ELSE "search"
        /\ answer = IF goal = Start THEN <<>> ELSE None
    BY PathAssumption DEF Init, Edge
  <1>2. /\ Len(queue) = 1 /\ DOMAIN queue = {1} /\ Head(queue) = queue[1] /\ queue # <<>>
        /\ queue[1].state = Start /\ queue[1].path = <<>> /\ Len(queue[1].path) = 0
    BY <1>1
  <1>3. Queued = {Start} /\ Depth = 0
    BY <1>2 DEF Queued, Depth
  <1>4. TypeOK
    <2>1. <<>> \in Seq(DOMAIN edges) /\ Start \in State
      BY PathAssumption
    <2>2. queue \in Seq(Item)
      BY <1>1, <2>1 DEF Item
    <2> QED
      BY <1>1, <2>1, <2>2 DEF TypeOK, Edge, Item
  <1>5. Explored
    BY <1>1, <1>2, <1>3, WithinLayers DEF Explored
  <1>6. Layered
    BY <1>2, <1>3, EmptyWalk DEF Layered
  <1>7. Answered
    <2>1. <<>> \in Seq(Nat)
      OBVIOUS
    <2>2. answer # None => pc = "done" /\ answer = <<>> /\ goal = Start
      BY <1>1
    <2>3. pc = "done" => answer = <<>> /\ answer # None
      BY <1>1, <2>1, PathAssumption
    <2> QED
      BY <1>1, <2>2, <2>3, EmptyWalk DEF Answered, PathShortest
  <1> QED
    BY <1>4, <1>5, <1>6, <1>7 DEF Inv

LEMMA FoundStep ==
    ASSUME Inv, Found
    PROVE  Inv'
  <1> DEFINE h == Head(queue)
             i == InOrder(ToGoal(h.state))[1]
  <1>1. /\ pc = "search" /\ queue # <<>> /\ ToGoal(h.state) # {}
        /\ answer' = Append(h.path, i) /\ pc' = "done"
        /\ edges' = edges /\ goal' = goal /\ queue' = queue /\ visited' = visited
    BY DEF Found, Completed
  <1>2. edges \in Seq(Edge)
    BY DEF Inv, TypeOK, Edge
  <1>3. /\ h = queue[1] /\ 1 \in DOMAIN queue /\ h.path \in Seq(DOMAIN edges)
        /\ Depth = Len(h.path) /\ Depth \in Nat
    BY <1>1, HeadFacts DEF Inv, Depth
  <1>4. i \in DOMAIN edges /\ edges[i].from = h.state /\ edges[i].to = goal
    BY <1>1, GoalEdge DEF Inv, Out
  <1>5. IsWalk(h.path, h.state)
    BY <1>3 DEF Inv, Layered
  <1> HIDE DEF h, i
  <1>6. Append(h.path, i) \in Seq(DOMAIN edges) /\ IsWalk(Append(h.path, i), goal)
    BY <1>2, <1>3, <1>4, <1>5, LongerWalk
  <1>7. Len(Append(h.path, i)) - 1 = Depth /\ Append(h.path, i) # <<>>
    BY <1>3
  <1>8. goal \notin Within[Depth]
    BY <1>1 DEF Inv, Explored, Answered, Depth
  <1>9. Within' = Within /\ \A p, s : IsWalk(p, s)' <=> IsWalk(p, s)
    BY <1>1, SameGraph
  <1>10. TypeOK'
    BY <1>1, <1>6 DEF Inv, TypeOK
  <1>11. Explored'
    BY <1>1, <1>9 DEF Inv, Explored, Queued, Out
  <1>12. Layered'
    BY <1>1, <1>9 DEF Inv, Layered, Depth
  <1>13. Answered'
    <2>1. answer' # None
      <3>1. answer' \in Seq(Nat)
        BY <1>1, <1>2, <1>6, EdgeFacts
      <3> QED
        BY <3>1, PathAssumption
    <2>2. IsWalk(answer', goal')
      BY <1>1, <1>6
    <2>3. goal' \notin Within'[Len(answer') - 1]
      BY <1>1, <1>7, <1>8, <1>9
    <2> QED
      BY <1>1, <1>9, <2>1, <2>2, <2>3 DEF Answered, PathShortest
  <1> QED
    BY <1>10, <1>11, <1>12, <1>13 DEF Inv

\* When the queue is empty nothing more can be reached, in however many steps.
LEMMA NothingBeyond ==
    ASSUME TypeOK, Explored, queue = <<>>
    PROVE  \A n \in Nat : Within[n] \subseteq visited
  <1> DEFINE T == {n \in Nat : Within[n] \subseteq visited}
  <1>1. edges \in Seq(Edge)
    BY DEF TypeOK, Edge
  <1>2. 0 \in T
    BY <1>1, WithinLayers DEF Explored
  <1>3. ASSUME NEW n \in T
        PROVE  n + 1 \in T
    <2>1. n \in Nat /\ n + 1 \in Nat /\ Within[n] \subseteq visited
      OBVIOUS
    <2>2. Beyond(Within[n]) \subseteq visited
      <3>1. Queued = {}
        BY DEF Queued
      <3> QED
        BY <2>1, <3>1 DEF Beyond, Explored, Out
    <2>3. Within[n + 1] \subseteq visited
      BY <1>1, <2>1, <2>2, WithinLayers
    <2> QED
      BY <2>1, <2>3
  <1>4. T = Nat
    <2>1. T \in SUBSET Nat
      OBVIOUS
    <2> HIDE DEF T
    <2> QED
      BY <1>2, <1>3, <2>1, AllNumbers
  <1> QED
    BY <1>4

LEMMA NotFoundStep ==
    ASSUME Inv, NotFound
    PROVE  Inv'
  <1>1. /\ pc = "search" /\ queue = <<>> /\ pc' = "done" /\ edges' = edges /\ goal' = goal
        /\ queue' = queue /\ visited' = visited /\ answer' = answer
    BY DEF NotFound
  <1>2. /\ Within' = Within /\ \A p, s : IsWalk(p, s)' <=> IsWalk(p, s)
        /\ \A R : Closed(R)' <=> Closed(R)
    BY <1>1, SameGraph
  <1>3. \A n \in Nat : goal \notin Within[n]
    BY <1>1, NothingBeyond DEF Inv, Explored, Answered
  <1>4. Closed(visited) /\ visited \in SUBSET State /\ Start \in visited /\ goal \notin visited
    <2>1. Queued = {}
      BY <1>1 DEF Queued
    <2>2. Closed(visited)
      BY <2>1 DEF Inv, Explored, Closed, Out
    <2> QED
      BY <1>1, <2>2 DEF Inv, TypeOK, Explored, Answered
  <1>5. TypeOK'
    BY <1>1 DEF Inv, TypeOK
  <1>6. Explored'
    BY <1>1, <1>2 DEF Inv, Explored, Queued, Out
  <1>7. Layered'
    BY <1>1 DEF Layered
  <1>8. Answered'
    <2>1. \E R \in SUBSET State : Closed(R)' /\ Start \in R /\ goal' \notin R
      BY <1>1, <1>2, <1>4, Zenon
    <2>2. answer' = None
      BY <1>1 DEF Inv, Answered
    <2>3. PathShortest'
      BY <2>1, <2>2 DEF PathShortest
    <2> QED
      BY <1>1, <1>2, <1>3, <2>3 DEF Answered
  <1> QED
    BY <1>5, <1>6, <1>7, <1>8 DEF Inv

\* The queue after an expansion: the old entries one place nearer, then the new.
LEMMA QueueAfter ==
    ASSUME TypeOK, queue # <<>>, NEW new \in Seq(Item)
    PROVE  LET q == Tail(queue) \o new
               L == Len(queue) - 1 IN
           /\ q \in Seq(Item) /\ L \in Nat /\ DOMAIN q = 1 .. Len(q)
           /\ \A k \in DOMAIN q :
                 \/ k \in 1 .. L /\ k + 1 \in DOMAIN queue /\ q[k] = queue[k + 1]
                 \/ k \notin 1 .. L /\ k - L \in DOMAIN new /\ q[k] = new[k - L]
           /\ \A k \in DOMAIN queue : k # 1 => k - 1 \in DOMAIN q /\ q[k - 1] = queue[k]
           /\ \A k \in DOMAIN new : k + L \in DOMAIN q /\ q[k + L] = new[k]
  <1> DEFINE t == Tail(queue)
             q == t \o new
             L == Len(queue) - 1
  <1>1. queue \in Seq(Item)
    BY DEF TypeOK, Item
  <1>2. /\ t \in Seq(Item) /\ Len(t) = L /\ L \in Nat /\ DOMAIN queue = 1 .. L + 1
        /\ \A k \in 1 .. L : t[k] = queue[k + 1]
    BY <1>1
  <1> HIDE DEF t, L
  <1>3. /\ q \in Seq(Item) /\ Len(q) = L + Len(new) /\ DOMAIN q = 1 .. L + Len(new)
        /\ Len(new) \in Nat /\ DOMAIN new = 1 .. Len(new)
        /\ \A k \in 1 .. L + Len(new) : q[k] = IF k <= L THEN t[k] ELSE new[k - L]
    <2>1. Len(new) \in Nat /\ DOMAIN new = 1 .. Len(new)
      OBVIOUS
    <2>2. t \in Seq(Item)
      BY <1>2
    <2>3. /\ q \in Seq(Item) /\ Len(q) = Len(t) + Len(new)
          /\ \A k \in 1 .. Len(t) + Len(new) :
                q[k] = IF k <= Len(t) THEN t[k] ELSE new[k - Len(t)]
      BY <2>2, ConcatProperties
    <2> QED
      BY <1>2, <2>1, <2>2, <2>3
  <1> HIDE DEF q
  <1>4. ASSUME NEW k \in DOMAIN q
        PROVE  \/ k \in 1 .. L /\ k + 1 \in DOMAIN queue /\ q[k] = queue[k + 1]
               \/ k \notin 1 .. L /\ k - L \in DOMAIN new /\ q[k] = new[k - L]
    BY <1>2, <1>3
  <1>5. ASSUME NEW k \in DOMAIN queue, k # 1
        PROVE  k - 1 \in DOMAIN q /\ q[k - 1] = queue[k]
    <2>1. k - 1 \in 1 .. L /\ (k - 1) + 1 = k
      BY <1>2, <1>5
    <2> QED
      BY <1>2, <1>3, <2>1
  <1>6. ASSUME NEW k \in DOMAIN new
        PROVE  k + L \in DOMAIN q /\ q[k + L] = new[k]
    <2>1. k + L \in 1 .. L + Len(new) /\ ~ (k + L <= L) /\ (k + L) - L = k
      BY <1>2, <1>3
    <2> QED
      BY <1>3, <2>1
  <1> QED
    BY <1>2, <1>3, <1>4, <1>5, <1>6 DEF q, t, L

LEMMA ExpandStep ==
    ASSUME Inv, Expand
    PROVE  Inv'
  <1> DEFINE h == Head(queue)
             d == Len(h.path)
             new == Discovered(h)
             L == Len(queue) - 1
  <1>1. /\ pc = "search" /\ queue # <<>> /\ ToGoal(h.state) = {}
        /\ queue' = Tail(queue) \o new
        /\ visited' = visited \cup {edges[i].to : i \in Out(h.state)}
        /\ edges' = edges /\ goal' = goal /\ pc' = pc /\ answer' = answer
    BY DEF Expand, Enqueue, Rest
  <1>2. TypeOK /\ Explored /\ Layered /\ edges \in Seq(Edge)
    BY DEF Inv, TypeOK, Edge
  <1>3. /\ h = queue[1] /\ 1 \in DOMAIN queue /\ DOMAIN queue = 1 .. Len(queue)
        /\ h.state \in State /\ h.path \in Seq(DOMAIN edges) /\ d = Depth /\ d \in Nat
        /\ \A k \in DOMAIN queue : Len(queue[k].path) \in Nat
    BY <1>1, <1>2, HeadFacts DEF Depth
  <1>4. h \in Item
    <2>1. queue \in Seq(Item)
      BY <1>2 DEF TypeOK, Item
    <2> QED
      BY <1>1, <2>1
  <1>5. /\ new \in Seq(Item)
        /\ \A k \in DOMAIN new : \E i \in Out(h.state) :
              /\ new[k].state = edges[i].to /\ edges[i].to \notin visited
              /\ new[k].path = Append(h.path, i)
        /\ \A i \in Out(h.state) : edges[i].to \notin visited =>
              \E k \in DOMAIN new : new[k].state = edges[i].to
    BY <1>2, <1>4, DiscoveredFacts
  <1>6. IsWalk(h.path, h.state)
    BY <1>2, <1>3 DEF Layered
  <1>7. \A i \in Out(h.state) : i \in DOMAIN edges /\ edges[i].from = h.state
                                /\ edges[i].to \in State /\ edges[i].to # goal
    BY <1>1, <1>2, EdgeFacts DEF Out, ToGoal
  <1>8. Within[d] \subseteq visited
    BY <1>1, <1>2 DEF Explored
  <1> HIDE DEF h, new, d, L
  <1>9. /\ queue' \in Seq(Item) /\ L \in Nat /\ DOMAIN queue' = 1 .. Len(queue')
        /\ \A k \in DOMAIN queue' :
              \/ k \in 1 .. L /\ k + 1 \in DOMAIN queue /\ queue'[k] = queue[k + 1]
              \/ k \notin 1 .. L /\ k - L \in DOMAIN new /\ queue'[k] = new[k - L]
        /\ \A k \in DOMAIN queue : k # 1 =>
              k - 1 \in DOMAIN queue' /\ queue'[k - 1] = queue[k]
        /\ \A k \in DOMAIN new : k + L \in DOMAIN queue' /\ queue'[k + L] = new[k]
    BY <1>1, <1>2, <1>5, QueueAfter DEF L
  <1>10. /\ Within' = Within /\ \A p, s : IsWalk(p, s)' <=> IsWalk(p, s)
         /\ \A s : Out(s)' = Out(s)
    BY <1>1, SameGraph
  \* The new entries are of the next layer.
  <1>11. ASSUME NEW k \in DOMAIN new
         PROVE  /\ new[k].state \notin visited /\ new[k].state \in visited'
                /\ IsWalk(new[k].path, new[k].state) /\ Len(new[k].path) = d + 1
    <2>1. PICK i \in Out(h.state) :
             /\ new[k].state = edges[i].to /\ edges[i].to \notin visited
             /\ new[k].path = Append(h.path, i)
      BY <1>5
    <2>2. IsWalk(new[k].path, new[k].state)
      BY <1>2, <1>3, <1>6, <1>7, <2>1, LongerWalk
    <2>3. Len(new[k].path) = d + 1
      BY <1>3, <2>1 DEF d
    <2> QED
      BY <1>1, <2>1, <2>2, <2>3
  <1>12. ASSUME NEW k \in DOMAIN queue
         PROVE  /\ IsWalk(queue[k].path, queue[k].state)
                /\ Len(queue[k].path) \in {d, d + 1}
                /\ queue[k].path # <<>> => queue[k].state \notin Within[Len(queue[k].path) - 1]
    BY <1>2, <1>3, <1>12 DEF Layered
  \* Every entry of the new queue is a walk of one of the two lengths.
  <1>13. ASSUME NEW k \in DOMAIN queue'
         PROVE  /\ IsWalk(queue'[k].path, queue'[k].state)
                /\ Len(queue'[k].path) \in {d, d + 1}
                /\ queue'[k].path # <<>> => queue'[k].state \notin Within[Len(queue'[k].path) - 1]
                /\ queue'[k].state \in visited'
    <2>1. CASE k \in 1 .. L /\ k + 1 \in DOMAIN queue /\ queue'[k] = queue[k + 1]
      <3>1. queue[k + 1].state \in visited
        BY <1>2, <2>1 DEF Explored, Queued
      <3> QED
        BY <1>1, <1>12, <2>1, <3>1
    <2>2. CASE k - L \in DOMAIN new /\ queue'[k] = new[k - L]
      <3>1. (d + 1) - 1 = d
        BY <1>3
      <3> QED
        BY <1>8, <1>11, <2>2, <3>1
    <2> QED
      BY <1>9, <2>1, <2>2
  <1>14. ASSUME NEW j \in DOMAIN queue', NEW k \in DOMAIN queue', j < k
         PROVE  Len(queue'[j].path) <= Len(queue'[k].path)
    <2>1. CASE k \in 1 .. L
      <3>1. j \in 1 .. L /\ j + 1 < k + 1
        BY <1>9, <1>14, <2>1
      <3>2. /\ j + 1 \in DOMAIN queue /\ queue'[j] = queue[j + 1]
            /\ k + 1 \in DOMAIN queue /\ queue'[k] = queue[k + 1]
        BY <1>9, <2>1, <3>1
      <3> QED
        BY <1>2, <3>1, <3>2 DEF Layered
    <2>2. CASE k \notin 1 .. L
      <3>1. Len(queue'[k].path) = d + 1
        BY <1>9, <1>11, <2>2
      <3>2. Len(queue'[j].path) \in {d, d + 1}
        BY <1>13
      <3> QED
        BY <1>3, <3>1, <3>2
    <2> QED
      BY <2>1, <2>2
  <1>15. TypeOK'
    BY <1>1, <1>2, <1>7, <1>9 DEF TypeOK, Item
  \* What has left the queue has been expanded.
  <1>16. ASSUME NEW s \in visited' \ Queued', NEW i \in Out(s)
         PROVE  edges[i].to \in visited'
    <2>1. \A k \in DOMAIN queue' : queue'[k].state # s
      BY <1>16 DEF Queued
    <2>2. CASE s = h.state
      BY <1>1, <1>16, <2>2
    <2>3. CASE s # h.state
      <3>1. s \in visited
        <4> SUFFICES ASSUME s \notin visited
                     PROVE  FALSE
          OBVIOUS
        <4>1. PICK e \in Out(h.state) : s = edges[e].to
          BY <1>1, <1>16
        <4>2. PICK k \in DOMAIN new : new[k].state = s
          BY <1>5, <4>1
        <4> QED
          BY <1>9, <2>1, <4>2
      <3>2. \A k \in DOMAIN queue : queue[k].state # s
        BY <1>3, <1>9, <2>1, <2>3
      <3>3. s \notin Queued
        BY <3>2 DEF Queued
      <3> QED
        BY <1>1, <1>2, <1>16, <3>1, <3>3 DEF Explored
    <2> QED
      BY <2>2, <2>3
  <1>17. ASSUME queue' # <<>>
         PROVE  /\ 1 \in DOMAIN queue' /\ Head(queue') = queue'[1]
                /\ Depth' = Len(queue'[1].path)
    <2>1. 1 \in DOMAIN queue' /\ Head(queue') = queue'[1]
      BY <1>9, <1>17
    <2> QED
      BY <2>1 DEF Depth
  <1>18. Layered'
    <2> SUFFICES ASSUME queue' # <<>>
                 PROVE  Layered'
      BY DEF Layered
    <2>1. ASSUME NEW k \in DOMAIN queue'
          PROVE  Len(queue'[k].path) \in {Depth', Depth' + 1}
      <3>1. Depth' \in {d, d + 1} /\ Len(queue'[k].path) \in {d, d + 1}
        BY <1>13, <1>17
      <3>2. Depth' <= Len(queue'[k].path)
        <4>1. CASE k = 1
          BY <1>3, <1>17, <3>1, <4>1
        <4>2. CASE k # 1
          <5>1. 1 < k
            BY <1>9, <4>2
          <5> QED
            BY <1>14, <1>17, <5>1
        <4> QED
          BY <4>1, <4>2
      <3>3. CASE Depth' = d
        BY <3>1, <3>3
      <3>4. CASE Depth' = d + 1
        <4>1. Len(queue'[k].path) # d
          BY <1>3, <3>2, <3>4
        <4> QED
          BY <3>1, <3>4, <4>1
      <3> QED
        BY <3>1, <3>3, <3>4
    <2> QED
      BY <1>10, <1>13, <1>14, <2>1 DEF Layered
  <1>19. Explored'
    <2>1. Start \in visited' /\ Queued' \subseteq visited'
      BY <1>1, <1>2, <1>13 DEF Explored, Queued
    <2>2. goal' \in visited' => goal' = Start
      BY <1>1, <1>2, <1>7 DEF Explored
    <2>3. \A s \in visited' \ Queued' : \A i \in Out(s)' : edges'[i].to \in visited'
      BY <1>1, <1>10, <1>16
    <2>4. ASSUME queue' # <<>>
          PROVE  Within[Depth'] \subseteq visited'
      <3>1. Depth' \in {d, d + 1}
        BY <1>13, <1>17, <2>4
      <3>2. CASE Depth' = d
        BY <1>1, <1>8, <3>2
      <3>3. CASE Depth' = d + 1 /\ Depth' # d
        <4>1. ASSUME NEW s \in Beyond(Within[d])
              PROVE  s \in visited'
          <5>1. PICK i \in DOMAIN edges : edges[i].from \in Within[d] /\ s = edges[i].to
            BY <4>1 DEF Beyond
          <5>2. edges[i].from \notin Queued'
            <6> SUFFICES ASSUME NEW k \in DOMAIN queue', queue'[k].state = edges[i].from
                         PROVE  FALSE
              BY DEF Queued
            <6>1. Len(queue'[k].path) = d + 1
              <7>1. Len(queue'[k].path) \in {Depth', Depth' + 1}
                BY <1>18, <2>4 DEF Layered
              <7> QED
                BY <1>3, <1>13, <3>3, <7>1
            <6>2. queue'[k].path # <<>> /\ Len(queue'[k].path) - 1 = d
              BY <1>3, <6>1
            <6> QED
              BY <1>13, <5>1, <6>2
          <5>3. edges[i].from \in visited' /\ i \in Out(edges[i].from)
            BY <1>1, <1>8, <5>1 DEF Out
          <5> QED
            BY <1>16, <5>1, <5>2, <5>3
        <4>2. Within[d + 1] = Within[d] \cup Beyond(Within[d])
          BY <1>2, <1>3, WithinLayers
        <4> QED
          BY <1>1, <1>8, <3>3, <4>1, <4>2
      <3> QED
        BY <3>1, <3>2, <3>3
    <2> QED
      BY <1>10, <1>17, <2>1, <2>2, <2>3, <2>4 DEF Explored, Depth
  <1>20. Answered'
    BY <1>1 DEF Inv, Answered, PathShortest
  <1> QED
    BY <1>15, <1>18, <1>19, <1>20 DEF Inv

LEMMA InvNext == Inv /\ [Next]_vars => Inv'
  <1> SUFFICES ASSUME Inv, [Next]_vars
               PROVE  Inv'
    OBVIOUS
  <1>1. CASE Found
    BY <1>1, FoundStep
  <1>2. CASE Expand
    BY <1>2, ExpandStep
  <1>3. CASE NotFound
    BY <1>3, NotFoundStep
  <1>4. CASE UNCHANGED vars
    <2>1. /\ edges' = edges /\ goal' = goal /\ queue' = queue /\ visited' = visited
          /\ pc' = pc /\ answer' = answer
      BY <1>4 DEF vars
    <2>2. /\ Within' = Within /\ \A p, s : IsWalk(p, s)' <=> IsWalk(p, s)
          /\ \A s : Out(s)' = Out(s)
          /\ \A R : Closed(R)' <=> Closed(R)
      BY <2>1, SameGraph
    <2>3. TypeOK' /\ Explored'
      BY <2>1, <2>2 DEF Inv, TypeOK, Explored, Queued
    <2>4. Layered' /\ Answered'
      BY <2>1, <2>2 DEF Inv, Layered, Depth, Answered, PathShortest
    <2> QED
      BY <2>3, <2>4 DEF Inv
  <1> QED
    BY <1>1, <1>2, <1>3, <1>4 DEF Next

LEMMA InvAlways == Spec => []Inv
  BY SearchInit, InvNext, PTL DEF Spec

\* The queue and the answer are made of states and of edges of the graph.
THEOREM PathTypeCorrect == Spec => []TypeOK
  <1>1. Inv => TypeOK
    BY DEF Inv
  <1> QED
    BY <1>1, InvAlways, PTL

\* The loop invariant: what left the queue was expanded, and everything that is
\* at most as far as the head of the queue has been visited.
THEOREM ExploredCorrect == Spec => []Explored
  <1>1. Inv => Explored
    BY DEF Inv
  <1> QED
    BY <1>1, InvAlways, PTL

\* The queue is ordered by length, and what it holds are shortest walks.
THEOREM QueueInOrderCorrect == Spec => []QueueInOrder
  <1>1. Inv => QueueInOrder
    <2> SUFFICES ASSUME Inv
                 PROVE  QueueInOrder
      OBVIOUS
    <2>1. \A k \in DOMAIN queue :
             /\ IsWalk(queue[k].path, queue[k].state)
             /\ queue[k].path # <<>> => queue[k].state \notin Within[Len(queue[k].path) - 1]
      BY DEF Inv, Layered
    <2>2. ASSUME NEW k \in DOMAIN queue, k > 1
          PROVE  Len(queue[k].path) - Len(queue[k - 1].path) \in 0 .. 1
      <3>1. queue # <<>> /\ TypeOK
        BY <2>2 DEF Inv
      <3>2. Depth \in Nat /\ k - 1 \in DOMAIN queue /\ k - 1 < k
        BY <2>2, <3>1, HeadFacts
      <3>3. /\ Len(queue[k].path) \in {Depth, Depth + 1}
            /\ Len(queue[k - 1].path) \in {Depth, Depth + 1}
            /\ Len(queue[k - 1].path) <= Len(queue[k].path)
        BY <3>2 DEF Inv, Layered
      <3> QED
        BY <3>2, <3>3
    <2> QED
      BY <2>1, <2>2 DEF QueueInOrder
  <1> QED
    BY <1>1, InvAlways, PTL

\* "Finds the shortest path ... Returns None if unreachable".
THEOREM PathShortestCorrect == Spec => []PathShortest
  <1>1. Inv => PathShortest
    BY DEF Inv, Answered
  <1> QED
    BY <1>1, InvAlways, PTL

\* The same without layers: the answer is a walk to the goal, no walk to the goal
\* has fewer edges, and the answer is None only if no walk leads to the goal.
ShortestWalk ==
    pc = "done" =>
        IF answer = None THEN \A p \in Seq(DOMAIN edges) : ~ IsWalk(p, goal)
        ELSE /\ IsWalk(answer, goal)
             /\ \A p \in Seq(DOMAIN edges) : IsWalk(p, goal) => Len(answer) <= Len(p)

\* Within[n] is what walks of at most n edges lead to, so no walk undercuts a path
\* whose length Within certifies.
THEOREM ShortestWalkCorrect == Spec => []ShortestWalk
  <1>1. Inv => ShortestWalk
    <2> SUFFICES ASSUME Inv, pc = "done"
                 PROVE  ShortestWalk
      BY DEF ShortestWalk
    <2>1. edges \in Seq(Edge) /\ goal \in State /\ answer \in Seq(DOMAIN edges) \cup {None}
      BY DEF Inv, TypeOK, Edge
    <2>2. ASSUME NEW p \in Seq(DOMAIN edges), IsWalk(p, goal), NEW n \in Nat, Len(p) <= n
          PROVE  goal \in Within[n]
      <3>1. goal \in Walked[n]
        BY <2>1, <2>2 DEF Walked
      <3> QED
        BY <2>1, <3>1, WithinWalked
    <2>3. CASE answer = None
      <3>1. ASSUME NEW p \in Seq(DOMAIN edges)
            PROVE  ~ IsWalk(p, goal)
        <4>1. Len(p) \in Nat /\ Len(p) <= Len(p)
          OBVIOUS
        <4>2. goal \notin Within[Len(p)]
          BY <2>3, <4>1 DEF Inv, Answered
        <4> QED
          BY <2>2, <4>1, <4>2
      <3> QED
        BY <2>3, <3>1 DEF ShortestWalk
    <2>4. CASE answer # None
      <3>1. IsWalk(answer, goal) /\ (answer # <<>> => goal \notin Within[Len(answer) - 1])
        BY <2>4 DEF Inv, Answered, PathShortest
      <3>2. ASSUME NEW p \in Seq(DOMAIN edges), IsWalk(p, goal)
            PROVE  Len(answer) <= Len(p)
        <4>1. Len(answer) \in Nat /\ Len(p) \in Nat
          BY <2>1, <2>4
        <4>2. CASE answer = <<>>
          BY <4>1, <4>2
        <4>3. CASE answer # <<>>
          <5>1. Len(answer) - 1 \in Nat
            BY <2>1, <2>4, <4>3
          <5>2. ~ (Len(p) <= Len(answer) - 1)
            BY <2>2, <3>1, <3>2, <4>3, <5>1
          <5> QED
            BY <4>1, <5>2
        <4> QED
          BY <4>2, <4>3
      <3> QED
        BY <2>4, <3>1, <3>2 DEF ShortestWalk
    <2> QED
      BY <2>3, <2>4
  <1> QED
    BY <1>1, InvAlways, PTL

-----------------------------------------------------------------------------
(***************************************************************************)
(* Termination, as far as safety can tell it.                              *)
(***************************************************************************)

\* No state is queued twice.
Distinct == \A j, k \in DOMAIN queue : queue[j].state = queue[k].state => j = k

\* An expansion takes the head out for good: what it queues was not visited, and
\* the entries behind the head are of other states.
LEMMA ExpandOnce ==
    ASSUME Inv, Distinct, Expand
    PROVE  /\ Distinct'
           /\ (visited \ Queued) \cup {Head(queue).state} \subseteq visited' \ Queued'
  <1> DEFINE h == Head(queue)
             new == Discovered(h)
             L == Len(queue) - 1
  <1>1. /\ queue # <<>> /\ queue' = Tail(queue) \o new
        /\ visited' = visited \cup {edges[i].to : i \in Out(h.state)}
    BY DEF Expand, Enqueue, Rest
  <1>2. TypeOK /\ Explored
    BY DEF Inv
  <1>3. h = queue[1] /\ 1 \in DOMAIN queue /\ DOMAIN queue = 1 .. Len(queue)
    BY <1>1, <1>2, HeadFacts
  <1>4. h \in Item
    <2>1. queue \in Seq(Item)
      BY <1>2 DEF TypeOK, Item
    <2> QED
      BY <1>1, <2>1
  <1>5. /\ new \in Seq(Item) /\ \A k \in DOMAIN new : new[k].state \notin visited
        /\ \A j, k \in DOMAIN new : new[j].state = new[k].state => j = k
    BY <1>2, <1>4, DiscoveredFacts
  <1> HIDE DEF h, new, L
  <1>6. /\ L \in Nat /\ DOMAIN queue' = 1 .. Len(queue')
        /\ \A k \in DOMAIN queue' :
              \/ k \in 1 .. L /\ k + 1 \in DOMAIN queue /\ queue'[k] = queue[k + 1]
              \/ k \notin 1 .. L /\ k - L \in DOMAIN new /\ queue'[k] = new[k - L]
    BY <1>1, <1>2, <1>5, QueueAfter DEF L
  <1>7. \A k \in DOMAIN queue : queue[k].state \in visited
    BY <1>2 DEF Explored, Queued
  <1>8. ASSUME NEW j \in DOMAIN queue', NEW k \in DOMAIN queue', queue'[j].state = queue'[k].state
        PROVE  j = k
    <2>0. j \in Nat /\ k \in Nat
      BY <1>6
    <2>1. CASE j \in 1 .. L /\ k \in 1 .. L
      <3>1. queue[j + 1].state = queue[k + 1].state /\ j + 1 \in DOMAIN queue /\ k + 1 \in DOMAIN queue
        BY <1>6, <1>8, <2>1
      <3>2. j + 1 = k + 1
        BY <3>1 DEF Distinct
      <3> QED
        BY <2>0, <3>2
    <2>2. CASE j \notin 1 .. L /\ k \notin 1 .. L
      <3>1. new[j - L].state = new[k - L].state /\ j - L \in DOMAIN new /\ k - L \in DOMAIN new
        BY <1>6, <1>8, <2>2
      <3>2. j - L = k - L
        BY <1>5, <3>1
      <3> QED
        BY <1>6, <2>0, <3>2
    <2>3. ASSUME NEW m \in DOMAIN queue', m \in 1 .. L
          PROVE  queue'[m].state \in visited
      BY <1>6, <1>7, <2>3
    <2>4. ASSUME NEW m \in DOMAIN queue', m \notin 1 .. L
          PROVE  queue'[m].state \notin visited
      BY <1>5, <1>6, <2>4
    <2> QED
      BY <1>8, <2>1, <2>2, <2>3, <2>4
  <1>9. ASSUME NEW s \in (visited \ Queued) \cup {h.state}
        PROVE  s \in visited' \ Queued'
    <2>1. s \in visited /\ s \in visited'
      BY <1>1, <1>3, <1>7
    <2>2. ASSUME NEW k \in DOMAIN queue', queue'[k].state = s
          PROVE  FALSE
      <3>1. CASE k \in 1 .. L /\ k + 1 \in DOMAIN queue /\ queue'[k] = queue[k + 1]
        <4>1. s \in Queued
          BY <2>2, <3>1 DEF Queued
        <4>2. queue[k + 1].state = queue[1].state
          BY <1>3, <1>9, <2>2, <3>1, <4>1
        <4>3. k + 1 = 1
          BY <1>3, <3>1, <4>2 DEF Distinct
        <4> QED
          BY <1>6, <3>1, <4>3
      <3>2. CASE k - L \in DOMAIN new /\ queue'[k] = new[k - L]
        BY <1>5, <2>1, <2>2, <3>2
      <3> QED
        BY <1>6, <3>1, <3>2
    <2> QED
      BY <2>1, <2>2 DEF Queued
  <1> QED
    BY <1>8, <1>9 DEF Distinct, h

LEMMA DistinctAlways == Spec => [](Inv /\ Distinct)
  <1>1. Init => Inv /\ Distinct
    <2>1. Init => Distinct
      BY DEF Init, Distinct
    <2> QED
      BY <2>1, SearchInit
  <1>2. Inv /\ Distinct /\ [Next]_vars => (Inv /\ Distinct)'
    <2> SUFFICES ASSUME Inv, Distinct, [Next]_vars
                 PROVE  Distinct'
      BY InvNext
    <2>1. CASE Expand
      BY <2>1, ExpandOnce
    <2>2. CASE queue' = queue
      BY <2>2 DEF Distinct
    <2> QED
      BY <2>1, <2>2 DEF Next, Found, NotFound, vars
  <1> QED
    BY <1>1, <1>2, PTL DEF Spec

\* No state is expanded twice: the search needs at most as many iterations as
\* there are states, whatever cycles the graph has.
THEOREM ProgressCorrect == Spec => Progress
  <1>1. Inv /\ Distinct /\ [Next]_vars =>
          [pc' = "search" =>
             (visited \ Queued) \cup {Head(queue).state} \subseteq visited' \ Queued']_vars
    <2> SUFFICES ASSUME Inv, Distinct, Next, pc' = "search"
                 PROVE  (visited \ Queued) \cup {Head(queue).state} \subseteq visited' \ Queued'
      OBVIOUS
    <2>1. Expand
      BY DEF Next, Found, NotFound
    <2> QED
      BY <2>1, ExpandOnce
  <1> QED
    BY <1>1, DistinctAlways, PTL DEF Spec, Progress

=============================================================================
