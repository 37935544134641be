------------------------ MODULE BoundedHistory_proofs -----------------------
(***************************************************************************)
(* The history of every FSM, for every set of states and every max_size:   *)
(* type, size, the absence of repeats, and what exactly is remembered.     *)
(***************************************************************************)
EXTENDS BoundedHistory, FiniteSetTheorems, TLAPS

\* An eviction keeps a history a history, of one entry less unless empty.
LEMMA EvictFacts ==
    ASSUME NEW h \in Seq(Entry)
    PROVE  /\ Evict(h) \in Seq(Entry)
           /\ h # <<>> => Len(Evict(h)) = Len(h) - 1
           /\ h # <<>> => \A i \in 1 .. Len(h) - 1 : Evict(h)[i] = h[i + 1]
           /\ h = <<>> => Evict(h) = <<>>
  BY DEF Evict

\* The entry a repeated visit leaves: one more of the same state.
LEMMA RepeatEntry ==
    ASSUME NEW h \in Seq(Entry), NEW s \in State, IsRepeat(h, s)
    PROVE  /\ Len(h) \in DOMAIN h
           /\ [state |-> s, count |-> h[Len(h)].count + 1] \in Entry
  <1>1. Len(h) \in 1 .. Len(h)
    BY DEF IsRepeat
  <1>2. h[Len(h)] \in Entry
    BY <1>1
  <1> QED
    BY <1>1, <1>2 DEF Entry

\* push keeps a history well-typed.
LEMMA PushType ==
    ASSUME NEW h \in Seq(Entry), NEW s \in State
    PROVE  Push(h, s) \in Seq(Entry)
  <1>1. CASE IsRepeat(h, s)
    BY <1>1, RepeatEntry DEF Push
  <1>2. CASE ~ IsRepeat(h, s)
    <2>1. [state |-> s, count |-> 1] \in Entry
      BY DEF Entry
    <2> QED
      BY <1>2, <2>1, EvictFacts DEF Push
  <1> QED
    BY <1>1, <1>2

\* push does not outgrow max_size, if an entry is wanted at all.
LEMMA PushBounded ==
    ASSUME NEW h \in Seq(Entry), NEW s \in State,
           MaxSize \in Nat \ {0}, Len(h) <= MaxSize
    PROVE  Len(Push(h, s)) <= MaxSize
  <1>1. CASE IsRepeat(h, s)
    <2>1. Len([h EXCEPT ![Len(h)] = [state |-> s, count |-> h[Len(h)].count + 1]])
             = Len(h)
      OBVIOUS
    <2> QED
      BY <1>1, <2>1 DEF Push
  <1>2. CASE ~ IsRepeat(h, s)
    <2>1. Len(Push(h, s)) = Len(IF Full(h) THEN Evict(h) ELSE h) + 1
      BY <1>2, EvictFacts DEF Push
    <2>2. CASE Full(h)
      <3>1. h # <<>>
        BY <2>2 DEF Full
      <3> QED
        BY <2>1, <2>2, <3>1, EvictFacts DEF Full
    <2>3. CASE ~ Full(h)
      BY <2>1, <2>3 DEF Full
    <2> QED
      BY <2>2, <2>3
  <1> QED
    BY <1>1, <1>2

\* Neighbouring entries differ; NoRepeats is NeighboursDiffer(entries).
NeighboursDiffer(h) == \A i \in 1 .. Len(h) - 1 : h[i].state # h[i + 1].state

\* An eviction brings no equal neighbours together, and keeps the newest.
LEMMA EvictKeepsDifferent ==
    ASSUME NEW h \in Seq(Entry), h # <<>>, NeighboursDiffer(h)
    PROVE  /\ NeighboursDiffer(Evict(h))
           /\ Evict(h) # <<>> => Evict(h)[Len(Evict(h))] = h[Len(h)]
  <1>1. /\ Evict(h) \in Seq(Entry) /\ Len(Evict(h)) = Len(h) - 1
        /\ \A i \in 1 .. Len(h) - 1 : Evict(h)[i] = h[i + 1]
    BY EvictFacts
  <1>2. Len(h) \in Nat
    OBVIOUS
  <1>3. ASSUME NEW i \in 1 .. Len(Evict(h)) - 1
        PROVE  Evict(h)[i].state # Evict(h)[i + 1].state
    <2>1. i \in 1 .. Len(h) - 1 /\ i + 1 \in 1 .. Len(h) - 1
      BY <1>1, <1>2
    <2>2. Evict(h)[i] = h[i + 1] /\ Evict(h)[i + 1] = h[(i + 1) + 1]
      BY <1>1, <2>1
    <2> QED
      BY <2>1, <2>2 DEF NeighboursDiffer
  <1>4. Evict(h) # <<>> => Evict(h)[Len(Evict(h))] = h[Len(h)]
    <2> SUFFICES ASSUME Evict(h) # <<>>
                 PROVE  Evict(h)[Len(Evict(h))] = h[Len(h)]
      OBVIOUS
    <2>1. Len(h) - 1 \in 1 .. Len(h) - 1
      BY <1>1, <1>2
    <2> QED
      BY <1>1, <1>2, <2>1
  <1> QED
    BY <1>3, <1>4 DEF NeighboursDiffer

\* A new entry differs from the newest one before it.
LEMMA AppendKeepsDifferent ==
    ASSUME NEW h \in Seq(Entry), NEW e \in Entry, NeighboursDiffer(h),
           h # <<>> => h[Len(h)].state # e.state
    PROVE  NeighboursDiffer(Append(h, e))
  <1>1. Len(Append(h, e)) = Len(h) + 1 /\ Len(h) \in Nat
    OBVIOUS
  <1>2. ASSUME NEW i \in 1 .. Len(Append(h, e)) - 1
        PROVE  Append(h, e)[i].state # Append(h, e)[i + 1].state
    <2>1. CASE i = Len(h)
      <3>1. h # <<>> /\ Append(h, e)[i] = h[Len(h)] /\ Append(h, e)[i + 1] = e
        BY <1>1, <2>1
      <3> QED
        BY <3>1
    <2>2. CASE i # Len(h)
      <3>1. i \in 1 .. Len(h) - 1 /\ i + 1 \in 1 .. Len(h)
        BY <1>1, <2>2
      <3>2. Append(h, e)[i] = h[i] /\ Append(h, e)[i + 1] = h[i + 1]
        BY <3>1
      <3> QED
        BY <3>1, <3>2 DEF NeighboursDiffer
    <2> QED
      BY <2>1, <2>2
  <1> QED
    BY <1>2 DEF NeighboursDiffer

\* push never puts two entries of one state side by side.
LEMMA PushNoRepeats ==
    ASSUME NEW h \in Seq(Entry), NEW s \in State, NeighboursDiffer(h)
    PROVE  NeighboursDiffer(Push(h, s))
  <1>1. CASE IsRepeat(h, s)
    <2> DEFINE x == [state |-> s, count |-> h[Len(h)].count + 1]
               g == [h EXCEPT ![Len(h)] = x]
    <2>1. Push(h, s) = g
      BY <1>1 DEF Push
    <2>2. x.state = s /\ h[Len(h)].state = s
      BY <1>1 DEF IsRepeat
    <2>3. Len(g) = Len(h) /\ \A i \in 1 .. Len(h) : g[i].state = h[i].state
      <3> HIDE DEF x
      <3> QED
        BY <2>2
    <2> HIDE DEF g
    <2> QED
      BY <2>1, <2>3 DEF NeighboursDiffer
  <1>2. CASE ~ IsRepeat(h, s)
    <2> DEFINE e == [state |-> s, count |-> 1]
               g == IF Full(h) THEN Evict(h) ELSE h
    <2>1. Push(h, s) = Append(g, e)
      BY <1>2 DEF Push
    <2>2. e \in Entry /\ e.state = s
      BY DEF Entry
    <2>3. g \in Seq(Entry) /\ NeighboursDiffer(g)
      BY EvictFacts, EvictKeepsDifferent
    <2>4. g # <<>> => h # <<>> /\ g[Len(g)] = h[Len(h)]
      BY EvictFacts, EvictKeepsDifferent
    <2>5. g # <<>> => g[Len(g)].state # s
      BY <1>2, <2>4 DEF IsRepeat
    <2> HIDE DEF g, e
    <2> QED
      BY <2>1, <2>2, <2>3, <2>5, AppendKeepsDifferent
  <1> QED
    BY <1>1, <1>2

\* The type invariant: entries are states with a positive count.
THEOREM HistoryTypeCorrect == Spec => []TypeOK
  <1>1. Init => TypeOK
    BY DEF Init, TypeOK
  <1>2. ASSUME TypeOK, [Next]_vars
        PROVE  TypeOK'
    <2>1. ASSUME NEW s \in State, Visit(s)
          PROVE  TypeOK'
      <3>1. entries' \in Seq(Entry)
        BY <1>2, <2>1, PushType DEF TypeOK, Visit
      <3>2. visits' \in Seq(State)
        BY <1>2, <2>1 DEF TypeOK, Visit
      <3> QED
        BY <3>1, <3>2 DEF TypeOK
    <2>2. CASE UNCHANGED vars
      BY <1>2, <2>2 DEF TypeOK, vars
    <2> QED
      BY <1>2, <2>1, <2>2 DEF Next
  <1> QED
    BY <1>1, <1>2, PTL DEF Spec

\* Two neighbouring entries are of different states, also after evictions.
THEOREM NoRepeatsCorrect == Spec => []NoRepeats
  <1>1. Init => NoRepeats
    BY DEF Init, NoRepeats
  <1>2. ASSUME TypeOK, NoRepeats, [Next]_vars
        PROVE  NoRepeats'
    <2>1. ASSUME NEW s \in State, Visit(s)
          PROVE  NoRepeats'
      <3>1. NeighboursDiffer(Push(entries, s))
        BY <1>2, PushNoRepeats DEF TypeOK, NoRepeats, NeighboursDiffer
      <3> QED
        BY <2>1, <3>1 DEF Visit, NoRepeats, NeighboursDiffer
    <2>2. CASE UNCHANGED vars
      BY <1>2, <2>2 DEF NoRepeats, vars
    <2> QED
      BY <1>2, <2>1, <2>2 DEF Next
  <1> QED
    BY <1>1, <1>2, HistoryTypeCorrect, PTL DEF Spec

\* The history never outgrows a max_size of at least one; FsmState::new asks
\* for 32.
THEOREM BoundedCorrect ==
    ASSUME MaxSize # 0
    PROVE  Spec => []Bounded
  <1>1. Init => Bounded
    BY HistoryAssumption DEF Init, Bounded
  <1>2. ASSUME TypeOK, Bounded, [Next]_vars
        PROVE  Bounded'
    <2>1. ASSUME NEW s \in State, Visit(s)
          PROVE  Bounded'
      <3>1. Len(Push(entries, s)) <= MaxSize
        BY <1>2, PushBounded, HistoryAssumption DEF TypeOK, Bounded
      <3> QED
        BY <2>1, <3>1 DEF Visit, Bounded
    <2>2. CASE UNCHANGED vars
      BY <1>2, <2>2 DEF Bounded, vars
    <2> QED
      BY <1>2, <2>1, <2>2 DEF Next
  <1> QED
    BY <1>1, <1>2, HistoryTypeCorrect, PTL DEF Spec

-----------------------------------------------------------------------------
(***************************************************************************)
(* What is remembered: the runs of any sequence v of visits.               *)
(***************************************************************************)

StartsOf(v) == {i \in DOMAIN v : i = 1 \/ v[i] # v[i - 1]}
UpTo(v, b) == {a \in StartsOf(v) : a <= b}
Later(v, b) == {a \in StartsOf(v) : a > b}
Runs(v) == Cardinality(StartsOf(v))
Rank(v, b) == Cardinality(UpTo(v, b))
Nth(v, n) == CHOOSE b \in StartsOf(v) : Rank(v, b) = n
First(S) == CHOOSE a \in S : \A c \in S : a <= c
RunOf(v, b) == IF Later(v, b) = {} THEN Len(v) + 1 - b ELSE First(Later(v, b)) - b

\* Every rank is taken, and after a run there is a next one or none.
Ranked(v) ==
    /\ \A n \in 1 .. Runs(v) : \E b \in StartsOf(v) : Rank(v, b) = n
    /\ \A b \in StartsOf(v) : Later(v, b) # {} =>
          \E a \in Later(v, b) : \A c \in Later(v, b) : a <= c

\* The first of a set of positions is its only least member.
LEMMA FirstFact ==
    ASSUME NEW S, NEW a \in S, \A c \in S : c \in Int, \A c \in S : a <= c
    PROVE  First(S) = a
  <1>1. First(S) \in S /\ \A c \in S : First(S) <= c
    BY DEF First
  <1>2. First(S) <= a /\ a <= First(S)
    BY <1>1
  <1>3. First(S) \in Int /\ a \in Int
    BY <1>1
  <1> HIDE DEF First
  <1> QED
    BY <1>2, <1>3

LEMMA StartsFinite ==
    ASSUME NEW v \in Seq(State)
    PROVE  /\ StartsOf(v) \subseteq 1 .. Len(v) /\ Len(v) \in Nat
           /\ IsFiniteSet(StartsOf(v)) /\ Runs(v) \in Nat
  <1>1. StartsOf(v) \in SUBSET (1 .. Len(v)) /\ Len(v) \in Nat
    BY DEF StartsOf
  <1>2. IsFiniteSet(1 .. Len(v))
    BY <1>1, FS_Interval
  <1>3. IsFiniteSet(StartsOf(v))
    BY <1>1, <1>2, FS_Subset
  <1> QED
    BY <1>1, <1>3, FS_CardinalityType DEF Runs

LEMMA RankFacts ==
    ASSUME NEW v \in Seq(State), NEW b \in StartsOf(v)
    PROVE  /\ IsFiniteSet(UpTo(v, b)) /\ Rank(v, b) \in 1 .. Runs(v)
           /\ Rank(v, b) = Runs(v) => Later(v, b) = {}
  <1>1. StartsOf(v) \subseteq Int /\ IsFiniteSet(StartsOf(v)) /\ Runs(v) \in Nat
    BY StartsFinite
  <1>2. UpTo(v, b) \in SUBSET StartsOf(v) /\ b \in UpTo(v, b)
    BY <1>1 DEF UpTo
  <1>3. /\ IsFiniteSet(UpTo(v, b)) /\ Rank(v, b) <= Runs(v)
        /\ Runs(v) = Rank(v, b) => StartsOf(v) = UpTo(v, b)
    BY <1>1, <1>2, FS_Subset DEF Rank, Runs
  <1>4. Rank(v, b) \in Nat /\ Rank(v, b) # 0
    BY <1>2, <1>3, FS_CardinalityType, FS_EmptySet DEF Rank
  <1>5. StartsOf(v) = UpTo(v, b) => Later(v, b) = {}
    BY <1>1 DEF UpTo, Later
  <1> QED
    BY <1>1, <1>3, <1>4, <1>5

LEMMA RankMonotone ==
    ASSUME NEW v \in Seq(State), NEW a \in StartsOf(v), NEW b \in StartsOf(v), a < b
    PROVE  Rank(v, a) < Rank(v, b)
  <1>1. StartsOf(v) \subseteq Int
    BY StartsFinite
  <1>2. UpTo(v, a) \in SUBSET UpTo(v, b) /\ b \in UpTo(v, b) /\ b \notin UpTo(v, a)
    BY <1>1 DEF UpTo
  <1>3. IsFiniteSet(UpTo(v, b)) /\ Rank(v, b) \in Nat /\ Rank(v, a) \in Nat
    BY RankFacts, StartsFinite
  <1>4. Rank(v, a) <= Rank(v, b) /\ Rank(v, a) # Rank(v, b)
    BY <1>2, <1>3, FS_Subset DEF Rank
  <1> QED
    BY <1>3, <1>4

\* The n-th start is the one of rank n.
LEMMA NthFacts ==
    ASSUME NEW v \in Seq(State), Ranked(v), NEW n \in 1 .. Runs(v)
    PROVE  /\ Nth(v, n) \in StartsOf(v) /\ Rank(v, Nth(v, n)) = n
           /\ \A b \in StartsOf(v) : Rank(v, b) = n => b = Nth(v, n)
           /\ Later(v, Nth(v, n)) = {} <=> n = Runs(v)
  <1>1. \E b \in StartsOf(v) : Rank(v, b) = n
    BY DEF Ranked
  <1>2. Nth(v, n) \in StartsOf(v) /\ Rank(v, Nth(v, n)) = n
    BY <1>1 DEF Nth
  <1>3. StartsOf(v) \subseteq Int /\ Runs(v) \in Nat
    BY StartsFinite
  <1>4. ASSUME NEW b \in StartsOf(v), Rank(v, b) = n
        PROVE  b = Nth(v, n)
    <2>1. ~ (b < Nth(v, n)) /\ ~ (Nth(v, n) < b)
      BY <1>2, <1>4, RankMonotone
    <2> QED
      BY <1>2, <1>3, <2>1
  <1>5. n = Runs(v) => Later(v, Nth(v, n)) = {}
    BY <1>2, RankFacts
  <1>6. ASSUME n # Runs(v)
        PROVE  Later(v, Nth(v, n)) # {}
    <2>1. n + 1 \in 1 .. Runs(v)
      BY <1>3, <1>6
    <2>2. PICK c \in StartsOf(v) : Rank(v, c) = n + 1
      BY <2>1 DEF Ranked
    <2>3. ~ (c < Nth(v, n)) /\ c # Nth(v, n)
      BY <1>2, <2>2, RankMonotone
    <2>4. c > Nth(v, n)
      BY <1>2, <1>3, <2>3
    <2> QED
      BY <2>4 DEF Later
  <1> QED
    BY <1>2, <1>4, <1>5, <1>6

\* A visit of the same state extends the last run.
LEMMA SameRun ==
    ASSUME NEW v \in Seq(State), NEW s \in State, Ranked(v), v # <<>>, v[Len(v)] = s
    PROVE  LET w == Append(v, s) IN
           /\ Ranked(w) /\ Runs(w) = Runs(v)
           /\ \A n \in 1 .. Runs(v) :
                 /\ Nth(w, n) = Nth(v, n)
                 /\ w[Nth(v, n)] = v[Nth(v, n)]
                 /\ RunOf(w, Nth(v, n)) =
                       IF n = Runs(v) THEN RunOf(v, Nth(v, n)) + 1 ELSE RunOf(v, Nth(v, n))
  <1> DEFINE w == Append(v, s)
             L == Len(v)
  <1>1. /\ w \in Seq(State) /\ Len(w) = L + 1 /\ L \in Nat /\ L # 0
        /\ w[L + 1] = s /\ \A i \in 1 .. L : w[i] = v[i]
        /\ DOMAIN w = 1 .. L + 1 /\ DOMAIN v = 1 .. L
    OBVIOUS
  <1>2. v[L] = s
    OBVIOUS
  <1> HIDE DEF w, L
  <1>3. StartsOf(w) = StartsOf(v)
    <2>1. ASSUME NEW i \in 1 .. L
          PROVE  (i = 1 \/ w[i] # w[i - 1]) <=> (i = 1 \/ v[i] # v[i - 1])
      BY <1>1
    <2>2. ~ (L + 1 = 1 \/ w[L + 1] # w[(L + 1) - 1])
      BY <1>1, <1>2
    <2> QED
      BY <1>1, <2>1, <2>2 DEF StartsOf
  <1>4. \A b : UpTo(w, b) = UpTo(v, b) /\ Later(w, b) = Later(v, b) /\ Rank(w, b) = Rank(v, b)
    BY <1>3 DEF UpTo, Later, Rank
  <1>5. Runs(w) = Runs(v) /\ Ranked(w)
    BY <1>3, <1>4 DEF Runs, Ranked
  <1>6. ASSUME NEW n \in 1 .. Runs(v)
        PROVE  /\ Nth(w, n) = Nth(v, n)
               /\ w[Nth(v, n)] = v[Nth(v, n)]
               /\ RunOf(w, Nth(v, n)) =
                     IF n = Runs(v) THEN RunOf(v, Nth(v, n)) + 1 ELSE RunOf(v, Nth(v, n))
    <2>1. Nth(w, n) = Nth(v, n)
      BY <1>3, <1>4 DEF Nth
    <2>2. /\ Nth(v, n) \in StartsOf(v) /\ StartsOf(v) \subseteq 1 .. Len(v)
          /\ Later(v, Nth(v, n)) = {} <=> n = Runs(v)
      BY NthFacts, StartsFinite
    <2>3. RunOf(w, Nth(v, n)) =
             IF n = Runs(v) THEN RunOf(v, Nth(v, n)) + 1 ELSE RunOf(v, Nth(v, n))
      <3>1. CASE n = Runs(v)
        BY <1>1, <1>4, <2>2, <3>1 DEF RunOf, L
      <3>2. CASE n # Runs(v)
        BY <1>4, <2>2, <3>2 DEF RunOf
      <3> QED
        BY <3>1, <3>2
    <2> QED
      BY <1>1, <2>1, <2>2, <2>3 DEF L
  <1> QED
    BY <1>5, <1>6 DEF w

\* A visit of another state begins a run.
LEMMA NewRun ==
    ASSUME NEW v \in Seq(State), NEW s \in State, Ranked(v), v = <<>> \/ v[Len(v)] # s
    PROVE  LET w == Append(v, s) IN
           /\ Ranked(w) /\ Runs(w) = Runs(v) + 1
           /\ \A n \in 1 .. Runs(v) :
                 /\ Nth(w, n) = Nth(v, n)
                 /\ w[Nth(v, n)] = v[Nth(v, n)]
                 /\ RunOf(w, Nth(v, n)) = RunOf(v, Nth(v, n))
           /\ LET b == Nth(w, Runs(v) + 1) IN w[b] = s /\ RunOf(w, b) = 1
  <1> DEFINE w == Append(v, s)
             L == Len(v)
             S == StartsOf(v)
  <1>1. /\ w \in Seq(State) /\ Len(w) = L + 1 /\ L \in Nat
        /\ w[L + 1] = s /\ \A i \in 1 .. L : w[i] = v[i]
        /\ DOMAIN w = 1 .. L + 1 /\ DOMAIN v = 1 .. L
    OBVIOUS
  <1>2. L = 0 \/ v[L] # s
    OBVIOUS
  <1>a. S \subseteq 1 .. L /\ IsFiniteSet(S) /\ Runs(v) \in Nat
    BY StartsFinite
  <1> HIDE DEF w, L
  <1>3. StartsOf(w) = S \cup {L + 1}
    <2>1. ASSUME NEW i \in 1 .. L
          PROVE  (i = 1 \/ w[i] # w[i - 1]) <=> (i = 1 \/ v[i] # v[i - 1])
      BY <1>1
    <2>2. L + 1 = 1 \/ w[L + 1] # w[(L + 1) - 1]
      BY <1>1, <1>2
    <2> QED
      BY <1>1, <2>1, <2>2 DEF StartsOf
  <1> HIDE DEF S
  <1>b. L + 1 \notin S /\ \A c \in S : c \in Nat /\ c <= L
    BY <1>1, <1>a
  <1>4. Runs(w) = Runs(v) + 1
    <2>1. Cardinality(S \cup {L + 1}) = Cardinality(S) + 1
      BY <1>a, <1>b, FS_AddElement
    <2> QED
      BY <1>3, <2>1 DEF Runs, S
  <1>5. ASSUME NEW b \in S
        PROVE  /\ UpTo(w, b) = UpTo(v, b) /\ Rank(w, b) = Rank(v, b)
               /\ Later(w, b) = Later(v, b) \cup {L + 1}
    <2>1. UpTo(w, b) = UpTo(v, b)
      BY <1>1, <1>3, <1>5, <1>a DEF UpTo, S
    <2>2. Later(w, b) = Later(v, b) \cup {L + 1}
      BY <1>1, <1>3, <1>5, <1>a DEF Later, S
    <2> QED
      BY <2>1, <2>2 DEF Rank
  <1>6. UpTo(w, L + 1) = StartsOf(w) /\ Later(w, L + 1) = {} /\ Rank(w, L + 1) = Runs(v) + 1
    <2>1. UpTo(w, L + 1) = StartsOf(w) /\ Later(w, L + 1) = {}
      BY <1>1, <1>3, <1>b DEF UpTo, Later
    <2> QED
      BY <1>4, <2>1 DEF Rank, Runs
  <1>7. ASSUME NEW b \in S
        PROVE  /\ First(Later(w, b)) \in Later(w, b)
               /\ \A c \in Later(w, b) : First(Later(w, b)) <= c
               /\ RunOf(w, b) = RunOf(v, b)
    <2>1. Later(v, b) \subseteq 1 .. L
      BY <1>a DEF Later, S
    <2>2. CASE Later(v, b) = {}
      <3>1. Later(w, b) = {L + 1}
        BY <1>5, <1>7, <2>2
      <3>2. First({L + 1}) = L + 1
        BY <1>1 DEF First
      <3>3. RunOf(v, b) = L + (1 - b)
        BY <2>2 DEF RunOf, L
      <3>4. L + 1 \in Nat
        BY <1>1
      <3>5. First(Later(w, b)) = L + 1
        BY <3>1, <3>2
      <3>6. \A c \in Later(w, b) : c = L + 1 /\ L + 1 <= c
        BY <3>1, <3>4
      <3>7. L + 1 \in Later(w, b)
        BY <3>1
      <3>8. RunOf(w, b) = RunOf(v, b)
        BY <1>1, <1>b, <3>1, <3>3, <3>5 DEF RunOf
      <3> QED
        BY <3>5, <3>6, <3>7, <3>8
    <2>3. CASE Later(v, b) # {}
      <3> DEFINE D == Later(v, b)
                 E == Later(w, b)
      <3>1. PICK a \in D : \A c \in D : a <= c
        BY <1>7, <2>3 DEF Ranked, S
      <3>2. E = D \cup {L + 1} /\ D \subseteq 1 .. L
        BY <1>5, <1>7, <2>1
      <3> HIDE DEF D, E
      <3>3. \A c \in E : c \in Int
        BY <1>1, <3>2
      <3>4. a \in E /\ \A c \in E : a <= c
        BY <1>1, <3>1, <3>2
      <3>5. First(D) = a /\ First(E) = a
        BY <3>1, <3>2, <3>3, <3>4, FirstFact
      <3> QED
        BY <2>3, <3>4, <3>5 DEF RunOf, D, E
    <2> QED
      BY <2>2, <2>3
  <1>8. Ranked(w)
    <2>1. ASSUME NEW n \in 1 .. Runs(w)
          PROVE  \E b \in StartsOf(w) : Rank(w, b) = n
      <3>1. CASE n = Runs(w)
        BY <1>3, <1>4, <1>6, <3>1
      <3>2. CASE n # Runs(w)
        <4>1. n \in 1 .. Runs(v)
          BY <1>4, <1>a, <3>2
        <4>2. PICK b \in S : Rank(v, b) = n
          BY <4>1 DEF Ranked, S
        <4> QED
          BY <1>3, <1>5, <4>2
      <3> QED
        BY <3>1, <3>2
    <2>2. ASSUME NEW b \in StartsOf(w), Later(w, b) # {}
          PROVE  \E a \in Later(w, b) : \A c \in Later(w, b) : a <= c
      <3>1. b \in S
        BY <1>3, <1>6, <2>2
      <3> QED
        BY <1>7, <3>1
    <2> QED
      BY <2>1, <2>2 DEF Ranked
  <1>9. ASSUME NEW n \in 1 .. Runs(v)
        PROVE  /\ Nth(w, n) = Nth(v, n)
               /\ w[Nth(v, n)] = v[Nth(v, n)]
               /\ RunOf(w, Nth(v, n)) = RunOf(v, Nth(v, n))
    <2>1. Nth(v, n) \in S /\ Rank(v, Nth(v, n)) = n
      BY NthFacts DEF S
    <2>2. n \in 1 .. Runs(w) /\ Nth(v, n) \in StartsOf(w) /\ Rank(w, Nth(v, n)) = n
      <3>1. n \in 1 .. Runs(w)
        BY <1>4, <1>a
      <3> QED
        BY <1>3, <1>5, <2>1, <3>1
    <2>3. Nth(w, n) = Nth(v, n)
      BY <1>1, <1>8, <2>2, NthFacts
    <2> QED
      BY <1>1, <1>7, <1>a, <2>1, <2>3
  <1>10. Nth(w, Runs(v) + 1) = L + 1
    <2>1. Runs(v) + 1 \in 1 .. Runs(w) /\ L + 1 \in StartsOf(w)
      BY <1>3, <1>4, <1>a
    <2> QED
      BY <1>1, <1>6, <1>8, <2>1, NthFacts
  <1>11. RunOf(w, L + 1) = 1
    BY <1>1, <1>6 DEF RunOf
  <1> QED
    BY <1>1, <1>4, <1>8, <1>9, <1>10, <1>11 DEF w

\* RemembersLastRuns for any history and any visits, with the newest entry.
Remembers(h, v) ==
    LET kept == IF Runs(v) < MaxSize THEN Runs(v) ELSE MaxSize
    IN  /\ Len(h) = kept
        /\ \A k \in 1 .. kept :
             LET b == Nth(v, Runs(v) - kept + k) IN
             h[k] = [state |-> v[b], count |-> RunOf(v, b)]
        /\ v # <<>> => h # <<>> /\ h[Len(h)].state = v[Len(v)]

\* Before the first visit nothing has run.
LEMMA NoRuns == StartsOf(<<>>) = {} /\ Runs(<<>>) = 0 /\ Ranked(<<>>)
  <1>1. StartsOf(<<>>) = {}
    BY DEF StartsOf
  <1>2. Runs(<<>>) = 0
    BY <1>1, FS_EmptySet DEF Runs
  <1> QED
    BY <1>1, <1>2 DEF Ranked

\* A repeated visit lengthens the newest entry, as it lengthens the last run.
LEMMA PushRepeat ==
    ASSUME MaxSize \in Nat \ {0}, NEW h \in Seq(Entry), NEW v \in Seq(State),
           NEW s \in State, Ranked(v), Remembers(h, v), v # <<>>, v[Len(v)] = s
    PROVE  Ranked(Append(v, s)) /\ Remembers(Push(h, s), Append(v, s))
  <1> DEFINE w == Append(v, s)
             x == [state |-> s, count |-> h[Len(h)].count + 1]
             g == Push(h, s)
             R == Runs(v)
             kept == IF R < MaxSize THEN R ELSE MaxSize
  <1>1. h # <<>> /\ h[Len(h)].state = s /\ IsRepeat(h, s)
    BY DEF Remembers, IsRepeat
  <1>2. /\ Len(g) = Len(h) /\ Len(h) \in Nat \ {0} /\ g[Len(h)] = x
        /\ \A i \in 1 .. Len(h) : i # Len(h) => g[i] = h[i]
    BY <1>1 DEF Push
  <1>3. Len(h) = kept /\ R \in Nat
    BY StartsFinite DEF Remembers
  <1>4. \A k \in 1 .. kept :
           h[k] = [state |-> v[Nth(v, R - kept + k)], count |-> RunOf(v, Nth(v, R - kept + k))]
    BY DEF Remembers
  <1>5. /\ Ranked(w) /\ Runs(w) = R
        /\ \A n \in 1 .. R :
              /\ Nth(w, n) = Nth(v, n)
              /\ w[Nth(v, n)] = v[Nth(v, n)]
              /\ RunOf(w, Nth(v, n)) =
                    IF n = R THEN RunOf(v, Nth(v, n)) + 1 ELSE RunOf(v, Nth(v, n))
    BY SameRun
  <1>6. w # <<>> /\ w[Len(w)] = s
    OBVIOUS
  <1>7. g # <<>> /\ g[Len(g)].state = s
    BY <1>2
  <1> HIDE DEF w, g, R
  <1>8. ASSUME NEW k \in 1 .. kept
        PROVE  g[k] = [state |-> w[Nth(w, R - kept + k)], count |-> RunOf(w, Nth(w, R - kept + k))]
    <2> DEFINE n == R - kept + k
    <2>1. n \in 1 .. R /\ (n = R <=> k = kept) /\ kept \in Nat
      BY <1>3
    <2> HIDE DEF n
    <2>2. Nth(w, n) = Nth(v, n) /\ w[Nth(v, n)] = v[Nth(v, n)]
      BY <1>5, <2>1
    <2>3. h[k] = [state |-> v[Nth(v, n)], count |-> RunOf(v, Nth(v, n))]
      BY <1>4 DEF n
    <2>4. CASE k = kept
      <3>1. RunOf(w, Nth(v, n)) = RunOf(v, Nth(v, n)) + 1
        BY <1>5, <2>1, <2>4
      <3>2. h[k].state = s /\ g[k] = [state |-> s, count |-> h[k].count + 1]
        BY <1>1, <1>2, <1>3, <2>4
      <3> QED
        BY <2>2, <2>3, <3>1, <3>2 DEF n
    <2>5. CASE k # kept
      <3>1. RunOf(w, Nth(v, n)) = RunOf(v, Nth(v, n))
        BY <1>5, <2>1, <2>5
      <3>2. g[k] = h[k]
        BY <1>2, <1>3, <2>5
      <3> QED
        BY <2>2, <2>3, <3>1, <3>2 DEF n
    <2> QED
      BY <2>4, <2>5
  <1>9. Remembers(g, w)
    <2>1. Len(g) = kept
      BY <1>2, <1>3
    <2> QED
      BY <1>5, <1>6, <1>7, <1>8, <2>1 DEF Remembers
  <1> QED
    BY <1>5, <1>9 DEF w, g

\* A new entry pushes out the oldest exactly if max_size runs are remembered.
LEMMA PushNew ==
    ASSUME MaxSize \in Nat \ {0}, NEW h \in Seq(Entry), NEW v \in Seq(State),
           NEW s \in State, Ranked(v), Remembers(h, v), v = <<>> \/ v[Len(v)] # s
    PROVE  Ranked(Append(v, s)) /\ Remembers(Push(h, s), Append(v, s))
  <1> DEFINE w == Append(v, s)
             e == [state |-> s, count |-> 1]
             f == IF Full(h) THEN Evict(h) ELSE h
             g == Push(h, s)
             R == Runs(v)
             kept == IF R < MaxSize THEN R ELSE MaxSize
             kept1 == IF R + 1 < MaxSize THEN R + 1 ELSE MaxSize
  <1>1. Len(h) = kept /\ R \in Nat /\ Len(h) \in Nat
    BY StartsFinite DEF Remembers
  <1>2. ~ IsRepeat(h, s)
    <2>1. CASE v = <<>>
      BY <1>1, <2>1, NoRuns DEF IsRepeat
    <2>2. CASE v # <<>>
      BY <2>2 DEF Remembers, IsRepeat
    <2> QED
      BY <2>1, <2>2
  <1>3. f \in Seq(Entry) /\ g = Append(f, e) /\ e \in Entry
    <2>1. e \in Entry
      BY DEF Entry
    <2>2. f \in Seq(Entry)
      BY EvictFacts
    <2>3. g = Append(f, e)
      <3> HIDE DEF f
      <3> QED
        BY <1>2 DEF Push, f
    <2> QED
      BY <2>1, <2>2, <2>3
  <1>4. /\ Len(f) = kept1 - 1
        /\ \A k \in 1 .. kept1 - 1 : f[k] = h[k + (kept - (kept1 - 1))]
    <2>1. CASE R < MaxSize
      BY <1>1, <2>1 DEF Full
    <2>2. CASE ~ (R < MaxSize)
      <3>1. Full(h) /\ h # <<>> /\ Len(h) = MaxSize
        BY <1>1, <2>2 DEF Full
      <3>2. f = Evict(h) /\ kept = MaxSize /\ kept1 = MaxSize
        BY <1>1, <2>2, <3>1
      <3>3. /\ Len(Evict(h)) = Len(h) - 1
            /\ \A i \in 1 .. Len(h) - 1 : Evict(h)[i] = h[i + 1]
        BY <3>1, EvictFacts
      <3> HIDE DEF f, kept, kept1
      <3>4. \A k \in 1 .. kept1 - 1 : k + (kept - (kept1 - 1)) = k + 1
        BY <3>2
      <3> QED
        BY <3>1, <3>2, <3>3, <3>4
    <2> QED
      BY <2>1, <2>2
  <1>5. \A k \in 1 .. kept :
           h[k] = [state |-> v[Nth(v, R - kept + k)], count |-> RunOf(v, Nth(v, R - kept + k))]
    BY DEF Remembers
  <1>6. /\ Ranked(w) /\ Runs(w) = R + 1
        /\ \A n \in 1 .. R :
              /\ Nth(w, n) = Nth(v, n)
              /\ w[Nth(v, n)] = v[Nth(v, n)]
              /\ RunOf(w, Nth(v, n)) = RunOf(v, Nth(v, n))
        /\ w[Nth(w, R + 1)] = s /\ RunOf(w, Nth(w, R + 1)) = 1
    BY NewRun
  <1> HIDE DEF f, R, e, g
  <1>7. w # <<>> /\ w[Len(w)] = s
    <2>1. Len(w) = Len(v) + 1 /\ w[Len(v) + 1] = s /\ Len(v) \in Nat
      OBVIOUS
    <2> HIDE DEF w
    <2> QED
      BY <2>1
  <1> HIDE DEF w
  <1>8. /\ Len(g) = kept1 /\ g[kept1] = e /\ g # <<>> /\ g[Len(g)].state = s
        /\ \A k \in 1 .. kept1 - 1 : g[k] = f[k]
    <2>0. e.state = s
      BY DEF e
    <2>1. kept1 \in Nat \ {0}
      BY <1>1
    <2> HIDE DEF g, kept1
    <2>2. Len(g) = kept1 /\ g[kept1] = e /\ \A k \in 1 .. kept1 - 1 : g[k] = f[k]
      BY <1>3, <1>4, <2>1
    <2> QED
      BY <2>0, <2>1, <2>2
  <1>9. ASSUME NEW k \in 1 .. kept1
        PROVE  g[k] = [state |-> w[Nth(w, (R + 1) - kept1 + k)],
                       count |-> RunOf(w, Nth(w, (R + 1) - kept1 + k))]
    <2>1. CASE k = kept1
      <3>1. (R + 1) - kept1 + k = R + 1
        BY <1>1, <2>1
      <3> QED
        BY <1>6, <1>8, <2>1, <3>1 DEF e
    <2>2. CASE k # kept1
      <3> DEFINE n == (R + 1) - kept1 + k
                 j == k + (kept - (kept1 - 1))
      <3>1. k \in 1 .. kept1 - 1 /\ n \in 1 .. R /\ j \in 1 .. kept /\ R - kept + j = n
        BY <1>1, <2>2
      <3>2. g[k] = h[j]
        BY <1>4, <1>8, <3>1
      <3> HIDE DEF n, j
      <3>3. h[j] = [state |-> v[Nth(v, n)], count |-> RunOf(v, Nth(v, n))]
        BY <1>5, <3>1
      <3> QED
        BY <1>6, <3>1, <3>2, <3>3 DEF n
    <2> QED
      BY <2>1, <2>2
  <1>10. Remembers(g, w)
    BY <1>6, <1>7, <1>8, <1>9 DEF Remembers
  <1> QED
    BY <1>6, <1>10 DEF w, g


\* What is remembered is exactly the last max_size runs of the visits, each with
\* its length, for every max_size of at least one: an eviction loses the oldest
\* run and nothing else, and a repeated visit is counted in the newest entry.
THEOREM RemembersLastRunsCorrect ==
    ASSUME MaxSize # 0
    PROVE  Spec => []RemembersLastRuns
  <1> DEFINE IInv == Ranked(visits) /\ Remembers(entries, visits)
  <1>0. MaxSize \in Nat \ {0}
    BY HistoryAssumption
  <1>1. Init => IInv
    <2> SUFFICES ASSUME Init
                 PROVE  IInv
      OBVIOUS
    <2>1. entries = <<>> /\ visits = <<>> /\ Len(entries) = 0
      BY DEF Init
    <2> QED
      BY <1>0, <2>1, NoRuns DEF Remembers
  <1>2. ASSUME TypeOK, IInv, [Next]_vars
        PROVE  IInv'
    <2>1. ASSUME NEW s \in State, Visit(s)
          PROVE  IInv'
      <3>1. entries \in Seq(Entry) /\ visits \in Seq(State)
        BY <1>2 DEF TypeOK
      <3>2. Ranked(Append(visits, s)) /\ Remembers(Push(entries, s), Append(visits, s))
        BY <1>0, <1>2, <3>1, PushRepeat, PushNew
      <3>3. entries' = Push(entries, s) /\ visits' = Append(visits, s)
        BY <2>1 DEF Visit
      <3> QED
        BY <3>2, <3>3
    <2>2. CASE UNCHANGED vars
      <3>1. entries' = entries /\ visits' = visits
        BY <2>2 DEF vars
      <3> QED
        BY <1>2, <3>1
    <2> QED
      BY <1>2, <2>1, <2>2 DEF Next
  <1>3. IInv => RemembersLastRuns
    <2>1. Starts = StartsOf(visits)
      BY DEF Starts, StartsOf
    <2>2. \A n : NthStart(n) = Nth(visits, n)
      BY <2>1 DEF NthStart, Nth, Rank, UpTo
    <2>3. \A b : RunLength(b) = RunOf(visits, b)
      BY <2>1 DEF RunLength, RunOf, First, Later
    <2>4. Cardinality(Starts) = Runs(visits)
      BY <2>1 DEF Runs
    <2> QED
      BY <2>2, <2>3, <2>4 DEF Remembers, RemembersLastRuns
  <1> QED
    BY <1>1, <1>2, <1>3, HistoryTypeCorrect, PTL DEF Spec


=============================================================================
