--------------------------- MODULE BoundedHistory ---------------------------
(***************************************************************************)
(* BoundedHistory of finitomata/src/state.rs: the visits of an FSM, with   *)
(* consecutive visits of one state collapsed into one entry and the oldest *)
(* entry evicted at max_size.  FsmState::new pushes the initial state and  *)
(* transition_to every target, so any sequence of states may be pushed.    *)
(***************************************************************************)
EXTENDS Integers, Sequences, FiniteSets

CONSTANTS
    State,     \* the states that may be visited
    MaxSize,   \* BoundedHistory.max_size; FsmState::new asks for 32
    MaxVisits  \* bound: visits of a behaviour

ASSUME HistoryAssumption == MaxSize \in Nat /\ MaxVisits \in Nat

VARIABLES
    entries,  \* BoundedHistory.entries
    visits    \* history variable: every state pushed so far

vars == <<entries, visits>>

Entry == [state : State, count : Nat \ {0}]

Init == entries = <<>> /\ visits = <<>>

-----------------------------------------------------------------------------

IsRepeat(h, s) == h # <<>> /\ h[Len(h)].state = s

Full(h) == Len(h) >= MaxSize

EvictNewest(h) == IF h = <<>> THEN h ELSE SubSeq(h, 1, Len(h) - 1)  \* pop_back

\* VecDeque::pop_front, which does nothing to an empty deque.
Evict(h) == IF h = <<>> THEN h ELSE Tail(h)

PushUncounted(h, s) ==  \* a new entry counts from 0
    IF IsRepeat(h, s)
      THEN [h EXCEPT ![Len(h)] = [state |-> s, count |-> h[Len(h)].count + 1]]
      ELSE Append(IF Full(h) THEN Evict(h) ELSE h, [state |-> s, count |-> 0])

Push(h, s) ==
    IF IsRepeat(h, s)
      THEN [h EXCEPT ![Len(h)] = [state |-> s, count |-> h[Len(h)].count + 1]]
      ELSE Append(IF Full(h) THEN Evict(h) ELSE h, [state |-> s, count |-> 1])

Visit(s) ==
    /\ Len(visits) < MaxVisits
    /\ entries' = Push(entries, s)
    /\ visits' = Append(visits, s)

Next == \E s \in State : Visit(s)

Spec == Init /\ [][Next]_vars

-----------------------------------------------------------------------------

\* Entries are states with a positive count.
TypeOK == entries \in Seq(Entry) /\ visits \in Seq(State)

\* The history never outgrows max_size ("evicting the oldest if full").  The
\* code tests before it appends, so a max_size of 0 still leaves one entry.
Bounded == Len(entries) <= MaxSize

\* Two neighbouring entries are of different states, also after an eviction
\* ("collapses consecutive repeats").
NoRepeats ==
    \A i \in 1 .. Len(entries) - 1 : entries[i].state # entries[i + 1].state

\* The runs of the visits, by the positions they begin at.
Starts == {i \in DOMAIN visits : i = 1 \/ visits[i] # visits[i - 1]}
NthStart(n) == CHOOSE b \in Starts : Cardinality({a \in Starts : a <= b}) = n
RunLength(b) ==
    LET later == {a \in Starts : a > b} IN
    IF later = {} THEN Len(visits) + 1 - b
    ELSE (CHOOSE a \in later : \A c \in later : a <= c) - b

\* What is remembered is exactly the last max_size runs of the visits, each
\* with its length: eviction loses the oldest run and nothing else.
RemembersLastRuns ==
    LET runs == Cardinality(Starts)
        kept == IF runs < MaxSize THEN runs ELSE MaxSize
    IN  /\ Len(entries) = kept
        /\ \A k \in 1 .. kept :
             LET b == NthStart(runs - kept + k) IN
             entries[k] = [state |-> visits[b], count |-> RunLength(b)]

=============================================================================
