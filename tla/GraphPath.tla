------------------------------ MODULE GraphPath -----------------------------
(***************************************************************************)
(* TransitionGraph::shortest_path of finitomata/src/transition.rs, one     *)
(* iteration of its loop at a time.  The graph is the list of its edges in *)
(* declaration order, a transition with several targets being as many      *)
(* entries; a path is the sequence of the edges taken, from which the      *)
(* events and states that the code returns are read off.                   *)
(***************************************************************************)
EXTENDS Integers, Sequences, FiniteSets

CONSTANTS
    State,  \* the states of the FSM type
    Edges,  \* the edge lists to search
    Start,  \* the argument `from`
    None    \* Option::None

ASSUME PathAssumption ==
    /\ Edges \subseteq Seq([from : State, to : State])
    /\ Start \in State
    /\ None \notin Seq(Nat)

VARIABLES
    edges,    \* self.transitions, flattened
    goal,     \* the argument `to`
    queue,    \* pairs of a state and the path that led to it
    visited,  \* the states that were queued
    pc,       \* "search" in the loop, "done" when it has returned
    answer    \* the path returned, or None

vars == <<edges, goal, queue, visited, pc, answer>>

Init ==
    /\ edges \in Edges /\ goal \in State
    /\ queue = <<[state |-> Start, path |-> <<>>]>>
    /\ visited = {Start}
    /\ pc = IF goal = Start THEN "done" ELSE "search"
    /\ answer = IF goal = Start THEN <<>> ELSE None

-----------------------------------------------------------------------------

Out(s) == {i \in DOMAIN edges : edges[i].from = s}
ToGoal(s) == {i \in Out(s) : edges[i].to = goal}

MarkedFirst(s) ==  \* inserted into visited before the test
    {i \in Out(s) : edges[i].to \notin visited \cup {edges[j].to : j \in Out(s)}}

MarkedLate(s) ==  \* inserted into visited when all edges have been looked at
    {i \in Out(s) : edges[i].to \notin visited}

\* The edges of s that discover a state: the first of those to one target.
Discovering(s) ==
    {i \in Out(s) : /\ edges[i].to \notin visited
                    /\ \A j \in Out(s) : j < i => edges[j].to # edges[i].to}

\* The positions of I in increasing order: the k-th has k members up to it.
InOrder(I) ==
    [k \in 1 .. Cardinality(I) |->
        CHOOSE i \in I : Cardinality({j \in I : j <= i}) = k]

\* The entries queued when the head of the queue is expanded.
Discovered(entry) ==
    LET new == InOrder(Discovering(entry.state)) IN
    [k \in DOMAIN new |-> [state |-> edges[new[k]].to,
                           path |-> Append(entry.path, new[k])]]

PushFront(rest, new) == new \o rest  \* depth first

Peek(q) == q  \* the head is not removed

\* VecDeque::pop_front
Rest(q) == Tail(q)

\* VecDeque::push_back of every new entry.
Enqueue(rest, new) == rest \o new

LastEdgeLost(entry, i) == entry.path  \* the edge to the goal is not pushed

Completed(entry, i) == Append(entry.path, i)

\* An edge to the goal ends the search, wherever it stands in the list.
Found ==
    /\ pc = "search" /\ queue # <<>>
    /\ ToGoal(Head(queue).state) # {}
    /\ answer' = Completed(Head(queue), InOrder(ToGoal(Head(queue).state))[1])
    /\ pc' = "done"
    /\ UNCHANGED <<edges, goal, queue, visited>>

Expand ==
    /\ pc = "search" /\ queue # <<>>
    /\ ToGoal(Head(queue).state) = {}
    /\ queue' = Enqueue(Rest(queue), Discovered(Head(queue)))
    /\ visited' = visited \cup {edges[i].to : i \in Out(Head(queue).state)}
    /\ UNCHANGED <<edges, goal, pc, answer>>

NotFound ==
    /\ pc = "search" /\ queue = <<>>
    /\ pc' = "done"
    /\ UNCHANGED <<edges, goal, queue, visited, answer>>

Next == Found \/ Expand \/ NotFound

Spec == Init /\ [][Next]_vars
FairSpec == Spec /\ WF_vars(Next)

-----------------------------------------------------------------------------

\* The states within n steps of Start.
Within[n \in Nat] ==
    IF n = 0 THEN {Start}
    ELSE Within[n - 1] \cup {edges[i].to : i \in {j \in DOMAIN edges :
                                              edges[j].from \in Within[n - 1]}}

Queued == {queue[k].state : k \in DOMAIN queue}

\* p leads from Start to s along edges of the graph.
IsWalk(p, s) ==
    /\ \A k \in DOMAIN p : p[k] \in DOMAIN edges
    /\ \A k \in DOMAIN p :
          edges[p[k]].from = IF k = 1 THEN Start ELSE edges[p[k - 1]].to
    /\ s = IF p = <<>> THEN Start ELSE edges[p[Len(p)]].to

\* Queued entries and the answer are made of states and of edges of the graph.
TypeOK ==
    /\ edges \in Seq([from : State, to : State]) /\ goal \in State
    /\ queue \in Seq([state : State, path : Seq(DOMAIN edges)])
    /\ visited \subseteq State
    /\ pc \in {"search", "done"}
    /\ answer \in Seq(DOMAIN edges) \cup {None}

\* The loop invariant: whatever left the queue has only visited successors, the
\* goal is none of them, and every state that is at most as far as the head of
\* the queue has been visited, so no shorter way to a new state is still to come.
Explored ==
    /\ Start \in visited /\ Queued \subseteq visited
    /\ goal \in visited => goal = Start
    /\ \A s \in visited \ Queued : \A i \in Out(s) : edges[i].to \in visited
    /\ queue # <<>> => Within[Len(Head(queue).path)] \subseteq visited

\* Every queued entry carries a shortest walk to its state, and the queue is
\* ordered by length within one step (the invariant of breadth-first search).
QueueInOrder ==
    /\ \A k \in DOMAIN queue :
          /\ IsWalk(queue[k].path, queue[k].state)
          /\ queue[k].path # <<>> =>
                queue[k].state \notin Within[Len(queue[k].path) - 1]
    /\ \A k \in DOMAIN queue :
          k > 1 => Len(queue[k].path) - Len(queue[k - 1].path) \in 0 .. 1

\* A set of states that no edge leaves.
Closed(R) == \A i \in DOMAIN edges : edges[i].from \in R => edges[i].to \in R

\* "Finds the shortest path ... Returns None if unreachable": the answer is a
\* walk to the goal and no walk is shorter, and after None there is a closed set
\* that has Start and not the goal, so that `validate` would not reach it either.
PathShortest ==
    pc = "done" =>
        IF answer = None
        THEN \E R \in SUBSET State : Closed(R) /\ Start \in R /\ goal \notin R
        ELSE /\ IsWalk(answer, goal)
             /\ answer # <<>> => goal \notin Within[Len(answer) - 1]

\* Every iteration that goes on is done with one more state for good, that of
\* the head: it is queued nowhere else and will not come back, and neither will
\* the states of the iterations before it.  The loop therefore ends after at
\* most as many iterations as there are states.
Progress ==
    [][pc' = "search" =>
          (visited \ Queued) \cup {Head(queue).state} \subseteq visited' \ Queued']_vars

\* shortest_path returns, also when the goal is unreachable and the graph has
\* cycles.
Returns == <>(pc = "done")

=============================================================================
