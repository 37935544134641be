----------------------------- MODULE GraphReach -----------------------------
(***************************************************************************)
(* TransitionGraph::validate of finitomata/src/transition.rs and the       *)
(* search it runs, reachable_from, one iteration of the loop at a time.    *)
(* Events and their kinds play no part: a graph is its initial state, its  *)
(* final states and the pairs <<from, target>> of its transitions.         *)
(***************************************************************************)
EXTENDS FiniteSets

CONSTANTS
    State,   \* the states of the FSM type
    Graphs   \* the graphs validate may be called on

Graph == [initial : State, finals : SUBSET State, edges : SUBSET (State \X State)]

ASSUME GraphsAssumption == Graphs \subseteq Graph

VARIABLES
    graph,    \* self
    queue,    \* reachable_from's queue: <<by, state>> is the copy of state that
              \* was pushed when `by` was expanded
    visited,  \* the states it has expanded
    errors,   \* the errors validate has collected
    pc        \* "search" in the loop, "done" when validate has returned

vars == <<graph, queue, visited, errors, pc>>

Error == [kind : {"NoFinalState"}] \cup [kind : {"UnreachableState"}, state : State]

Successors(s) == {t \in State : <<s, t>> \in graph.edges}

\* all_states: every state the graph mentions.
AllStates == {graph.initial} \cup graph.finals
               \cup {s \in State : \E t \in State : <<s, t>> \in graph.edges
                                                   \/ <<t, s>> \in graph.edges}

\* The copy the queue begins with.
Start == <<graph.initial, graph.initial>>

Init ==
    /\ graph \in Graphs
    /\ queue = {Start} /\ visited = {}
    /\ errors = {}
    /\ pc = "search"

-----------------------------------------------------------------------------

SeenNothing(s) == FALSE  \* visited is not consulted

\* visited.contains, asked of a state that is popped or is to be pushed.
Seen(s) == s \in visited

VisitNothing(s) == visited  \* the insertion is missing

Visit(s) == visited \cup {s}

OpenTargets(s) ==  \* final states are taken for dead ends
    {t \in Successors(s) : t # s /\ ~ Seen(t) /\ s \notin graph.finals}

\* The targets pushed when s is expanded, which has just been visited.
NewTargets(s) == {t \in Successors(s) : t # s /\ ~ Seen(t)}

\* One iteration: a state that waited is expanded, or is skipped because
\* another copy of it has been.  Nothing depends on the order of the queue.
Expand ==
    /\ pc = "search"
    /\ \E e \in queue : LET s == e[2] IN
          /\ ~ Seen(s)
          /\ visited' = Visit(s)
          /\ queue' = (queue \ {e}) \cup ({s} \X NewTargets(s))
    /\ UNCHANGED <<graph, errors, pc>>

Skip ==
    /\ pc = "search"
    /\ \E e \in queue : Seen(e[2]) /\ queue' = queue \ {e}
    /\ UNCHANGED <<graph, visited, errors, pc>>

UnreachedFinals == graph.finals \ visited  \* looks at the final states only

\* The states validate reports.
Unreached == AllStates \ ({graph.initial} \cup visited)

\* The rest of validate, when the search has ended.
Report ==
    /\ pc = "search" /\ queue = {}
    /\ errors' = (IF graph.finals = {} THEN {[kind |-> "NoFinalState"]} ELSE {})
                   \cup {[kind |-> "UnreachableState", state |-> s] : s \in Unreached}
    /\ pc' = "done"
    /\ UNCHANGED <<graph, queue, visited>>

Next == Expand \/ Skip \/ Report

Spec == Init /\ [][Next]_vars
FairSpec == Spec /\ WF_vars(Next)

-----------------------------------------------------------------------------

\* Every variable has its type, and what waits has been pushed by a state that
\* was expanded, along a transition.
TypeOK ==
    /\ graph \in Graphs
    /\ visited \subseteq State
    /\ queue \subseteq {Start} \cup {e \in graph.edges : e[1] \in visited}
    /\ errors \subseteq Error
    /\ pc \in {"search", "done"}

\* The reference: what every set that holds the initial state and is closed
\* under the transitions contains.
Closed(R) == \A s \in R : Successors(s) \subseteq R
Reachable == {s \in State :
                \A R \in SUBSET State : graph.initial \in R /\ Closed(R) => s \in R}

\* The states that wait.
Waiting == {e[2] : e \in queue}

\* The search is between two iterations: all it has seen is reachable, and
\* what it has expanded leads to nothing it has not seen.
Frontier ==
    /\ graph.initial \in visited \cup Waiting
    /\ \A s \in visited : Successors(s) \subseteq visited \cup Waiting
    /\ visited \cup Waiting \subseteq Reachable

\* validate reports exactly the states that cannot be reached and the lack of
\* a final state.
ReportExact ==
    pc = "done" =>
        /\ \A s \in State :
             [kind |-> "UnreachableState", state |-> s] \in errors
               <=> s \in AllStates \ Reachable
        /\ [kind |-> "NoFinalState"] \in errors <=> graph.finals = {}

\* validate returns, whatever cycles the graph has.
Returns == <>(pc = "done")

=============================================================================
