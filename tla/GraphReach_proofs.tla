-------------------------- MODULE GraphReach_proofs -------------------------
(***************************************************************************)
(* What validate reports, for every graph: the loop invariant of the       *)
(* search, and from it that the report is exact.  No finiteness is needed, *)
(* because that the search ends is a property of its own.                  *)
(***************************************************************************)
EXTENDS GraphReach, TLAPS

\* Reachable is closed, holds the initial state, and lies in every such set.
LEMMA ReachableFacts ==
    ASSUME graph.initial \in State
    PROVE  /\ graph.initial \in Reachable
           /\ \A s \in Reachable : Successors(s) \subseteq Reachable
           /\ \A R \in SUBSET State :
                 graph.initial \in R /\ Closed(R) => Reachable \subseteq R
  BY DEF Reachable, Closed, Successors

LEMMA GraphFields ==
    ASSUME graph \in Graphs
    PROVE  graph.initial \in State /\ graph.finals \subseteq State
  BY GraphsAssumption DEF Graph

LEMMA SearchInit == Init => TypeOK /\ Frontier
  <1> SUFFICES ASSUME Init
               PROVE  TypeOK /\ Frontier
    OBVIOUS
  <1>1. graph.initial \in State
    BY GraphFields DEF Init
  <1>2. graph.initial \in Reachable
    BY <1>1, ReachableFacts
  <1>3. Waiting = {graph.initial}
    BY DEF Init, Waiting, Start
  <1> QED
    BY <1>1, <1>2, <1>3 DEF Init, TypeOK, Frontier

\* What waits is known to be reachable.
LEMMA WaitingFacts ==
    ASSUME TypeOK, Frontier, NEW e \in queue
    PROVE  /\ e[2] \in State /\ e[2] \in Reachable /\ e[2] \in Waiting
           /\ Successors(e[2]) \subseteq Reachable /\ Successors(e[2]) \subseteq State
  <1>1. e[2] \in Waiting
    BY DEF Waiting
  <1>2. e[2] \in Reachable
    BY <1>1 DEF Frontier
  <1>3. e[2] \in State
    BY <1>2 DEF Reachable
  <1> QED
    BY <1>1, <1>2, <1>3, GraphFields, ReachableFacts DEF TypeOK, Successors

LEMMA ExpandStep ==
    ASSUME TypeOK, Frontier, Expand
    PROVE  TypeOK' /\ Frontier'
  <1>1. PICK e \in queue : /\ ~ Seen(e[2])
                           /\ visited' = Visit(e[2])
                           /\ queue' = (queue \ {e}) \cup ({e[2]} \X NewTargets(e[2]))
    BY DEF Expand
  <1> DEFINE s == e[2]
  <1>2. graph' = graph /\ errors' = errors /\ pc' = pc /\ visited' = visited \cup {s}
    BY <1>1 DEF Expand, Visit
  <1>3. /\ Reachable' = Reachable /\ \A t : Successors(t)' = Successors(t)
        /\ Start' = Start
    BY <1>2 DEF Reachable, Closed, Successors, Start
  <1>4. /\ s \in State /\ s \in Reachable /\ s \in Waiting
        /\ Successors(s) \subseteq Reachable /\ Successors(s) \subseteq State
    BY <1>1, WaitingFacts
  <1>5. TypeOK'
    <2>1. \A t \in NewTargets(s) : <<s, t>> \in graph.edges
      BY DEF NewTargets, Successors
    <2>2. (queue \subseteq {Start} \cup {x \in graph.edges : x[1] \in visited})'
      BY <1>1, <1>2, <1>3, <2>1 DEF TypeOK
    <2> QED
      BY <1>2, <1>4, <2>2 DEF TypeOK, Error
  <1>6. /\ Waiting \subseteq Waiting' \cup {s}
        /\ NewTargets(s) \subseteq Waiting'
        /\ Waiting' \subseteq Waiting \cup NewTargets(s)
    <2>1. ASSUME NEW t \in NewTargets(s)
          PROVE  t \in Waiting'
      <3>1. <<s, t>> \in queue' /\ <<s, t>>[2] = t
        BY <1>1
      <3> QED
        BY <3>1 DEF Waiting
    <2>2. ASSUME NEW x \in queue
          PROVE  x[2] \in Waiting' \cup {s}
      BY <1>1 DEF Waiting
    <2>3. ASSUME NEW x \in queue'
          PROVE  x[2] \in Waiting \cup NewTargets(s)
      <3>1. CASE x \in queue
        BY <3>1 DEF Waiting
      <3>2. CASE x \in {s} \X NewTargets(s)
        BY <3>2
      <3> QED
        BY <1>1, <3>1, <3>2
    <2> QED
      BY <2>1, <2>2, <2>3 DEF Waiting
  <1>7. NewTargets(s) \subseteq Successors(s) /\ Successors(s) \subseteq NewTargets(s) \cup visited'
    BY <1>2 DEF NewTargets, Seen
  <1>8. Frontier'
    <2>1. (graph.initial \in visited \cup Waiting)'
      BY <1>2, <1>6 DEF Frontier
    <2>2. ASSUME NEW t \in visited'
          PROVE  Successors(t)' \subseteq visited' \cup Waiting'
      BY <1>2, <1>3, <1>6, <1>7 DEF Frontier
    <2>3. Waiting' \subseteq Waiting \cup Successors(s)
      BY <1>6, <1>7
    <2>4. (visited \cup Waiting \subseteq Reachable)'
      BY <1>2, <1>3, <1>4, <2>3 DEF Frontier
    <2> QED
      BY <2>1, <2>2, <2>4 DEF Frontier
  <1> QED
    BY <1>5, <1>8

\* A copy is dropped of a state that was expanded.
LEMMA SkipStep ==
    ASSUME TypeOK, Frontier, Skip
    PROVE  TypeOK' /\ Frontier'
  <1>1. PICK e \in queue : e[2] \in visited /\ queue' = queue \ {e}
    BY DEF Skip, Seen
  <1>2. UNCHANGED <<graph, visited, errors, pc>>
    BY DEF Skip
  <1>3. /\ Reachable' = Reachable /\ \A t : Successors(t)' = Successors(t)
        /\ Start' = Start
    BY <1>2 DEF Reachable, Closed, Successors, Start
  <1>4. Waiting' \subseteq Waiting /\ Waiting \subseteq Waiting' \cup visited
    BY <1>1 DEF Waiting
  <1>5. TypeOK'
    BY <1>1, <1>2, <1>3 DEF TypeOK, Error
  <1>6. Frontier'
    BY <1>2, <1>3, <1>4 DEF Frontier
  <1> QED
    BY <1>5, <1>6

\* When the queue is empty, what was visited is what can be reached.
LEMMA VisitedIsReachable ==
    ASSUME TypeOK, Frontier, queue = {}
    PROVE  visited = Reachable
  <1>1. graph.initial \in visited /\ Closed(visited) /\ visited \in SUBSET State
    BY DEF TypeOK, Frontier, Closed, Waiting
  <1>2. Reachable \subseteq visited
    BY <1>1, GraphFields, ReachableFacts DEF TypeOK
  <1> QED
    BY <1>2 DEF Frontier

\* The states reported, and the final states missing.
LEMMA ReportStep ==
    ASSUME TypeOK, Frontier, Report
    PROVE  TypeOK' /\ Frontier' /\ ReportExact'
  <1>1. /\ graph' = graph /\ queue' = queue /\ visited' = visited /\ pc' = "done"
        /\ queue = {}
        /\ errors' = (IF graph.finals = {} THEN {[kind |-> "NoFinalState"]} ELSE {})
             \cup {[kind |-> "UnreachableState", state |-> s] : s \in Unreached}
    BY DEF Report
  <1>2. Reachable' = Reachable /\ AllStates' = AllStates
    BY <1>1 DEF Reachable, Closed, Successors, AllStates
  <1>3. /\ AllStates \subseteq State
        /\ graph.initial \in Reachable
    BY GraphFields, ReachableFacts DEF AllStates, TypeOK
  <1>4. Unreached = AllStates \ Reachable
    BY <1>1, <1>3, VisitedIsReachable DEF Unreached
  <1>5. \A s : [kind |-> "NoFinalState"] # [kind |-> "UnreachableState", state |-> s]
    <2> SUFFICES ASSUME NEW s,
                        [kind |-> "NoFinalState"]
                          = [kind |-> "UnreachableState", state |-> s]
                 PROVE  FALSE
      OBVIOUS
    <2>1. [kind |-> "NoFinalState"].kind
            = [kind |-> "UnreachableState", state |-> s].kind
      OBVIOUS
    <2> QED
      BY <2>1
  <1>6. \A s, t : [kind |-> "UnreachableState", state |-> s]
                    = [kind |-> "UnreachableState", state |-> t] => s = t
    <2> SUFFICES ASSUME NEW s, NEW t,
                        [kind |-> "UnreachableState", state |-> s]
                          = [kind |-> "UnreachableState", state |-> t]
                 PROVE  s = t
      OBVIOUS
    <2>1. [kind |-> "UnreachableState", state |-> s].state
            = [kind |-> "UnreachableState", state |-> t].state
      OBVIOUS
    <2> QED
      BY <2>1
  <1>7. \A s \in State : [kind |-> "UnreachableState", state |-> s] \in errors'
                            <=> s \in AllStates \ Reachable
    BY <1>1, <1>4, <1>5, <1>6, Zenon
  <1>8. [kind |-> "NoFinalState"] \in errors' <=> graph.finals = {}
    BY <1>1, <1>5, Zenon
  <1>9. errors' \subseteq Error
    <2>1. \A s \in Unreached : [kind |-> "UnreachableState", state |-> s] \in Error
      BY <1>3, <1>4 DEF Error
    <2>2. [kind |-> "NoFinalState"] \in Error
      BY DEF Error
    <2> QED
      BY <1>1, <2>1, <2>2, Zenon
  <1>10. TypeOK' /\ Frontier'
    <2>1. (\A s : Successors(s)' = Successors(s)) /\ Start' = Start /\ Waiting' = Waiting
      BY <1>1 DEF Successors, Start, Waiting
    <2> QED
      BY <1>1, <1>2, <1>9, <2>1 DEF TypeOK, Frontier
  <1> QED
    BY <1>1, <1>2, <1>7, <1>8, <1>10 DEF ReportExact

Inv == TypeOK /\ Frontier /\ ReportExact

LEMMA InvInit == Init => Inv
  BY SearchInit DEF Init, Inv, ReportExact

LEMMA InvNext == Inv /\ [Next]_vars => Inv'
  <1> SUFFICES ASSUME Inv, [Next]_vars
               PROVE  Inv'
    OBVIOUS
  <1>1. CASE Expand
    <2>1. pc' # "done"
      BY <1>1 DEF Expand
    <2> QED
      BY <1>1, <2>1, ExpandStep DEF Inv, ReportExact
  <1>2. CASE Report
    BY <1>2, ReportStep DEF Inv
  <1>3. CASE Skip
    <2>1. pc' # "done"
      BY <1>3 DEF Skip
    <2> QED
      BY <1>3, <2>1, SkipStep DEF Inv, ReportExact
  <1>4. CASE UNCHANGED vars
    BY <1>4 DEF vars, Inv, TypeOK, Frontier, ReportExact, Reachable, Closed,
                Successors, AllStates, Start, Waiting
  <1> QED
    BY <1>1, <1>2, <1>3, <1>4 DEF Next

LEMMA InvAlways == Spec => []Inv
  BY InvInit, InvNext, PTL DEF Spec

\* The type invariant: what waits was pushed by a state that was expanded.
THEOREM SearchTypeCorrect == Spec => []TypeOK
  <1>1. Inv => TypeOK
    BY DEF Inv
  <1> QED
    BY <1>1, InvAlways, PTL

\* The loop invariant of reachable_from.
THEOREM FrontierCorrect == Spec => []Frontier
  <1>1. Inv => Frontier
    BY DEF Inv
  <1> QED
    BY <1>1, InvAlways, PTL

\* validate reports exactly the unreachable states and a missing final state.
THEOREM ReportExactCorrect == Spec => []ReportExact
  <1>1. Inv => ReportExact
    BY DEF Inv
  <1> QED
    BY <1>1, InvAlways, PTL

=============================================================================
