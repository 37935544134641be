-------------------------- MODULE TransitionGraph --------------------------
(***************************************************************************)
(* The transition graph of finitomata/src/transition.rs: the data the      *)
(* engine interprets.  A graph has an initial state, a set of final states *)
(* and a list of transitions.  The order of the list matters: `allowed`    *)
(* and the search for a hard event both return the FIRST matching entry,   *)
(* and nothing in TransitionGraph::new rejects two entries with the same   *)
(* source and event.                                                       *)
(***************************************************************************)
EXTENDS Integers, Sequences, FiniteSets

CONSTANTS
    State,        \* the states of the FSM type (an enum of the user)
    Event,        \* its events
    Initial,      \* TransitionGraph.initial
    Finals,       \* TransitionGraph.finals
    Transitions,  \* TransitionGraph.transitions, in declaration order
    None          \* Option::None: neither a state nor an event

Kind == {"Normal", "Hard", "Soft"}

Transition == [from : State, to : SUBSET State, event : Event, kind : Kind]

ASSUME GraphAssumption ==
    /\ Initial \in State
    /\ Finals \subseteq State
    /\ Transitions \in Seq(Transition)
    /\ None \notin State /\ None \notin Event

-----------------------------------------------------------------------------

\* TransitionGraph.index restricted to one source: the positions of the
\* transitions that leave s, and among them those for event e or of kind Hard.
Outgoing(s) == {i \in DOMAIN Transitions : Transitions[i].from = s}
Candidates(s, e) == {i \in Outgoing(s) : Transitions[i].event = e}
HardOutgoing(s) == {i \in Outgoing(s) : Transitions[i].kind = "Hard"}

\* Iterator::find and find_map: the first position of a non-empty set.
First(I) == CHOOSE i \in I : \A j \in I : i <= j

Responds(s, e) == Candidates(s, e) # {}

\* The two halves of the answer of `allowed`, defined when Responds(s, e).
Targets(s, e) == Transitions[First(Candidates(s, e))].to
KindOf(s, e) == Transitions[First(Candidates(s, e))].kind

\* events_for(s).find(Hard), which the actor fires by itself.
HasHard(s) == HardOutgoing(s) # {}
HardEvent(s) == Transitions[First(HardOutgoing(s))].event

\* The engine's test for a soft event: any transition of the graph that
\* carries the event with kind Soft, whatever its source.
IsSoft(e) == \E i \in DOMAIN Transitions :
                Transitions[i].event = e /\ Transitions[i].kind = "Soft"

IsFinal(s) == s \in Finals

-----------------------------------------------------------------------------

\* For properties: what every set of states contains that has the initial state
\* and is left by no transition.  (GraphReach shows that these are the states
\* that `validate` finds reachable.)
Closed(R) == \A s \in R : \A i \in Outgoing(s) : Transitions[i].to \subseteq R
Reachable == {s \in State :
                \A R \in SUBSET State : Initial \in R /\ Closed(R) => s \in R}

=============================================================================
