----------------------------- MODULE MCFsmActor -----------------------------
(***************************************************************************)
(* A small graph for FsmActor with every feature the engine distinguishes: *)
(* a hard event that fires on start and may lead to a state with another   *)
(* hard event, a normal event with two targets that enters a state with a  *)
(* hard event, a soft self-loop, a final state, no transition that         *)
(* responds to a given event in most states, and a state that `validate`   *)
(* would report: the supervisor takes any graph.                           *)
(***************************************************************************)
EXTENDS FsmActorPromise

CONSTANTS new, ready, work, done, lost, boot, go, nudge, finish, p0, p1

MCState == {new, ready, work, done, lost}
MCEvent == {boot, go, nudge, finish}
MCTransitions == <<
    [from |-> new,   to |-> {ready, work}, event |-> boot,   kind |-> "Hard"],
    [from |-> ready, to |-> {work, new},   event |-> go,     kind |-> "Normal"],
    [from |-> work,  to |-> {work, ready}, event |-> nudge,  kind |-> "Soft"],
    [from |-> work,  to |-> {done},        event |-> finish, kind |-> "Hard"],
    [from |-> lost,  to |-> {work},        event |-> go,     kind |-> "Normal"]>>

\* The configurations of the runs: all; a store that may answer Err, with a
\* timer, which together do all that the others do; such a store under a
\* supervisor; start_fsm alone; spawn_supervised without persistency.
Everything == Config
Answering == {c \in Config : c.backend = "faulty" /\ c.timer}
Faulty == {c \in Config : c.backend = "faulty" /\ c.supervised /\ ~ c.timer}
Standalone == {c \in Config : c.backend = "none" /\ ~ c.supervised
                              /\ ~ c.auto_terminate}
Unrecovered == {c \in Config : c.backend = "none" /\ c.supervised /\ c.timer}
=============================================================================
