-------------------------- MODULE MCFsmSupervisor --------------------------
(***************************************************************************)
(* Instances of FsmSupervisor for TLC.                                     *)
(***************************************************************************)
EXTENDS FsmSupervisor, TLC

CONSTANTS n1, n2, c1, c2, s1, s2

\* Callers that keep to one launch of a name at a time, under every behaviour
\* of joerl; such callers with two names; and callers that launch a name twice.
Orderly == {c \in Config : /\ c.exclusive /\ c.names = {n1}
                           /\ c.actors = IF c.persists /\ ~ c.replaces THEN 3 ELSE 2}
Several == {c \in Config : c.exclusive /\ c.actors = 1 /\ c.names = {n1, n2}
                            /\ c.persists /\ ~ c.replaces}
Disorderly == {c \in Config : ~ c.exclusive /\ c.actors = 2 /\ c.names = {n1}
                               /\ ~ c.persists /\ ~ c.replaces /\ c.releases}
Everything == Orderly \cup Several \cup Disorderly

\* The callers run the same code.
Callers == Permutations(Client)

=============================================================================
