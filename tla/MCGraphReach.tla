---------------------------- MODULE MCGraphReach ----------------------------
(***************************************************************************)
(* Every graph on three states, and every one on four states without a     *)
(* loop from a state to itself; the first state is initial.  There are     *)
(* cycles, dead ends, unreachable and unmentioned states, and states that  *)
(* several others push before they are expanded.                           *)
(***************************************************************************)
EXTENDS GraphReach

CONSTANTS a, b, c, d

MCState == {a, b, c, d}
Looping == [initial : {a}, finals : {{}, {b}, {c}}, edges : SUBSET ({a, b, c} \X {a, b, c})]
Larger == [initial : {a}, finals : {{}, {d}},
           edges : SUBSET {e \in MCState \X MCState : e[1] # e[2]}]
MCGraphs == Looping \cup Larger

=============================================================================
