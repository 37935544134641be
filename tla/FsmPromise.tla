----------------------------- MODULE FsmPromise -----------------------------
(***************************************************************************)
(* What a named FSM with a reliable store promises to its users, whatever  *)
(* becomes of the actors that animate it.  There is one state, and it      *)
(* moves only along the declared transitions; what the readers of the      *)
(* cache see is that state or the one before the last move, because the    *)
(* state does not move again until it has been published.                  *)
(***************************************************************************)
EXTENDS TransitionGraph

VARIABLES
    state,    \* the state of the FSM: what a recovery would find
    visible   \* what current_state(name) answers, None before the first launch

Init == state = Initial /\ visible = None

Move ==
    /\ visible = state
    /\ \E e \in Event : Responds(state, e) /\ state' \in Targets(state, e)
    /\ UNCHANGED visible

Publish == visible' = state /\ UNCHANGED state

Next == Move \/ Publish

Spec == Init /\ [][Next]_<<state, visible>>

=============================================================================
