-------------------------- MODULE FsmActorPromise ---------------------------
(***************************************************************************)
(* FsmActor implements FsmPromise when its store does not fail: the        *)
(* promised state is the persisted one, and a crash, a restart or a new    *)
(* launch is invisible in it.  A configuration without such a store        *)
(* promises nothing, and is mapped to a state that never changes.          *)
(***************************************************************************)
EXTENDS FsmActor

PromisedState == IF conf.backend = "memory" THEN Recorded ELSE Initial

PromisedView ==
    IF conf.backend = "memory" /\ cache # None THEN cache.current ELSE None

Promise == INSTANCE FsmPromise WITH
             state <- PromisedState, visible <- PromisedView

\* Why: the persisted state, the actor's state and the published state stay
\* in step over crashes and restarts.  Before a recovery the actor's state is
\* a fresh initial state; from then on it is the persisted one (but for the
\* moment between store and commit); a supervised FSM has a record from its
\* first incarnation on, so it always recovers and never skips the
\* publication; a transition starts from a published state; and what the
\* `stopped` hook of a crashed actor publishes is the record or nothing new.
Anchored ==
    conf.backend = "memory" =>
        /\ pc \in {"pre_load", "pre_store", "load"} => st.current = Initial
        /\ pc \in {"on_start", "on_enter_start"} \cup Serving =>
              Recorded = IF pc = "commit" THEN frame.target ELSE st.current
        /\ conf.supervised /\ pc \in Label \ {"absent", "pre_load", "pre_store"} =>
              store # None
        /\ pc = "pre_store" => store = None
        /\ pc \in Serving \ {"listen", "on_enter", "on_terminate"} =>
              cache # None /\ cache.current = st.current
        /\ pc \in Ending =>
              \/ st.current = Recorded
              \/ cache # None /\ cache.current = st.current

\* Every step of the actor, its clients, its crashes and its recoveries is a
\* declared move, a publication or invisible.
KeepsPromise == Promise!Spec

=============================================================================
