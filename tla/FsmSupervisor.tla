--------------------------- MODULE FsmSupervisor ---------------------------
(***************************************************************************)
(* FinitomataSupervisor: many callers, many names, many actors.  A name is *)
(* looked up in joerl's registry and then in the supervisor's own map; it  *)
(* is entered there by start_fsm, by spawn_supervised and by a supervised  *)
(* actor that starts or restarts, while messages are being sent to it.     *)
(*                                                                         *)
(* A step of a caller is one access to something shared: the registry, the *)
(* map, the cache, the store or an actor's mailbox.  What becomes of an    *)
(* accepted message, and the order of an actor's work, is in FsmActor;     *)
(* here an actor has a state, keeps or loses its name, and may be given    *)
(* work or end at any time.  joerl is not part of the repository: what it  *)
(* does where the code does not tell is a choice made once, in `conf`.     *)
(***************************************************************************)
EXTENDS Naturals

CONSTANTS
    Name,         \* the names FSMs are launched under
    Client,       \* tasks that call the supervisor
    State,        \* the states of the FSMs
    Initial,      \* graph.initial_state()
    Configs,      \* the configurations and environments considered
    MaxActors,    \* bound: actors spawned in a behaviour of any configuration
    None,         \* no state, no Pid
    Nobody        \* what Pid::new() returns: a Pid that no actor has

Pid == 1..MaxActors

\* with_persistency was called; callers launch a name only when it is free;
\* joerl's register replaces an older entry of the name (or refuses);
\* joerl forgets the name of an actor that has ended (or keeps it); bounds:
\* the actors spawned in a behaviour, and the names that are used.
Config == [persists : BOOLEAN, exclusive : BOOLEAN, replaces : BOOLEAN,
           releases : BOOLEAN, actors : 0..MaxActors, names : SUBSET Name]

VARIABLES
    conf,      \* the configuration
    registry,  \* joerl's registry of names
    actors,    \* FinitomataSupervisor.actors
    cache,     \* the published state of each name, or None
    record,    \* the persisted state of each name, or None
    fsm,       \* who each actor is: its name, and how it was launched
    phase,     \* what each actor is doing
    current,   \* the state each actor is in
    other,     \* the other end of the transition under way: its target until
               \* that is entered, then the state that was left; or None
    call,      \* the call each client is making
    launched,  \* history: the names for which a launch has returned Ok
    shadowed   \* history: the actors that start_fsm registered under a name
               \* of which joerl still had an entry

shared == <<registry, actors, cache, record>>
inside == <<fsm, phase, current, other>>
history == <<launched, shadowed>>
vars == <<conf, shared, inside, call, history>>

-----------------------------------------------------------------------------

\* `started` of a supervised actor; waiting for messages; the callbacks and
\* the store of a transition, its target stored, its target entered while the
\* listener, on_enter and on_terminate run; ended by a panic with the joerl
\* supervisor still to react; gone.
Up == {"serving", "transit", "commit", "entered"}
Starting == {"recover", "publish", "unregister", "register"}
Phase == {"unused", "crashed", "dead"} \cup Starting \cup Up

\* start_fsm, spawn_supervised, and transition or shutdown, by what each is
\* about to access; the two errors of a send.
StartSteps == {"load", "publish", "spawn", "register", "insert"}
SpawnSteps == {"first_load", "first_store", "supervise", "insert_nobody"}
SendSteps == {"whereis", "actors", "send"}
Refusal == {"not_found", "unreachable"}
Step == {"idle"} \cup StartSteps \cup SpawnSteps \cup SendSteps \cup Refusal

Identity == [name : Name \cup {None}, supervised : BOOLEAN]
Call == [step : Step, name : Name \cup {None}, pid : Pid \cup {Nobody, None},
         state : State \cup {None}, known : BOOLEAN, served : SUBSET Pid]

ASSUME SupervisorAssumption ==
    /\ Initial \in State
    /\ Configs \subseteq Config
    /\ MaxActors \in Nat
    /\ None \notin State /\ None \notin Name /\ None \notin Pid
    /\ Nobody # None /\ Nobody \notin Pid

NoCall == [step |-> "idle", name |-> None, pid |-> None, state |-> None,
           known |-> FALSE, served |-> {}]

Alive(p) == phase[p] \in Starting \cup Up

\* An actor that is past its launch: `started` has returned, and so has the
\* register of the start_fsm that spawned it.
Serves(p) ==
    /\ phase[p] \in Up
    /\ \A c \in Client : call[c].step = "register" => call[c].pid # p

Of(n) == {p \in Pid : fsm[p].name = n}

\* What resolve_pid answers: the registry's entry, else the map's.
Resolved(n) == IF registry[n] # None THEN registry[n] ELSE actors[n]

\* Nobody is launching the name and no actor of it lives or will be restarted.
Free(n) ==
    /\ \A c \in Client : call[c].name = n => call[c].step \notin StartSteps \cup SpawnSteps
    /\ \A p \in Of(n) : phase[p] = "dead"

Init ==
    /\ conf \in Configs
    /\ registry = [n \in Name |-> None] /\ actors = [n \in Name |-> None]
    /\ cache = [n \in Name |-> None] /\ record = [n \in Name |-> None]
    /\ fsm = [p \in Pid |-> [name |-> None, supervised |-> FALSE]]
    /\ phase = [p \in Pid |-> "unused"]
    /\ current = [p \in Pid |-> Initial]
    /\ other = [p \in Pid |-> None]
    /\ call = [c \in Client |-> NoCall]
    /\ launched = {} /\ shadowed = {}

-----------------------------------------------------------------------------
(***************************************************************************)
(* Launching.                                                              *)
(***************************************************************************)

Goto(c, step) == call' = [call EXCEPT ![c].step = step]
Done(c) == call' = [call EXCEPT ![c] = NoCall]

RecordedOrNone(n) == record[n]  \* no default when nothing is recorded

Recorded(n) == IF record[n] = None THEN Initial ELSE record[n]

\* A Pid that joerl has not given to any actor.
Fresh(p) ==
    /\ phase[p] = "unused" /\ p <= conf.actors
    /\ \A q \in Pid : phase[q] = "unused" => p <= q

\* system.spawn, and a child made by the factory of spawn_supervised.
Spawn(p, n, supervised, s, first) ==
    /\ Fresh(p)
    /\ phase' = [phase EXCEPT ![p] = first]
    /\ fsm' = [fsm EXCEPT ![p] = [name |-> n, supervised |-> supervised]]
    /\ current' = [current EXCEPT ![p] = s]
    /\ UNCHANGED other

Launch(c, n, supervised) ==
    /\ call[c].step = "idle"
    /\ conf.exclusive => Free(n)
    /\ call' = [call EXCEPT ![c] =
          [NoCall EXCEPT !.step = IF supervised THEN "first_load" ELSE "load",
                         !.name = n]]
    /\ UNCHANGED <<conf, shared, inside, history>>

\* persist.load, if there is persistency, else the initial state.
StartLoad(c) ==
    /\ call[c].step = "load"
    /\ call' = [call EXCEPT ![c] =
          [@ EXCEPT !.step = "publish", !.state = Recorded(call[c].name)]]
    /\ UNCHANGED <<conf, shared, inside, history>>

\* on_start and on_enter have returned.
StartPublish(c) ==
    /\ call[c].step = "publish"
    /\ cache' = [cache EXCEPT ![call[c].name] = call[c].state]
    /\ Goto(c, "spawn")
    /\ UNCHANGED <<conf, registry, actors, record, inside, history>>

StartSpawn(c) ==
    /\ call[c].step = "spawn"
    /\ \E p \in Pid :
          /\ Spawn(p, call[c].name, FALSE, call[c].state, "serving")
          /\ call' = [call EXCEPT ![c] =
                [@ EXCEPT !.step = "register", !.pid = p, !.state = None]]
    /\ UNCHANGED <<conf, shared, history>>

\* What the registry may be after register(n, p): the result is not looked
\* at, neither when the name is taken nor when the actor has already ended.
AfterRegister(n, p) ==
    (IF registry[n] = None \/ conf.replaces
        THEN {[registry EXCEPT ![n] = p]} ELSE {registry})
    \cup (IF Alive(p) THEN {} ELSE {registry})

\* History: p is being registered over an entry that joerl still has.
Shadow(n, p) ==
    shadowed' = IF registry[n] = None THEN shadowed ELSE shadowed \cup {p}

StartRegisterTaking(c) ==  \* unregisters first, as `started` does
    /\ call[c].step = "register"
    /\ registry' = [registry EXCEPT ![call[c].name] = call[c].pid]
    /\ Shadow(call[c].name, call[c].pid)
    /\ Goto(c, "insert")
    /\ UNCHANGED <<conf, actors, cache, record, inside, launched>>

StartRegister(c) ==
    /\ call[c].step = "register"
    /\ registry' \in AfterRegister(call[c].name, call[c].pid)
    /\ Shadow(call[c].name, call[c].pid)
    /\ Goto(c, "insert")
    /\ UNCHANGED <<conf, actors, cache, record, inside, launched>>

StartInsertNothing(c) ==  \* relies on the registry alone
    /\ call[c].step = "insert"
    /\ launched' = launched \cup {call[c].name}
    /\ Done(c)
    /\ UNCHANGED <<conf, shared, inside, shadowed>>

StartInsert(c) ==
    /\ call[c].step = "insert"
    /\ actors' = [actors EXCEPT ![call[c].name] = call[c].pid]
    /\ launched' = launched \cup {call[c].name}
    /\ Done(c)
    /\ UNCHANGED <<conf, registry, cache, record, inside, shadowed>>

FirstLoad(c) ==
    /\ call[c].step = "first_load"
    /\ Goto(c, IF conf.persists /\ record[call[c].name] = None
                  THEN "first_store" ELSE "supervise")
    /\ UNCHANGED <<conf, shared, inside, history>>

FirstStore(c) ==
    /\ call[c].step = "first_store"
    /\ record' = [record EXCEPT ![call[c].name] = Initial]
    /\ Goto(c, "supervise")
    /\ UNCHANGED <<conf, registry, actors, cache, inside, history>>

\* spawn_supervisor: the caller does not learn the Pid of the child.
Supervise(c) ==
    /\ call[c].step = "supervise"
    /\ \E p \in Pid : Spawn(p, call[c].name, TRUE, Initial, "recover")
    /\ Goto(c, "insert_nobody")
    /\ UNCHANGED <<conf, shared, history>>

InsertNobody(c) ==
    /\ call[c].step = "insert_nobody"
    /\ actors' = [actors EXCEPT ![call[c].name] = Nobody]
    /\ launched' = launched \cup {call[c].name}
    /\ Done(c)
    /\ UNCHANGED <<conf, registry, cache, record, inside, shadowed>>

-----------------------------------------------------------------------------
(***************************************************************************)
(* transition and shutdown: resolve_pid, then send.                        *)
(***************************************************************************)

\* The name has been resolved.
SendTo(c, p) == call' = [call EXCEPT ![c] = [@ EXCEPT !.step = "send", !.pid = p]]

\* `known` and `served` remember what held when the call began: whether the
\* name had been launched, and the actor that served it and that it led to.
Send(c, n) ==
    /\ call[c].step = "idle"
    /\ call' = [call EXCEPT ![c] =
          [NoCall EXCEPT !.step = "whereis", !.name = n, !.known = n \in launched,
                         !.served = {p \in Of(n) : Serves(p) /\ Resolved(n) = p}]]
    /\ UNCHANGED <<conf, shared, inside, history>>

WhereisMapFirst(c) ==  \* asks the map before the registry
    /\ call[c].step = "whereis"
    /\ LET n == call[c].name
           found == IF actors[n] # None THEN actors[n] ELSE registry[n] IN
        IF found = None THEN Goto(c, "not_found")
        ELSE SendTo(c, found)
    /\ UNCHANGED <<conf, shared, inside, history>>

Whereis(c) ==
    /\ call[c].step = "whereis"
    /\ LET found == registry[call[c].name] IN
        IF found = None THEN Goto(c, "actors")
        ELSE SendTo(c, found)
    /\ UNCHANGED <<conf, shared, inside, history>>

ReadActors(c) ==
    /\ call[c].step = "actors"
    /\ LET found == actors[call[c].name] IN
        IF found = None THEN Goto(c, "not_found")
        ELSE SendTo(c, found)
    /\ UNCHANGED <<conf, shared, inside, history>>

Accept(c) ==
    /\ call[c].step = "send"
    /\ call[c].pid \in Pid /\ Alive(call[c].pid)
    /\ Done(c)
    /\ UNCHANGED <<conf, shared, inside, history>>

Refuse(c) ==
    /\ call[c].step = "send"
    /\ call[c].pid \in Pid => ~ Alive(call[c].pid)
    /\ Goto(c, "unreachable")
    /\ UNCHANGED <<conf, shared, inside, history>>

\* The caller has seen the error.
Return(c) ==
    /\ call[c].step \in Refusal
    /\ Done(c)
    /\ UNCHANGED <<conf, shared, inside, history>>

\* The caller drops the future of its call at an await, or a callback that
\* start_fsm runs in the caller's task panics.
Cancel(c) ==
    /\ call[c].step \in {"load", "publish", "insert", "first_load", "first_store",
                         "insert_nobody"}
    /\ Done(c)
    /\ UNCHANGED <<conf, shared, inside, history>>

ClientStep(c) ==
    \/ StartLoad(c) \/ StartPublish(c) \/ StartSpawn(c) \/ StartRegister(c)
    \/ StartInsert(c) \/ FirstLoad(c) \/ FirstStore(c) \/ Supervise(c)
    \/ InsertNobody(c) \/ Whereis(c) \/ ReadActors(c) \/ Accept(c)
    \/ Refuse(c) \/ Return(c)

-----------------------------------------------------------------------------
(***************************************************************************)
(* The actors.                                                             *)
(***************************************************************************)

Publish(p, s) == cache' = [cache EXCEPT ![fsm[p].name] = s]

\* The actor is dropped.
End(p, last) ==
    /\ phase' = [phase EXCEPT ![p] = last]
    /\ current' = [current EXCEPT ![p] = Initial]
    /\ other' = [other EXCEPT ![p] = None]

\* `started` of a supervised actor: load; publish after on_start and
\* on_enter; unregister; register.
Recover(p) ==
    /\ phase[p] = "recover"
    /\ \/ /\ conf.persists /\ record[fsm[p].name] # None
          /\ current' = [current EXCEPT ![p] = record[fsm[p].name]]
          /\ phase' = [phase EXCEPT ![p] = "publish"]
       \/ /\ ~ (conf.persists /\ record[fsm[p].name] # None)
          /\ phase' = [phase EXCEPT ![p] = "unregister"]
          /\ UNCHANGED current
    /\ UNCHANGED <<conf, shared, fsm, other, call, history>>

PublishRecoveredNothing(p) ==  \* leaves the cache to the next transition
    /\ phase[p] = "publish"
    /\ phase' = [phase EXCEPT ![p] = "unregister"]
    /\ UNCHANGED <<conf, shared, fsm, current, other, call, history>>

PublishRecovered(p) ==
    /\ phase[p] = "publish"
    /\ Publish(p, current[p])
    /\ phase' = [phase EXCEPT ![p] = "unregister"]
    /\ UNCHANGED <<conf, registry, actors, record, fsm, current, other, call, history>>

UnregisterNothing(p) ==  \* relies on joerl to release the old entry
    /\ phase[p] = "unregister"
    /\ phase' = [phase EXCEPT ![p] = "register"]
    /\ UNCHANGED <<conf, shared, fsm, current, other, call, history>>

Unregister(p) ==
    /\ phase[p] = "unregister"
    /\ registry' = [registry EXCEPT ![fsm[p].name] = None]
    /\ phase' = [phase EXCEPT ![p] = "register"]
    /\ UNCHANGED <<conf, actors, cache, record, fsm, current, other, call, history>>

Register(p) ==
    /\ phase[p] = "register"
    /\ registry' \in AfterRegister(fsm[p].name, p)
    /\ phase' = [phase EXCEPT ![p] = "serving"]
    /\ UNCHANGED <<conf, actors, cache, record, fsm, current, other, call, history>>

\* A message, a tick or a hard event of `started` begins a transition; or an
\* event is skipped or refused, or a shutdown received, which publishes the
\* state the actor is in.
Handle(p) ==
    /\ phase[p] = "serving"
    /\ \/ /\ phase' = [phase EXCEPT ![p] = "transit"]
          /\ UNCHANGED <<cache, current, other>>
       \/ /\ Publish(p, current[p])
          /\ UNCHANGED <<phase, current, other>>
       \/ /\ Publish(p, current[p])
          /\ End(p, "dead")
    /\ UNCHANGED <<conf, registry, actors, record, fsm, call, history>>

\* The callbacks agree on a target and it is stored, or the transition fails.
Store(p) ==
    /\ phase[p] = "transit"
    /\ \/ /\ \E t \in State :
                /\ other' = [other EXCEPT ![p] = t]
                /\ record' = IF conf.persists
                               THEN [record EXCEPT ![fsm[p].name] = t] ELSE record
          /\ phase' = [phase EXCEPT ![p] = "commit"]
          /\ UNCHANGED cache
       \/ /\ Publish(p, current[p])
          /\ phase' = [phase EXCEPT ![p] = "serving"]
          /\ UNCHANGED <<record, other>>
    /\ UNCHANGED <<conf, registry, actors, fsm, current, call, history>>

\* The target is entered; the cache still has the state that is left.
Commit(p) ==
    /\ phase[p] = "commit"
    /\ phase' = [phase EXCEPT ![p] = "entered"]
    /\ current' = [current EXCEPT ![p] = other[p]]
    /\ other' = [other EXCEPT ![p] = current[p]]
    /\ UNCHANGED <<conf, shared, fsm, call, history>>

\* The listener, on_enter and, of a final state under auto_terminate,
\* on_terminate have returned: the new state is published.
Settle(p) ==
    /\ phase[p] = "entered"
    /\ Publish(p, current[p])
    /\ \/ /\ phase' = [phase EXCEPT ![p] = "serving"]
          /\ other' = [other EXCEPT ![p] = None]
          /\ UNCHANGED current
       \/ End(p, "dead")
    /\ UNCHANGED <<conf, registry, actors, record, fsm, call, history>>

\* Called code panics.  joerl may run `stopped`, which publishes.
Panic(p) ==
    /\ phase[p] \in {"recover", "publish"} \cup Up
    /\ End(p, IF fsm[p].supervised THEN "crashed" ELSE "dead")
    /\ \/ phase[p] \in Up /\ Publish(p, current[p])
       \/ UNCHANGED cache
    /\ UNCHANGED <<conf, registry, actors, record, fsm, call, history>>

\* joerl's supervisor calls the factory again, or gives the child up when
\* there have been more restarts than RestartIntensity allows.
Restart(p) ==
    /\ phase[p] = "crashed"
    /\ \E q \in Pid :
          /\ Fresh(q)
          /\ phase' = [phase EXCEPT ![p] = "dead", ![q] = "recover"]
          /\ fsm' = [fsm EXCEPT ![q] = fsm[p]]
          /\ current' = [current EXCEPT ![q] = Initial]
    /\ UNCHANGED <<conf, shared, other, call, history>>

GiveUp(p) ==
    /\ phase[p] = "crashed"
    /\ phase' = [phase EXCEPT ![p] = "dead"]
    /\ UNCHANGED <<conf, shared, fsm, current, other, call, history>>

\* joerl drops what the registry says of an actor that has ended.
Release(p) ==
    /\ conf.releases /\ phase[p] \in {"crashed", "dead"}
    /\ \E n \in Name : registry[n] = p
    /\ registry' = [n \in Name |-> IF registry[n] = p THEN None ELSE registry[n]]
    /\ UNCHANGED <<conf, actors, cache, record, inside, call, history>>

ActorStep(p) ==
    \/ Recover(p) \/ PublishRecovered(p) \/ Unregister(p) \/ Register(p)
    \/ Store(p) \/ Commit(p) \/ Settle(p)

Environment(p) == Handle(p) \/ Panic(p) \/ Restart(p) \/ GiveUp(p) \/ Release(p)

Next ==
    \/ \E c \in Client :
          \/ ClientStep(c) \/ Cancel(c)
          \/ \E n \in conf.names :
                \/ \E supervised \in BOOLEAN : Launch(c, n, supervised)
                \/ Send(c, n)
    \/ \E p \in Pid : ActorStep(p) \/ Environment(p)

Spec == Init /\ [][Next]_vars

-----------------------------------------------------------------------------
(***************************************************************************)
(* Properties.                                                             *)
(***************************************************************************)

\* Every variable has its type.
TypeOK ==
    /\ conf \in Configs
    /\ registry \in [Name -> Pid \cup {None}]
    /\ actors \in [Name -> Pid \cup {Nobody, None}]
    /\ cache \in [Name -> State \cup {None}]
    /\ record \in [Name -> State \cup {None}]
    /\ fsm \in [Pid -> Identity]
    /\ phase \in [Pid -> Phase]
    /\ current \in [Pid -> State]
    /\ other \in [Pid -> State \cup {None}]
    /\ call \in [Client -> Call]
    /\ launched \subseteq Name /\ shadowed \subseteq Pid

\* A name launched by one caller at a time leads to its actor as soon as
\* that serves, whatever joerl does with the entry of the actor before it: a
\* supervised actor that takes over a name removes the old entry first.  Only
\* an actor of start_fsm, which removes nothing, stays hidden behind an entry
\* that joerl still has and does not replace.
Reaches ==
    conf.exclusive =>
        \A p \in Pid : Serves(p) =>
            \/ registry[fsm[p].name] = p
            \/ p \in shadowed /\ ~ fsm[p].supervised /\ ~ conf.replaces

\* transition and shutdown answer an error only if the actor that the name
\* led to when the call began has ended since: no restart, no fallback to the
\* map, no release of an old entry and no other name can make a living actor
\* unreachable for the time between the lookup and the send.
RefusedOnlyIfGone ==
    conf.exclusive =>
        \A c \in Client : call[c].step \in Refusal =>
            \A p \in call[c].served : ~ Alive(p)

\* "not found" is never said of a name whose launch returned before the call
\* began, even while names are launched twice and actors take names from
\* each other: between unregister and register the map still has the name.
NotForgotten ==
    \A c \in Client : call[c].step = "not_found" => ~ call[c].known

\* What state(name) shows is the state of the actor that serves the name,
\* and the state that was left from when an actor enters a new one until the
\* callbacks of that transition have returned; never an older one.  Not so
\* of a supervised FSM without persistency: it publishes nothing as it starts.
ShownIsReached ==
    conf.exclusive =>
        \A p \in Pid : Serves(p) /\ (conf.persists \/ ~ fsm[p].supervised) =>
            cache[fsm[p].name] = IF phase[p] = "entered" THEN other[p] ELSE current[p]

\* A second start_fsm does not take a name away from the actor that has it
\* and lives, if joerl refuses to register a name twice; only a supervised
\* actor of that name does, or the end of the actor.
NameKept ==
    [][\A n \in Name, p \in Pid :
          registry[n] = p /\ Alive(p) /\ registry'[n] # p =>
              \/ conf.replaces
              \/ \E q \in Of(n) : phase[q] = "unregister" /\ phase'[q] = "register"]_vars

=============================================================================
