------------------------------ MODULE FsmActor ------------------------------
(***************************************************************************)
(* One named FSM instance of finitomata: the actor of supervisor.rs, the   *)
(* transition engine of engine.rs it runs, and the two records that        *)
(* outlive the actor, the persistency store and the state cache.           *)
(*                                                                         *)
(* The actor is one task.  A step of the model runs from one await to the  *)
(* next: it is the callback, listener or store call the task was waiting   *)
(* for, with the synchronous code that follows it.  `pc` names the call    *)
(* that is under way.  Between two steps the clients, the timer and a      *)
(* panic in the called code can intervene.  The same name is used by       *)
(* successive incarnations: a restart by the joerl supervisor, or a new    *)
(* start_fsm / spawn_supervised after the previous actor has gone.         *)
(***************************************************************************)
EXTENDS TransitionGraph

CONSTANTS
    Payload,         \* the values of the FSM's payload
    DefaultPayload,  \* the payload given to start_fsm or spawn_supervised
    Configs,         \* the configurations the builder may have produced
    MailboxLimit     \* bound: messages waiting in the actor's mailbox

\* What with_persistency, with_auto_terminate and with_timer leave in the
\* FinitomataSupervisor, and the call the FSM is launched by.  A "memory"
\* backend never fails; a "faulty" one may answer a load or a store by Err.
Config == [backend : {"none", "memory", "faulty"}, auto_terminate : BOOLEAN,
           timer : BOOLEAN, supervised : BOOLEAN]

VARIABLES
    conf,     \* the configuration; fixed before the first launch
    pc,       \* the call the actor's task is waiting for
    st,       \* FsmActor.state, without name and history
    store,    \* the record persisted under the FSM's name, or None
    cache,    \* the StateCache entry of the name, or None
    mailbox,  \* messages accepted by the actor and not yet received
    armed,    \* a TimerTickMsg has been scheduled by send_after
    frame,    \* the locals of do_transition and transit
    outcome,  \* what the last call of transit returned
    exit,     \* why the incarnation has stopped or is stopping
    seen      \* history: what the callbacks of this incarnation have seen

vars == <<conf, pc, st, store, cache, mailbox, armed, frame, outcome, exit, seen>>

-----------------------------------------------------------------------------

Lifecycle == {"Created", "Loaded", "Running", "Terminating", "Terminated"}
Error == {"callback", "not_allowed", "persistency"}
Outcome == {"none", "SoftSkipped", "NotResponds", "Failed", "NotStored",
            "Transitioned", "HardContinue", "AutoTerminate"}
Message == [type : {"event"}, event : Event] \cup [type : {"tick", "shutdown"}]
Origin == {"start", "event", "tick"}

FsmState == [current : State, payload : Payload, lifecycle : Lifecycle,
             last_error : Error \cup {None}]
Frame == [event : Event \cup {None}, kind : Kind \cup {None},
          from : State \cup {None}, target : State \cup {None},
          error : Error \cup {None}, origin : Origin \cup {None}]
Persisted == [current : State, payload : Payload]
Seen == [inside : State \cup {None}, ended : Nat, moved : BOOLEAN,
         told : State \cup {None}]

ASSUME ActorAssumption ==
    /\ DefaultPayload \in Payload
    /\ Configs \subseteq Config
    /\ MailboxLimit \in Nat
    /\ None \notin FsmState \cup Persisted /\ None \notin Origin

\* FsmState::new
NewState(s, p) == [current |-> s, payload |-> p, lifecycle |-> "Created",
                   last_error |-> None]
NoFrame == [event |-> None, kind |-> None, from |-> None, target |-> None,
            error |-> None, origin |-> None]
\* What an incarnation has told others: the state entered and not exited
\* since, calls of on_terminate, the last target the listener was told; and
\* whether a transition has been committed.
NothingSeen == [inside |-> None, ended |-> 0, moved |-> FALSE, told |-> None]

\* The values of pc.  The first two groups run before the actor's `started`:
\* in the caller of start_fsm, or in spawn_supervised and the recovery.
Launching == {"pre_load", "pre_store", "load", "on_start", "on_enter_start"}
Engine == {"on_exit", "on_transition", "on_failure", "reenter", "store",
           "commit", "listen", "on_enter"}
Serving == {"arm", "hard", "idle", "on_timer", "on_terminate"} \cup Engine
Ending == {"stopping", "stopped_terminate"}
Label == {"absent", "dead"} \cup Launching \cup Serving \cup Ending

\* The states a callback that is handed `&mut payload` may leave behind.
Touched(s) == {[s EXCEPT !.payload = p] : p \in Payload}

Init ==
    /\ conf \in Configs
    /\ pc = "absent"
    /\ st = NewState(Initial, DefaultPayload)
    /\ store = None /\ cache = None
    /\ mailbox = <<>> /\ armed = FALSE
    /\ frame = NoFrame /\ outcome = "none" /\ exit = "none"
    /\ seen = NothingSeen

-----------------------------------------------------------------------------
(***************************************************************************)
(* Launching an incarnation.                                               *)
(***************************************************************************)

NewIncarnation ==
    /\ st' = NewState(Initial, DefaultPayload)
    /\ mailbox' = <<>> /\ armed' = FALSE
    /\ frame' = NoFrame /\ outcome' = "none" /\ exit' = "none"
    /\ seen' = NothingSeen
    /\ UNCHANGED <<conf, store, cache>>

\* start_fsm, or spawn_supervised, which first makes sure that a record is
\* persisted.  A supervised FSM that crashed is restarted by its supervisor.
Launch ==
    /\ \/ pc = "absent"
       \/ pc = "dead" /\ ~ (conf.supervised /\ exit = "panic")
    /\ pc' = IF conf.supervised /\ conf.backend # "none" THEN "pre_load" ELSE "load"
    /\ NewIncarnation

\* The joerl supervisor calls the child factory after an abnormal exit.
Restart ==
    /\ pc = "dead" /\ conf.supervised /\ exit = "panic"
    /\ pc' = "load"
    /\ NewIncarnation

\* load(..).ok().flatten().is_none(): an Err counts as "nothing persisted".
PreLoad ==
    /\ pc = "pre_load"
    /\ \/ store # None /\ pc' = "load"
       \/ (store = None \/ conf.backend = "faulty") /\ pc' = "pre_store"
    /\ UNCHANGED <<conf, st, store, cache, mailbox, armed, frame, outcome, exit, seen>>

\* The result of this store is ignored.
PreStore ==
    /\ pc = "pre_store"
    /\ \/ store' = [current |-> Initial, payload |-> DefaultPayload]
       \/ conf.backend = "faulty" /\ UNCHANGED store
    /\ pc' = "load"
    /\ UNCHANGED <<conf, st, cache, mailbox, armed, frame, outcome, exit, seen>>

\* The load of start_fsm or of `started`.  A supervised FSM that recovers
\* nothing skips on_start and on_enter and stays Created.
Load ==
    /\ pc = "load"
    /\ \/ /\ conf.backend # "none" /\ store # None
          /\ st' = [NewState(store.current, store.payload) EXCEPT
                      !.lifecycle = IF conf.supervised THEN "Loaded" ELSE "Running"]
          /\ pc' = "on_start"
       \/ /\ conf.backend = "none" \/ store = None \/ conf.backend = "faulty"
          /\ pc' = IF conf.supervised THEN "arm" ELSE "on_start"
          /\ UNCHANGED st
    /\ UNCHANGED <<conf, store, cache, mailbox, armed, frame, outcome, exit, seen>>

OnStart ==
    /\ pc = "on_start"
    /\ st' \in Touched(st)
    /\ pc' = "on_enter_start"
    /\ UNCHANGED <<conf, store, cache, mailbox, armed, frame, outcome, exit, seen>>

OnEnterStartUnpublished ==  \* the recovered state is not put in the cache
    /\ pc = "on_enter_start"
    /\ \E s \in Touched(st) : st' = [s EXCEPT !.lifecycle = "Running"]
    /\ seen' = [seen EXCEPT !.inside = st.current]
    /\ pc' = "arm"
    /\ UNCHANGED <<conf, store, cache, mailbox, armed, frame, outcome, exit>>

OnEnterStart ==
    /\ pc = "on_enter_start"
    /\ \E s \in Touched(st) :
          /\ st' = [s EXCEPT !.lifecycle = "Running"]
          /\ cache' = st'
    /\ seen' = [seen EXCEPT !.inside = st.current]
    /\ pc' = "arm"
    /\ UNCHANGED <<conf, store, mailbox, armed, frame, outcome, exit>>

\* The rest of `started`: schedule the first tick, look for a hard event.
Arm ==
    /\ pc = "arm"
    /\ armed' = conf.timer
    /\ frame' = [NoFrame EXCEPT !.origin = "start"]
    /\ pc' = "hard"
    /\ UNCHANGED <<conf, st, store, cache, mailbox, outcome, exit, seen>>

-----------------------------------------------------------------------------
(***************************************************************************)
(* do_transition: look the event up, run the engine, publish the state.    *)
(***************************************************************************)

\* The message handler (or `started`) returns.  A tick re-arms the timer,
\* but only a Running FSM does.
SettleAnyRunning(s, origin) ==  \* re-arms after every message
    /\ pc' = "idle"
    /\ frame' = NoFrame
    /\ armed' = (armed \/ (conf.timer /\ s.lifecycle = "Running"))

Settle(s, origin) ==
    /\ pc' = "idle"
    /\ frame' = NoFrame
    /\ armed' = (armed \/ (origin = "tick" /\ conf.timer /\ s.lifecycle = "Running"))

AnswerUnpublished(s, result, origin) ==  \* publishes successes only
    /\ outcome' = result
    /\ st' = s /\ cache' = IF s.last_error = None THEN s ELSE cache
    /\ Settle(s, origin)

AnswerRetrying(s, result, origin) ==  \* tries a failed event again
    /\ outcome' = result
    /\ st' = s /\ cache' = s
    /\ IF result = "Failed"
          THEN /\ pc' = "hard" /\ frame' = [NoFrame EXCEPT !.origin = origin]
               /\ UNCHANGED armed
          ELSE Settle(s, origin)

\* transit has returned, and the call that made it ends here.
Answer(s, result, origin) ==
    /\ outcome' = result
    /\ st' = s /\ cache' = s
    /\ Settle(s, origin)

\* The head of transit: what the graph allows, before any callback.
Dispatch(s, e, origin) ==
    \/ /\ Responds(s.current, e)
       /\ frame' = [event |-> e, kind |-> KindOf(s.current, e), from |-> s.current,
                    target |-> None, error |-> None, origin |-> origin]
       /\ st' = s
       /\ pc' = "on_exit"
       /\ UNCHANGED <<cache, armed, outcome>>
    \/ /\ ~ Responds(s.current, e)
       /\ Answer(s, IF IsSoft(e) THEN "SoftSkipped" ELSE "NotResponds", origin)

\* `started` and a HardContinue fire the first hard event of the state.
FireHard ==
    /\ pc = "hard"
    /\ \/ /\ HasHard(st.current)
          /\ Dispatch(st, HardEvent(st.current), frame.origin)
       \/ /\ ~ HasHard(st.current)
          /\ Settle(st, frame.origin)
          /\ UNCHANGED <<st, cache, outcome>>
    /\ UNCHANGED <<conf, store, mailbox, exit, seen>>

OnExit ==
    /\ pc = "on_exit"
    /\ st' \in Touched(st)
    /\ seen' = [seen EXCEPT !.inside = None]
    /\ pc' = "on_transition"
    /\ UNCHANGED <<conf, store, cache, mailbox, armed, frame, outcome, exit>>

AnyTarget(t) == t \in State  \* the check against the graph is missing

\* allowed_targets.contains(&target)
AllowedTarget(t) == t \in Targets(frame.from, frame.event)

\* The user's on_transition answers Ok, OkWithPayload or Error; a target
\* outside the allowed set is turned into an error.
OnTransition ==
    /\ pc = "on_transition"
    /\ st' \in Touched(st)
    /\ \/ \E t \in State :
            /\ AllowedTarget(t)
            /\ frame' = [frame EXCEPT !.target = t]
            /\ pc' = "store"
       \/ /\ frame' = [frame EXCEPT !.error = "callback"]
          /\ pc' = "on_failure"
       \/ /\ \E t \in State : ~ AllowedTarget(t)
          /\ frame' = [frame EXCEPT !.error = "not_allowed"]
          /\ pc' = "on_failure"
    /\ UNCHANGED <<conf, store, cache, mailbox, armed, outcome, exit, seen>>

OnFailureUnrecorded ==  \* set_error is missing
    /\ pc = "on_failure"
    /\ st' \in Touched(st)
    /\ pc' = "reenter"
    /\ UNCHANGED <<conf, store, cache, mailbox, armed, frame, outcome, exit, seen>>

OnFailure ==
    /\ pc = "on_failure"
    /\ \E s \in Touched(st) : st' = [s EXCEPT !.last_error = frame.error]
    /\ pc' = "reenter"
    /\ UNCHANGED <<conf, store, cache, mailbox, armed, frame, outcome, exit, seen>>

ReenterSilently ==  \* returns the error without on_enter(from)
    /\ pc = "reenter"
    /\ Answer(st, IF frame.error = "persistency" THEN "NotStored" ELSE "Failed",
              frame.origin)
    /\ UNCHANGED <<conf, store, mailbox, exit, seen>>

\* on_enter(from) after a failure, then Err is returned and published.
Reenter ==
    /\ pc = "reenter"
    /\ seen' = [seen EXCEPT !.inside = frame.from]
    /\ \E s \in Touched(st) :
          Answer(s, IF frame.error = "persistency" THEN "NotStored" ELSE "Failed",
                 frame.origin)
    /\ UNCHANGED <<conf, store, mailbox, exit>>

\* persist.store(name, target, payload): effect and answer.  The task may
\* still die before it sees the answer, hence the separate Commit.
Store ==
    /\ pc = "store"
    /\ \/ /\ conf.backend # "none"
          /\ store' = [current |-> frame.target, payload |-> st.payload]
          /\ pc' = "commit"
          /\ UNCHANGED <<st, frame>>
       \/ /\ conf.backend = "none"
          /\ pc' = "commit"
          /\ UNCHANGED <<st, frame, store>>
       \/ /\ conf.backend = "faulty"
          /\ st' = [st EXCEPT !.last_error = "persistency"]
          /\ frame' = [frame EXCEPT !.error = "persistency"]
          /\ pc' = "reenter"
          /\ UNCHANGED store
    /\ UNCHANGED <<conf, cache, mailbox, armed, outcome, exit, seen>>

CommitInPlace ==  \* transition_to is missing
    /\ pc = "commit"
    /\ st' = [st EXCEPT !.last_error = None, !.lifecycle = "Running"]
    /\ seen' = [seen EXCEPT !.moved = TRUE]
    /\ pc' = "listen"
    /\ UNCHANGED <<conf, store, cache, mailbox, armed, frame, outcome, exit>>

\* clear_error, transition_to(target), lifecycle = Running.
Commit ==
    /\ pc = "commit"
    /\ st' = [st EXCEPT !.current = frame.target, !.last_error = None,
                        !.lifecycle = "Running"]
    /\ seen' = [seen EXCEPT !.moved = TRUE]
    /\ pc' = "listen"
    /\ UNCHANGED <<conf, store, cache, mailbox, armed, frame, outcome, exit>>

ListenUnlessHard ==  \* only transitions that were asked for
    /\ pc = "listen"
    /\ seen' = IF frame.kind = "Hard" THEN seen ELSE [seen EXCEPT !.told = frame.target]
    /\ pc' = "on_enter"
    /\ UNCHANGED <<conf, st, store, cache, mailbox, armed, frame, outcome, exit>>

\* The listener is told; it changes nothing of the FSM.
Listen ==
    /\ pc = "listen"
    /\ seen' = [seen EXCEPT !.told = frame.target]
    /\ pc' = "on_enter"
    /\ UNCHANGED <<conf, st, store, cache, mailbox, armed, frame, outcome, exit>>

HardFirst(t) ==  \* a hard event continues before the final state is noticed
    conf.auto_terminate /\ IsFinal(t) /\ frame.kind # "Hard"

\* ctx.auto_terminate && graph.is_final(&target)
Terminates(t) == conf.auto_terminate /\ IsFinal(t)

\* on_enter(target), then one of the three endings of transit.
OnEnter ==
    /\ pc = "on_enter"
    /\ \E s \in Touched(st) :
        \/ /\ Terminates(frame.target)
           /\ st' = [s EXCEPT !.lifecycle = "Terminating"]
           /\ seen' = [seen EXCEPT !.inside = frame.target, !.ended = seen.ended + 1]
           /\ outcome' = "AutoTerminate"
           /\ pc' = "on_terminate"
           /\ UNCHANGED <<cache, armed, frame>>
        \/ /\ ~ Terminates(frame.target)
           /\ seen' = [seen EXCEPT !.inside = frame.target]
           /\ \/ /\ frame.kind = "Hard"
                 /\ st' = s /\ cache' = s
                 /\ outcome' = "HardContinue"
                 /\ frame' = [NoFrame EXCEPT !.origin = frame.origin]
                 /\ pc' = "hard"
                 /\ UNCHANGED armed
              \/ /\ frame.kind # "Hard"
                 /\ Answer(s, "Transitioned", frame.origin)
    /\ UNCHANGED <<conf, store, mailbox, exit>>

-----------------------------------------------------------------------------
(***************************************************************************)
(* handle_message, stopped, and the ways an incarnation ends.              *)
(***************************************************************************)

Receive ==
    /\ pc = "idle" /\ mailbox # <<>>
    /\ mailbox' = Tail(mailbox)
    /\ LET msg == Head(mailbox) IN
        \/ /\ msg.type = "event"
           /\ Dispatch(st, msg.event, "event")
           /\ UNCHANGED seen
        \/ /\ msg.type = "tick"
           /\ pc' = "on_timer"
           /\ frame' = [NoFrame EXCEPT !.origin = "tick"]
           /\ UNCHANGED <<st, cache, armed, outcome, seen>>
        \/ /\ msg.type = "shutdown"
           /\ st' = [st EXCEPT !.lifecycle = "Terminating"]
           /\ seen' = [seen EXCEPT !.ended = @ + 1]
           /\ pc' = "on_terminate"
           /\ UNCHANGED <<cache, armed, frame, outcome>>
    /\ UNCHANGED <<conf, store, exit>>

\* handle_timer_tick: an event to fire, or nothing, and then the cache is
\* left alone although the callback was given the payload to change.
OnTimer ==
    /\ pc = "on_timer"
    /\ \E s \in Touched(st) :
        \/ \E e \in Event : Dispatch(s, e, "tick")
        \/ /\ st' = s
           /\ Settle(s, "tick")
           /\ UNCHANGED <<cache, outcome>>
    /\ UNCHANGED <<conf, store, mailbox, exit, seen>>

TerminateAndStay ==  \* ctx.stop is missing
    /\ pc = "on_terminate"
    /\ \E s \in Touched(st) : st' = [s EXCEPT !.lifecycle = "Terminated"]
    /\ cache' = st'
    /\ frame' = NoFrame
    /\ pc' = "idle"
    /\ UNCHANGED <<conf, store, mailbox, armed, outcome, exit, seen>>

\* on_terminate, after AutoTerminate or for a ShutdownMsg, then ctx.stop:
\* what is left in the mailbox will not be received.
OnTerminate ==
    /\ pc = "on_terminate"
    /\ \E s \in Touched(st) : st' = [s EXCEPT !.lifecycle = "Terminated"]
    /\ cache' = st'
    /\ exit' = "normal"
    /\ mailbox' = <<>> /\ armed' = FALSE /\ frame' = NoFrame
    /\ pc' = "stopping"
    /\ UNCHANGED <<conf, store, outcome, seen>>

StoppedUnlessTerminated ==  \* tests for "not yet Terminated"
    /\ pc = "stopping"
    /\ \/ /\ st.lifecycle # "Terminated"
          /\ st' = [st EXCEPT !.lifecycle = "Terminated"]
          /\ seen' = [seen EXCEPT !.ended = @ + 1]
          /\ pc' = "stopped_terminate"
       \/ /\ st.lifecycle = "Terminated"
          /\ pc' = "dead"
          /\ UNCHANGED <<st, seen>>
    /\ UNCHANGED <<conf, store, cache, mailbox, armed, frame, outcome, exit>>

\* The `stopped` hook.
Stopped ==
    /\ pc = "stopping"
    /\ \/ /\ st.lifecycle = "Running"
          /\ st' = [st EXCEPT !.lifecycle = "Terminated"]
          /\ seen' = [seen EXCEPT !.ended = @ + 1]
          /\ pc' = "stopped_terminate"
       \/ /\ st.lifecycle # "Running"
          /\ pc' = "dead"
          /\ UNCHANGED <<st, seen>>
    /\ UNCHANGED <<conf, store, cache, mailbox, armed, frame, outcome, exit>>

StoppedTerminate ==
    /\ pc = "stopped_terminate"
    /\ st' \in Touched(st)
    /\ cache' = st'
    /\ pc' = "dead"
    /\ UNCHANGED <<conf, store, mailbox, armed, frame, outcome, exit, seen>>

\* Code the library calls (a callback, the listener, the store) panics.
\* joerl is not part of the repository: whether it runs the `stopped` hook
\* of an actor that panicked is left open.  In start_fsm and in `stopped`
\* itself there is nobody to run it.
UserCode == (Engine \cup Ending \cup
             {"on_start", "on_enter_start", "on_timer", "on_terminate"}) \ {"stopping"}

Panic ==
    /\ pc \in UserCode
    /\ pc \in {"store", "commit"} => conf.backend # "none"
    /\ exit' = "panic"
    /\ mailbox' = <<>> /\ armed' = FALSE /\ frame' = NoFrame
    /\ \/ pc' = "dead"
       \/ /\ pc \in Serving \/ (pc \in Launching /\ conf.supervised)
          /\ pc' = "stopping"
    /\ UNCHANGED <<conf, st, store, cache, outcome, seen>>

-----------------------------------------------------------------------------
(***************************************************************************)
(* The environment: clients and the scheduled tick put messages in the     *)
(* mailbox.  A message for an actor that is gone is lost.                  *)
(***************************************************************************)

DeliverUnbounded(msg) ==  \* no backpressure
    /\ pc \in Serving
    /\ mailbox' = Append(mailbox, msg)

Deliver(msg) ==
    /\ pc \in Serving /\ Len(mailbox) < MailboxLimit
    /\ mailbox' = Append(mailbox, msg)

\* FinitomataSupervisor::transition and ::shutdown
Send ==
    /\ \/ \E e \in Event : Deliver([type |-> "event", event |-> e])
       \/ Deliver([type |-> "shutdown"])
    /\ UNCHANGED <<conf, pc, st, store, cache, armed, frame, outcome, exit, seen>>

\* The tick scheduled by send_after falls due.
TimerFire ==
    /\ armed
    /\ Deliver([type |-> "tick"])
    /\ armed' = FALSE
    /\ UNCHANGED <<conf, pc, st, store, cache, frame, outcome, exit, seen>>

ActorStep ==
    \/ PreLoad \/ PreStore \/ Load \/ OnStart \/ OnEnterStart \/ Arm
    \/ FireHard \/ OnExit \/ OnTransition \/ OnFailure \/ Reenter
    \/ Store \/ Commit \/ Listen \/ OnEnter
    \/ Receive \/ OnTimer \/ OnTerminate \/ Stopped \/ StoppedTerminate

Next == ActorStep \/ Launch \/ Restart \/ Panic \/ Send \/ TimerFire

Spec == Init /\ [][Next]_vars

\* The runtime polls a task that can run, and the code it calls returns.
\* Nothing obliges a client to send, a timer to be in time, a callback to
\* panic or not, or a supervisor to restart.
FairSpec == Spec /\ WF_vars(ActorStep)

-----------------------------------------------------------------------------
(***************************************************************************)
(* Properties.                                                             *)
(***************************************************************************)

\* Every variable has its type.
TypeOK ==
    /\ conf \in Configs
    /\ pc \in Label
    /\ st \in FsmState
    /\ store \in Persisted \cup {None}
    /\ cache \in FsmState \cup {None}
    /\ mailbox \in Seq(Message) /\ Len(mailbox) <= MailboxLimit
    /\ armed \in BOOLEAN
    /\ frame \in Frame
    /\ outcome \in Outcome
    /\ exit \in {"none", "normal", "panic"}
    /\ seen \in Seen

\* The locals of transit stay true while it awaits: `from` is the state of
\* the FSM until the commit and the target is afterwards, and no target gets
\* as far as the store, the listener or on_enter unless the graph allows it
\* (a target outside the set takes the failure path).
FrameMatches ==
    /\ pc \in Engine => /\ frame.event \in Event /\ frame.from \in State
                        /\ Responds(frame.from, frame.event)
    /\ pc \in Engine \ {"listen", "on_enter"} => frame.from = st.current
    /\ pc \in {"store", "commit", "listen", "on_enter"} =>
          frame.target \in Targets(frame.from, frame.event)
    /\ pc \in {"listen", "on_enter"} => st.current = frame.target

\* What a recovery would find: the persisted state, or nothing, and then a
\* launch begins in the initial state.
Recorded == IF store = None THEN Initial ELSE store.current

\* With a store that does not fail, a crash never loses or invents a
\* transition: at every await the record under the FSM's name is the state
\* the actor is in, except between the store of a target and its commit,
\* when it already is the target.  (transit persists before it updates
\* `current`; recovery starts from the record.)
StoreTracksState ==
    conf.backend = "memory" /\ pc \in Serving =>
        Recorded = IF pc = "commit" THEN frame.target ELSE st.current

\* A Running FSM between two messages is inside its current state: the last
\* on_enter named it and no on_exit followed, also after a failed callback,
\* a refused target or a failed store, which must re-enter the old state.
InsideCurrent ==
    pc \in {"idle", "on_timer", "on_exit"} /\ st.lifecycle = "Running" =>
        seen.inside = st.current

\* on_terminate is called at most once in an incarnation, whatever mixture
\* of auto-termination, shutdown messages, panics and the `stopped` hook ends
\* it; and an actor that stopped normally was told and shows it to readers.
TerminatedOnce ==
    /\ seen.ended <= 1
    /\ pc = "dead" /\ exit = "normal" =>
          seen.ended = 1 /\ cache # None /\ cache.lifecycle = "Terminated"

\* A reader of the cache sees the state, lifecycle and error of a Running
\* actor that waits for messages: every path out of do_transition publishes.
CacheFresh ==
    pc = "idle" /\ st.lifecycle = "Running" =>
        /\ cache # None
        /\ cache.current = st.current
        /\ cache.lifecycle = st.lifecycle
        /\ cache.last_error = st.last_error

\* What the last transit returned can be told from the state it left: the
\* chain that a hard event began has run out of hard events, a transition
\* cleared the error of the one before it, and a failure that let callbacks run
\* recorded its own error, until the next transit.
OutcomeShows ==
    pc = "idle" =>
        /\ outcome = "HardContinue" => ~ HasHard(st.current)
        /\ outcome \in {"Transitioned", "HardContinue"} => st.last_error = None
        /\ outcome = "Failed" => st.last_error \in {"callback", "not_allowed"}
        /\ outcome = "NotStored" => st.last_error = "persistency"

\* With auto_terminate, an actor that has moved does not go back to its
\* mailbox in a final state, also when a hard event or a tick took it there.
FinalEndsActor ==
    conf.auto_terminate /\ pc = "idle" /\ seen.moved => ~ IsFinal(st.current)

\* What the listener was told last is the state the actor is in, once it has
\* moved: a failed callback, a refused target or a failed store tells it
\* nothing, no transition in a chain of hard events is left out, and the news
\* comes before on_enter.
ListenerInformed ==
    pc \in Serving \ {"listen"} =>
        seen.told = IF seen.moved THEN st.current ELSE None

\* No FSM is ever in a state that `validate` calls unreachable, nor is such a
\* state persisted, shown to readers or announced to the listener: whatever
\* target a callback names and however actors die and recover, the way there is
\* a way through the graph from its initial state.
ReachableOnly ==
    /\ st.current \in Reachable
    /\ store # None => store.current \in Reachable
    /\ cache # None => cache.current \in Reachable
    /\ seen.told # None => seen.told \in Reachable

Ticks == Cardinality({i \in DOMAIN mailbox : mailbox[i].type = "tick"})
TicksInFlight == Ticks + (IF armed THEN 1 ELSE 0)
                       + (IF frame.origin = "tick" THEN 1 ELSE 0)

\* The timer neither multiplies nor, once the FSM was started properly, gets
\* lost: one tick is scheduled, in the mailbox or being handled.
OneTick ==
    /\ TicksInFlight <= 1
    /\ conf.timer /\ pc = "idle" /\ (~ conf.supervised \/ conf.backend = "memory") =>
          TicksInFlight = 1

\* A shutdown the actor has accepted ends it, whatever is queued before it
\* and whatever hard events those messages set off.
ShutdownStops ==
    (\E i \in DOMAIN mailbox : mailbox[i].type = "shutdown") ~> (pc = "dead")

\* A handler that was started returns to the mailbox or ends the actor: no
\* chain of hard events and no failure path is a dead end.
HandlerReturns == (pc \notin {"idle", "absent", "dead"}) ~> (pc \in {"idle", "dead"})

-----------------------------------------------------------------------------
(***************************************************************************)
(* What the documentation says and the code does not do.                   *)
(***************************************************************************)

\* "auto-fires immediately after entering the source state": an FSM without
\* an error does not wait for messages in a state with a hard event.
HardAutoFires ==
    pc = "idle" /\ st.last_error = None => ~ HasHard(st.current)

\* "a recurring timer interval for on_timer callbacks": while the actor waits
\* for messages a tick is on its way.
TimerRecurs == conf.timer /\ pc = "idle" => TicksInFlight = 1

\* "Returns `Ok(None)` if no prior state exists" (load) and "Persists the
\* current state and payload after a successful transition" (store): once a
\* state is persisted, only a transition replaces it.
OnlyTransitionsStore ==
    [][store # None /\ store' # store => pc = "store"]_vars

=============================================================================
