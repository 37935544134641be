# A TLA+ model of finitomata

`finitomata` is a Rust library of finite state machines: a user declares a
graph of states and events, implements callbacks, and a supervisor object
animates named instances as actors, with optional persistency, timers and
restarts. These modules model the behaviour of the library at the granularity of
its `await`s; TLC checks them on small instances and TLAPS proves the central
invariants for every instance.

Paths below are relative to the repository; `supervisor.rs` and the like are in
`src/finitomata/src/`.

## 1. Inventory

| Part | State | Operations | Talks to |
|------|-------|------------|----------|
| Transition engine (`engine.rs`) | none of its own; works on `FsmState` | `transit` | graph, callbacks, persistency, listener |
| FSM actor (`FsmActor` in `supervisor.rs`) | `FsmState`, configuration | `started`, `handle_message`, `stopped`, `do_transition`, `handle_timer_tick` | engine, cache, persistency, joerl (mailbox, `send_after`, restart) |
| `FinitomataSupervisor` (`supervisor.rs`) | name to Pid map, joerl registry, cache, configuration | `start_fsm`, `spawn_supervised*`, `transition`, `shutdown`, `state`, `alive`, `all` | actors, persistency, cache |
| Transition graph (`transition.rs`) | immutable list, final states, index | `allowed`, `responds`, `events_for`, `is_final`, `validate`, `shortest_path` | |
| FSM state and history (`state.rs`) | current, payload, history, lifecycle, last error | `new`, `transition_to`, `BoundedHistory::push` | |
| State cache (`cache.rs`) | last published `FsmState` of every name | `update`, `get*`, `all` | written by actors, read by anybody |
| Persistency (`persistency/`) | record (state, payload) of every name | `load`, `store` | called by engine, actor and supervisor |
| `FsmTimer` (`timer.rs`) | a task, a cancel channel, a tick channel | `start`, `stop`, `cancel`, drop | its owner and a consumer |
| Callbacks, listener (`callbacks.rs`, `listener.rs`) | the user's | seven hooks, one notification | called by engine and actor |
| Parsers (`parser/`), macro (`src/finitomata_macro/`) | none | text to graph, validation, code generation | build time |

Each FSM is one actor, so its handlers do not overlap; what makes it hard is
what happens between the awaits of a handler and around it:

* a handler awaits up to six calls (`on_exit`, `on_transition`, the store, the
  listener, `on_enter`, `on_terminate`), each may fail or panic, and each failure
  must leave the FSM in its old state;
* the record is written *before* the state is changed in memory, and a crash
  may fall between the two;
* three copies of the state (actor, record, cache) are written at different
  moments and outlive the actor differently;
* there are four ways to end an actor, and three of them call `on_terminate`;
* the timer re-arms itself from its own handler; hard events fire more
  transitions without going back to the mailbox;
* `FsmTimer`'s task waits for two channels at different places;
* a definition is read by one of two parsers that share no code, in each of two
  syntaxes;
* a name leads to its actor through two tables, joerl's registry and the
  supervisor's own map, which callers, starting actors, restarts and joerl write
  at different moments, while the cache of the name has writers of its own.

What makes each part correct is stated as properties in section 4. The hazards
with their lines are listed in `PROJECT.json`.

## 2. Modules

| Module | Models | Role |
|--------|--------|------|
| `TransitionGraph` | lookups of `transition.rs` | data of `FsmActor` and `FsmPromise` |
| `FsmActor` | `engine.rs`, `supervisor.rs` for one name, cache and record | the core |
| `FsmPromise` | | what users rely on: one state that moves along declared transitions, and a reader's view of it |
| `FsmActorPromise` | | refinement mapping, and the invariant of its proof |
| `FsmSupervisor`, `MCFsmSupervisor` | `FinitomataSupervisor` and `started` in `supervisor.rs`, for many callers, names and actors | what surrounds the core: names, launches, restarts |
| `MCFsmActor` | | a graph and sets of configurations for TLC |
| `BoundedHistory` | `state.rs` | history of visits |
| `FsmTimer` | `timer.rs` | the stand-alone timer |
| `GraphReach`, `MCGraphReach` | `validate`, `reachable_from`, `all_states` | search as a loop, against closed sets |
| `GraphPath`, `MCGraphPath` | `shortest_path` | search as a loop, against distances |
| `FsmDefinition`, `MCFsmDefinition` | `parser/`, `src/finitomata_macro/src/` | from the text of a definition to the generated graph |
| `*_proofs` | | theorems and proofs |

### FsmActor

One name, over any number of successive actors ("incarnations"). A step runs
from one await to the next: it takes the answer of the call that `pc` names and
executes the synchronous code that follows. Correspondence:

| Variable | Code |
|----------|------|
| `st` | `FsmActor.state` without `name` and `history` |
| `store`, `cache` | the entry of the name in the backend and in the `StateCache` |
| `mailbox`, `armed` | the joerl mailbox, a message scheduled by `send_after` |
| `frame` | locals of `do_transition` and `transit`: event, kind, `from`, target, error, and who called |
| `outcome` | the last answer of `transit` |
| `conf` | what the builder was told, and whether `start_fsm` or `spawn_supervised` is used |
| `exit`, `seen` | how the actor ended; history variables for the properties |

| Actions | Code |
|---------|------|
| `Launch`, `PreLoad`, `PreStore`, `Load`, `OnStart`, `OnEnterStart`, `Arm` | `start_fsm`, `spawn_supervised_with_intensity`, `FsmActor::started` |
| `FireHard`, `Receive`, `OnTimer` | the three callers of `do_transition`; `Dispatch` is the head of `transit` |
| `OnExit`, `OnTransition`, `OnFailure`, `Reenter`, `Store`, `Commit`, `Listen`, `OnEnter` | the body of `transit`; `Answer` and `Settle` are what `do_transition` and `handle_message` do after it |
| `OnTerminate`, `Stopped`, `StoppedTerminate` | the endings |
| `Panic`, `Restart` | a panic in called code, a restart by the joerl supervisor |
| `Send`, `TimerFire` | clients, the scheduled tick |

The mapping of `FsmActorPromise` is that of a store that does not fail
(`memory`); for the other configurations it is constant, so that they satisfy
`KeepsPromise` trivially and one run can take all 24 of them.

Callbacks are arbitrary: they may change the payload they are handed, answer
whatever their type allows, and panic. A `faulty` backend may answer any load or
store by `Err`; a `memory` backend is `InMemoryPersistency`. joerl's source is
not part of the repository: whether it runs the `stopped` hook after a panic is
left open, and so is when and whether a crashed child is restarted.

Abstracted: the payload is a value of a small set; texts of errors; the listener
remembers only what it was told last (`seen.told`); the store's effect and its answer are one
step, followed by the separate step `Commit`, so that a crash between them is a
behaviour. A store that takes effect and then answers `Err` is not modelled.
Only the stages of errors that `transit` records are told apart.

### FsmSupervisor

The other side of `FsmActor`: there one name and every await of its actor, here
the callers and everything that is shared between names and actors. A step of a
caller is one access to something shared. An actor is a `phase` and a state; what
happens inside a handler is folded into four steps (`Handle`, `Store`, `Commit`,
`Settle`). What is kept of it are the moments at which record, state and cache are
written: the store (`engine.rs:109`), the new state (`engine.rs:119`), and, when the
listener, `on_enter` and `on_terminate` have returned, the cache.

| Variable | Code |
|----------|------|
| `registry` | joerl's registry: `system.register`, `unregister`, `whereis` |
| `actors` | `FinitomataSupervisor.actors` |
| `cache`, `record` | the state of each name in the `StateCache` and in the backend |
| `fsm` | `name` and `recover_on_start` of each `FsmActor` |
| `phase`, `current`, `other` | where in `started` or in a handler the actor is, `state.current`, and the other end of the transition under way: its target between store and commit, then the state that was left |
| `call` | locals of `start_fsm`, `spawn_supervised_with_intensity`, `transition` and `shutdown`, by what each is about to access; `known` and `served` are history |
| `conf` | persistency, the callers' discipline, the behaviour of joerl |
| `launched`, `shadowed` | history: the launches that have returned; the actors that `start_fsm` registered under a name of which joerl still had an entry |

| Actions | Code |
|---------|------|
| `Launch`, `StartLoad`, `StartPublish`, `StartSpawn`, `StartRegister`, `StartInsert` | `start_fsm` |
| `Launch`, `FirstLoad`, `FirstStore`, `Supervise`, `InsertNobody` | `spawn_supervised_with_intensity` |
| `Send`, `Whereis`, `ReadActors`, `Accept`, `Refuse` | `transition`, `shutdown`, `resolve_pid` |
| `Cancel` | a caller drops the future at an await, or a callback in `start_fsm` panics |
| `Recover`, `PublishRecovered`, `Unregister`, `Register` | `started` of a supervised actor |
| `Handle`, `Store`, `Commit`, `Settle`, `Panic` | `FsmActor`, condensed |
| `Restart`, `GiveUp`, `Release` | joerl's supervisor within and beyond the restart intensity; joerl forgets the name of an actor that has ended |

What joerl does where the code does not tell is a constant choice of `conf`:
`register` of a name that is taken replaces the entry or refuses (`replaces`;
its result is ignored at `supervisor.rs:84` and `:360`), and the entry of an
actor that has ended goes away at some time or never (`releases`). Registering
an actor that has already ended may or may not leave an entry. The store is
`InMemoryPersistency`: failing loads and stores are in `FsmActor`. Not
modelled here: the mailboxes, because every promise about a message ends with
its acceptance.

### BoundedHistory, FsmTimer, GraphReach, GraphPath

`BoundedHistory` keeps the sequence of all visits as a history variable and
compares. `FsmTimer` has the task with its two waiting places, the cancel channel
of one message, any number of `cancel()` tasks, an owner who may drop the handle
or abandon a `stop()`, and a consumer who may close. Ticks are counted, not
timed: `overdue` is what the interval owes. In `GraphReach` the queue is a set of
copies `<<by, state>>`, one for every state that pushed it, because the code queues
a state again as long as it has not been visited and skips what it pops a second
time (`Skip`); the order does not change the result. In `GraphPath` the queue is a
sequence, since the order is the point.
A transition with several targets is several edges; a transition without a
target, which no parser produces, is left out of both.

### FsmDefinition

One text is fed line by line to the crate's parser (`runtime`) and to the
macro's (`macro`), in one of the two syntaxes; at its end the macro validates and
`graph` becomes what `build_graph` returns. A line is a record of its form and of
the words around its separators; a word is an atom that is an identifier or not,
and may begin like a header or with `state `. All that follows an arrow, taken as one word, is
`Rest`: Mermaid's `parse_flowchart_line` takes `[*] --> s : e` for such a word.
Abstracted: how a line is cut into words (a word contains no separator, and
spaces surround the words), `->` beside `-->` in PlantUML, the texts of errors.
Nothing in the repository feeds a `ParsedFsm` of the crate's parser into a graph,
so its results are compared with what the macro has accepted. The two disagree
about labelled starts and about declarations (section 6); `SameReading` assumes
neither away, it says how far each of them reaches, and that there is no other but
for a PlantUML state whose name begins with the word `state`.

## 3. Assumptions

* Constants: `GraphAssumption` (the graph is over its states; `None` is neither a
  state nor an event), `ActorAssumption` (types, `None` is no record and no origin
  of an event), `SupervisorAssumption` (`None` and `Nobody`, the `Pid::new()` of `supervisor.rs:452`, are no actors),
  `HistoryAssumption`, `TimerAssumption` (tokio refuses a channel of capacity 0),
  `GraphsAssumption`, `PathAssumption` (edges and start are over the states; `None` is no
  sequence of positions), `DefinitionAssumption` (`[*]`, the empty
  word and `-->` are no identifiers; what follows an arrow with its label is no
  word).
* A graph is not assumed to have passed `validate`: `FinitomataSupervisor::new`
  takes any.
* `FsmActor` follows one name with one actor at a time; `FsmSupervisor` has any
  number of both.
* `Reaches`, `RefusedOnlyIfGone` and `ShownIsReached` are about callers that
  launch a name only while nobody else launches it and no actor of it lives or
  will be restarted (`conf.exclusive`, `Free`). Whether joerl still has an entry of
  an actor that has ended is no part of it: a caller cannot know. The code does not
  enforce the discipline: `start_fsm` of a running name answers Ok and leaves an
  actor that no name leads to (section 6). `NotForgotten` and `NameKept` hold of all
  callers.

## 4. Runs

| Run | Question and answer |
|-----|---------------------|
| `actor` | Do the safety invariants hold for all 24 configurations, under every interleaving of clients, timer, panics, restarts and failing stores? With a reliable store, do the actor, its crashes and its recoveries implement `FsmPromise`? Yes. |
| `actor_live` | Does an accepted shutdown end the actor, and does every handler return? Yes. |
| `supervisor` | Do names lead to the actors that serve them, are errors of `transition` and `shutdown` true, and does the cache show the actor that serves? Yes, for the callers of section 3, with one exception that `Reaches` states (section 6). |
| `history` | Are exactly the last runs of the visits kept? Yes. |
| `timer` | Is no tick early, none after `stop()`, and does every ending end the task? Yes, with a consumer that receives. |
| `validate` | Are exactly the unreachable states reported, and does the search end? Yes. |
| `path` | Is the path a shortest walk, is None exact, is no state expanded twice, does the search end? Yes. |
| `definition` | How far do the two parsers give a text one meaning, and is the generated graph sound? Final states and transitions are the same; states are, but for those that a labelled start or a declaration names. The graph is sound. |
| `hard_auto_fires`, `timer_recurs`, `only_transitions_store`, `timer_stop_blocked` | What the documentation says and the code does not do: section 6. |

The invariants of `actor`, each with what would break it:

* `FrameMatches`: the locals of `transit` stay true across its awaits, and no
  target outside the graph reaches store, listener or `on_enter`.
* `StoreTracksState`: with a reliable store, the record is the actor's state at
  every await except between store and commit.
* `InsideCurrent`: `on_exit` and `on_enter` are balanced, also on every failure
  path: a Running FSM that waits is inside its current state.
* `TerminatedOnce`: `on_terminate` at most once in an incarnation, and a normal
  stop shows Terminated to readers.
* `CacheFresh`: readers see state, lifecycle and error of a Running FSM that waits.
* `OutcomeShows`: the state shows how the last `transit` ended; in particular a
  chain begun by a hard event has run out of hard events.
* `FinalEndsActor`: with `auto_terminate` an actor that has moved does not wait
  in a final state.
* `OneTick`: the timer neither multiplies nor, once started properly, stops.
* `ListenerInformed`: the listener was told last of the state the actor is in, at
  every await but its own; no failed transition is announced, none is left out.
* `ReachableOnly`: actor, record, cache and listener only hold states that can be
  reached from the initial state, which is what `validate` computes; also over
  recoveries, with a failing store, and in a graph that `validate` refuses.
* `Anchored`, `KeepsPromise`: the inductive invariant of the refinement, and the
  refinement.

The properties of `supervisor`:

* `Reaches`: the registry has the actor of a name from the moment it serves,
  whatever joerl does with the entry of the actor before it. `started` therefore
  has to unregister before it registers. `start_fsm` does not: an actor that it
  registers over an entry which joerl still has, and does not replace, is
  excepted (section 6).
* `RefusedOnlyIfGone`: an error of `transition` or `shutdown` means that the actor
  to which the name led when the call began has ended since. A lookup that asked
  the map before the registry would break it, because the map still has the first
  actor, or nobody.
* `NotForgotten`: "not found" is never said of a name whose launch has returned,
  also while an actor is between `unregister` and `register`: the map decides
  between "not found" and "failed to send", the registry alone leads to an actor.
* `ShownIsReached`: the state in the cache is that of the actor that serves the
  name; while the listener, `on_enter` and `on_terminate` of a transition run it is
  the state that was left, never an older one. Except for a supervised FSM without
  persistency (section 6).
* `NameKept`: a living actor loses its name only to a supervised actor of that
  name that (re)starts, if joerl refuses to register a name twice.

The properties of `path`:

* `Explored`: the loop invariant. What has left the queue has only visited
  successors, none of them the goal, and all that is as near as the head of the
  queue has been visited. A state marked at the wrong moment breaks it.
* `QueueInOrder`: every queued entry carries a shortest walk to its state, and the
  lengths in the queue ascend by at most one.
* `PathShortest`: the answer is a walk that none undercuts; after None a set of
  states that no edge leaves has the start and not the goal.
* `Progress`: every iteration that goes on is done with one more state for good,
  although the code has only one `visited` set for what is queued and what is
  expanded; so the loop runs at most once for each state.

The invariants of `definition`:

* `SameReading`: what the macro accepts the crate's parser reads, unless it has no
  transition at all, with the same final states and the same transitions in the
  same order. It has every state that the macro has, but the initial one may be
  called by its whole line; it has no others but those so called and those that
  declarations name.
* `GraphSound`: the generated graph passes `TransitionGraph::validate`, mentions
  each variant of the state enum, and is deterministic, although transitions to
  `[*]` become loops and names become variants.

### Bounds

* `MCFsmActor`: five states, four events; a hard event that fires on start and
  may lead to a second hard event or to a state that waits for a normal one; a
  normal event into the source of a hard event; a soft self-loop; a final state
  entered by a hard event; a state with a transition that nothing enters. Every branch of `transit` is taken.
* `MailboxLimit = 2`: a message behind another is enough for a shutdown or a tick
  that waits behind an event; the handler takes one message at a time, and
  what it does with it does not depend on the others.
* One payload: no property compares payloads. The theorems allow any set of them.
* Incarnations are not bounded: no counter of them is kept.
* `MCFsmSupervisor`: two callers, because every hazard of the code is one caller
  against another or against an actor. Three kinds of configuration: one name under
  all behaviours of joerl, with two actors (a launch, and a restart or a second
  launch) and with a third where entries are refused and states persist; two
  names with one actor each way; and callers that launch a name twice. The callers run the same code, so permuting them is a symmetry.
  `CHECK_DEADLOCK FALSE`: when the actors of the bound are used up, a launch and a
  restart wait for ever. No theorem has a bound.
* `actor_live` uses a store that may fail and a timer, whose behaviours include
  those without a failure and without a tick.
* `MaxVisits = 8` with a history of two entries: several evictions, and repeats
  before, at and after each.
* `FsmTimer`: `Capacity = 2`, two intervals late, two cancellers. The task sends
  one tick at a time, and the first canceller that is heard ends it.
* `MCGraphReach`: all graphs on three states, and all on four without an edge from
  a state to itself, with and without a final state: a state is queued up to three
  times, from cycles too. `MCGraphPath`: all orders of up to six of eight edges with two routes of
  different length, a cycle, a self-loop and a doubled edge.
* `MCFsmDefinition`: 56 lines, with every form of line, its words present, empty
  or malformed. A definition needs three lines (initial, one transition, final);
  the fourth is one that duplicates, contradicts or spoils it. The theorems have
  no bound.

### Fairness

* `FairSpec` of `FsmActor` is weak fairness of the actor's own steps: the tokio
  runtime polls a task that can run, and the calls it awaits return. Nothing is
  assumed of clients, of the timer, of panics, of restarts or of the answers that
  callbacks give. In
  `MCFsmActor` no cycle consists of hard events only. The code does not exclude
  such a graph, and there `do_transition` would call itself for ever and
  keep the actor away from its mailbox: `HandlerReturns` and `ShutdownStops` are
  claims about graphs without one.
* `RuntimeSpec` of `FsmTimer`: weak fairness of the tasks' steps, and strong
  fairness of the cancel branch, because `select!` polls its branches in random
  order and therefore takes one that is ready again and again. `ConsumedSpec`
  adds a consumer that keeps receiving. Time need not pass.
* The two searches: weak fairness of the loop.

## 5. Proofs

Checked by TLAPS for every value of the constants under the assumptions of
section 3.

* `FsmActor_proofs`: `TypeCorrect`, `FrameCorrect`. The inductive invariant is
  `TypeOK /\ FrameMatches`: types alone are not inductive, because `Commit` writes
  `frame.target` into the state, and that it is a state follows from
  `FrameMatches`.
  Then `InsideCurrentCorrect`, `TerminatedOnceCorrect`, `CacheFreshCorrect`,
  `OutcomeShowsCorrect`, `FinalEndsActorCorrect` and `ListenerInformedCorrect`.
  Each of these speaks of an actor that waits for messages; the strengthening,
  `Conduct`, says what has to hold at the awaits on the way there: inside which
  state, how many calls of `on_terminate`, what is published, where an error is
  on its way to the answer, and whether the actor may be in a final state.
  `ReachableOnlyCorrect`: each copy of the state is only ever replaced by another
  copy, by the initial state, or by a target that the graph allows in a reachable
  state (`StaysReachable`). The module begins with lemmas on the first matching
  transition.
* `FsmActorPromise_proofs`: `AnchoredCorrect`, `StoreTracksStateCorrect` and
  `PromiseKept`, the refinement, for every set of configurations. The strengthening
  is `Anchored`: before a recovery the actor's state is a fresh initial state;
  after it the record is the anchor; a supervised FSM has a record from its first
  incarnation on; a transition starts from a published state; what the `stopped`
  hook of a crashed actor publishes is the record or nothing new. Each step then
  maps to a `Move`, to a `Publish`, or to a stutter.
  `OneTickCorrect`: the ticks in the mailbox are counted as the cardinality of a
  set of positions, with lemmas on appending to and taking from the mailbox;
  `Ticking` adds where in a handler the tick is.
* `FsmSupervisor_proofs`: `SupervisorTypeCorrect`, `NotForgottenCorrect`,
  `NameKeptCorrect`, `ReachesCorrect`, `RefusedOnlyIfGoneCorrect` and
  `ShownIsReachedCorrect`, for any number of callers, names and actors. All steps
  are reduced to four kinds (`Steps`): a caller's step that spawns no actor
  (`Quiet`), one that does (`Spawns`), a step of an actor (`Works`), and what joerl
  does. The invariant, `Order`, is a tower: who is restarted (`Kinds`); one actor
  and one launch of a name (`Alone`, the only place where the callers' discipline
  is used); who has the name (`Held`: nobody while a `started` is between unregister
  and register; the actor that serves, if it is not one that `start_fsm` registered
  over a kept entry); what a sender knows of the actors that served when it began
  (`Followed`); what the cache shows (`Shown`).
* `BoundedHistory_proofs`: `HistoryTypeCorrect`, `NoRepeatsCorrect`, and, for
  every `max_size` but 0, `BoundedCorrect` and `RemembersLastRunsCorrect`. The last
  follows a sequence of visits through its runs: the start of a run has as rank the
  number of starts up to it, so the n-th start is well defined (`NthFacts`, from the
  cardinality of initial segments); a repeated visit lengthens the last run and
  moves nothing else (`SameRun`), any other begins a run of rank one more
  (`NewRun`); push does the same to the entries (`PushRepeat`, `PushNew`). The
  invariant is `Ranked /\ Remembers`: every rank is taken, every run but the last
  has a next one, and the newest entry is of the state visited last.
* `FsmTimer_proofs`: `TimerTypeCorrect`, `NoEarlyTickCorrect`,
  `NoTickAfterStopCorrect`. The last needs that a stopped owner has seen the task end.
* `GraphReach_proofs`: `SearchTypeCorrect`, `FrontierCorrect`,
  `ReportExactCorrect`: the loop invariant, and that the set visited when the queue
  is empty is the least closed set, whatever copies of a state were queued. The
  graph need not be finite.
* `FsmDefinition_proofs`: `DefinitionTypeCorrect`, `SameReadingCorrect`,
  `GraphSoundCorrect`, for texts of any length. The strengthening is `Alike`: as
  long as the macro has read nothing that its validation will refuse, the other
  parser has not failed, holds the same final states and transitions, and no state
  that is not explained by the two disagreements. That it lacks no state is known
  only at the end: in a valid definition every state but the initial one is the
  target of a transition (`AllMentioned`, `NoneMissing`).
* `GraphPath_proofs`: `PathTypeCorrect`, `ExploredCorrect`, `QueueInOrderCorrect`,
  `PathShortestCorrect`, `ProgressCorrect` and `ShortestWalkCorrect`, for every list
  of edges over any set of states. The reference, `Within[n]`, is a recursive
  function, and what it computes is needed for every n. Induction is therefore
  proved as a fact about sets of numbers (`AllNumbers`, from the well-foundedness of
  `<`): `WithinLayers` shows that `Within` satisfies its equation, as the states that
  a walk of at most n edges leads to do (`WalkedLayers`), and `WithinWalked` that the
  two are the same. `InOrderLists` shows that the order of the edges lists each once,
  from ranks and the cardinality of finite sets. The inductive invariant is
  `TypeOK /\ Explored /\ Layered /\ Answered`: the entries are of the head's length or
  one more, in ascending order (`Layered`), and while the search goes on nothing has
  been answered. `ProgressCorrect` adds that no state is queued twice (`Distinct`).
  `ShortestWalkCorrect` says it all without layers: no walk to the goal has fewer
  edges than the answer, and after None there is no walk at all.

Every safety property that a passing run checks is proved. `NoRepeats` and
`Bounded` follow from `RemembersLastRuns` and have no run of their own, and the
types of `GraphPath` are only proved. What is only model-checked are the liveness
properties (`ShutdownStops`, `HandlerReturns`, `StopEnds`, `CancelEnds`, and `Returns`
of both searches), since fairness speaks of ENABLED, which is out of reach of the
prover. For `shortest_path` the safety half of `Returns` is proved: by
`ProgressCorrect` no state is expanded twice, so with finitely many states the loop
has finitely many iterations. The runs of section 6 are counterexamples and prove
nothing.

## 6. Where the code and its documentation differ

Shown by a run (the quotations are in `PROJECT.json`):

* `hard_auto_fires`: a hard event does not fire when a normal or soft event
  enters its source; it stays pending.
* `timer_recurs`: a supervised FSM that recovers nothing stays Created, and its
  timer stops after the first tick that makes no transition.
* `only_transitions_store`: `spawn_supervised` takes a failed load for an empty
  store and overwrites the record with the initial state.
* `timer_stop_blocked`: `FsmTimer::stop` never returns to a caller that holds the
  receiver of a full tick channel.

Seen while modelling, without a run of their own:

* The FSM of `timer_recurs` also serves messages without `on_start` and `on_enter`,
  while `callbacks.rs:35` says of `on_start`: "Once, when the FSM actor is first
  spawned".
* The crate's Mermaid parser calls the initial state of `[*] --> s : e` by the whole
  of `s : e` (`parser/mermaid.rs:172`), while the comment on the next function (line
  204) expects the main loop to see such a line. The macro and the PlantUML parser
  read `s`, although `src/README.md:521` gives the two syntaxes the "Same semantics".
* In PlantUML `state "Label" as s` enters `Label`, not `s`, among the states of the
  crate's parser (`parser/plantuml.rs:67`), the comment on it says "extract name"
  and `src/README.md:521` that such declarations are supported. The macro enters
  nothing.
* In PlantUML lines that start with a state whose name begins with the word `state`
  are skipped by the macro only (`finitomata_macro/src/parser.rs:160`), and
  `s --> [*] :` with an empty label is a final state to the crate's parser and an
  invalid transition to the macro.
* `src/README.md:157` says that the macro rejects empty definitions. Its validation
  does not: without a transition it is the compiler that refuses the generated
  code.
* The attributes `auto_terminate` and `timer` (`src/README.md:148`) generate
  constants that nothing reads: the FSM terminates or ticks only if the supervisor
  is built `with_auto_terminate` or `with_timer`.
* A supervised FSM without persistency publishes nothing when it starts:
  `state()`, `alive()` and `all()` know nothing of it before its first message, and
  show what the crashed actor had published after a restart, while
  `supervisor.rs:495` says "Returns all FSM instances managed by this supervisor".
  `ShownIsReached` excepts it.
* `start_fsm` of a name that is taken answers Ok. If joerl refuses the name, the
  new actor runs without one, writes cache and record of the name like the first,
  and `actors` has forgotten the first; if joerl replaces the entry, the first one
  is out of reach. Nothing documents what should happen.
* `start_fsm` of a name whose actor has ended answers Ok too, and if joerl still has
  the old entry and refuses a second one the new actor runs and is in the
  supervisor's map, but `transition` and `shutdown` find the Pid of the old one.
  `started` guards against that by unregistering first, `start_fsm` does not
  (`supervisor.rs:360`). `Reaches` excepts exactly this actor.
* `spawn_supervised` returns before its actor can be reached: a `transition` that
  follows at once may be answered by "failed to send" (`supervisor.rs:452`).
  `RefusedOnlyIfGone` counts from the moment the actor serves.
* `shutdown` answers Ok for a message that a crash of the actor loses; joerl then
  restarts a supervised FSM that was told to stop (`supervisor.rs:503-505`).
* An FSM launched or restarted in its persisted final state waits there as Running
  although `auto_terminate` is on (`supervisor.rs:291`); `FinalEndsActor` is
  therefore restricted to an actor that has moved.
* A `NotResponds` error is recorded nowhere (`state.rs:100`), and the sender
  cannot learn of it; `OutcomeShows` leaves it out.
* A failed load at a restart begins in the initial state (`supervisor.rs:372`).
* A payload changed by an `on_timer` that returns `None` is not published
  (`src/README.md:441`); `CacheFresh` leaves the payload out.
* `BoundedHistory` with `max_size = 0` keeps one entry.
* `timer.rs:10` says that `FsmTimer` is used by unsupervised instances; nothing in
  the crate uses it, and all actors use `send_after`.

## 7. Not modelled

* One specification that has both the awaits of `FsmActor` and the names of
  `FsmSupervisor`: the product is too large for TLC, and the interface between
  them is small (a name's record and cache, the endings of an actor), so each
  module carries the other's side as free choices.
* Liveness of the supervisor: that a restarted actor is reached again needs a
  joerl that restarts within its intensity and a process that does not crash each
  time, which the code does not promise.
* A backend that fails under several callers: one name suffices for what a failing
  store does, and that is in `FsmActor`.
* `Persistency::store_error` and `StateCache::remove`, which nothing calls, and
  `InMemoryPersistency::remove`, which only tests call.
* What becomes of readers of a crashed FSM: without the `stopped` hook the cache
  says Running of an actor that is gone, and the code promises nothing else.

Left out for good: the texts of generated code and the reading of the macro's
attributes, texts of messages, `tracing` output, the examples and tests (read as
documentation), and joerl and tokio themselves, which appear as external actions
modelled from how the code uses them.
