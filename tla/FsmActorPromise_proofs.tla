----------------------- MODULE FsmActorPromise_proofs -----------------------
(***************************************************************************)
(* Proof that FsmActor implements FsmPromise, for every graph: a           *)
(* configuration whose store does not fail keeps all of the promise.  Then *)
(* what follows for the timer.                                             *)
(***************************************************************************)
EXTENDS FsmActorPromise, FsmActor_proofs, FiniteSetTheorems,
        FunctionTheorems

LEMMA AnchoredInit == Init => Anchored
BY NewStateFacts, GraphAssumption, ActorAssumption
   DEF Init, Anchored, Launching, Serving, Engine, Ending

\* None is told from a state and from a persisted record.
LEMMA NoneIsNoState == None \notin FsmState
BY ActorAssumption

LEMMA NoneIsNoRecord ==
  ASSUME NEW s \in State, NEW p \in Payload
  PROVE  [current |-> s, payload |-> p] # None
BY ActorAssumption DEF Persisted

LEMMA AnchoredNext == Typed /\ Anchored /\ [Next]_vars => Anchored'
<1> SUFFICES ASSUME Typed, Anchored, [Next]_vars, conf'.backend = "memory"
             PROVE  Anchored'
  BY DEF Anchored
<1>a. /\ st \in FsmState /\ frame \in Frame /\ st.current \in State
      /\ frame.origin \in Origin \cup {None}
      /\ TypeOK /\ pc \in Label
  BY DEF Typed, TypeOK, FsmState, Frame
<1>b. conf' = conf /\ conf.backend = "memory"
  BY DEF Next, ActorStep, vars, Launch, Restart, NewIncarnation, PreLoad, PreStore, Load,
     OnStart, OnEnterStart, Arm, FireHard, OnExit, OnTransition, OnFailure, Reenter,
     Store, Commit, Listen, OnEnter, Receive, OnTimer, OnTerminate, Stopped,
     StoppedTerminate, Panic, Send, TimerFire
<1> USE <1>b DEF Anchored, Recorded, Label, Launching, Engine, Serving, Ending
<1>1. CASE Launch
  BY <1>1, NewStateFacts, GraphAssumption, ActorAssumption DEF Launch, NewIncarnation
<1>2. CASE Restart
  BY <1>2, NewStateFacts, GraphAssumption, ActorAssumption DEF Restart, NewIncarnation
<1>3. CASE PreLoad
  BY <1>3 DEF PreLoad
<1>4. CASE PreStore
  BY <1>4, GraphAssumption, ActorAssumption, NoneIsNoRecord DEF PreStore
<1>5. CASE Load
  <2>1. CASE store # None /\ pc' = "on_start" /\ \E l \in Lifecycle :
               st' = [NewState(store.current, store.payload) EXCEPT !.lifecycle = l]
    <3>1. store.current \in State /\ store.payload \in Payload
      BY <1>a, <2>1 DEF TypeOK, Persisted
    <3>2. st'.current = store.current
      BY <2>1, <3>1, NewStateFacts
    <3> QED
      BY <1>5, <2>1, <3>2 DEF Load
  <2>2. CASE /\ store = None /\ st' = st
             /\ pc' = IF conf.supervised THEN "arm" ELSE "on_start"
    BY <1>5, <2>2 DEF Load
  <2> QED
    BY <1>5, <2>1, <2>2 DEF Load, Lifecycle
<1>6. CASE OnStart
  <2>1. st'.current = st.current
    BY <1>6, <1>a, TouchedFacts DEF OnStart
  <2> QED
    BY <1>6, <2>1 DEF OnStart
<1>7. CASE OnEnterStart
  <2>1. PICK s \in Touched(st) :
               st' = [s EXCEPT !.lifecycle = "Running"] /\ cache' = st'
    BY <1>7 DEF OnEnterStart
  <2>2. s \in FsmState /\ s.current = st.current
    BY <1>a, <2>1, TouchedFacts
  <2>3. st' \in FsmState /\ st'.current = st.current
    BY <2>1, <2>2, LifecycleFacts DEF Lifecycle
  <2>4. st' # None
    BY <2>3, NoneIsNoState
  <2> QED
    BY <1>7, <2>1, <2>3, <2>4 DEF OnEnterStart
<1>8. CASE Arm
  BY <1>8 DEF Arm
<1>9. ASSUME NEW s \in FsmState, NEW r, NEW o, Answer(s, r, o),
             UNCHANGED store, s.current = Recorded, s.current = st.current,
             conf.supervised => store # None
      PROVE  Anchored'
  BY <1>9, NoneIsNoState DEF Answer, Settle
<1>10. ASSUME NEW s \in FsmState, NEW e \in Event, NEW o \in Origin \cup {None},
              Dispatch(s, e, o), UNCHANGED store,
              pc \in {"hard", "idle", "on_timer"}, s.current = st.current
       PROVE  Anchored'
  <2>1. CASE pc' = "idle"
    BY <1>a, <1>10, <2>1, DispatchFacts, NoneIsNoState
  <2>2. CASE pc' = "on_exit"
    BY <1>a, <1>10, <2>2, DispatchFacts
  <2> QED
    BY <1>a, <1>10, <2>1, <2>2, DispatchFacts
<1>11. CASE FireHard
  <2>1. CASE HasHard(st.current)
    BY <1>a, <1>10, <1>11, <2>1, HardEventResponds DEF FireHard
  <2>2. CASE ~ HasHard(st.current)
    BY <1>11, <2>2 DEF FireHard, Settle
  <2> QED
    BY <2>1, <2>2
<1>12. CASE OnExit
  <2>1. st'.current = st.current
    BY <1>a, <1>12, TouchedFacts DEF OnExit
  <2> QED
    BY <1>12, <2>1 DEF OnExit
<1>13. CASE OnTransition
  <2>1. st'.current = st.current
    BY <1>a, <1>13, TouchedFacts DEF OnTransition
  <2> QED
    BY <1>13, <2>1 DEF OnTransition
<1>14. CASE OnFailure
  <2>1. PICK s \in Touched(st) : st' = [s EXCEPT !.last_error = frame.error]
    BY <1>14 DEF OnFailure
  <2>2. s \in FsmState /\ s.current = st.current /\ frame.error \in Error \cup {None}
    BY <1>a, <2>1, TouchedFacts DEF Frame
  <2>3. st'.current = st.current
    BY <2>1, <2>2, ErrorFacts
  <2> QED
    BY <1>14, <2>3 DEF OnFailure
<1>15. CASE Reenter
  <2>1. PICK s \in Touched(st), r \in Outcome : Answer(s, r, frame.origin)
    BY <1>15 DEF Reenter, Outcome
  <2>2. s \in FsmState /\ s.current = st.current
    BY <1>a, <2>1, TouchedFacts
  <2> QED
    BY <1>9, <1>15, <2>1, <2>2 DEF Reenter
<1>16. CASE Store
  <2>1. frame.target \in State /\ st.payload \in Payload
    BY <1>16, AllowedIsDeclared DEF Store, Typed, TypeOK, FrameMatches, FsmState
  <2>2. store' = [current |-> frame.target, payload |-> st.payload]
    BY <1>16 DEF Store
  <2>3. store' # None /\ store'.current = frame.target
    BY <2>1, <2>2, NoneIsNoRecord
  <2> QED
    BY <1>16, <2>3 DEF Store
<1>17. CASE Commit
  <2>1. frame.target \in State
    BY <1>17, AllowedIsDeclared DEF Commit, Typed, FrameMatches
  <2>2. st'.current = frame.target
    BY <1>a, <1>17, <2>1, CommittedFacts DEF Commit
  <2> QED
    BY <1>17, <2>2 DEF Commit
<1>18. CASE Listen
  BY <1>18 DEF Listen
<1>19. CASE OnEnter
  <2>1. PICK s \in Touched(st) :
          \/ st' = [s EXCEPT !.lifecycle = "Terminating"] /\ pc' = "on_terminate"
          \/ st' = s /\ cache' = s /\ pc' = "hard"
          \/ Answer(s, "Transitioned", frame.origin)
    BY <1>19, Zenon DEF OnEnter
  <2>2. s \in FsmState /\ s.current = st.current
    BY <1>a, <2>1, TouchedFacts
  <2>3. UNCHANGED store /\ (conf.supervised => store # None) /\ st.current = Recorded
    BY <1>19 DEF OnEnter
  <2>4. CASE st' = [s EXCEPT !.lifecycle = "Terminating"] /\ pc' = "on_terminate"
    BY <2>2, <2>3, <2>4, LifecycleFacts DEF Lifecycle
  <2>5. CASE st' = s /\ cache' = s /\ pc' = "hard"
    BY <2>2, <2>3, <2>5, NoneIsNoState
  <2>6. CASE Answer(s, "Transitioned", frame.origin)
    BY <1>9, <2>2, <2>3, <2>6
  <2> QED
    BY <2>1, <2>4, <2>5, <2>6
<1>20. CASE Receive
  <2> DEFINE msg == Head(mailbox)
  <2>1. CASE msg.type = "event"
    <3>1. msg \in Message
      BY <1>20 DEF Receive, Typed, TypeOK
    <3>2. msg.event \in Event /\ Dispatch(st, msg.event, "event")
      BY <1>20, <2>1, <3>1 DEF Receive, Message
    <3>3. pc = "idle" /\ UNCHANGED store /\ "event" \in Origin
      BY <1>20 DEF Receive, Origin
    <3> QED
      BY <1>a, <1>10, <3>2, <3>3
  <2>2. CASE msg.type = "tick"
    BY <1>20, <2>2 DEF Receive
  <2>3. CASE msg.type = "shutdown"
    <3>1. st' = [st EXCEPT !.lifecycle = "Terminating"]
      BY <1>20, <2>3 DEF Receive
    <3>2. st'.current = st.current
      BY <1>a, <3>1, LifecycleFacts DEF Lifecycle
    <3> QED
      BY <1>20, <2>3, <3>2 DEF Receive
  <2> QED
    BY <1>20, <2>1, <2>2, <2>3 DEF Receive
<1>21. CASE OnTimer
  <2>1. PICK s \in Touched(st) :
          \/ \E e \in Event : Dispatch(s, e, "tick")
          \/ st' = s /\ Settle(s, "tick") /\ UNCHANGED cache
    BY <1>21 DEF OnTimer
  <2>2. s \in FsmState /\ s.current = st.current
    BY <1>a, <2>1, TouchedFacts
  <2>3. pc = "on_timer" /\ UNCHANGED store /\ "tick" \in Origin
    BY <1>21 DEF OnTimer, Origin
  <2>4. CASE \E e \in Event : Dispatch(s, e, "tick")
    BY <1>10, <2>2, <2>3, <2>4
  <2>5. CASE st' = s /\ Settle(s, "tick") /\ UNCHANGED cache
    BY <2>2, <2>3, <2>5 DEF Settle
  <2> QED
    BY <2>1, <2>4, <2>5
<1>22. CASE OnTerminate
  <2>1. PICK s \in Touched(st) : st' = [s EXCEPT !.lifecycle = "Terminated"]
    BY <1>22 DEF OnTerminate
  <2>2. s \in FsmState /\ s.current = st.current
    BY <1>a, <2>1, TouchedFacts
  <2>3. st'.current = st.current
    BY <2>1, <2>2, LifecycleFacts DEF Lifecycle
  <2> QED
    BY <1>22, <2>3 DEF OnTerminate
<1>23. CASE Stopped
  <2>1. st' = st \/ st' = [st EXCEPT !.lifecycle = "Terminated"]
    BY <1>23 DEF Stopped
  <2>2. [st EXCEPT !.lifecycle = "Terminated"].current = st.current
    BY <1>a, LifecycleFacts DEF Lifecycle
  <2>3. st'.current = st.current
    BY <2>1, <2>2, Zenon
  <2> QED
    BY <1>23, <2>3 DEF Stopped
<1>24. CASE StoppedTerminate
  BY <1>24 DEF StoppedTerminate
<1>25. CASE Panic
  BY <1>25 DEF Panic, UserCode
<1>26. CASE Send
  BY <1>26 DEF Send, Deliver
<1>27. CASE TimerFire
  BY <1>27 DEF TimerFire, Deliver
<1>28. CASE UNCHANGED vars
  BY <1>28 DEF vars
<1> QED
  BY <1>1, <1>2, <1>3, <1>4, <1>5, <1>6, <1>7, <1>8, <1>11, <1>12, <1>13, <1>14,
     <1>15, <1>16, <1>17, <1>18, <1>19, <1>20, <1>21, <1>22, <1>23, <1>24, <1>25,
     <1>26, <1>27, <1>28 DEF Next, ActorStep

(***************************************************************************)
(* With a store that does not fail, the persisted, the held and the        *)
(* published state stay in step over crashes, recoveries and launches: the *)
(* invariant by which the refinement below is proved.                      *)
(***************************************************************************)
THEOREM AnchoredCorrect == Spec => []Anchored
<1>1. Init => Typed /\ Anchored
  BY TypedInit, AnchoredInit
<1>2. Typed /\ Anchored /\ [Next]_vars => (Typed /\ Anchored)'
  BY TypedNext, AnchoredNext
<1> QED
  BY <1>1, <1>2, PTL DEF Spec

(***************************************************************************)
(* With a store that does not fail, a crash never loses or invents a       *)
(* transition: the property of the same name, for every graph.  transit    *)
(* persists before it commits, and every recovery starts from the record.  *)
(***************************************************************************)
THEOREM StoreTracksStateCorrect == Spec => []StoreTracksState
<1>1. Anchored => StoreTracksState
  BY DEF Anchored, StoreTracksState
<1> QED
  BY <1>1, AnchoredCorrect, PTL

-----------------------------------------------------------------------------
(***************************************************************************)
(* The refinement.  Only three steps touch the promised state or what a    *)
(* reader sees: PreStore, which writes the state a recovery would assume   *)
(* anyway; Store, which is the Move; and the cache updates, which publish. *)
(***************************************************************************)

\* The abstract specification speaks of the same graph.
LEMMA SameGraph ==
  ASSUME NEW s, NEW e
  PROVE  /\ Promise!Responds(s, e) = Responds(s, e)
         /\ Promise!Targets(s, e) = Targets(s, e)
BY DEF Promise!Responds, Promise!Targets, Promise!Candidates, Promise!Outgoing,
       Promise!First, Responds, Targets, Candidates, Outgoing, First

LEMMA PromiseInit == Init => Promise!Init
BY DEF Init, Promise!Init, PromisedState, PromisedView, Recorded

\* The configuration stays as it was built.
LEMMA ConfStays == [Next]_vars => conf' = conf
BY DEF Next, ActorStep, vars, Launch, Restart, NewIncarnation, PreLoad, PreStore, Load,
   OnStart, OnEnterStart, Arm, FireHard, OnExit, OnTransition, OnFailure, Reenter,
   Store, Commit, Listen, OnEnter, Receive, OnTimer, OnTerminate, Stopped,
   StoppedTerminate, Panic, Send, TimerFire

LEMMA PromiseNext ==
  ASSUME Typed, Typed', Anchored, Anchored', [Next]_vars,
         conf.backend = "memory", conf' = conf
  PROVE  [Promise!Next]_<<PromisedState, PromisedView>>
<1> USE DEF PromisedState, PromisedView
<1>a. /\ TypeOK /\ TypeOK' /\ st \in FsmState /\ st' \in FsmState
      /\ st.current \in State /\ frame.origin \in Origin \cup {None}
  BY DEF Typed, TypeOK, FsmState, Frame
<1>1. CASE Store
  <2>1. store' = [current |-> frame.target, payload |-> st.payload] /\ cache' = cache
    BY <1>1 DEF Store
  <2>2. /\ frame.event \in Event /\ Responds(frame.from, frame.event)
        /\ frame.from = st.current /\ frame.from \in State
        /\ frame.target \in Targets(frame.from, frame.event)
    BY <1>1 DEF Store, Typed, FrameMatches, Engine
  <2>3. PromisedState = st.current /\ PromisedView = PromisedState
    BY <1>1 DEF Store, Anchored, Serving, Engine
  <2>4. frame.target \in State /\ st.payload \in Payload
    BY <2>2, AllowedIsDeclared DEF Typed, TypeOK, FsmState
  <2>5. PromisedState' = frame.target /\ PromisedView' = PromisedView
    BY <2>1, <2>4, NoneIsNoRecord DEF Recorded
  <2>6. Promise!Move
    BY <2>2, <2>3, <2>5, SameGraph DEF Promise!Move
  <2> QED
    BY <2>6 DEF Promise!Next
<1>2. ASSUME UNCHANGED <<store, cache>>
      PROVE  UNCHANGED <<PromisedState, PromisedView>>
  BY <1>2 DEF Recorded
<1>3. ASSUME UNCHANGED store, pc' \in Serving \ {"commit"}, cache' = st'
      PROVE  Promise!Publish
  <2>1. st'.current = Recorded' /\ Recorded' = Recorded
    BY <1>3 DEF Anchored, Recorded
  <2>2. st' # None
    BY <1>a, NoneIsNoState
  <2> QED
    BY <1>3, <2>1, <2>2 DEF Promise!Publish
<1>4. ASSUME NEW s \in FsmState, NEW e \in Event, NEW o \in Origin \cup {None},
             Dispatch(s, e, o), UNCHANGED store
      PROVE  Promise!Publish \/ UNCHANGED <<PromisedState, PromisedView>>
  BY <1>2, <1>3, <1>4, <1>a, DispatchFacts DEF Serving
<1>5. ASSUME NEW s \in FsmState, NEW r, NEW o, Answer(s, r, o), UNCHANGED store
      PROVE  Promise!Publish
  BY <1>3, <1>5 DEF Answer, Settle, Serving
<1>6. CASE PreStore
  <2>1. store = None /\ cache' = cache
    BY <1>6 DEF PreStore, Anchored
  <2>2. store' = None \/ store' = [current |-> Initial, payload |-> DefaultPayload]
    BY <1>6, <2>1 DEF PreStore
  <2> QED
    BY <2>1, <2>2 DEF Recorded
<1>7. CASE OnEnterStart
  BY <1>3, <1>7 DEF OnEnterStart, Serving, Promise!Next
<1>8. CASE FireHard
  BY <1>2, <1>4, <1>8, <1>a, HardEventResponds DEF FireHard, Promise!Next
<1>9. CASE Reenter
  <2>1. \E s \in Touched(st), r \in Outcome : Answer(s, r, frame.origin)
    BY <1>9 DEF Reenter, Outcome
  <2> QED
    BY <1>5, <1>9, <1>a, <2>1, TouchedFacts DEF Reenter, Promise!Next
<1>10. CASE OnEnter
  <2>1. PICK s \in Touched(st) :
          \/ UNCHANGED cache
          \/ st' = s /\ cache' = s /\ pc' = "hard"
          \/ Answer(s, "Transitioned", frame.origin)
    BY <1>10, Zenon DEF OnEnter
  <2>2. s \in FsmState /\ UNCHANGED store
    BY <1>10, <1>a, TouchedFacts DEF OnEnter
  <2> QED
    BY <1>2, <1>3, <1>5, <2>1, <2>2 DEF Serving, Promise!Next
<1>11. CASE Receive
  <2> DEFINE msg == Head(mailbox)
  <2>1. CASE msg.type = "event"
    <3>1. msg \in Message
      BY <1>11, <1>a DEF Receive, TypeOK
    <3>2. msg.event \in Event /\ Dispatch(st, msg.event, "event")
      BY <1>11, <2>1, <3>1 DEF Receive, Message
    <3>3. "event" \in Origin /\ UNCHANGED store
      BY <1>11 DEF Receive, Origin
    <3> QED
      BY <1>4, <1>a, <3>2, <3>3 DEF Promise!Next
  <2>2. CASE msg.type # "event"
    BY <1>2, <1>11, <2>2 DEF Receive
  <2> QED
    BY <2>1, <2>2
<1>12. CASE OnTimer
  <2>1. PICK s \in Touched(st) :
          (\E e \in Event : Dispatch(s, e, "tick")) \/ UNCHANGED cache
    BY <1>12 DEF OnTimer
  <2>2. s \in FsmState /\ "tick" \in Origin /\ UNCHANGED store
    BY <1>12, <1>a, TouchedFacts DEF OnTimer, Origin
  <2> QED
    BY <1>2, <1>4, <2>1, <2>2 DEF Promise!Next
<1>13. ASSUME UNCHANGED store, st' \in Touched(st) \/ st'.current = st.current,
              cache' = st',
              \/ st.current = Recorded
              \/ cache # None /\ cache.current = st.current
       PROVE  Promise!Publish \/ UNCHANGED <<PromisedState, PromisedView>>
  <2>1. st'.current = st.current /\ st' # None
    BY <1>13, <1>a, TouchedFacts, NoneIsNoState
  <2>2. PromisedState' = PromisedState /\ PromisedView' = st.current
    BY <1>13, <2>1 DEF Recorded
  <2> QED
    BY <1>13, <2>1, <2>2 DEF Promise!Publish, Recorded, Anchored
<1>14. CASE OnTerminate
  <2>1. PICK s \in Touched(st) : st' = [s EXCEPT !.lifecycle = "Terminated"]
    BY <1>14 DEF OnTerminate
  <2>2. s \in FsmState /\ s.current = st.current
    BY <1>a, <2>1, TouchedFacts
  <2>3. st'.current = st.current
    BY <2>1, <2>2, LifecycleFacts DEF Lifecycle
  <2>4. st.current = Recorded
    BY <1>14 DEF OnTerminate, Anchored, Serving
  <2> QED
    BY <1>13, <1>14, <2>3, <2>4 DEF OnTerminate, Promise!Next
<1>15. CASE StoppedTerminate
  <2>1. st.current = Recorded \/ (cache # None /\ cache.current = st.current)
    BY <1>15 DEF StoppedTerminate, Anchored, Ending
  <2> QED
    BY <1>13, <1>15, <2>1 DEF StoppedTerminate, Promise!Next
<1>16. CASE \/ Launch \/ Restart \/ PreLoad \/ Load \/ OnStart \/ Arm \/ OnExit
            \/ OnTransition \/ OnFailure \/ Commit \/ Listen \/ Stopped
            \/ Panic \/ Send \/ TimerFire \/ UNCHANGED vars
  BY <1>2, <1>16, Zenon
     DEF Launch, Restart, NewIncarnation, PreLoad, Load, OnStart, Arm, OnExit,
         OnTransition, OnFailure, Commit, Listen, Stopped, Panic, Send, TimerFire, vars
<1> QED
  BY <1>1, <1>6, <1>7, <1>8, <1>9, <1>10, <1>11, <1>12, <1>14, <1>15, <1>16
     DEF Next, ActorStep

(***************************************************************************)
(* FsmActor implements FsmPromise: for every graph, however often the      *)
(* actor crashes and is launched again, the persisted state moves only     *)
(* along declared transitions, each from a state that readers could see,   *)
(* and readers see it or its predecessor.                                  *)
(***************************************************************************)
THEOREM PromiseKept == Spec => KeepsPromise
<1>1. ASSUME Typed, Typed', Anchored, Anchored', [Next]_vars
      PROVE  [Promise!Next]_<<PromisedState, PromisedView>>
  <2>1. CASE conf.backend = "memory"
    BY <1>1, <2>1, ConfStays, PromiseNext
  <2>2. CASE conf.backend # "memory"
    BY <1>1, <2>2, ConfStays DEF PromisedState, PromisedView
  <2> QED
    BY <2>1, <2>2
<1>2. Init => Typed /\ Anchored
  BY TypedInit, AnchoredInit
<1>3. Typed /\ Anchored /\ [Next]_vars => (Typed /\ Anchored)'
  BY TypedNext, AnchoredNext
<1> QED
  BY <1>1, <1>2, <1>3, PromiseInit, PTL DEF Spec, KeepsPromise, Promise!Spec

-----------------------------------------------------------------------------
(***************************************************************************)
(* The ticks in a mailbox.                                                 *)
(***************************************************************************)

TicksOf(mb) == {i \in DOMAIN mb : mb[i].type = "tick"}

LEMMA TicksAreCounted ==
  ASSUME NEW mb \in Seq(Message)
  PROVE  IsFiniteSet(TicksOf(mb)) /\ Cardinality(TicksOf(mb)) \in Nat
<1>1. IsFiniteSet(1..Len(mb))
  BY FS_Interval
<1>2. TicksOf(mb) \in SUBSET (1..Len(mb))
  BY DEF TicksOf
<1> QED
  BY <1>1, <1>2, FS_Subset, FS_CardinalityType

LEMMA NoTicksInNothing == Cardinality(TicksOf(<<>>)) = 0
<1>1. TicksOf(<<>>) = {}
  BY DEF TicksOf
<1> QED
  BY <1>1, FS_EmptySet

LEMMA AppendTicks ==
  ASSUME NEW mb \in Seq(Message), NEW msg \in Message
  PROVE  Cardinality(TicksOf(Append(mb, msg))) =
           Cardinality(TicksOf(mb)) + (IF msg.type = "tick" THEN 1 ELSE 0)
<1> DEFINE l == Len(mb) + 1
<1>1. l \notin TicksOf(mb)
  BY DEF TicksOf
<1>2. TicksOf(Append(mb, msg)) =
        IF msg.type = "tick" THEN TicksOf(mb) \cup {l} ELSE TicksOf(mb)
  BY DEF TicksOf
<1> HIDE DEF l
<1>3. IsFiniteSet(TicksOf(mb)) /\ Cardinality(TicksOf(mb)) \in Nat
  BY TicksAreCounted
<1>4. Cardinality(TicksOf(mb) \cup {l}) = Cardinality(TicksOf(mb)) + 1
  BY <1>1, <1>3, FS_AddElement
<1> QED
  BY <1>2, <1>3, <1>4

LEMMA TailTicks ==
  ASSUME NEW mb \in Seq(Message), mb # <<>>
  PROVE  Cardinality(TicksOf(mb)) =
           Cardinality(TicksOf(Tail(mb))) + (IF Head(mb).type = "tick" THEN 1 ELSE 0)
<1> DEFINE T == TicksOf(Tail(mb))
           U == TicksOf(mb) \ {1}
           f == [i \in T |-> i + 1]
<1>1. Tail(mb) \in Seq(Message)
  OBVIOUS
<1>2. f \in [T -> U]
  BY DEF TicksOf
<1>3. \A i, j \in T : f[i] = f[j] => i = j
  BY DEF TicksOf
<1>4. \A u \in U : u - 1 \in T /\ f[u - 1] = u
  BY DEF TicksOf
<1> HIDE DEF f
<1> HIDE DEF T, U
<1>5. f \in Bijection(T, U)
  BY <1>2, <1>3, <1>4, Fun_IsBij
<1> USE DEF T, U
<1>6. IsFiniteSet(T) /\ Cardinality(U) = Cardinality(T)
  BY <1>1, <1>5, TicksAreCounted, FS_Bijection DEF ExistsBijection
<1>7. 1 \in TicksOf(mb) <=> Head(mb).type = "tick"
  BY DEF TicksOf
<1>8. IsFiniteSet(TicksOf(mb)) /\ Cardinality(TicksOf(mb)) \in Nat
  BY TicksAreCounted
<1>9. Cardinality(U) =
        IF 1 \in TicksOf(mb) THEN Cardinality(TicksOf(mb)) - 1 ELSE Cardinality(TicksOf(mb))
  BY <1>8, FS_RemoveElement
<1> QED
  BY <1>6, <1>7, <1>8, <1>9

-----------------------------------------------------------------------------
(***************************************************************************)
(* The timer.  A tick is scheduled by `started` and by the handler of a    *)
(* tick, and only for a Running FSM.                                       *)
(***************************************************************************)

InFlight(mb, a, f) ==
    Cardinality(TicksOf(mb)) + (IF a THEN 1 ELSE 0)
                             + (IF f.origin = "tick" THEN 1 ELSE 0)

\* The FSM is started by a call of on_enter.
Started == ~ conf.supervised \/ conf.backend = "memory"

Ticking ==
    /\ InFlight(mailbox, armed, frame) <= 1
    /\ pc \notin Serving => mailbox = <<>> /\ ~ armed
    /\ pc = "arm" => InFlight(mailbox, armed, frame) = 0
    /\ pc \in {"arm", "idle"} \cup Launching => frame.origin # "tick"
    /\ pc = "on_timer" => frame.origin = "tick"
    /\ conf.timer /\ Started /\ pc \in Serving \ {"on_terminate"} =>
          /\ st.lifecycle = "Running"
          /\ pc # "arm" => InFlight(mailbox, armed, frame) = 1

LEMMA TickingInit == Init => Ticking
<1> SUFFICES ASSUME Init PROVE Ticking
  OBVIOUS
<1>1. mailbox = <<>> /\ armed = FALSE /\ frame.origin = None /\ pc = "absent"
  BY DEF Init, NoFrame
<1>2. None # "tick"
  BY ActorAssumption DEF Origin
<1> QED
  BY <1>1, <1>2, NoTicksInNothing DEF Ticking, InFlight, Serving, Engine, Launching

\* Where a call of transit ends: a tick that was being handled is scheduled again.
LEMMA SettleTicks ==
  ASSUME TypeOK, NEW s \in FsmState, NEW o \in Origin \cup {None}, Settle(s, o),
         pc \in Serving \ {"arm", "on_terminate"}, UNCHANGED conf, st' = s,
         Cardinality(TicksOf(mailbox')) = Cardinality(TicksOf(mailbox)),
         o = "tick" <=> frame.origin = "tick",
         s.lifecycle = st.lifecycle, Ticking
  PROVE  Ticking'
<1>1. pc' = "idle" /\ frame' = NoFrame
  BY DEF Settle
<1>2. frame'.origin # "tick"
  BY <1>1, ActorAssumption DEF NoFrame, Origin
<1> DEFINE n == Cardinality(TicksOf(mailbox))
<1>3. n \in Nat /\ n' = n
  BY TicksAreCounted DEF TypeOK
<1> HIDE DEF n
<1>4. InFlight(mailbox, armed, frame) = n + (IF armed THEN 1 ELSE 0)
                                          + (IF frame.origin = "tick" THEN 1 ELSE 0)
  BY DEF InFlight, n
<1>5. InFlight(mailbox, armed, frame)' = n + (IF armed' THEN 1 ELSE 0)
  BY <1>2, <1>3 DEF InFlight, n
<1>6. armed' <=> armed \/ (o = "tick" /\ conf.timer /\ s.lifecycle = "Running")
  BY DEF Settle, TypeOK
<1>7. InFlight(mailbox, armed, frame)' <= 1
  <2>1. CASE frame.origin = "tick"
    BY <1>3, <1>4, <1>5, <2>1 DEF Ticking
  <2>2. CASE frame.origin # "tick"
    BY <1>3, <1>4, <1>5, <1>6, <2>2 DEF Ticking
  <2> QED
    BY <2>1, <2>2
<1>8. ASSUME conf.timer, Started
      PROVE  st'.lifecycle = "Running" /\ InFlight(mailbox, armed, frame)' = 1
  <2>1. st.lifecycle = "Running" /\ InFlight(mailbox, armed, frame) = 1
    BY <1>8 DEF Ticking
  <2>2. CASE frame.origin = "tick"
    BY <1>3, <1>4, <1>5, <1>6, <1>8, <2>1, <2>2
  <2>3. CASE frame.origin # "tick"
    BY <1>3, <1>4, <1>5, <1>6, <2>1, <2>3
  <2> QED
    BY <2>1, <2>2, <2>3
<1> QED
  BY <1>1, <1>2, <1>7, <1>8 DEF Ticking, Started, Serving, Launching

\* An incarnation that begins or ends has no tick.
LEMMA ResetTicks ==
  ASSUME mailbox' = <<>>, armed' = FALSE, frame' = NoFrame, pc' \notin Serving
  PROVE  Ticking'
<1>1. frame'.origin # "tick"
  BY ActorAssumption DEF NoFrame, Origin
<1>2. InFlight(mailbox, armed, frame)' = 0
  BY <1>1, NoTicksInNothing DEF InFlight
<1> QED
  BY <1>1, <1>2 DEF Ticking, Serving, Launching

\* Inside a handler nothing is scheduled.
LEMMA QuietTicks ==
  ASSUME Ticking, UNCHANGED <<conf, armed>>, frame'.origin = frame.origin,
         Cardinality(TicksOf(mailbox')) = Cardinality(TicksOf(mailbox)),
         pc \in Serving \ {"arm", "on_terminate"},
         pc' \in Serving \ {"arm", "idle", "on_timer"},
         pc' # "on_terminate" => st'.lifecycle \in {st.lifecycle, "Running"}
  PROVE  Ticking'
<1>1. InFlight(mailbox, armed, frame)' = InFlight(mailbox, armed, frame)
  BY DEF InFlight
<1> QED
  BY <1>1 DEF Ticking, Started, Serving, Engine, Launching

LEMMA DispatchTicks ==
  ASSUME TypeOK, Ticking, NEW s \in FsmState, NEW e \in Event,
         NEW o \in Origin \cup {None}, Dispatch(s, e, o), UNCHANGED conf,
         Cardinality(TicksOf(mailbox')) = Cardinality(TicksOf(mailbox)),
         pc \in {"hard", "idle", "on_timer"},
         o = "tick" <=> frame.origin = "tick", s.lifecycle = st.lifecycle
  PROVE  Ticking'
<1>1. CASE Responds(s.current, e)
  <2>1. /\ pc' = "on_exit" /\ st' = s /\ UNCHANGED armed
        /\ frame' = [event |-> e, kind |-> KindOf(s.current, e), from |-> s.current,
                     target |-> None, error |-> None, origin |-> o]
    BY <1>1 DEF Dispatch
  <2>2. InFlight(mailbox, armed, frame)' = InFlight(mailbox, armed, frame)
    BY <2>1 DEF InFlight
  <2> QED
    BY <2>1, <2>2 DEF Ticking, Started, Serving, Engine, Launching
<1>2. CASE ~ Responds(s.current, e)
  <2>1. Settle(s, o) /\ st' = s
    BY <1>2 DEF Dispatch, Answer
  <2> QED
    BY <2>1, SettleTicks DEF Serving
<1> QED
  BY <1>1, <1>2

LEMMA TickingNext == Typed /\ Anchored /\ Ticking /\ [Next]_vars => Ticking'
<1> SUFFICES ASSUME Typed, Anchored, Ticking, [Next]_vars PROVE Ticking'
  OBVIOUS
<1>a. /\ TypeOK /\ st \in FsmState /\ frame \in Frame /\ mailbox \in Seq(Message)
      /\ frame.origin \in Origin \cup {None} /\ conf' = conf /\ conf \in Config
  BY ConfStays, ActorAssumption DEF Typed, TypeOK, Frame
<1>b. None # "tick"
  BY ActorAssumption DEF Origin
<1> USE DEF Label, Launching, Serving, Engine, Ending
<1>1. ASSUME NewIncarnation, pc' \in Launching PROVE Ticking'
  BY <1>1, ResetTicks DEF NewIncarnation
<1>2. CASE Launch
  BY <1>1, <1>2 DEF Launch
<1>3. CASE Restart
  BY <1>1, <1>3 DEF Restart
<1>4. ASSUME UNCHANGED <<mailbox, armed, frame>>, pc \in Launching,
             pc' \in Launching \cup {"arm"},
             pc' = "arm" /\ Started => st'.lifecycle = "Running"
      PROVE  Ticking'
  <2>1. mailbox' = <<>> /\ ~ armed' /\ frame'.origin # "tick"
    BY <1>4 DEF Ticking
  <2>2. InFlight(mailbox, armed, frame)' = 0
    BY <2>1, NoTicksInNothing DEF InFlight
  <2> QED
    BY <1>4, <1>a, <2>1, <2>2 DEF Ticking, Started
<1>5. CASE PreLoad \/ PreStore \/ OnStart
  BY <1>4, <1>5 DEF PreLoad, PreStore, OnStart
<1>6. CASE Load
  <2>1. pc' = "arm" => ~ Started
    BY <1>6 DEF Load, Anchored, Started
  <2> QED
    BY <1>4, <1>6, <2>1 DEF Load
<1>7. CASE OnEnterStart
  <2>1. PICK s \in Touched(st) : st' = [s EXCEPT !.lifecycle = "Running"]
    BY <1>7 DEF OnEnterStart
  <2>2. s \in FsmState
    BY <1>a, <2>1, TouchedFacts
  <2>3. st'.lifecycle = "Running"
    BY <2>1, <2>2, LifecycleFacts DEF Lifecycle
  <2> QED
    BY <1>4, <1>7, <2>3 DEF OnEnterStart
<1>8. CASE Arm
  <2>1. frame'.origin = "start" /\ armed' = conf.timer /\ UNCHANGED <<mailbox, st>>
    BY <1>8, <1>a DEF Arm, NoFrame
  <2>2. Cardinality(TicksOf(mailbox)) = 0 /\ ~ armed
    BY <1>8, <1>a, TicksAreCounted DEF Arm, Ticking, InFlight
  <2>3. InFlight(mailbox, armed, frame)' = IF conf.timer THEN 1 ELSE 0
    BY <2>1, <2>2 DEF InFlight
  <2> QED
    BY <1>8, <1>a, <2>1, <2>3 DEF Arm, Ticking, Started
<1>9. CASE FireHard
  <2>1. CASE HasHard(st.current)
    <3>1. HardEvent(st.current) \in Event
      BY <1>a, <2>1, HardEventResponds DEF FsmState
    <3> QED
      BY <1>9, <1>a, <2>1, <3>1, DispatchTicks DEF FireHard
  <2>2. CASE ~ HasHard(st.current)
    BY <1>9, <1>a, <2>2, SettleTicks DEF FireHard
  <2> QED
    BY <2>1, <2>2
<1>10. CASE OnExit
  <2>1. st'.lifecycle = st.lifecycle
    BY <1>10, <1>a, TouchedFacts DEF OnExit
  <2> QED
    BY <1>10, <2>1, QuietTicks DEF OnExit
<1>11. CASE OnTransition
  <2>1. st'.lifecycle = st.lifecycle
    BY <1>11, <1>a, TouchedFacts DEF OnTransition
  <2>2. \/ \E t : frame' = [frame EXCEPT !.target = t]
        \/ \E e : frame' = [frame EXCEPT !.error = e]
    BY <1>11 DEF OnTransition
  <2>3. frame'.origin = frame.origin
    BY <1>a, <2>2 DEF Frame
  <2>4. pc = "on_transition" /\ pc' \in {"store", "on_failure"} /\ UNCHANGED <<mailbox, armed>>
    BY <1>11 DEF OnTransition
  <2> QED
    BY <1>a, <2>1, <2>3, <2>4, QuietTicks
<1>12. CASE OnFailure
  <2>1. PICK s \in Touched(st) : st' = [s EXCEPT !.last_error = frame.error]
    BY <1>12 DEF OnFailure
  <2>2. s \in FsmState /\ s.lifecycle = st.lifecycle /\ frame.error \in Error \cup {None}
    BY <1>a, <2>1, TouchedFacts DEF Frame
  <2>3. st'.lifecycle = st.lifecycle
    BY <2>1, <2>2, ErrorFacts
  <2> QED
    BY <1>12, <2>3, QuietTicks DEF OnFailure
<1>13. CASE Reenter
  <2>1. PICK s \in Touched(st) : Settle(s, frame.origin) /\ st' = s
    BY <1>13 DEF Reenter, Answer
  <2> QED
    BY <1>13, <1>a, <2>1, TouchedFacts, SettleTicks DEF Reenter
<1>14. CASE Store
  <2>0. st' = st \/ st' = [st EXCEPT !.last_error = "persistency"]
    BY <1>14 DEF Store
  <2>1. st'.lifecycle = st.lifecycle
    <3>1. [st EXCEPT !.last_error = "persistency"].lifecycle = st.lifecycle
      BY <1>a, ErrorFacts DEF Error
    <3> QED
      BY <2>0, <3>1, Zenon
  <2>2. frame' = frame \/ frame' = [frame EXCEPT !.error = "persistency"]
    BY <1>14 DEF Store
  <2>3. frame'.origin = frame.origin
    BY <1>a, <2>2 DEF Frame
  <2>4. pc = "store" /\ pc' \in {"commit", "reenter"} /\ UNCHANGED <<mailbox, armed>>
    BY <1>14 DEF Store
  <2> QED
    BY <1>a, <2>1, <2>3, <2>4, QuietTicks
<1>15. CASE Commit
  <2>1. frame.target \in State
    BY <1>15, AllowedIsDeclared DEF Commit, Typed, FrameMatches
  <2>2. st'.lifecycle = "Running"
    BY <1>15, <1>a, <2>1, CommittedFacts DEF Commit
  <2> QED
    BY <1>15, <2>2, QuietTicks DEF Commit
<1>16. CASE Listen
  BY <1>16, QuietTicks DEF Listen
<1>17. CASE OnEnter
  <2>1. PICK s \in Touched(st) :
          \/ pc' = "on_terminate" /\ UNCHANGED <<armed, frame>>
          \/ /\ st' = s /\ pc' = "hard" /\ UNCHANGED armed
             /\ frame' = [NoFrame EXCEPT !.origin = frame.origin]
          \/ Answer(s, "Transitioned", frame.origin)
    BY <1>17, Zenon DEF OnEnter
  <2>2. s \in FsmState /\ s.lifecycle = st.lifecycle
    BY <1>a, <2>1, TouchedFacts
  <2>3. pc = "on_enter" /\ UNCHANGED <<conf, mailbox>>
    BY <1>17 DEF OnEnter
  <2>4. CASE pc' = "on_terminate" /\ UNCHANGED <<armed, frame>>
    BY <2>3, <2>4, QuietTicks
  <2>5. CASE /\ st' = s /\ pc' = "hard" /\ UNCHANGED armed
             /\ frame' = [NoFrame EXCEPT !.origin = frame.origin]
    <3>1. frame'.origin = frame.origin
      BY <2>5 DEF NoFrame
    <3> QED
      BY <2>2, <2>3, <2>5, <3>1, QuietTicks
  <2>6. CASE Answer(s, "Transitioned", frame.origin)
    BY <1>a, <2>2, <2>3, <2>6, SettleTicks DEF Answer
  <2> QED
    BY <2>1, <2>4, <2>5, <2>6
<1>18. CASE Receive
  <2> DEFINE msg == Head(mailbox)
  <2>1. /\ mailbox # <<>> /\ mailbox' = Tail(mailbox) /\ pc = "idle"
        /\ mailbox' \in Seq(Message) /\ msg \in Message
    BY <1>18, <1>a DEF Receive
  <2>2. Cardinality(TicksOf(mailbox)) =
          Cardinality(TicksOf(mailbox')) + (IF msg.type = "tick" THEN 1 ELSE 0)
    BY <1>a, <2>1, TailTicks
  <2>3. Cardinality(TicksOf(mailbox')) \in Nat /\ Cardinality(TicksOf(mailbox)) \in Nat
    BY <1>a, <2>1, TicksAreCounted
  <2>4. frame.origin # "tick"
    BY <2>1 DEF Ticking
  <2>5. CASE msg.type = "event"
    <3>1. msg.event \in Event /\ Dispatch(st, msg.event, "event") /\ "event" \in Origin
      BY <1>18, <2>1, <2>5 DEF Receive, Message, Origin
    <3>2. Cardinality(TicksOf(mailbox')) = Cardinality(TicksOf(mailbox))
      BY <2>2, <2>3, <2>5
    <3> QED
      BY <1>a, <2>1, <2>4, <3>1, <3>2, DispatchTicks
  <2>6. CASE msg.type = "tick"
    <3>1. /\ pc' = "on_timer" /\ UNCHANGED <<st, armed>>
          /\ frame' = [NoFrame EXCEPT !.origin = "tick"]
      BY <1>18, <2>6 DEF Receive
    <3>2. frame'.origin = "tick"
      BY <3>1 DEF NoFrame
    <3>3. InFlight(mailbox, armed, frame)' = InFlight(mailbox, armed, frame)
      BY <2>2, <2>3, <2>4, <2>6, <3>1, <3>2 DEF InFlight
    <3> QED
      BY <1>a, <2>1, <3>1, <3>2, <3>3 DEF Ticking, Started
  <2>7. CASE msg.type = "shutdown"
    <3>1. pc' = "on_terminate" /\ UNCHANGED <<armed, frame>>
      BY <1>18, <2>7 DEF Receive
    <3>2. Cardinality(TicksOf(mailbox')) = Cardinality(TicksOf(mailbox))
      BY <2>2, <2>3, <2>7
    <3> QED
      BY <1>a, <2>1, <3>1, <3>2, QuietTicks
  <2> QED
    BY <2>1, <2>5, <2>6, <2>7 DEF Message
<1>19. CASE OnTimer
  <2>1. PICK s \in Touched(st) :
          \/ \E e \in Event : Dispatch(s, e, "tick")
          \/ st' = s /\ Settle(s, "tick") /\ UNCHANGED <<cache, outcome>>
    BY <1>19 DEF OnTimer
  <2>2. s \in FsmState /\ s.lifecycle = st.lifecycle
    BY <1>a, <2>1, TouchedFacts
  <2>3. /\ pc = "on_timer" /\ UNCHANGED mailbox /\ "tick" \in Origin
        /\ frame.origin = "tick"
    BY <1>19 DEF OnTimer, Origin, Ticking
  <2>4. CASE \E e \in Event : Dispatch(s, e, "tick")
    BY <1>a, <2>2, <2>3, <2>4, DispatchTicks
  <2>5. CASE st' = s /\ Settle(s, "tick") /\ UNCHANGED <<cache, outcome>>
    BY <1>a, <2>2, <2>3, <2>5, SettleTicks
  <2> QED
    BY <2>1, <2>4, <2>5
<1>20. CASE OnTerminate
  BY <1>20, ResetTicks DEF OnTerminate
<1>21. CASE Panic
  BY <1>21, ResetTicks DEF Panic
<1>22. CASE Stopped \/ StoppedTerminate
  <2>1. /\ pc \notin Serving \cup Launching /\ pc' \notin Serving \cup Launching
        /\ UNCHANGED <<mailbox, armed, frame>>
    BY <1>22 DEF Stopped, StoppedTerminate
  <2>2. InFlight(mailbox, armed, frame)' = InFlight(mailbox, armed, frame)
    BY <2>1
  <2> QED
    BY <2>1, <2>2 DEF Ticking
<1>23. ASSUME NEW msg \in Message, Deliver(msg), UNCHANGED <<pc, st, frame>>,
             \/ msg.type = "tick" /\ armed = TRUE /\ armed' = FALSE
             \/ msg.type # "tick" /\ armed' = armed
       PROVE  Ticking'
  <2>1. mailbox' = Append(mailbox, msg) /\ pc \in Serving
    BY <1>23 DEF Deliver
  <2>2. Cardinality(TicksOf(mailbox')) =
          Cardinality(TicksOf(mailbox)) + (IF msg.type = "tick" THEN 1 ELSE 0)
    BY <1>a, <2>1, AppendTicks
  <2>3. InFlight(mailbox, armed, frame)' = InFlight(mailbox, armed, frame)
    <3>1. Cardinality(TicksOf(mailbox)) \in Nat
      BY <1>a, TicksAreCounted
    <3>2. CASE msg.type = "tick"
      BY <1>23, <2>2, <3>1, <3>2 DEF InFlight
    <3>3. CASE msg.type # "tick"
      BY <1>23, <2>2, <3>1, <3>3 DEF InFlight
    <3> QED
      BY <3>2, <3>3
  <2> QED
    BY <1>23, <1>a, <2>1, <2>3 DEF Ticking, Started
<1>24. CASE Send
  <2>1. PICK msg \in Message : Deliver(msg) /\ msg.type # "tick"
    <3>1. CASE \E e \in Event : Deliver([type |-> "event", event |-> e])
      BY <3>1 DEF Message
    <3>2. CASE Deliver([type |-> "shutdown"])
      BY <3>2 DEF Message
    <3> QED
      BY <1>24, <3>1, <3>2 DEF Send
  <2> QED
    BY <1>23, <1>24, <2>1 DEF Send
<1>25. CASE TimerFire
  <2>1. [type |-> "tick"] \in Message /\ [type |-> "tick"].type = "tick"
    BY DEF Message
  <2>2. /\ Deliver([type |-> "tick"]) /\ armed = TRUE /\ armed' = FALSE
        /\ UNCHANGED <<pc, st, frame>>
    BY <1>25, <1>a DEF TimerFire, TypeOK
  <2> QED
    BY <1>23, <2>1, <2>2
<1>26. CASE UNCHANGED vars
  <2>1. InFlight(mailbox, armed, frame)' = InFlight(mailbox, armed, frame)
    BY <1>26 DEF vars
  <2> QED
    BY <1>26, <2>1 DEF vars, Ticking, Started
<1> QED
  BY <1>2, <1>3, <1>5, <1>6, <1>7, <1>8, <1>9, <1>10, <1>11, <1>12, <1>13, <1>14,
     <1>15, <1>16, <1>17, <1>18, <1>19, <1>20, <1>21, <1>22, <1>24, <1>25, <1>26
     DEF Next, ActorStep

(***************************************************************************)
(* The timer neither multiplies nor gets lost, for every graph, interval   *)
(* of the schedule and mailbox: one tick is scheduled, in the mailbox or   *)
(* being handled.  That none is lost rests on Anchored: a supervised FSM   *)
(* with a reliable store always recovers, and then is Running.             *)
(***************************************************************************)
THEOREM OneTickCorrect == Spec => []OneTick
<1>1. Init => Typed /\ Anchored /\ Ticking
  BY TypedInit, AnchoredInit, TickingInit
<1>2. Typed /\ Anchored /\ Ticking /\ [Next]_vars => (Typed /\ Anchored /\ Ticking)'
  BY TypedNext, AnchoredNext, TickingNext
<1>3. Ticking => OneTick
  <2>1. InFlight(mailbox, armed, frame) = TicksInFlight
    BY DEF InFlight, TicksOf, TicksInFlight, Ticks
  <2> QED
    BY <2>1 DEF Ticking, OneTick, Started, Serving
<1> QED
  BY <1>1, <1>2, <1>3, PTL DEF Spec

=============================================================================
