-------------------------- MODULE FsmActor_proofs ---------------------------
(***************************************************************************)
(* Proofs about FsmActor for every graph, payload set, set of              *)
(* configurations and mailbox limit.                                       *)
(***************************************************************************)
EXTENDS FsmActor, WellFoundedInduction, TLAPS

(***************************************************************************)
(* `find` on a non-empty set of positions returns one of them, and none    *)
(* that precedes it: the lists of TransitionGraph.index are in declaration *)
(* order.                                                                  *)
(***************************************************************************)
LEMMA FirstIsLeast ==
  ASSUME NEW I \in SUBSET Nat, I # {}
  PROVE  First(I) \in I /\ \A j \in I : First(I) <= j
<1>1. \E i \in I : \A j \in I : ~ (<<j, i>> \in OpToRel(<, Nat))
  BY WFMin, NatLessThanWellFounded, Zenon
<1>2. \E i \in I : \A j \in I : ~ (j < i)
  BY <1>1, Zenon DEF OpToRel
<1>3. \E i \in I : \A j \in I : i <= j
  BY <1>2
<1> QED
  BY <1>3 DEF First

(***************************************************************************)
(* `allowed` answers with a transition that leaves the queried state on    *)
(* the queried event; its targets are states and its kind is a kind.       *)
(***************************************************************************)
LEMMA AllowedIsDeclared ==
  ASSUME NEW s \in State, NEW e \in Event, Responds(s, e)
  PROVE  /\ First(Candidates(s, e)) \in Candidates(s, e)
         /\ Targets(s, e) \subseteq State
         /\ KindOf(s, e) \in Kind
<1>1. Candidates(s, e) \in SUBSET Nat /\ Candidates(s, e) # {}
  BY GraphAssumption DEF Responds, Candidates, Outgoing
<1>2. First(Candidates(s, e)) \in Candidates(s, e)
  BY <1>1, FirstIsLeast
<1>3. First(Candidates(s, e)) \in DOMAIN Transitions
  BY <1>2 DEF Candidates, Outgoing
<1>4. Transitions[First(Candidates(s, e))] \in Transition
  BY <1>3, GraphAssumption
<1> QED
  BY <1>2, <1>4 DEF Targets, KindOf, Transition

(***************************************************************************)
(* The event the actor fires by itself is an event the state responds to,  *)
(* so a hard event is never answered with not_responds.  (Its kind may     *)
(* still differ: `allowed` returns the first entry for the event, which    *)
(* need not be the hard one.)                                              *)
(***************************************************************************)
LEMMA HardEventResponds ==
  ASSUME NEW s \in State, HasHard(s)
  PROVE  HardEvent(s) \in Event /\ Responds(s, HardEvent(s))
<1>1. HardOutgoing(s) \in SUBSET Nat /\ HardOutgoing(s) # {}
  BY GraphAssumption DEF HasHard, HardOutgoing, Outgoing
<1>2. First(HardOutgoing(s)) \in HardOutgoing(s)
  BY <1>1, FirstIsLeast
<1>3. First(HardOutgoing(s)) \in Outgoing(s) /\ First(HardOutgoing(s)) \in DOMAIN Transitions
  BY <1>2 DEF HardOutgoing, Outgoing
<1>4. Transitions[First(HardOutgoing(s))] \in Transition
  BY <1>3, GraphAssumption
<1>5. HardEvent(s) \in Event
  BY <1>4 DEF HardEvent, Transition
<1>6. First(HardOutgoing(s)) \in Candidates(s, HardEvent(s))
  BY <1>3 DEF Candidates, HardEvent
<1> QED
  BY <1>5, <1>6 DEF Responds

-----------------------------------------------------------------------------
(***************************************************************************)
(* Records.  The field-by-field facts about FsmState and Frame that the    *)
(* steps need, so that no step has to expand a record set.                 *)
(***************************************************************************)

\* A state made by FsmState::new.
LEMMA NewStateFacts ==
  ASSUME NEW s \in State, NEW p \in Payload
  PROVE  /\ NewState(s, p) \in FsmState
         /\ NewState(s, p).current = s /\ NewState(s, p).lifecycle = "Created"
         /\ \A l \in Lifecycle :
              /\ [NewState(s, p) EXCEPT !.lifecycle = l] \in FsmState
              /\ [NewState(s, p) EXCEPT !.lifecycle = l].current = s
BY DEF NewState, FsmState, Lifecycle

\* A callback may change the payload and nothing else.
LEMMA TouchedFacts ==
  ASSUME NEW s \in FsmState, NEW t \in Touched(s)
  PROVE  /\ t \in FsmState
         /\ t.current = s.current
         /\ t.lifecycle = s.lifecycle
         /\ t.last_error = s.last_error
BY DEF Touched, FsmState

\* Assigning the lifecycle or the error leaves the rest alone.
LEMMA LifecycleFacts ==
  ASSUME NEW s \in FsmState, NEW l \in Lifecycle
  PROVE  /\ [s EXCEPT !.lifecycle = l] \in FsmState
         /\ [s EXCEPT !.lifecycle = l].current = s.current
         /\ [s EXCEPT !.lifecycle = l].lifecycle = l
         /\ [s EXCEPT !.lifecycle = l].last_error = s.last_error
BY DEF FsmState

LEMMA ErrorFacts ==
  ASSUME NEW s \in FsmState, NEW e \in Error \cup {None}
  PROVE  /\ [s EXCEPT !.last_error = e] \in FsmState
         /\ [s EXCEPT !.last_error = e].current = s.current
         /\ [s EXCEPT !.last_error = e].lifecycle = s.lifecycle
         /\ [s EXCEPT !.last_error = e].last_error = e
BY DEF FsmState

\* transition_to(target) with the assignments around it.
LEMMA CommittedFacts ==
  ASSUME NEW s \in FsmState, NEW t \in State
  PROVE  LET c == [s EXCEPT !.current = t, !.last_error = None, !.lifecycle = "Running"]
         IN  c \in FsmState /\ c.current = t /\ c.lifecycle = "Running" /\ c.last_error = None
BY DEF FsmState, Lifecycle

\* The empty frame, and a frame that only remembers its origin.
LEMMA EmptyFrameFacts ==
  /\ NoFrame \in Frame
  /\ \A o \in Origin \cup {None} : [NoFrame EXCEPT !.origin = o] \in Frame
BY DEF NoFrame, Frame

\* Filling in the target or the error of a frame.
LEMMA TargetFacts ==
  ASSUME NEW f \in Frame, NEW t \in State
  PROVE  /\ [f EXCEPT !.target = t] \in Frame
         /\ [f EXCEPT !.target = t].target = t
         /\ [f EXCEPT !.target = t].from = f.from
         /\ [f EXCEPT !.target = t].event = f.event
BY DEF Frame

LEMMA FailedFrameFacts ==
  ASSUME NEW f \in Frame, NEW e \in Error
  PROVE  /\ [f EXCEPT !.error = e] \in Frame
         /\ [f EXCEPT !.error = e].error = e
         /\ [f EXCEPT !.error = e].from = f.from
         /\ [f EXCEPT !.error = e].event = f.event
BY DEF Frame

\* Recording an on_enter or on_exit, and a call of on_terminate.
LEMMA EnteredFacts ==
  ASSUME NEW n \in Seen, NEW i \in State \cup {None}
  PROVE  /\ [n EXCEPT !.inside = i] \in Seen
         /\ [n EXCEPT !.inside = i].inside = i
         /\ [n EXCEPT !.inside = i].ended = n.ended
         /\ [n EXCEPT !.inside = i].moved = n.moved
         /\ [n EXCEPT !.inside = i].told = n.told
BY DEF Seen

LEMMA ToldFacts ==
  ASSUME NEW n \in Seen, NEW t \in State \cup {None}
  PROVE  /\ [n EXCEPT !.told = t] \in Seen
         /\ [n EXCEPT !.told = t].told = t
         /\ [n EXCEPT !.told = t].inside = n.inside
         /\ [n EXCEPT !.told = t].ended = n.ended
         /\ [n EXCEPT !.told = t].moved = n.moved
BY DEF Seen

LEMMA LeavingFacts ==
  ASSUME NEW n \in Seen, NEW i \in State \cup {None}
  PROVE  /\ [n EXCEPT !.inside = i, !.ended = n.ended + 1] \in Seen
         /\ [n EXCEPT !.inside = i, !.ended = n.ended + 1].ended = n.ended + 1
         /\ [n EXCEPT !.inside = i, !.ended = n.ended + 1].moved = n.moved
         /\ [n EXCEPT !.inside = i, !.ended = n.ended + 1].told = n.told
<1> DEFINE m == [n EXCEPT !.inside = i]
<1>1. m \in Seen /\ m.moved = n.moved /\ m.told = n.told
  BY DEF Seen
<1>2. n.ended \in Nat
  BY DEF Seen
<1> HIDE DEF m
<1>3. [m EXCEPT !.ended = n.ended + 1] \in Seen
  BY <1>1, <1>2 DEF Seen
<1>4. /\ [m EXCEPT !.ended = n.ended + 1].ended = n.ended + 1
      /\ [m EXCEPT !.ended = n.ended + 1].moved = n.moved
      /\ [m EXCEPT !.ended = n.ended + 1].told = n.told
  BY <1>1 DEF Seen
<1> QED
  BY <1>3, <1>4 DEF m

LEMMA TerminatingFacts ==
  ASSUME NEW n \in Seen
  PROVE  /\ [n EXCEPT !.ended = @ + 1] \in Seen
         /\ [n EXCEPT !.ended = @ + 1].ended = n.ended + 1
         /\ [n EXCEPT !.ended = @ + 1].moved = n.moved
         /\ [n EXCEPT !.ended = @ + 1].told = n.told
BY DEF Seen

-----------------------------------------------------------------------------
(***************************************************************************)
(* The three operators in which a call of transit begins and ends.         *)
(***************************************************************************)

LEMMA SettleFacts ==
  ASSUME TypeOK, NEW s \in FsmState, NEW o \in Origin \cup {None}, Settle(s, o)
  PROVE  pc' = "idle" /\ frame' \in Frame /\ armed' \in BOOLEAN
BY EmptyFrameFacts DEF Settle, TypeOK

LEMMA AnswerFacts ==
  ASSUME TypeOK, NEW s \in FsmState, NEW o \in Origin \cup {None},
         NEW r \in Outcome, Answer(s, r, o)
  PROVE  /\ pc' = "idle" /\ st' = s /\ cache' = s /\ outcome' \in Outcome
         /\ frame' \in Frame /\ armed' \in BOOLEAN
BY SettleFacts DEF Answer

LEMMA DispatchFacts ==
  ASSUME TypeOK, NEW s \in FsmState, NEW e \in Event,
         NEW o \in Origin \cup {None}, Dispatch(s, e, o)
  PROVE  /\ st' = s /\ cache' \in FsmState \cup {None} /\ outcome' \in Outcome
         /\ frame' \in Frame /\ armed' \in BOOLEAN
         /\ \/ pc' = "idle" /\ cache' = s
            \/ /\ pc' = "on_exit" /\ cache' = cache
               /\ frame'.event = e /\ frame'.from = s.current
               /\ Responds(s.current, e)
<1>1. s.current \in State
  BY DEF FsmState
<1>2. CASE Responds(s.current, e)
  <2>1. KindOf(s.current, e) \in Kind
    BY <1>1, <1>2, AllowedIsDeclared
  <2>2. frame' \in Frame /\ frame'.event = e /\ frame'.from = s.current
    BY <1>1, <1>2, <2>1 DEF Dispatch, Frame
  <2> QED
    BY <1>2, <2>2 DEF Dispatch, TypeOK
<1>3. CASE ~ Responds(s.current, e)
  <2>1. PICK r \in Outcome : Answer(s, r, o)
    BY <1>3 DEF Dispatch, Outcome
  <2> QED
    BY <2>1, AnswerFacts
<1> QED
  BY <1>2, <1>3

-----------------------------------------------------------------------------

Typed == TypeOK /\ FrameMatches

LEMMA TypedInit == Init => Typed
<1> SUFFICES ASSUME Init PROVE Typed
  OBVIOUS
<1>1. TypeOK
  <2>1. st \in FsmState /\ frame \in Frame
    BY NewStateFacts, EmptyFrameFacts, GraphAssumption, ActorAssumption DEF Init
  <2>2. mailbox \in Seq(Message) /\ Len(mailbox) <= MailboxLimit
    BY ActorAssumption DEF Init
  <2>3. seen \in Seen
    BY DEF Init, NothingSeen, Seen
  <2> QED
    BY <2>1, <2>2, <2>3 DEF Init, TypeOK, Label, Outcome
<1>2. FrameMatches
  BY DEF Init, FrameMatches, Engine
<1> QED
  BY <1>1, <1>2 DEF Typed

LEMMA TypedNext == Typed /\ [Next]_vars => Typed'
<1> SUFFICES ASSUME Typed, [Next]_vars PROVE Typed'
  OBVIOUS
<1> USE DEF Typed, TypeOK, FrameMatches, Label, Launching, Engine, Serving, Ending
<1>a. st.current \in State
  BY DEF FsmState
<1>b. frame.error \in Error \cup {None} /\ frame.origin \in Origin \cup {None}
  BY DEF Frame
<1>1. ASSUME NewIncarnation, pc' \in Launching PROVE Typed'
  <2>1. st' \in FsmState /\ frame' \in Frame
    BY <1>1, NewStateFacts, EmptyFrameFacts, GraphAssumption, ActorAssumption
       DEF NewIncarnation
  <2>2. mailbox' \in Seq(Message) /\ Len(mailbox') <= MailboxLimit
    BY <1>1, ActorAssumption DEF NewIncarnation
  <2>3. seen' \in Seen
    BY <1>1 DEF NewIncarnation, NothingSeen, Seen
  <2> QED
    BY <1>1, <2>1, <2>2, <2>3 DEF NewIncarnation, Outcome
<1>2. CASE Launch
  BY <1>1, <1>2 DEF Launch
<1>3. CASE Restart
  BY <1>1, <1>3 DEF Restart
<1>4. CASE PreLoad
  BY <1>4 DEF PreLoad
<1>5. CASE PreStore
  <2>1. store' \in Persisted \cup {None}
    BY <1>5, GraphAssumption, ActorAssumption DEF PreStore, Persisted
  <2> QED
    BY <1>5, <2>1 DEF PreStore
<1>6. CASE Load
  <2>1. st' \in FsmState
    <3>1. CASE store # None /\ \E l \in Lifecycle :
                 st' = [NewState(store.current, store.payload) EXCEPT !.lifecycle = l]
      BY <3>1, NewStateFacts DEF Persisted
    <3> QED
      BY <1>6, <3>1 DEF Load, Lifecycle
  <2>2. pc' \in {"on_start", "arm"}
    BY <1>6 DEF Load
  <2> QED
    BY <1>6, <2>1, <2>2 DEF Load
<1>7. CASE OnStart
  <2>1. st' \in FsmState
    BY <1>7, TouchedFacts DEF OnStart
  <2> QED
    BY <1>7, <2>1 DEF OnStart
<1>8. CASE OnEnterStart
  <2>1. PICK s \in Touched(st) :
               st' = [s EXCEPT !.lifecycle = "Running"] /\ cache' = st'
    BY <1>8 DEF OnEnterStart
  <2>2. st' \in FsmState /\ cache' \in FsmState
    BY <2>1, TouchedFacts, LifecycleFacts DEF Lifecycle
  <2>3. seen' \in Seen
    BY <1>8, <1>a, EnteredFacts DEF OnEnterStart
  <2> QED
    BY <1>8, <2>2, <2>3 DEF OnEnterStart
<1>9. CASE Arm
  <2>1. frame' \in Frame
    BY <1>9, EmptyFrameFacts DEF Arm, Origin
  <2>2. armed' \in BOOLEAN
    BY <1>9, ActorAssumption DEF Arm, Config
  <2> QED
    BY <1>9, <2>1, <2>2 DEF Arm
<1>10. CASE FireHard
  <2>1. CASE HasHard(st.current)
    <3>1. HardEvent(st.current) \in Event
      BY <1>a, <2>1, HardEventResponds
    <3>2. Dispatch(st, HardEvent(st.current), frame.origin)
      BY <1>10, <2>1 DEF FireHard
    <3> HIDE DEF FrameMatches
    <3>3. TypeOK'
      BY <1>10, <1>a, <1>b, <3>1, <3>2, DispatchFacts DEF FireHard
    <3> USE DEF FrameMatches
    <3> QED
      BY <1>a, <1>b, <3>1, <3>2, <3>3, DispatchFacts
  <2>2. CASE ~ HasHard(st.current)
    <3>1. Settle(st, frame.origin)
      BY <1>10, <2>2 DEF FireHard
    <3> QED
      BY <1>10, <1>b, <2>2, <3>1, SettleFacts DEF FireHard
  <2> QED
    BY <2>1, <2>2
<1>11. CASE OnExit
  <2>1. st' \in FsmState /\ st'.current = st.current
    BY <1>11, TouchedFacts DEF OnExit
  <2>2. seen' \in Seen
    BY <1>11, EnteredFacts DEF OnExit
  <2> QED
    BY <1>11, <2>1, <2>2 DEF OnExit
<1>12. CASE OnTransition
  <2>1. st' \in FsmState /\ st'.current = st.current
    BY <1>12, TouchedFacts DEF OnTransition
  <2>2. CASE \E t \in State : /\ AllowedTarget(t) /\ pc' = "store"
                              /\ frame' = [frame EXCEPT !.target = t]
    <3>1. PICK t \in State : /\ AllowedTarget(t) /\ pc' = "store"
                             /\ frame' = [frame EXCEPT !.target = t]
      BY <2>2
    <3>2. /\ frame' \in Frame /\ frame'.target = t
          /\ frame'.from = frame.from /\ frame'.event = frame.event
      BY <3>1, TargetFacts
    <3> QED
      BY <1>12, <2>1, <3>1, <3>2 DEF OnTransition, AllowedTarget
  <2>3. CASE \E e \in Error : pc' = "on_failure" /\ frame' = [frame EXCEPT !.error = e]
    <3>1. /\ pc' = "on_failure" /\ frame' \in Frame
          /\ frame'.from = frame.from /\ frame'.event = frame.event
      BY <2>3, FailedFrameFacts
    <3> QED
      BY <1>12, <2>1, <3>1 DEF OnTransition
  <2> QED
    BY <1>12, <2>2, <2>3 DEF OnTransition, Error
<1>13. CASE OnFailure
  <2>1. PICK s \in Touched(st) : st' = [s EXCEPT !.last_error = frame.error]
    BY <1>13 DEF OnFailure
  <2>2. st' \in FsmState /\ st'.current = st.current
    BY <1>b, <2>1, TouchedFacts, ErrorFacts
  <2> QED
    BY <1>13, <2>2 DEF OnFailure
<1>14. CASE Reenter
  <2>1. PICK s \in Touched(st), r \in Outcome : Answer(s, r, frame.origin)
    BY <1>14 DEF Reenter, Outcome
  <2>2. s \in FsmState
    BY <2>1, TouchedFacts
  <2>3. seen' \in Seen
    BY <1>14, EnteredFacts DEF Reenter
  <2> QED
    BY <1>14, <1>b, <2>1, <2>2, <2>3, AnswerFacts DEF Reenter
<1>15. CASE Store
  <2>1. frame.target \in State /\ st.payload \in Payload
    BY <1>15, AllowedIsDeclared DEF Store, FsmState
  <2>2. CASE st' = st /\ frame' = frame /\ pc' = "commit"
    <3>1. store' \in Persisted \cup {None}
      BY <1>15, <2>1, <2>2 DEF Store, Persisted
    <3> QED
      BY <1>15, <2>2, <3>1 DEF Store
  <2>3. CASE /\ st' = [st EXCEPT !.last_error = "persistency"]
             /\ frame' = [frame EXCEPT !.error = "persistency"]
             /\ pc' = "reenter" /\ store' = store
    <3>1. st' \in FsmState /\ st'.current = st.current
      BY <2>3, ErrorFacts DEF Error
    <3>2. /\ frame' \in Frame
          /\ frame'.from = frame.from /\ frame'.event = frame.event
      BY <2>3, FailedFrameFacts DEF Error
    <3> QED
      BY <1>15, <2>3, <3>1, <3>2 DEF Store
  <2> QED
    BY <1>15, <2>2, <2>3 DEF Store
<1>16. CASE Commit
  <2>1. frame.target \in State
    BY <1>16, AllowedIsDeclared DEF Commit
  <2>2. st' \in FsmState /\ st'.current = frame.target
    BY <1>16, <2>1, CommittedFacts DEF Commit
  <2>3. seen' \in Seen
    BY <1>16 DEF Commit, Seen
  <2> QED
    BY <1>16, <2>2, <2>3 DEF Commit
<1>17. CASE Listen
  <2>1. frame.target \in State
    BY <1>17, AllowedIsDeclared DEF Listen
  <2>2. seen' \in Seen
    BY <1>17, <2>1, ToldFacts DEF Listen
  <2> QED
    BY <1>17, <2>2 DEF Listen
<1>18. CASE OnEnter
  <2>0. frame.target \in State
    BY <1>18, AllowedIsDeclared DEF OnEnter
  <2>1. seen' \in Seen
    <3>1. \/ seen' = [seen EXCEPT !.inside = frame.target]
          \/ seen' = [seen EXCEPT !.inside = frame.target, !.ended = seen.ended + 1]
      BY <1>18, Zenon DEF OnEnter
    <3> QED
      BY <2>0, <3>1, EnteredFacts, LeavingFacts
  <2>2. PICK s \in Touched(st) :
          \/ /\ st' = [s EXCEPT !.lifecycle = "Terminating"]
             /\ outcome' = "AutoTerminate" /\ pc' = "on_terminate"
             /\ UNCHANGED <<cache, armed, frame>>
          \/ /\ st' = s /\ cache' = s
             /\ outcome' = "HardContinue" /\ pc' = "hard"
             /\ frame' = [NoFrame EXCEPT !.origin = frame.origin]
             /\ UNCHANGED armed
          \/ Answer(s, "Transitioned", frame.origin)
    BY <1>18, Zenon DEF OnEnter
  <2>3. s \in FsmState /\ [s EXCEPT !.lifecycle = "Terminating"] \in FsmState
    BY TouchedFacts, LifecycleFacts DEF Lifecycle
  <2>4. CASE Answer(s, "Transitioned", frame.origin)
    BY <1>18, <1>b, <2>1, <2>3, <2>4, AnswerFacts DEF OnEnter, Outcome
  <2>5. [NoFrame EXCEPT !.origin = frame.origin] \in Frame
    BY <1>b, EmptyFrameFacts
  <2> QED
    BY <1>18, <2>1, <2>2, <2>3, <2>4, <2>5 DEF OnEnter, Outcome
<1>19. CASE Receive
  <2>1. /\ mailbox' \in Seq(Message) /\ Len(mailbox') <= MailboxLimit
        /\ Head(mailbox) \in Message
    BY <1>19, ActorAssumption DEF Receive
  <2> DEFINE msg == Head(mailbox)
  <2>2. CASE msg.type = "event"
    <3>1. msg.event \in Event
      BY <2>1, <2>2 DEF Message
    <3>2. Dispatch(st, msg.event, "event") /\ seen' = seen
      BY <1>19, <2>2 DEF Receive
    <3>3. "event" \in Origin
      BY DEF Origin
    <3> QED
      BY <1>19, <1>a, <2>1, <3>1, <3>2, <3>3, DispatchFacts DEF Receive
  <2>3. CASE msg.type = "tick"
    <3>1. frame' \in Frame /\ pc' = "on_timer"
      BY <1>19, <2>3, EmptyFrameFacts DEF Receive, Origin
    <3> QED
      BY <1>19, <2>1, <2>3, <3>1 DEF Receive
  <2>4. CASE msg.type = "shutdown"
    <3>1. st' \in FsmState
      BY <1>19, <2>4, LifecycleFacts DEF Receive, Lifecycle
    <3>2. seen' \in Seen
      BY <1>19, <2>4, TerminatingFacts DEF Receive
    <3> QED
      BY <1>19, <2>1, <2>4, <3>1, <3>2 DEF Receive
  <2> QED
    BY <1>19, <2>2, <2>3, <2>4 DEF Receive
<1>20. CASE OnTimer
  <2>1. PICK s \in Touched(st) :
          \/ \E e \in Event : Dispatch(s, e, "tick")
          \/ st' = s /\ Settle(s, "tick") /\ UNCHANGED <<cache, outcome>>
    BY <1>20 DEF OnTimer
  <2>2. s \in FsmState /\ s.current \in State
    BY <1>a, TouchedFacts
  <2>3. "tick" \in Origin
    BY DEF Origin
  <2>4. CASE \E e \in Event : Dispatch(s, e, "tick")
    BY <1>20, <2>2, <2>3, <2>4, DispatchFacts DEF OnTimer
  <2>5. CASE st' = s /\ Settle(s, "tick") /\ UNCHANGED <<cache, outcome>>
    BY <1>20, <2>2, <2>3, <2>5, SettleFacts DEF OnTimer
  <2> QED
    BY <2>1, <2>4, <2>5
<1>21. CASE OnTerminate
  <2>1. PICK s \in Touched(st) : st' = [s EXCEPT !.lifecycle = "Terminated"]
    BY <1>21 DEF OnTerminate
  <2>3. st' \in FsmState /\ cache' \in FsmState
    BY <1>21, <2>1, TouchedFacts, LifecycleFacts DEF OnTerminate, Lifecycle
  <2>2. mailbox' \in Seq(Message) /\ Len(mailbox') <= MailboxLimit
    BY <1>21, ActorAssumption DEF OnTerminate
  <2> QED
    BY <1>21, <2>2, <2>3, EmptyFrameFacts DEF OnTerminate
<1>22. CASE Stopped
  <2>1. st' \in FsmState
    BY <1>22, LifecycleFacts DEF Stopped, Lifecycle
  <2>2. seen' \in Seen
    BY <1>22, TerminatingFacts DEF Stopped
  <2> QED
    BY <1>22, <2>1, <2>2 DEF Stopped
<1>23. CASE StoppedTerminate
  <2>1. st' \in FsmState /\ cache' \in FsmState
    BY <1>23, TouchedFacts DEF StoppedTerminate
  <2> QED
    BY <1>23, <2>1 DEF StoppedTerminate
<1>24. CASE Panic
  <2>1. mailbox' \in Seq(Message) /\ Len(mailbox') <= MailboxLimit
    BY <1>24, ActorAssumption DEF Panic
  <2> QED
    BY <1>24, <2>1, EmptyFrameFacts DEF Panic
<1>25. ASSUME NEW msg \in Message, Deliver(msg), armed' \in BOOLEAN,
              UNCHANGED <<conf, st, store, cache, frame, outcome, exit, seen>>
       PROVE  pc' = pc => Typed'
  <2>1. mailbox' \in Seq(Message) /\ Len(mailbox') <= MailboxLimit
    BY <1>25, ActorAssumption DEF Deliver
  <2> QED
    BY <1>25, <2>1
<1>26. CASE Send
  <2>1. \E msg \in Message : Deliver(msg)
    BY <1>26 DEF Send, Message
  <2> QED
    BY <1>25, <1>26, <2>1 DEF Send
<1>27. CASE TimerFire
  <2>1. \E msg \in Message : Deliver(msg)
    BY <1>27 DEF TimerFire, Message
  <2> QED
    BY <1>25, <1>27, <2>1 DEF TimerFire
<1>28. CASE UNCHANGED vars
  BY <1>28 DEF vars
<1> QED
  BY <1>2, <1>3, <1>4, <1>5, <1>6, <1>7, <1>8, <1>9, <1>10, <1>11, <1>12, <1>13,
     <1>14, <1>15, <1>16, <1>17, <1>18, <1>19, <1>20, <1>21, <1>22, <1>23, <1>24,
     <1>26, <1>27, <1>28 DEF Next, ActorStep

(***************************************************************************)
(* The variables have their types in every reachable state: in particular  *)
(* `frame.target` is a state whenever it is stored, committed or entered.  *)
(***************************************************************************)
THEOREM TypeCorrect == Spec => []TypeOK
<1>1. Typed => TypeOK
  BY DEF Typed
<1> QED
  BY TypedInit, TypedNext, <1>1, PTL DEF Spec

(***************************************************************************)
(* The locals of transit agree with the actor's state at every await, and  *)
(* only a target the graph allows gets past the check.                     *)
(***************************************************************************)
THEOREM FrameCorrect == Spec => []FrameMatches
<1>1. Typed => FrameMatches
  BY DEF Typed
<1> QED
  BY TypedInit, TypedNext, <1>1, PTL DEF Spec

-----------------------------------------------------------------------------
(***************************************************************************)
(* The other safety invariants of the runs, by one inductive invariant.    *)
(* Each of them speaks of an actor that waits for messages; `Conduct` says *)
(* what it has to be at the awaits on the way there.                       *)
(***************************************************************************)

\* Nothing has been told, fired or ended before the actor is armed.
Unbegun ==
    /\ pc \in {"absent", "arm"} \cup Launching =>
          /\ seen.ended = 0 /\ ~ seen.moved /\ seen.told = None
          /\ outcome = "none"
    /\ pc \in {"pre_load", "pre_store", "load"} => st.lifecycle = "Created"

\* Inside the current state wherever a transition may begin.
Balanced ==
    pc \in {"arm", "hard", "idle", "on_timer", "on_exit"} /\ st.lifecycle = "Running" =>
        seen.inside = st.current

\* The calls of on_terminate, by how far the end has come.
Counted ==
    /\ pc \in {"absent"} \cup Launching \cup Serving => exit = "none"
    /\ pc \in Serving \ {"on_terminate"} => seen.ended = 0
    /\ pc = "on_terminate" => seen.ended = 1 /\ st.lifecycle = "Terminating"
    /\ pc = "stopping" /\ st.lifecycle = "Running" => seen.ended = 0
    /\ pc = "stopped_terminate" => seen.ended = 1 /\ exit # "normal"
    /\ seen.ended <= 1
    /\ pc \in {"stopping", "dead"} /\ exit = "normal" =>
          /\ seen.ended = 1 /\ st.lifecycle = "Terminated"
          /\ cache # None /\ cache.lifecycle = "Terminated"

\* The cache is fresh wherever a handler may return without publishing.
Published ==
    pc \in {"arm", "hard", "idle", "on_timer"} /\ st.lifecycle = "Running" =>
        /\ cache # None /\ cache.current = st.current
        /\ cache.lifecycle = st.lifecycle /\ cache.last_error = st.last_error

\* The error on its way from where it arises to the answer.
Explained ==
    /\ pc = "on_failure" => frame.error \in {"callback", "not_allowed"}
    /\ pc = "reenter" => frame.error \in Error /\ st.last_error = frame.error
    /\ pc \in {"listen", "on_enter"} => st.last_error = None
    /\ pc = "hard" => outcome \in {"none", "HardContinue"}
    /\ pc \in {"hard", "idle", "on_timer"} =>
          /\ outcome \in {"Transitioned", "HardContinue"} => st.last_error = None
          /\ outcome = "Failed" => st.last_error \in {"callback", "not_allowed"}
          /\ outcome = "NotStored" => st.last_error = "persistency"
    /\ pc \in {"idle", "on_timer"} /\ outcome = "HardContinue" => ~ HasHard(st.current)

\* A final state is left only through on_terminate.
Unfinished ==
    conf.auto_terminate /\ pc \in Serving \ {"listen", "on_enter", "on_terminate"}
        /\ seen.moved => ~ IsFinal(st.current)

Informed ==
    /\ pc = "listen" => seen.moved
    /\ ListenerInformed

Conduct == Unbegun /\ Balanced /\ Counted /\ Published /\ Explained /\ Unfinished /\ Informed

LEMMA ConductInit == Init => Conduct
BY DEF Init, NothingSeen, Conduct, Unbegun, Balanced, Counted, Published, Explained,
       Unfinished, Informed, ListenerInformed, Launching, Serving, Engine

LEMMA ConductNext == Typed /\ Conduct /\ [Next]_vars => Conduct'
<1> SUFFICES ASSUME Typed, Conduct, [Next]_vars PROVE Conduct'
  OBVIOUS
<1>a. /\ st \in FsmState /\ frame \in Frame /\ seen \in Seen /\ st.current \in State
      /\ frame.origin \in Origin \cup {None} /\ pc \in Label /\ TypeOK
      /\ None \notin FsmState
  BY ActorAssumption DEF Typed, TypeOK, FsmState, Frame
<1> USE DEF Conduct, Unbegun, Balanced, Counted, Published, Explained, Unfinished,
            Informed, ListenerInformed, Label, Launching, Serving, Engine, Ending
<1>1. ASSUME NewIncarnation, pc' \in Launching PROVE Conduct'
  <2>1. /\ seen'.ended = 0 /\ ~ seen'.moved /\ seen'.told = None
        /\ outcome' = "none" /\ exit' = "none" /\ st'.lifecycle = "Created"
    BY <1>1, NewStateFacts, GraphAssumption, ActorAssumption DEF NewIncarnation, NothingSeen
  <2> QED
    BY <1>1, <2>1
<1>2. CASE Launch
  BY <1>1, <1>2 DEF Launch
<1>3. CASE Restart
  BY <1>1, <1>3 DEF Restart
<1>4. CASE PreLoad
  BY <1>4 DEF PreLoad
<1>5. CASE PreStore
  BY <1>5 DEF PreStore
<1>6. CASE Load
  <2>1. CASE pc' = "on_start"
    BY <1>6, <2>1 DEF Load
  <2>2. CASE pc' = "arm" /\ UNCHANGED st
    BY <1>6, <2>2 DEF Load
  <2> QED
    BY <1>6, <2>1, <2>2 DEF Load
<1>7. CASE OnStart
  BY <1>7 DEF OnStart
<1>8. CASE OnEnterStart
  <2>1. PICK s \in Touched(st) :
               st' = [s EXCEPT !.lifecycle = "Running"] /\ cache' = st'
    BY <1>8 DEF OnEnterStart
  <2>2. s \in FsmState /\ s.current = st.current
    BY <1>a, <2>1, TouchedFacts
  <2>4. st' \in FsmState /\ st'.current = st.current
    BY <2>1, <2>2, LifecycleFacts DEF Lifecycle
  <2>3. /\ seen'.inside = st.current /\ seen'.ended = seen.ended
        /\ seen'.moved = seen.moved /\ seen'.told = seen.told
    BY <1>8, <1>a, EnteredFacts DEF OnEnterStart
  <2> QED
    BY <1>8, <1>a, <2>1, <2>4, <2>3 DEF OnEnterStart
<1>9. CASE Arm
  BY <1>9 DEF Arm
<1>10. ASSUME NEW s \in FsmState, NEW r, NEW o, Answer(s, r, o),
              pc \in Serving \ {"listen", "on_terminate"},
              UNCHANGED <<conf, exit>>, s.current = st.current,
              seen' = seen \/ (seen'.ended = seen.ended /\ seen'.moved = seen.moved
                                 /\ seen'.told = seen.told),
              s.lifecycle = "Running" => seen'.inside = s.current,
              r \in {"Transitioned", "Failed", "NotStored", "SoftSkipped", "NotResponds"},
              r = "Transitioned" => s.last_error = None,
              r = "Failed" => s.last_error \in {"callback", "not_allowed"},
              r = "NotStored" => s.last_error = "persistency",
              pc = "on_enter" => ~ Terminates(st.current)
       PROVE  Conduct'
  <2>1. pc' = "idle" /\ st' = s /\ cache' = s /\ outcome' = r /\ s # None
    BY <1>10, <1>a DEF Answer, Settle
  <2>2. seen'.ended = 0 /\ seen'.moved = seen.moved /\ seen'.told = seen.told
    BY <1>10
  <2>3. conf.auto_terminate /\ seen'.moved => ~ IsFinal(st'.current)
    BY <1>10, <2>1, <2>2 DEF Terminates
  <2>4. /\ Unbegun' /\ Balanced' /\ Counted' /\ Published'
        /\ Unfinished' /\ Informed'
    BY <1>10, <2>1, <2>2, <2>3
  <2>5. Explained'
    BY <1>10, <2>1
  <2> QED
    BY <2>4, <2>5
<1>11. ASSUME NEW s \in FsmState, NEW e \in Event, NEW o \in Origin \cup {None},
              Dispatch(s, e, o), UNCHANGED <<conf, exit, seen>>,
              pc \in {"hard", "idle", "on_timer"},
              s.current = st.current, s.lifecycle = st.lifecycle
       PROVE  Conduct'
  <2>1. CASE Responds(s.current, e)
    <3>1. pc' = "on_exit" /\ st' = s /\ UNCHANGED <<cache, outcome>>
      BY <1>11, <2>1 DEF Dispatch
    <3> QED
      BY <1>11, <3>1
  <2>2. CASE ~ Responds(s.current, e)
    <3>1. PICK r \in {"SoftSkipped", "NotResponds"} : Answer(s, r, o)
      BY <1>11, <2>2 DEF Dispatch
    <3> QED
      BY <1>10, <1>11, <3>1
  <2> QED
    BY <2>1, <2>2
<1>12. CASE FireHard
  <2>1. CASE HasHard(st.current)
    BY <1>a, <1>11, <1>12, <2>1, HardEventResponds DEF FireHard
  <2>2. CASE ~ HasHard(st.current)
    BY <1>12, <2>2 DEF FireHard, Settle
  <2> QED
    BY <2>1, <2>2
<1>13. CASE OnExit
  <2>1. st'.current = st.current
    BY <1>13, <1>a, TouchedFacts DEF OnExit
  <2>2. seen'.ended = seen.ended /\ seen'.moved = seen.moved /\ seen'.told = seen.told
    BY <1>13, <1>a, EnteredFacts DEF OnExit
  <2> QED
    BY <1>13, <2>1, <2>2 DEF OnExit
<1>14. CASE OnTransition
  <2>1. st'.current = st.current
    BY <1>14, <1>a, TouchedFacts DEF OnTransition
  <2>2. \/ pc' = "store"
        \/ /\ pc' = "on_failure"
           /\ \E e \in {"callback", "not_allowed"} : frame' = [frame EXCEPT !.error = e]
    BY <1>14 DEF OnTransition
  <2>3. ASSUME NEW e \in {"callback", "not_allowed"},
               frame' = [frame EXCEPT !.error = e]
        PROVE  frame'.error = e
    <3>1. e \in Error
      BY DEF Error
    <3> QED
      BY <1>a, <2>3, <3>1, FailedFrameFacts
  <2> QED
    BY <1>14, <2>1, <2>2, <2>3 DEF OnTransition
<1>15. CASE OnFailure
  <2>1. PICK s \in Touched(st) : st' = [s EXCEPT !.last_error = frame.error]
    BY <1>15 DEF OnFailure
  <2>2. frame.error \in Error
    BY <1>15 DEF OnFailure, Error
  <2>3. st'.current = st.current /\ st'.last_error = frame.error
    BY <1>a, <2>1, <2>2, TouchedFacts, ErrorFacts
  <2> QED
    BY <1>15, <2>2, <2>3 DEF OnFailure
<1>16. CASE Reenter
  <2>1. PICK s \in Touched(st) :
          Answer(s, IF frame.error = "persistency" THEN "NotStored" ELSE "Failed",
                 frame.origin)
    BY <1>16 DEF Reenter
  <2>2. s \in FsmState /\ s.current = st.current /\ s.last_error = frame.error
    BY <1>16, <1>a, <2>1, TouchedFacts DEF Reenter
  <2>3. frame.from = st.current
    BY <1>16 DEF Reenter, Typed, FrameMatches
  <2>4. /\ seen'.inside = st.current /\ seen'.ended = seen.ended
        /\ seen'.moved = seen.moved /\ seen'.told = seen.told
    BY <1>16, <1>a, <2>3, EnteredFacts DEF Reenter
  <2>5. CASE frame.error = "persistency"
    BY <1>10, <1>16, <2>1, <2>2, <2>4, <2>5 DEF Reenter
  <2>6. CASE frame.error \in {"callback", "not_allowed"}
    BY <1>10, <1>16, <2>1, <2>2, <2>4, <2>6 DEF Reenter
  <2> QED
    BY <1>16, <2>5, <2>6 DEF Reenter, Error
<1>17. CASE Store
  <2>1. CASE st' = st /\ frame' = frame /\ pc' = "commit"
    BY <1>17, <2>1 DEF Store
  <2>2. CASE /\ st' = [st EXCEPT !.last_error = "persistency"]
             /\ frame' = [frame EXCEPT !.error = "persistency"]
             /\ pc' = "reenter"
    <3>1. st'.current = st.current /\ st'.last_error = "persistency"
      BY <1>a, <2>2, ErrorFacts DEF Error
    <3>2. frame'.error = "persistency"
      BY <1>a, <2>2, FailedFrameFacts DEF Error
    <3> QED
      BY <1>17, <2>2, <3>1, <3>2 DEF Store, Error
  <2> QED
    BY <1>17, <2>1, <2>2 DEF Store
<1>18. CASE Commit
  <2>1. frame.target \in State
    BY <1>18, AllowedIsDeclared DEF Commit, Typed, FrameMatches
  <2>2. st'.current = frame.target /\ st'.last_error = None
    BY <1>a, <1>18, <2>1, CommittedFacts DEF Commit
  <2>3. seen'.ended = seen.ended /\ seen'.moved
    BY <1>a, <1>18 DEF Commit, Seen
  <2> QED
    BY <1>18, <2>2, <2>3 DEF Commit
<1>19. CASE Listen
  <2>1. frame.target = st.current
    BY <1>19 DEF Listen, Typed, FrameMatches
  <2>2. /\ seen'.told = st.current /\ seen'.ended = seen.ended
        /\ seen'.moved = seen.moved
    BY <1>19, <1>a, <2>1, ToldFacts DEF Listen
  <2> QED
    BY <1>19, <2>2 DEF Listen
<1>20. CASE OnEnter
  <2>0. frame.target = st.current
    BY <1>20 DEF OnEnter, Typed, FrameMatches
  <2>1. PICK s \in Touched(st) :
        \/ /\ Terminates(frame.target)
           /\ st' = [s EXCEPT !.lifecycle = "Terminating"]
           /\ seen' = [seen EXCEPT !.inside = frame.target, !.ended = seen.ended + 1]
           /\ outcome' = "AutoTerminate"
           /\ pc' = "on_terminate"
           /\ UNCHANGED <<cache, armed, frame>>
        \/ /\ ~ Terminates(frame.target)
           /\ seen' = [seen EXCEPT !.inside = frame.target]
           /\ \/ /\ frame.kind = "Hard"
                 /\ st' = s /\ cache' = s
                 /\ outcome' = "HardContinue"
                 /\ frame' = [NoFrame EXCEPT !.origin = frame.origin]
                 /\ pc' = "hard"
                 /\ UNCHANGED armed
              \/ /\ frame.kind # "Hard"
                 /\ Answer(s, "Transitioned", frame.origin)
    BY <1>20, Zenon DEF OnEnter
  <2>2. s \in FsmState /\ s.current = st.current /\ s.last_error = None
    BY <1>20, <1>a, <2>1, TouchedFacts DEF OnEnter
  <2>3. pc = "on_enter" /\ UNCHANGED <<conf, store, mailbox, exit>>
    BY <1>20 DEF OnEnter
  <2>4. CASE Terminates(frame.target)
    <3>1. pc' = "on_terminate" /\ st' = [s EXCEPT !.lifecycle = "Terminating"]
      BY <2>1, <2>4
    <3>2. seen' = [seen EXCEPT !.inside = frame.target, !.ended = seen.ended + 1]
      BY <2>1, <2>4
    <3>3. /\ seen'.ended = seen.ended + 1 /\ seen'.moved = seen.moved
          /\ seen'.told = seen.told
      BY <1>a, <2>0, <3>2, LeavingFacts
    <3>4. st'.current = st.current /\ st'.lifecycle = "Terminating"
      BY <2>2, <3>1, LifecycleFacts DEF Lifecycle
    <3> QED
      BY <2>3, <3>1, <3>3, <3>4
  <2>5. CASE ~ Terminates(frame.target)
    <3>1. seen' = [seen EXCEPT !.inside = frame.target]
      BY <2>1, <2>5
    <3>2. /\ seen'.inside = st.current /\ seen'.ended = seen.ended
          /\ seen'.moved = seen.moved /\ seen'.told = seen.told
      BY <1>a, <2>0, <3>1, EnteredFacts
    <3>3. CASE st' = s /\ cache' = s /\ outcome' = "HardContinue" /\ pc' = "hard"
      <4>1. conf.auto_terminate => ~ IsFinal(st'.current)
        BY <2>0, <2>2, <2>5, <3>3 DEF Terminates
      <4> QED
        BY <1>a, <2>2, <2>3, <3>2, <3>3, <4>1
    <3>4. CASE Answer(s, "Transitioned", frame.origin)
      BY <1>10, <2>0, <2>2, <2>3, <2>5, <3>2, <3>4
    <3> QED
      BY <2>1, <2>5, <3>3, <3>4
  <2> QED
    BY <2>4, <2>5
<1>21. CASE Receive
  <2> DEFINE msg == Head(mailbox)
  <2>1. CASE msg.type = "event"
    <3>1. msg \in Message
      BY <1>21, <1>a DEF Receive, TypeOK
    <3>2. msg.event \in Event /\ Dispatch(st, msg.event, "event")
      BY <1>21, <2>1, <3>1 DEF Receive, Message
    <3>3. pc = "idle" /\ UNCHANGED <<conf, exit, seen>> /\ "event" \in Origin
      BY <1>21, <2>1 DEF Receive, Origin
    <3> QED
      BY <1>a, <1>11, <3>2, <3>3
  <2>2. CASE msg.type = "tick"
    BY <1>21, <2>2 DEF Receive
  <2>3. CASE msg.type = "shutdown"
    <3>0. st' = [st EXCEPT !.lifecycle = "Terminating"]
      BY <1>21, <2>3 DEF Receive
    <3>1. st'.lifecycle = "Terminating" /\ st'.current = st.current
      BY <1>a, <3>0, LifecycleFacts DEF Lifecycle
    <3>2. /\ seen'.ended = seen.ended + 1 /\ seen'.moved = seen.moved
          /\ seen'.told = seen.told
      BY <1>21, <1>a, <2>3, TerminatingFacts DEF Receive
    <3> QED
      BY <1>21, <2>3, <3>1, <3>2 DEF Receive
  <2> QED
    BY <1>21, <2>1, <2>2, <2>3 DEF Receive
<1>22. CASE OnTimer
  <2>1. PICK s \in Touched(st) :
          \/ \E e \in Event : Dispatch(s, e, "tick")
          \/ st' = s /\ Settle(s, "tick") /\ UNCHANGED <<cache, outcome>>
    BY <1>22 DEF OnTimer
  <2>2. /\ s \in FsmState /\ s.current = st.current /\ s.lifecycle = st.lifecycle
        /\ s.last_error = st.last_error
    BY <1>a, <2>1, TouchedFacts
  <2>3. pc = "on_timer" /\ UNCHANGED <<conf, exit, seen>> /\ "tick" \in Origin
    BY <1>22 DEF OnTimer, Origin
  <2>4. CASE \E e \in Event : Dispatch(s, e, "tick")
    BY <1>11, <2>2, <2>3, <2>4
  <2>5. CASE st' = s /\ Settle(s, "tick") /\ UNCHANGED <<cache, outcome>>
    BY <2>2, <2>3, <2>5 DEF Settle
  <2> QED
    BY <2>1, <2>4, <2>5
<1>23. CASE OnTerminate
  <2>1. PICK s \in Touched(st) : st' = [s EXCEPT !.lifecycle = "Terminated"]
    BY <1>23 DEF OnTerminate
  <2>2. st' \in FsmState /\ st'.lifecycle = "Terminated"
    BY <1>a, <2>1, TouchedFacts, LifecycleFacts DEF Lifecycle
  <2> QED
    BY <1>23, <1>a, <2>2 DEF OnTerminate
<1>24. CASE Stopped
  <2>1. CASE st.lifecycle = "Running"
    <3>1. seen'.ended = seen.ended + 1
      BY <1>24, <1>a, <2>1, TerminatingFacts DEF Stopped
    <3> QED
      BY <1>24, <2>1, <3>1 DEF Stopped
  <2>2. CASE st.lifecycle # "Running"
    BY <1>24, <2>2 DEF Stopped
  <2> QED
    BY <2>1, <2>2
<1>25. CASE StoppedTerminate
  BY <1>25 DEF StoppedTerminate
<1>26. CASE Panic
  BY <1>26 DEF Panic, UserCode
<1>27. CASE Send
  BY <1>27 DEF Send, Deliver
<1>28. CASE TimerFire
  BY <1>28 DEF TimerFire, Deliver
<1>29. CASE UNCHANGED vars
  BY <1>29 DEF vars
<1> QED
  BY <1>2, <1>3, <1>4, <1>5, <1>6, <1>7, <1>8, <1>9, <1>12, <1>13, <1>14, <1>15,
     <1>16, <1>17, <1>18, <1>19, <1>20, <1>21, <1>22, <1>23, <1>24, <1>25, <1>26,
     <1>27, <1>28, <1>29 DEF Next, ActorStep

LEMMA ConductCorrect == Spec => []Conduct
<1>1. Init => Typed /\ Conduct
  BY TypedInit, ConductInit
<1>2. Typed /\ Conduct /\ [Next]_vars => (Typed /\ Conduct)'
  BY TypedNext, ConductNext
<1> QED
  BY <1>1, <1>2, PTL DEF Spec

(***************************************************************************)
(* on_exit and on_enter are balanced on every path of transit, for every   *)
(* graph: a Running FSM that waits is inside its current state.            *)
(***************************************************************************)
THEOREM InsideCurrentCorrect == Spec => []InsideCurrent
<1>1. Conduct => InsideCurrent
  BY DEF Conduct, Balanced, InsideCurrent
<1> QED
  BY ConductCorrect, <1>1, PTL

(***************************************************************************)
(* on_terminate is called at most once, in whatever order an automatic     *)
(* end, shutdown messages, panics and `stopped` meet; a normal end is told *)
(* and shown.                                                              *)
(***************************************************************************)
THEOREM TerminatedOnceCorrect == Spec => []TerminatedOnce
<1>1. Conduct => TerminatedOnce
  BY DEF Conduct, Counted, TerminatedOnce
<1> QED
  BY ConductCorrect, <1>1, PTL

(***************************************************************************)
(* Every path out of do_transition publishes what readers of the cache     *)
(* have to see.                                                            *)
(***************************************************************************)
THEOREM CacheFreshCorrect == Spec => []CacheFresh
<1>1. Conduct => CacheFresh
  BY DEF Conduct, Published, CacheFresh
<1> QED
  BY ConductCorrect, <1>1, PTL

(***************************************************************************)
(* The state shows what the last transit returned, for every graph: the    *)
(* chain of hard events has run out, errors are kept and cleared.          *)
(***************************************************************************)
THEOREM OutcomeShowsCorrect == Spec => []OutcomeShows
<1>1. Conduct => OutcomeShows
  BY DEF Conduct, Explained, OutcomeShows
<1> QED
  BY ConductCorrect, <1>1, PTL

(***************************************************************************)
(* With auto_terminate no actor that has moved waits in a final state.     *)
(***************************************************************************)
THEOREM FinalEndsActorCorrect == Spec => []FinalEndsActor
<1>1. Conduct => FinalEndsActor
  BY DEF Conduct, Unfinished, FinalEndsActor, Serving
<1> QED
  BY ConductCorrect, <1>1, PTL

(***************************************************************************)
(* The listener has been told the state the actor is in, and nothing of    *)
(* what failed.                                                            *)
(***************************************************************************)
THEOREM ListenerInformedCorrect == Spec => []ListenerInformed
<1>1. Conduct => ListenerInformed
  BY DEF Conduct, Informed
<1> QED
  BY ConductCorrect, <1>1, PTL

-----------------------------------------------------------------------------
(***************************************************************************)
(* No FSM leaves the states that validate finds reachable.                 *)
(***************************************************************************)

\* The initial state is reachable, and so is what `allowed` answers there.
LEMMA InitialReachable == Initial \in Reachable
BY GraphAssumption DEF Reachable

LEMMA TargetsReachable ==
  ASSUME NEW s \in Reachable, NEW e \in Event, Responds(s, e)
  PROVE  Targets(s, e) \subseteq Reachable
<1>1. s \in State
  BY DEF Reachable
<1>2. First(Candidates(s, e)) \in Outgoing(s) /\ Targets(s, e) \subseteq State
  BY <1>1, AllowedIsDeclared DEF Candidates
<1>3. ASSUME NEW R \in SUBSET State, Initial \in R, Closed(R)
      PROVE  Targets(s, e) \subseteq R
  <2>1. s \in R
    BY <1>3 DEF Reachable
  <2> QED
    BY <1>2, <1>3, <2>1 DEF Closed, Targets
<1> QED
  BY <1>2, <1>3 DEF Reachable

\* What one step may do to the copies of the state: the actor is where it was or
\* in a reachable state, and the other copies are taken from reachable ones.
StaysReachable ==
  /\ st'.current = st.current \/ st'.current \in Reachable
  /\ store' = store \/ store'.current \in Reachable
  /\ cache' = cache \/ cache' = st'
  /\ seen'.told = seen.told \/ seen'.told = None \/ seen'.told \in Reachable

LEMMA StepStaysReachable == Typed /\ ReachableOnly /\ Next => StaysReachable
<1> SUFFICES ASSUME Typed, ReachableOnly, Next PROVE StaysReachable
  OBVIOUS
<1>a. st \in FsmState /\ frame \in Frame /\ seen \in Seen /\ TypeOK
  BY DEF Typed, TypeOK
<1>b. /\ frame.error \in Error \cup {None} /\ frame.origin \in Origin \cup {None}
      /\ st.current \in State
  BY <1>a DEF Frame, FsmState
<1>c. pc \in {"store", "commit", "listen"} => frame.target \in Reachable
  <2>1. pc \in {"store", "commit"} =>
          /\ frame.from \in Reachable /\ frame.event \in Event
          /\ Responds(frame.from, frame.event)
          /\ frame.target \in Targets(frame.from, frame.event)
    BY DEF Typed, FrameMatches, Engine, ReachableOnly
  <2>2. pc = "listen" => frame.target \in Reachable
    BY DEF Typed, FrameMatches, ReachableOnly
  <2> QED
    BY <2>1, <2>2, TargetsReachable
<1>d. ASSUME NEW s \in FsmState, s.current = st.current, NEW e \in Event,
             NEW o \in Origin \cup {None}, Dispatch(s, e, o), UNCHANGED <<store, seen>>
      PROVE  StaysReachable
  <2>1. st' = s /\ (cache' = s \/ cache' = cache)
    BY <1>a, <1>d, DispatchFacts
  <2> QED
    BY <1>d, <2>1 DEF StaysReachable
<1>e. ASSUME NEW s \in Touched(st)
      PROVE  /\ s \in FsmState /\ s.current = st.current
             /\ \A l \in Lifecycle : [s EXCEPT !.lifecycle = l].current = st.current
             /\ \A x \in Error \cup {None} : [s EXCEPT !.last_error = x].current = st.current
  BY <1>a, <1>e, TouchedFacts, LifecycleFacts, ErrorFacts
<1>1. CASE Launch \/ Restart
  <2>1. st' = NewState(Initial, DefaultPayload) /\ UNCHANGED <<store, cache>> /\ seen' = NothingSeen
    BY <1>1 DEF Launch, Restart, NewIncarnation
  <2>2. st'.current = Initial /\ seen'.told = None
    BY <2>1 DEF NewState, NothingSeen
  <2> QED
    BY <2>1, <2>2, InitialReachable DEF StaysReachable
<1>2. CASE PreLoad
  BY <1>2 DEF PreLoad, StaysReachable
<1>3. CASE PreStore
  BY <1>3, InitialReachable DEF PreStore, StaysReachable
<1>4. CASE Load
  <2>1. CASE UNCHANGED st
    BY <1>4, <2>1 DEF Load, StaysReachable
  <2>2. CASE /\ store # None
             /\ \E l \in Lifecycle :
                  st' = [NewState(store.current, store.payload) EXCEPT !.lifecycle = l]
    <3>1. st'.current = store.current
      BY <2>2 DEF NewState
    <3> QED
      BY <1>4, <2>2, <3>1 DEF Load, ReachableOnly, StaysReachable
  <2> QED
    BY <1>4, <2>1, <2>2 DEF Load, Lifecycle
<1>5. CASE OnStart \/ OnExit \/ OnTransition
  <2>0. st' \in Touched(st)
    BY <1>5, Zenon DEF OnStart, OnExit, OnTransition
  <2>1. st'.current = st.current
    BY <1>e, <2>0
  <2>2. seen'.told = seen.told
    <3>1. seen' = seen \/ seen' = [seen EXCEPT !.inside = None]
      <4>1. OnStart => UNCHANGED seen
        BY DEF OnStart
      <4>2. OnExit => seen' = [seen EXCEPT !.inside = None]
        BY DEF OnExit
      <4>3. OnTransition => UNCHANGED seen
        BY DEF OnTransition
      <4> QED
        BY <1>5, <4>1, <4>2, <4>3, Zenon
    <3>2. [seen EXCEPT !.inside = None].told = seen.told
      <4>1. seen \in Seen /\ None \in State \cup {None}
        BY <1>a
      <4> QED
        BY <4>1, EnteredFacts
    <3> QED
      BY <3>1, <3>2
  <2>3. UNCHANGED <<store, cache>>
    BY <1>5 DEF OnStart, OnExit, OnTransition
  <2> QED
    BY <2>1, <2>2, <2>3 DEF StaysReachable
<1>6. CASE OnEnterStart
  <2>1. st'.current = st.current /\ cache' = st' /\ UNCHANGED store
    BY <1>6, <1>e DEF OnEnterStart, Lifecycle
  <2>2. seen'.told = seen.told
    BY <1>6, <1>a, <1>b, EnteredFacts DEF OnEnterStart
  <2> QED
    BY <2>1, <2>2 DEF StaysReachable
<1>7. CASE Arm
  BY <1>7 DEF Arm, StaysReachable
<1>8. CASE FireHard
  <2>1. CASE HasHard(st.current)
    <3>1. HardEvent(st.current) \in Event
      BY <1>b, <2>1, HardEventResponds
    <3>2. Dispatch(st, HardEvent(st.current), frame.origin) /\ UNCHANGED <<store, seen>>
      BY <1>8, <2>1 DEF FireHard
    <3> QED
      BY <1>a, <1>b, <1>d, <3>1, <3>2
  <2>2. CASE ~ HasHard(st.current)
    BY <1>8, <2>2 DEF FireHard, StaysReachable
  <2> QED
    BY <2>1, <2>2
<1>9. CASE OnFailure
  <2>1. st'.current = st.current
    BY <1>9, <1>b, <1>e DEF OnFailure
  <2> QED
    BY <1>9, <2>1 DEF OnFailure, StaysReachable
<1>10. CASE Reenter
  <2>1. PICK s \in Touched(st) : st' = s /\ cache' = s
    BY <1>10 DEF Reenter, Answer
  <2>2. frame.from \in State
    BY <1>10 DEF Reenter, Typed, FrameMatches, Engine
  <2>3. seen'.told = seen.told
    BY <1>10, <1>a, <2>2, EnteredFacts DEF Reenter
  <2> QED
    BY <1>10, <1>e, <2>1, <2>3 DEF Reenter, StaysReachable
<1>11. CASE Store
  <2>1. store' = store \/ store'.current \in Reachable
    BY <1>11, <1>c DEF Store
  <2>2. st'.current = st.current
    <3>1. [st EXCEPT !.last_error = "persistency"].current = st.current
      BY <1>a, ErrorFacts DEF Error
    <3>2. st' = st \/ st' = [st EXCEPT !.last_error = "persistency"]
      BY <1>11 DEF Store
    <3> QED
      BY <3>1, <3>2
  <2> QED
    BY <1>11, <2>1, <2>2 DEF Store, StaysReachable
<1>12. CASE Commit
  <2>1. frame.target \in Reachable /\ frame.target \in State
    BY <1>12, <1>c DEF Commit, Reachable
  <2>2. st'.current = frame.target
    BY <1>12, <1>a, <2>1, CommittedFacts DEF Commit
  <2>3. seen'.told = seen.told
    BY <1>12, <1>a DEF Commit, Seen
  <2> QED
    BY <1>12, <2>1, <2>2, <2>3 DEF Commit, StaysReachable
<1>13. CASE Listen
  <2>1. frame.target \in Reachable /\ frame.target \in State
    BY <1>13, <1>c DEF Listen, Reachable
  <2>2. seen'.told = frame.target
    BY <1>13, <1>a, <2>1, ToldFacts DEF Listen
  <2> QED
    BY <1>13, <2>1, <2>2 DEF Listen, StaysReachable
<1>14. CASE OnEnter
  <2>1. PICK s \in Touched(st) :
          \/ /\ st' = [s EXCEPT !.lifecycle = "Terminating"] /\ UNCHANGED cache
             /\ seen' = [seen EXCEPT !.inside = frame.target, !.ended = seen.ended + 1]
          \/ /\ st' = s /\ cache' = s
             /\ seen' = [seen EXCEPT !.inside = frame.target]
    BY <1>14 DEF OnEnter, Answer
  <2>2. frame.target \in State \cup {None}
    BY <1>a DEF Frame
  <2>3. /\ [seen EXCEPT !.inside = frame.target].told = seen.told
        /\ [seen EXCEPT !.inside = frame.target, !.ended = seen.ended + 1].told = seen.told
    BY <1>a, <2>2, EnteredFacts, LeavingFacts
  <2>4. s.current = st.current /\ [s EXCEPT !.lifecycle = "Terminating"].current = st.current
    BY <1>e DEF Lifecycle
  <2>5. UNCHANGED store
    BY <1>14 DEF OnEnter
  <2>6. seen'.told = seen.told
    BY <2>1, <2>3
  <2>7. st'.current = st.current /\ (cache' = cache \/ cache' = st')
    BY <2>1, <2>4
  <2> QED
    BY <2>5, <2>6, <2>7 DEF StaysReachable
<1>15. CASE Receive
  <2> DEFINE msg == Head(mailbox)
  <2>0. mailbox \in Seq(Message) /\ mailbox # <<>>
    BY <1>15, <1>a DEF Receive, TypeOK
  <2>1. CASE msg.type = "event"
    <3>1. msg \in Message
      BY <2>0
    <3>2. msg.event \in Event
      BY <2>1, <3>1 DEF Message
    <3>3. Dispatch(st, msg.event, "event") /\ UNCHANGED <<store, seen>>
      BY <1>15, <2>1 DEF Receive
    <3> HIDE DEF msg
    <3> QED
      BY <1>a, <1>d, <3>2, <3>3 DEF Origin
  <2>2. CASE msg.type = "tick"
    BY <1>15, <2>2 DEF Receive, StaysReachable
  <2>3. CASE msg.type = "shutdown"
    <3>0. /\ st' = [st EXCEPT !.lifecycle = "Terminating"] /\ UNCHANGED <<store, cache>>
          /\ seen' = [seen EXCEPT !.ended = @ + 1]
      BY <1>15, <2>3 DEF Receive
    <3>1. st'.current = st.current
      BY <1>a, <3>0, LifecycleFacts DEF Lifecycle
    <3>2. seen'.told = seen.told
      BY <1>a, <3>0, TerminatingFacts
    <3> QED
      BY <3>0, <3>1, <3>2 DEF StaysReachable
  <2> QED
    BY <1>15, <2>1, <2>2, <2>3 DEF Receive
<1>16. CASE OnTimer
  <2>1. PICK s \in Touched(st) :
          \/ \E e \in Event : Dispatch(s, e, "tick")
          \/ st' = s /\ Settle(s, "tick") /\ UNCHANGED <<cache, outcome>>
    BY <1>16 DEF OnTimer
  <2>2. UNCHANGED <<store, seen>> /\ "tick" \in Origin
    BY <1>16 DEF OnTimer, Origin
  <2>3. s \in FsmState /\ s.current = st.current
    BY <1>e
  <2>4. CASE \E e \in Event : Dispatch(s, e, "tick")
    BY <1>d, <2>2, <2>3, <2>4
  <2>5. CASE st' = s /\ UNCHANGED cache
    BY <2>2, <2>3, <2>5 DEF StaysReachable
  <2> QED
    BY <2>1, <2>4, <2>5
<1>17. CASE OnTerminate
  <2>1. st'.current = st.current /\ cache' = st' /\ UNCHANGED <<store, seen>>
    BY <1>17, <1>e DEF OnTerminate, Lifecycle
  <2> QED
    BY <2>1 DEF StaysReachable
<1>18. CASE Stopped
  <2>0. \/ /\ st' = [st EXCEPT !.lifecycle = "Terminated"]
           /\ seen' = [seen EXCEPT !.ended = @ + 1]
        \/ UNCHANGED <<st, seen>>
    BY <1>18 DEF Stopped
  <2>1. st'.current = st.current
    <3>1. [st EXCEPT !.lifecycle = "Terminated"].current = st.current
      BY <1>a, LifecycleFacts DEF Lifecycle
    <3> QED
      BY <2>0, <3>1
  <2>2. seen'.told = seen.told
    BY <1>a, <2>0, TerminatingFacts
  <2>3. UNCHANGED <<store, cache>>
    BY <1>18 DEF Stopped
  <2> QED
    BY <2>1, <2>2, <2>3 DEF StaysReachable
<1>19. CASE StoppedTerminate
  <2>1. st'.current = st.current /\ cache' = st' /\ UNCHANGED <<store, seen>>
    BY <1>19, <1>e DEF StoppedTerminate
  <2> QED
    BY <2>1 DEF StaysReachable
<1>20. CASE Panic \/ Send \/ TimerFire
  BY <1>20 DEF Panic, Send, TimerFire, StaysReachable
<1> QED
  BY <1>1, <1>2, <1>3, <1>4, <1>5, <1>6, <1>7, <1>8, <1>9, <1>10, <1>11, <1>12, <1>13,
     <1>14, <1>15, <1>16, <1>17, <1>18, <1>19, <1>20 DEF Next, ActorStep

(***************************************************************************)
(* For every graph, also one that validate refuses, and every store: actor,*)
(* record, cache and listener only ever hold states that validate finds    *)
(* reachable.                                                              *)
(***************************************************************************)
THEOREM ReachableOnlyCorrect == Spec => []ReachableOnly
<1>1. Init => ReachableOnly
  BY InitialReachable DEF Init, NewState, NothingSeen, ReachableOnly
<1>2. Typed /\ ReachableOnly /\ [Next]_vars => ReachableOnly'
  <2> SUFFICES ASSUME Typed, ReachableOnly, [Next]_vars PROVE ReachableOnly'
    OBVIOUS
  <2>1. Reachable' = Reachable
    BY DEF Reachable, Closed, Outgoing
  <2>2. CASE Next
    BY <2>1, <2>2, StepStaysReachable DEF StaysReachable, ReachableOnly
  <2>3. CASE UNCHANGED vars
    BY <2>1, <2>3 DEF vars, ReachableOnly
  <2> QED
    BY <2>2, <2>3
<1>3. Init => Typed
  BY TypedInit
<1>4. Typed /\ [Next]_vars => Typed'
  BY TypedNext
<1> QED
  BY <1>1, <1>2, <1>3, <1>4, PTL DEF Spec

=============================================================================
