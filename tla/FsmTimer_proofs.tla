--------------------------- MODULE FsmTimer_proofs --------------------------
(***************************************************************************)
(* The timer's safety for every channel capacity and every bound.          *)
(***************************************************************************)
EXTENDS FsmTimer, TLAPS

\* stop() returns only after the task has ended.
StoppedIsDone == owner = "stopped" => task = "done"

Inv == TypeOK /\ NoEarlyTick /\ StoppedIsDone

LEMMA InvInit == Init => Inv
  BY TimerAssumption
  DEF Init, Inv, TypeOK, NoEarlyTick, StoppedIsDone, Task, Owner

LEMMA InvNext == Inv /\ [Next]_vars => Inv'
  <1> SUFFICES ASSUME Inv, [Next]_vars
               PROVE  Inv'
    OBVIOUS
  <1> USE TimerAssumption
      DEF Inv, TypeOK, NoEarlyTick, StoppedIsDone, Task, Owner
  <1>1. CASE Elapse
    BY <1>1 DEF Elapse
  <1>2. CASE SkipFirst
    BY <1>2 DEF SkipFirst
  <1>3. CASE TakeTick
    BY <1>3 DEF TakeTick
  <1>4. CASE SendTick
    BY <1>4 DEF SendTick
  <1>5. CASE TakeCancel
    BY <1>5 DEF TakeCancel
  <1>6. CASE Cancel
    BY <1>6 DEF Cancel
  <1>7. CASE CancellerSends
    BY <1>7 DEF CancellerSends, CancelSend
  <1>8. CASE Stop
    BY <1>8 DEF Stop
  <1>9. CASE StopSends
    BY <1>9 DEF StopSends, CancelSend
  <1>10. CASE StopReturns
    BY <1>10 DEF StopReturns
  <1>11. CASE Drop
    BY <1>11 DEF Drop
  <1>12. CASE Receive
    BY <1>12 DEF Receive
  <1>13. CASE Close
    <2>1. receiving' \in BOOLEAN
      BY <1>13, Zenon DEF Close
    <2> QED
      BY <1>13, <2>1 DEF Close
  <1>14. CASE UNCHANGED vars
    BY <1>14 DEF vars
  <1> QED
    BY <1>1, <1>2, <1>3, <1>4, <1>5, <1>6, <1>7, <1>8, <1>9, <1>10, <1>11,
       <1>12, <1>13, <1>14 DEF Next

LEMMA InvAlways == Spec => []Inv
  BY InvInit, InvNext, PTL DEF Spec

\* The type invariant.
THEOREM TimerTypeCorrect == Spec => []TypeOK
  <1>1. Inv => TypeOK
    BY DEF Inv
  <1> QED
    BY <1>1, InvAlways, PTL

\* No more ticks are sent than intervals have elapsed, and none is lost.
THEOREM NoEarlyTickCorrect == Spec => []NoEarlyTick
  <1>1. Inv => NoEarlyTick
    BY DEF Inv
  <1> QED
    BY <1>1, InvAlways, PTL

\* No tick is sent once stop() has returned.
THEOREM NoTickAfterStopCorrect == Spec => NoTickAfterStop
  <1>1. Inv /\ [Next]_vars => [owner = "stopped" => ticks' <= ticks]_vars
    <2> SUFFICES ASSUME Inv, Next, owner = "stopped"
                 PROVE  ticks' <= ticks
      BY DEF Inv, TypeOK, vars
    <2>1. task = "done" /\ ticks \in Nat
      BY DEF Inv, TypeOK, StoppedIsDone
    <2>2. ticks' = ticks \/ ticks' = ticks - 1 \/ ticks' = 0
      BY <2>1 DEF Next, Elapse, SkipFirst, TakeTick, SendTick, TakeCancel, Cancel,
                  CancellerSends, Stop, StopSends, StopReturns, Drop, Receive, Close
    <2> QED
      BY <2>1, <2>2
  <1> QED
    BY <1>1, InvAlways, PTL DEF Spec, NoTickAfterStop

=============================================================================
