------------------------------ MODULE FsmTimer ------------------------------
(***************************************************************************)
(* FsmTimer of finitomata/src/timer.rs: a spawned task that turns an       *)
(* interval into ticks on a bounded channel, the owner of the handle, who  *)
(* may cancel, stop or drop it at any moment, and the consumer of the      *)
(* ticks.  The task listens for a cancellation only in its select!: while  *)
(* it waits for room in the tick channel it hears nothing.                 *)
(***************************************************************************)
EXTENDS Integers

CONSTANTS
    Capacity,    \* of the channel behind tick_sender
    MaxOverdue,  \* bound: intervals elapsed and not yet turned into ticks
    MaxCancels   \* bound: tasks spawned by cancel() that wait to send

\* tokio refuses a channel of capacity 0.
ASSUME TimerAssumption ==
    Capacity \in Nat \ {0} /\ MaxOverdue \in Nat \ {0} /\ MaxCancels \in Nat

VARIABLES
    task,        \* where the spawned task waits
    overdue,     \* ticks interval_timer owes: one at once, one per interval
    credit,      \* history: intervals elapsed minus ticks sent
    cancels,     \* messages in the cancel channel (capacity 1)
    cancellers,  \* tasks spawned by cancel() that have not sent yet
    owner,       \* what the holder of the FsmTimer does
    ticks,       \* ticks in the channel
    receiving    \* the consumer still holds the receiver

vars == <<task, overdue, credit, cancels, cancellers, owner, ticks, receiving>>

Task == {"first", "select", "sending", "done"}
Owner == {"holding", "stop_send", "stop_wait", "stopped", "dropped"}

Init ==
    /\ task = "first" /\ overdue = 1 /\ credit = 0
    /\ cancels = 0 /\ cancellers = 0 /\ owner = "holding"
    /\ ticks = 0 /\ receiving = TRUE

-----------------------------------------------------------------------------
(***************************************************************************)
(* The spawned task.                                                       *)
(***************************************************************************)

\* Time passes.  A late task finds every missed tick (tokio's Burst).
Elapse ==
    /\ task # "done" /\ overdue < MaxOverdue
    /\ overdue' = overdue + 1 /\ credit' = credit + 1
    /\ UNCHANGED <<task, cancels, cancellers, owner, ticks, receiving>>

SendFirst ==  \* the immediate tick is not skipped
    /\ task = "first" /\ task' = "select"
    /\ UNCHANGED <<overdue, credit, cancels, cancellers, owner, ticks, receiving>>

\* interval_timer.tick() before the loop: the immediate tick.
SkipFirst ==
    /\ task = "first" /\ overdue > 0
    /\ overdue' = overdue - 1
    /\ task' = "select"
    /\ UNCHANGED <<credit, cancels, cancellers, owner, ticks, receiving>>

\* The first branch of select!.
TakeTick ==
    /\ task = "select" /\ overdue > 0
    /\ overdue' = overdue - 1
    /\ task' = "sending"
    /\ UNCHANGED <<credit, cancels, cancellers, owner, ticks, receiving>>

SendTickDetached ==  \* does not notice that the receiver is gone
    /\ task = "sending"
    /\ receiving /\ ticks < Capacity
    /\ ticks' = ticks + 1 /\ credit' = credit - 1
    /\ task' = "select"
    /\ UNCHANGED <<overdue, cancels, cancellers, owner, receiving>>

\* tick_sender.send waits for room; it fails once the receiver is dropped.
SendTick ==
    /\ task = "sending"
    /\ \/ /\ receiving /\ ticks < Capacity
          /\ ticks' = ticks + 1 /\ credit' = credit - 1
          /\ task' = "select"
       \/ /\ ~ receiving
          /\ task' = "done"
          /\ UNCHANGED <<ticks, credit>>
    /\ UNCHANGED <<overdue, cancels, cancellers, owner, receiving>>

CancelledByMessage == cancels > 0  \* a closed channel is not noticed

\* recv() yields a message, or None when no sender is left: the FsmTimer's
\* own is dropped with it, each canceller holds a clone.
Cancelled == cancels > 0 \/ (owner \in {"stopped", "dropped"} /\ cancellers = 0)

\* The second branch of select!.
TakeCancel ==
    /\ task = "select" /\ Cancelled
    /\ task' = "done"
    /\ UNCHANGED <<overdue, credit, cancels, cancellers, owner, ticks, receiving>>

-----------------------------------------------------------------------------
(***************************************************************************)
(* The owner of the handle.                                                *)
(***************************************************************************)

CancelSendUnbounded == cancels' = cancels + 1  \* an unbounded cancel channel

\* Sender::send on the cancel channel: waits while it is full, fails when the
\* task has dropped the receiver.
CancelSend == IF task = "done" THEN UNCHANGED cancels
              ELSE cancels = 0 /\ cancels' = 1

\* cancel(): spawns a task that sends.
Cancel ==
    /\ owner = "holding" /\ cancellers < MaxCancels
    /\ cancellers' = cancellers + 1
    /\ UNCHANGED <<task, overdue, credit, cancels, owner, ticks, receiving>>

CancellerSends ==
    /\ cancellers > 0
    /\ CancelSend
    /\ cancellers' = cancellers - 1
    /\ UNCHANGED <<task, overdue, credit, owner, ticks, receiving>>

\* stop(self) is called; the message of a cancel() may have come before.
Stop ==
    /\ owner = "holding"
    /\ owner' = "stop_send"
    /\ UNCHANGED <<task, overdue, credit, cancels, cancellers, ticks, receiving>>

StopSends ==
    /\ owner = "stop_send"
    /\ CancelSend
    /\ owner' = "stop_wait"
    /\ UNCHANGED <<task, overdue, credit, cancellers, ticks, receiving>>

StopWithoutJoin ==  \* handle.await is missing
    /\ owner = "stop_wait" /\ owner' = "stopped"
    /\ UNCHANGED <<task, overdue, credit, cancels, cancellers, ticks, receiving>>

\* handle.await
StopReturns ==
    /\ owner = "stop_wait" /\ task = "done"
    /\ owner' = "stopped"
    /\ UNCHANGED <<task, overdue, credit, cancels, cancellers, ticks, receiving>>

\* The FsmTimer is dropped, or the future of stop() is, say by a timeout.
Drop ==
    /\ owner \in {"holding", "stop_send", "stop_wait"}
    /\ owner' = "dropped"
    /\ UNCHANGED <<task, overdue, credit, cancels, cancellers, ticks, receiving>>

-----------------------------------------------------------------------------
(***************************************************************************)
(* The consumer.                                                           *)
(***************************************************************************)

Receive ==
    /\ receiving /\ ticks > 0
    /\ ticks' = ticks - 1
    /\ UNCHANGED <<task, overdue, credit, cancels, cancellers, owner, receiving>>

Close ==
    /\ receiving
    /\ receiving' = FALSE /\ ticks' = 0
    /\ UNCHANGED <<task, overdue, credit, cancels, cancellers, owner>>

Next ==
    \/ Elapse \/ SkipFirst \/ TakeTick \/ SendTick \/ TakeCancel
    \/ Cancel \/ CancellerSends \/ Stop \/ StopSends \/ StopReturns \/ Drop
    \/ Receive \/ Close

Spec == Init /\ [][Next]_vars

\* The runtime polls the tasks.  select! polls its branches in random order,
\* so a branch that is ready again and again is taken: strong fairness.
RuntimeSpec ==
    /\ Spec
    /\ WF_vars(SkipFirst) /\ WF_vars(SendTick) /\ SF_vars(TakeCancel)
    /\ WF_vars(CancellerSends) /\ WF_vars(StopSends) /\ WF_vars(StopReturns)

\* The consumer, moreover, keeps receiving while its channel is not empty.
ConsumedSpec == RuntimeSpec /\ WF_vars(Receive)

-----------------------------------------------------------------------------

\* Every variable has its type.
TypeOK ==
    /\ task \in Task /\ owner \in Owner
    /\ overdue \in 0 .. MaxOverdue /\ credit \in Int
    /\ cancels \in 0 .. 1 /\ cancellers \in 0 .. MaxCancels
    /\ ticks \in 0 .. Capacity /\ receiving \in BOOLEAN

\* "The first tick fires after one full interval (no immediate tick)": no more
\* ticks are ever sent than intervals have elapsed; and none is lost, because an
\* elapsed interval is a tick sent, being sent or owed, and only the one tick
\* that is owed at once is not sent.
NoEarlyTick ==
    /\ credit >= 0
    /\ task # "done" => credit = overdue + (IF task = "sending" THEN 1 ELSE 0)
                                         - (IF task = "first" THEN 1 ELSE 0)

\* Nothing is sent once stop() has returned ("waits for the background task
\* to exit").
NoTickAfterStop == [][owner = "stopped" => ticks' <= ticks]_vars

\* "Stops the timer and waits for the background task to exit": a stop() that
\* is not abandoned returns.  It does if the consumer keeps receiving or drops
\* its receiver; a consumer that calls stop() itself may wait for the task that
\* waits for room in the consumer's channel.
StopEnds == owner = "stop_send" ~> owner \in {"stopped", "dropped"}

\* A cancel() or a drop of the handle ends the task.
CancelEnds == (cancellers > 0 \/ owner = "dropped") ~> task = "done"

=============================================================================
