\* A consumer that keeps receiving.  The system stops when the timer is
\* stopped and the channel is drained.
CONSTANTS
    Capacity = 2
    MaxOverdue = 2
    MaxCancels = 2
SPECIFICATION ConsumedSpec
INVARIANTS
    TypeOK
    NoEarlyTick
PROPERTIES
    NoTickAfterStop
    StopEnds
    CancelEnds
CHECK_DEADLOCK FALSE
