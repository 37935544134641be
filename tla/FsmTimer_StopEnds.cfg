\* A consumer that may stop receiving without dropping its receiver.
CONSTANTS
    Capacity = 1
    MaxOverdue = 2
    MaxCancels = 1
SPECIFICATION RuntimeSpec
PROPERTY StopEnds
CHECK_DEADLOCK FALSE
