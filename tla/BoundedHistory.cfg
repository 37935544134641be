\* Every sequence of up to eight visits of three states, two entries kept.
\* A behaviour ends after MaxVisits pushes.
CONSTANTS
    State = {s1, s2, s3}
    MaxSize = 2
    MaxVisits = 8
SPECIFICATION Spec
INVARIANTS
    TypeOK
    RemembersLastRuns
CHECK_DEADLOCK FALSE
