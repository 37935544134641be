\* Two callers, up to three actors, one or two names.
CONSTANTS
    n1 = n1 n2 = n2 c1 = c1 c2 = c2 s1 = s1 s2 = s2
    None = None Nobody = Nobody
    Name = {n1, n2}
    Client = {c1, c2}
    State = {s1, s2}
    Initial = s1
    Configs <- Everything
    MaxActors = 3
SPECIFICATION Spec
SYMMETRY Callers
INVARIANTS
    TypeOK
    Reaches
    RefusedOnlyIfGone
    NotForgotten
    ShownIsReached
PROPERTY NameKept
CHECK_DEADLOCK FALSE
