\* Edge lists of up to six edges.  A behaviour ends when the search returns.
CONSTANTS
    a = a b = b c = c d = d e = e
    None = None
    State <- MCState
    Edges <- MCEdges
    Start = a
SPECIFICATION FairSpec
INVARIANTS
    Explored
    QueueInOrder
    PathShortest
PROPERTIES
    Progress
    Returns
CHECK_DEADLOCK FALSE
