\* All graphs on three states and most on four.  A behaviour ends when validate returns.
CONSTANTS
    a = a b = b c = c d = d
    State <- MCState
    Graphs <- MCGraphs
SPECIFICATION FairSpec
INVARIANTS
    TypeOK
    Frontier
    ReportExact
PROPERTY Returns
CHECK_DEADLOCK FALSE
