\* Texts of up to four lines.  A behaviour ends with its text.
CONSTANTS
    a = a b = b state = state stateA = stateA graphs = graphs dash = dash e = e f = f
    Star = Star Empty = Empty Arrow = Arrow Terminal = Terminal None = None
    Words <- MCWords
    Identifiers <- MCIdentifiers
    HeaderWords = {graphs}
    AfterState <- MCAfterState
    Variant <- MCVariant
    Lines <- MCLines
    MaxLines = 4
SPECIFICATION Spec
INVARIANTS
    TypeOK
    SameReading
    GraphSound
CHECK_DEADLOCK FALSE
