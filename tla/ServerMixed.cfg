\* Three clients, one line each, and SIGTERM at any moment.
SPECIFICATION Spec
CONSTANTS
    c1 = c1
    c2 = c2
    c3 = c3
    Clients = {c1, c2, c3}
    Lines <- MixedLines
    Slots = 1
    PoolSize = 2
    MaxLines = 1
SYMMETRY Symmetry
INVARIANTS
    TypeOK
    SlotsKept
    AnswersMatchLines
    ClosedIsQuiet
PROPERTIES
    CancelStopsWork
CHECK_DEADLOCK FALSE
