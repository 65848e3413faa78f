\* Two clients compete for one slot with single calls and batches; SIGTERM at any moment.
SPECIFICATION Spec
CONSTANTS
    c1 = c1
    c2 = c2
    c3 = c3
    Clients = {c1, c2}
    Lines <- LongLines
    Slots = 1
    PoolSize = 2
    MaxLines = 1
PROPERTIES
    RequestsServed
    CloseEnds
CHECK_DEADLOCK FALSE
