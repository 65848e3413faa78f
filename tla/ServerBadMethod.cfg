\* One client whose request has a "method" that is an array or an object.
SPECIFICATION Spec
CONSTANTS
    c1 = c1
    c2 = c2
    c3 = c3
    Clients = {c1}
    Lines <- BadLines
    Slots = 1
    PoolSize = 2
    MaxLines = 1
INVARIANTS
    EveryCallAnswered
CHECK_DEADLOCK FALSE
