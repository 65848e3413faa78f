\* Two processes that start at once.
SPECIFICATION Spec
CONSTANTS
    s1 = s1
    s2 = s2
    Stale = Stale
    Other = Other
    NoFile = NoFile
    Servers = {s1, s2}
    MayFill = {}
    MaxBusy = 2
PROPERTIES
    ActiveSocketKept
CHECK_DEADLOCK FALSE
