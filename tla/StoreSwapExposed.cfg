\* One publisher and one loader, nothing failing: what a load may return during a swap.
SPECIFICATION Spec
CONSTANTS
    c1 = c1
    c2 = c2
    c3 = c3
    l1 = l1
    Old = Old
    Foreign = Foreign
    PlainFile = PlainFile
    NoDir = NoDir
    Calls = {c1}
    Loaders = {l1}
    Version <- SameVersion
    MaxActive = 1
    FaultPoints <- NoStages
    MaxFaults = 0
    MaxCrashes = 0
INVARIANTS
    LoadsWholeArtifact
