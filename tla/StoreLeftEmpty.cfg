\* One publisher, two failing system calls: what a replacement that fails leaves behind.
SPECIFICATION Spec
CONSTANTS
    c1 = c1
    c2 = c2
    c3 = c3
    l1 = l1
    Old = Old
    Foreign = Foreign
    PlainFile = PlainFile
    NoDir = NoDir
    Calls = {c1}
    Loaders = {l1}
    Version <- DistinctVersions
    MaxActive = 1
    FaultPoints <- AllStages
    MaxFaults = 2
    MaxCrashes = 0
INVARIANT
    FailureKeepsCurrent
