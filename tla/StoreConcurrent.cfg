\* Publishers that overlap, loaders that overlap them, one failing system call and one kill.
SPECIFICATION Spec
CONSTANTS
    c1 = c1
    c2 = c2
    c3 = c3
    l1 = l1
    Old = Old
    Foreign = Foreign
    PlainFile = PlainFile
    NoDir = NoDir
    Calls = {c1, c2, c3}
    Loaders = {l1}
    Version <- DistinctVersions
    MaxActive = 2
    FaultPoints <- HandledStages
    MaxFaults = 1
    MaxCrashes = 1
INVARIANTS
    TypeOK
    CurrentIsComplete
    ArtifactSurvives
    LoadsOneBuild
    OrphansAreSuperseded
PROPERTIES
    ForeignUntouched
    TargetReturns
    ImplementsRegister
