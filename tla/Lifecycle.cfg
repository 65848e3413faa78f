\* Two commands that may overlap, a publication and a kill, around a job of launchd.
SPECIFICATION LifecycleSpec
CONSTANTS
    s1 = s1
    s2 = s2
    c1 = c1
    c2 = c2
    Stale = Stale
    Other = Other
    NoFile = NoFile
    Nobody = Nobody
    Servers = {s1, s2}
    MayFill = {s1, s2}
    MaxBusy = 2
    Commands = {c1, c2}
    Kinds <- SomeKinds
    SleepSuffices = TRUE
    MaxOverlap = 2
    MaxKills = 1
    MaxVersion = 2
INVARIANTS
    LifecycleTypeOK
    ServiceReachable
PROPERTIES
    RefusalJustified
    SocketRemoved
    ReloadServesNew
    StatusWasTrue
    BlockedOnlyIfOvertaken
    LoadedServes
\* a service that is stopped waits for a command, and there is a last one
CHECK_DEADLOCK FALSE
