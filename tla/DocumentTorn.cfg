\* Two finalizes of one document that write its temporary file at the same time.
SPECIFICATION Spec
CONSTANTS
    Proxies = {p1, p2, p3}
    Requests <- SomeRequests
    Contexts <- SomeContexts
    MaxRunning = 2
    MaxUnsaved = 1
    MaxKilled = 1
    Commands = {c1, c2}
    Documents <- SomeDocuments
    Graphs <- SomeGraphs
    MaxEdits = 0
    MaxReloads = 0
    MaxAkgKilled = 0
    MaxAbroad = 2
    Manifests <- SomeManifests
    Files <- SomeFiles
    Directories <- SomeDirectories
    NameOf <- SomePaths
    Escaping = {"up"}
    Outside = {"link"}
    Unsuffixed = {"readme"}
    MaxRewrites = 1
    Exported <- SomeExported
    Intermediaries <- SomeIntermediaries
    Maintainers = {o1, o2}
    Configurations <- SomeConfigurations
    Loadable = {"whole"}
PROPERTY
    DocumentStaysWhole
CHECK_DEADLOCK FALSE
