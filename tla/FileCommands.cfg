\* Calls of the query proxy, runs over one AKG document, exports, assemblies of small
\* directories, builds of small intermediaries, setups of the service.
SPECIFICATION Spec
CONSTANTS
    Proxies = {p1, p2, p3}
    Requests <- SomeRequests
    Contexts <- SomeContexts
    MaxRunning = 2
    MaxUnsaved = 1
    MaxKilled = 1
    Commands = {c1, c2}
    Documents <- SomeDocuments
    Graphs <- SomeGraphs
    MaxEdits = 1
    MaxReloads = 1
    MaxAkgKilled = 1
    MaxAbroad = 2
    Manifests <- SomeManifests
    Files <- SomeFiles
    Directories <- SomeDirectories
    NameOf <- SomePaths
    Escaping = {"up"}
    Outside = {"link"}
    Unsuffixed = {"readme"}
    MaxRewrites = 1
    Exported <- SomeExported
    Intermediaries <- SomeIntermediaries
    Maintainers = {o1, o2}
    Configurations <- SomeConfigurations
    Loadable = {"whole"}
INVARIANTS
    EvidenceComplete
    ContextKept
    FinalIsSubgraph
    AcceptedAsWritten
    ExportReads
    NamesReadBack
    OneServiceAsSetUp
PROPERTIES
    RewritesWhole
\* every family stops once its runs are over
CHECK_DEADLOCK FALSE
