\* Requests of every kind on small snapshots, and joins of real datasets.
SPECIFICATION Spec
CONSTANTS
    PathGraphs <- SearchGraphs
    PathRequests <- PathSearches
    TreeGraphs <- ConnectGraphs
    TerminalSets <- SomeTerminals
    NeighbourGraphs <- ExpandGraphs
    NeighbourRequests <- Expansions
    LookupGraphs <- DetailGraphs
    LookupRequests <- DetailRequests
    Begins <- SomeBegins
    NormalForm <- SomeTokens
    Placeholders <- SomePlaceholders
    Catalogs <- SomeCatalogs
    SearchRequests <- SomeSearches
    JoinGraphs <- SomeJoins
    JoinDatasets = {1, 2}
    Entities = {1}
    RowSets <- SomeRows
    Values = {v1, v2}
    Null = Null
INVARIANTS
    RankedShortest
    EarlyStopAgrees
    SmallTree
    CappedAndWhole
    LookedUpAsShown
    SearchFindsBest
    NarrowJoinsNeverFanOut
    SureJoinsMatch
    SentencesHold
\* a request that has been answered does nothing more
CHECK_DEADLOCK FALSE
