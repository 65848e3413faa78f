\* A spur that is not simple hides those that are: the answer leaves paths out.
SPECIFICATION Spec
CONSTANTS
    PathGraphs <- LostGraphs
    PathRequests <- LostRequests
    TreeGraphs <- NoSets
    TerminalSets <- NoSets
    NeighbourGraphs <- NoSets
    NeighbourRequests <- NoSets
    LookupGraphs <- NoSets
    LookupRequests <- NoSets
    Begins <- SomeBegins
    NormalForm <- SomeTokens
    Placeholders <- SomePlaceholders
    Catalogs <- NoSets
    SearchRequests <- NoSets
    JoinGraphs <- NoSets
    JoinDatasets = {1, 2}
    Entities = {1}
    RowSets <- SomeRows
    Values = {v1, v2}
    Null = Null
INVARIANT
    TruncatedTells
\* a request that has been answered does nothing more
CHECK_DEADLOCK FALSE
