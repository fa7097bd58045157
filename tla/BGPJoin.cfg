SPECIFICATION Spec
CONSTANTS
    Queries <- MCQueries
    TreeMaps <- MCTreeMaps
    RealId <- MCRealId
    TicksUntilCheck = 5
    FirstBatch = 1
    MaxBatch = 2
PROPERTIES
    AnswersQuery
    NothingNewAfterTimeout
    QueryEnds
CHECK_DEADLOCK FALSE
