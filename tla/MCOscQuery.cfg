SPECIFICATION FairSpec
CONSTANTS
    Callers = {"main", "other"}
    Addresses = {"tempo", "name", "num_tracks"}
    Uses <- MCUses
    MaxQueries = 3
    Prompt = {"name", "num_tracks"}
CHECK_DEADLOCK FALSE
INVARIANTS
    TypeOK
    ServedQueriesMatch
    TimeoutMeansLost
    RegistryIsExact
    NoAnswerFromTheFuture
PROPERTIES
    ImplementsRequestReply
    QueryReturns
