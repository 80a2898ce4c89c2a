SPECIFICATION Spec
CONSTANTS
    Callers = {"main"}
    Addresses = {"tempo"}
    Uses <- MCSharedAddresses
    MaxQueries = 2
    Prompt = {}
CHECK_DEADLOCK FALSE
INVARIANTS
    MatchingReply
