SPECIFICATION FairSpec
CONSTANTS
    Normal = 2
    Budget = 3
    Strips = 2
    MaxRequests = 3
    Lossy = TRUE
CHECK_DEADLOCK FALSE
INVARIANTS
    TypeOK
    TimeoutRestored
    WithinBudget
    ReadInOrder
    AnswersAreOwn
PROPERTIES
    PatientUntilDeadline
    CallEnds
