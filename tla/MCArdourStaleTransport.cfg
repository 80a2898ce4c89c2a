SPECIFICATION Spec
CONSTANTS
    Normal = 2
    Budget = 5
    Strips = 2
    MaxRequests = 4
    Lossy = FALSE
CHECK_DEADLOCK FALSE
INVARIANTS
    TransportIsTransport
