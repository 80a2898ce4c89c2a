SPECIFICATION Spec
CONSTANTS
    Calls = {c1}
    UserTracks = {"mine", "gen", "late"}
    User = "user"
    Names = {"vocals", "GEN-bass"}
    GenNames = {"GEN-bass"}
    Tunes <- MCTunes
    NoEnd = "no end"
    NoPitch = "no pitch"
    Files = {"open.rpp", "new.rpp"}
    OpenFile = "open.rpp"
    VerdictOf <- MCVerdictOf
    InitialOrder <- MCInitialOrder
    InitialName <- MCInitialName
    None = None
    MaxEdits = 0
CHECK_DEADLOCK FALSE
INVARIANTS
    OpenProjectNeverOverwritten
