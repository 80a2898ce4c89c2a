SPECIFICATION Spec
CONSTANTS
    Calls = {c1, c2}
    UserTracks = {"mine", "gen", "late"}
    User = "user"
    Names = {"vocals", "GEN-bass"}
    GenNames = {"GEN-bass"}
    Tunes <- MCTunes
    NoEnd = "no end"
    NoPitch = "no pitch"
    Files = {"open.rpp", "new.rpp"}
    OpenFile = "open.rpp"
    VerdictOf <- MCVerdictOf
    InitialOrder <- MCInitialOrder
    InitialName <- MCInitialName
    None = None
    MaxEdits = 1
SYMMETRY CallSymmetry
CHECK_DEADLOCK FALSE
INVARIANTS
    TypeOK
    GeneratedMidiOnGenTracks
    ChangesAreWanted
    ItemsHoldPrefixes
    SuccessIsReal
PROPERTIES
    UsersTracksStayInFront
    OthersMaterialUntouched
