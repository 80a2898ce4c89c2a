SPECIFICATION FairSpec
CONSTANTS
    Names = {"GEN-bass", "vocals"}
    GenNames = {"GEN-bass"}
    DefaultName = "MIDI"
    Values = {0, 1}
    Notes = {"c", "e"}
    Tunes <- MCTunes
    Malformed = Malformed
    NoClip = NoClip
    NoArgument = NoArgument
    VerdictOf <- MCVerdictOf
    InitialTracks <- MCInitialTracks
    Attempts = 2
    MaxCalls = 2
    MaxEdits = 1
    Lossy = TRUE
CHECK_DEADLOCK FALSE
PROPERTIES
    UnapprovedWritesStayOnGenTracks
    SuccessIsReal
    CallEnds
