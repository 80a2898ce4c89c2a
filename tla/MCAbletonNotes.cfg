SPECIFICATION Spec
CONSTANTS
    Names = {"GEN-bass", "vocals"}
    GenNames = {"GEN-bass"}
    DefaultName = "MIDI"
    Values = {0, 1}
    Notes = {"c", "e"}
    Tunes <- MCTunes
    Malformed = Malformed
    NoClip = NoClip
    NoArgument = NoArgument
    VerdictOf <- MCVerdictOf
    InitialTracks <- MCInitialTracks
    Attempts = 2
    MaxCalls = 1
    MaxEdits = 0
    Lossy = TRUE
CHECK_DEADLOCK FALSE
PROPERTIES
    ReportedNotesAreWritten
