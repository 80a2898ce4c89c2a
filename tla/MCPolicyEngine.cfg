SPECIFICATION Spec
CONSTANTS
    Operations <- MCOperations
    Shapes = {"ok", "no_operation", "bad_target", "bad_attributes", "not_object", "bad_operation", "no_attributes"}
    Vocabulary <- MCVocabulary
    Values <- MCValues
    Readings <- MCReadings
    MaxSnapshots = 1
CHECK_DEADLOCK FALSE
INVARIANTS
    DenyTextWins
    AllowIsListed
    PlanVerdictIsWorst
    SnapshotsWithinCapabilities
    SnapshotChangesNoVerdict
PROPERTIES
    RetractionNeverAllowsElsewhere
    ApprovalLiftsNoDeny
