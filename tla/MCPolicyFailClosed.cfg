SPECIFICATION Spec
CONSTANTS
    Operations <- MCOneStep
    Shapes = {"ok"}
    Vocabulary <- MCVocabulary
    Values <- MCValues
    Readings <- MCReadings
    MaxSnapshots = 0
CHECK_DEADLOCK FALSE
PROPERTIES
    RetractionNeverAllows
