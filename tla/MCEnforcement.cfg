SPECIFICATION Spec
CONSTANTS
    Calls = {c1, c2}
    Objects = {o1}
    Contents = {"listed", "unlisted", "unapproved", "broken"}
    Nested = {"tempo_120", "tempo_90"}
    Forms = {"dict", "instance"}
    Unparsable <- MCUnparsable
    DecisionOf <- MCDecisionOf
    NoCall = NoCall
CHECK_DEADLOCK FALSE
INVARIANTS
    TypeOK
    RunsOnlyIfPermitted
    RunsAreOnRecord
    RefusalsAreFinal
    OneEntryPerCall
    LogShowsWhatWasJudged
