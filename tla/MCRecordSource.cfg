SPECIFICATION Spec
CONSTANTS
    Runs = {r1, r2, r3}
    Urls <- MCUrls
    Allowlist <- MCAllowlist
    FileListed = TRUE
    FetchAllowed <- MCFetchAllowed
    InitialFiles <- MCInitialFiles
    Absent = Absent
    Corrupt = Corrupt
CHECK_DEADLOCK FALSE
INVARIANTS
    UnreadableIsKept
    OnlyPermittedHosts
PROPERTIES
    AppendsOnly
