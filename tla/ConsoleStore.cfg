SPECIFICATION StoreSpec
CONSTANTS
    OldColumns = {"installed", "certificate_identity", "last_seen_at", "enabled"}
    MaxTime = 1
    MaxWrites = 2
    MaxCrashes = 2
INVARIANTS
    FileOK
    StartKeeps
    ViewsAgree
CHECK_DEADLOCK FALSE
