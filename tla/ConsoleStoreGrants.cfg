\* An older file with legacy rules is opened once; nothing fails.
SPECIFICATION StoreSpec
CONSTANTS
    OldColumns = {"enabled"}
    MaxTime = 0
    MaxWrites = 0
    MaxCrashes = 0
INVARIANTS
    LegacyGrantsKept
CHECK_DEADLOCK FALSE
