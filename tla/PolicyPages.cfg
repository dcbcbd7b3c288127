SPECIFICATION Spec
CONSTANTS
    Tabs = {"t1", "t2"}
    Names <- MCNames
    Folded <- MCFolded
    DefaultName = "Default Policy"
    Ids = {"i1", "i2"}
    Platforms = {"Linux"}
    Days <- MCDays
    Hours <- MCHours
    MaxOps = 4
INVARIANTS
    StorageOK
PROPERTIES
    NoRevival
CHECK_DEADLOCK FALSE
