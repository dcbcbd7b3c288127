SPECIFICATION Spec
CONSTANTS
    Resources = {"r1", "r2"}
    NewResources = {"r2"}
    Rules = {"x1", "x2"}
    NewRules = {"x2"}
    Addresses = {"a1", "a2"}
    MaxOps = 4
    MaxOther = 1
INVARIANTS
    TablesOK
    PageIsTrue
    NothingUnasked
    BusyMeansOutstanding
CHECK_DEADLOCK FALSE
