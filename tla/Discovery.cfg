SPECIFICATION FairSpec
CONSTANTS
    Hits = {h1}
    MaxScans = 2
    MaxMounts = 2
    MaxAdds = 1
    MaxTroubles = 1
INVARIANTS
    TimersOK
    PageIsTrue
PROPERTIES
    ScansEnd
CHECK_DEADLOCK FALSE
