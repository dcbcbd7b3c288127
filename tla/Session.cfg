\* One workspace is still to be created, the other exists.
SPECIFICATION FairSpec
CONSTANTS
    Slugs = {"acme", "beta"}
    NewSlugs = {"acme"}
    Grades = {"owner", "member", "viewer"}
    MaxAttempts = 1
    MaxFlights = 2
    MaxLoads = 1
    MaxGrants = 1
INVARIANTS
    Guarded
    OneCreatePerAttempt
    SignOutHolds
PROPERTIES
    Settles
CHECK_DEADLOCK FALSE
