SPECIFICATION GroupSpec
CONSTANTS
    Users = {"u1", "u2", "u3"}
    Groups = {"g1", "g2"}
    Resources = {"r1"}
    NewUsers = {"u3"}
    NewGroups = {"g2"}
    MaxOps = 4
    MaxOther = 1
INVARIANT
    GroupsColumn
CHECK_DEADLOCK FALSE
