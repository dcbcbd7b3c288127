SPECIFICATION FairFleetSpec
CONSTANTS
    Networks = {"n1", "n2"}
    Connectors = {"c1", "c2"}
    AgentIds = {"a1"}
    NewNetworks = {"n2"}
    NewConnectors = {"c2"}
    MaxOps = 3
    MaxFleet = 2
    MaxFails = 1
INVARIANTS
    TablesOK
    PageInStep
PROPERTIES
    CatchesUp
CHECK_DEADLOCK FALSE
