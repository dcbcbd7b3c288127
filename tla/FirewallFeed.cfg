\* One fault anywhere, two streams, two policies and a channel that holds one.
SPECIFICATION FairFeedSpec
CONSTANTS
  ssh = ssh
  web = web
  tcp = tcp
  udp = udp
  Ports <- MCPorts
  Protocols <- MCProtocols
  Policies <- MCPolicies
  NoEntry = NoEntry
  NoFile = NoFile
  Torn = Torn
  MaxHandle = 18
  MaxFaults = 1
  Capacity = 1
  MaxStores = 2
  MaxDials = 2
  MaxHalts = 1
INVARIANTS
    PortShielded
    Converged
    FileAgrees
    Accounted
    NewestEnforced
PROPERTIES
    KeepsPromise
    EndsUpRegistered
CHECK_DEADLOCK FALSE
