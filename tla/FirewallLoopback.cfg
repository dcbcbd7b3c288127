\* A port is protected, given up and protected again, and one nft command fails.
SPECIFICATION FeedSpec
CONSTANTS
  ssh = ssh
  web = web
  tcp = tcp
  udp = udp
  Ports <- MCPorts
  Protocols <- MCProtocols
  Policies <- SwapPolicies
  NoEntry = NoEntry
  NoFile = NoFile
  Torn = Torn
  MaxHandle = 18
  MaxFaults = 1
  Capacity = 1
  MaxStores = 3
  MaxDials = 1
  MaxHalts = 0
INVARIANTS
    LoopbackOpen
CHECK_DEADLOCK FALSE
