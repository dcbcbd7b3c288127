\* An agent that enrols twice, in two trust domains, through redials and a restart.
SPECIFICATION Spec
CONSTANTS
  a1 = a1
  global = global
  workspace = workspace
  Agents <- OneAgent
  Domains <- TwoDomains
  Home <- MCHome
  Unknown = Unknown
  Blank = Blank
  MaxStreams = 3
  MaxEnrolments = 2
  MaxRestarts = 1
CHECK_DEADLOCK FALSE
INVARIANTS
    AdmissionOK
    ListedIsAllowed
