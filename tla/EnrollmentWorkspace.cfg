\* One connector enrols with a token of a workspace; nothing else happens to it.
SPECIFICATION FairSpec
CONSTANTS
  c1 = c1
  c2 = c2
  a1 = a1
  t1 = t1
  acme = acme
  Connectors <- OneConnector
  Agents <- NoneOf
  Tokens <- OneToken
  Workspaces <- OneWorkspace
  Internal = Internal
  Nobody = Nobody
  Absent = Absent
  Driver = "postgres"
  MaxEnrolments = 1
  MaxDials = 1
  MaxRequests = 0
  MaxRestarts = 0
CHECK_DEADLOCK FALSE
PROPERTIES
  WorkspaceConnects
