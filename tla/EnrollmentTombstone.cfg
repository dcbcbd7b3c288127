\* One connector, revoked before it dials or while its stream is up.
SPECIFICATION Spec
CONSTANTS
  c1 = c1
  c2 = c2
  a1 = a1
  t1 = t1
  acme = acme
  Connectors <- OneConnector
  Agents <- NoneOf
  Tokens <- OneToken
  Workspaces <- NoneOf
  Internal = Internal
  Nobody = Nobody
  Absent = Absent
  Driver = "postgres"
  MaxEnrolments = 1
  MaxDials = 1
  MaxRequests = 1
  MaxRestarts = 0
CHECK_DEADLOCK FALSE
PROPERTIES
  TombstoneHolds
