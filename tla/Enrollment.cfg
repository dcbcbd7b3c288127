\* Two connectors and an agent after one token, a workspace, one revocation,
\* deletion or grant, two dials each, one restart of the controller.
SPECIFICATION Spec
CONSTANTS
  c1 = c1
  c2 = c2
  a1 = a1
  t1 = t1
  acme = acme
  Connectors <- TwoConnectors
  Agents <- OneAgent
  Tokens <- OneToken
  Workspaces <- OneWorkspace
  Internal = Internal
  Nobody = Nobody
  Absent = Absent
  Driver = "postgres"
  MaxEnrolments = 2
  MaxDials = 2
  MaxRequests = 1
  MaxRestarts = 1
CHECK_DEADLOCK FALSE
INVARIANTS
    TokensOK
    NoForeignWorkspace
PROPERTIES
    RevocationSticks
