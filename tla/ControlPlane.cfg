\* One connector that redials once, one edit (after the first policy) broadcast while it does, one
\* restart of the controller.
SPECIFICATION FairSpec
CONSTANTS
  c1 = c1
  n1 = n1
  allow = allow
  deny = deny
  NoContent = NoContent
  NoStream = NoStream
  Connectors <- OneConnector
  Notifiers <- OneNotifier
  Contents <- TwoContents
  MaxStreams = 2
  MaxEdits = 2
  MaxRestarts = 1
CHECK_DEADLOCK FALSE
INVARIANTS
    NoMissedEdit
    NoGhostClient
    NeverRejected
PROPERTIES
    EditsDelivered
    StatusSettles
