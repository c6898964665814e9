SPECIFICATION Spec
CONSTANTS
  Node = {1, 2, 3}
  Fragmenter <- OneSender
  Limit <- MCLimit
  PayloadSize = {4, 12}
  Priority = {0}
  Form = {"ok"}
  Timeout = 1
  None = None
  MaxSent = 2
  MaxLost = 1
  MaxTime = 1
INVARIANTS
  EndReportsEverything
CHECK_DEADLOCK FALSE
