SPECIFICATION Spec
CONSTANTS
  Node = {1, 2, 3}
  Fragmenter <- OneSender
  Limit <- MCLimit
  PayloadSize = {12, 68}
  Priority = {0}
  Form = {"ok"}
  Timeout = 1
  None = None
  MaxSent = 3
  MaxLost = 2
  MaxTime = 0
INVARIANTS
  TypeOK
PROPERTIES
  ImplementsChannel
CHECK_DEADLOCK FALSE
