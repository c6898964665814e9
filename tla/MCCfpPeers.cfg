SPECIFICATION Spec
CONSTANTS
  Node = {1, 2, 3}
  Fragmenter <- TwoSenders
  Limit <- MCLimit
  PayloadSize = {12}
  Priority = {0}
  Form = {"ok", "ffrag", "short"}
  Timeout = 1
  None = None
  MaxSent = 3
  MaxLost = 2
  MaxTime = 2
INVARIANTS
  NoSilentLoss
  DeliveredInStep
CHECK_DEADLOCK FALSE
