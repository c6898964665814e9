SPECIFICATION Spec
CONSTANTS
  Node = {1, 2, 3}
  Fragmenter <- TwoSenders
  Limit <- MCLimit
  PayloadSize = {4, 12}
  Priority = {0}
  Form = {"ok"}
  Timeout = 1
  None = None
  MaxSent = 2
  MaxLost = 0
  MaxTime = 2
INVARIANTS
  BackToBackCountersDiffer
CHECK_DEADLOCK FALSE
