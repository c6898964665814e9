SPECIFICATION Spec
CONSTANTS
  RuleOrder <- MCRules
  Signal = {"battery", "temp"}
  SignalOf <- MCSignalOf
  Op <- MCOp
  Threshold <- MCThreshold
  ForDuration <- MCFor
  Cooldown <- MCCooldown
  Value = {0, 1, 2}
  None = None
  MaxTime = 3
  MaxLog = 4
INVARIANTS
  FiresExactlyWhenDue
CHECK_DEADLOCK FALSE
