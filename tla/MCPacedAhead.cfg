SPECIFICATION Spec
CONSTANTS
  HeaderBytes = 1
  CrcBytes = 1
  MaxPacketBytes = 2
  SenderBytes = 2
  Shape <- MCShape
  Garbled = {"fend", "flag"}
  MaxPackets = 3
  MaxDamage = 2
  StepTime = 2
  Delay = {3}
  MaxSettle = 3
  ReadBytes = 7
  MaxNow = 3
  MaxWall = 1
INVARIANTS
  WallClockCaughtUp
CHECK_DEADLOCK FALSE
