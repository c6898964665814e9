SPECIFICATION FairSpec
CONSTANTS
  Full = 6
  Critical = 1
  Low = 2
  Recovery = 4
  InitialCharge = 5
  Solar = 2
  BaseLoad <- MCLoad
  StandbyDraw = 1
  ActiveDraw = 2
  DeadCellDivisor = 2
  ShedInSafe = TRUE
  ShedInLowPower = FALSE
  DataRate = 1
  OneShot = 1
  MaxData = 1
  Override <- MCOverride
  None = None
  MaxFaults = 2
INVARIANTS
  TypeOK
  RefreshSettles
PROPERTIES
  NoFlapping
  DeadBusRecovers
