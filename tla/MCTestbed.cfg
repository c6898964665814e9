SPECIFICATION FairSpec
CONSTANTS
  Full = 4
  Critical = 0
  Low = 2
  Recovery = 3
  InitialCharge = 4
  Solar = 1
  BaseLoad <- MCLoad
  StandbyDraw = 1
  ActiveDraw = 2
  DeadCellDivisor = 2
  ShedInSafe = TRUE
  ShedInLowPower = FALSE
  DataRate = 1
  OneShot = 1
  MaxData = 1
  Override <- MCOverride
  None = None
  MaxFaults = 4
  Step = 2
  Limit = {2, 3}
  TelemetryOrder <- MCOrder
  Signals <- MCSignals
  Rules <- MCRules
  WaitTime = {0, 4, 8}
  Timeout = {0, 3}
  Expected <- MCExpected
  Command <- MCCommand
  Span <- MCSpan
  NamedFault = {"payload_rail_stuck_off"}
  MaxSteps = 3
INVARIANTS
  SettledBetweenSteps
  OncePerSecond
  CacheIsCurrent
  VerdictsHonest
  FeedbackDies
PROPERTIES
  StepsReturn
CHECK_DEADLOCK FALSE
