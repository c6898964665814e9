SPECIFICATION FairSpec
CONSTANTS
  One = 4
  Tolerance = 1
  Single <- MCSingle
  Double <- MCDouble
  Largest = 960
  Capacity = 40
  Conductance = 8
  DegradedDivisor = 8
  Internal = 320
  Heater = 960
  Ambient <- MCAmbient
  Initial = 80
  AbsoluteZero <- MCAbsoluteZero
  Cold = 0
  Warm = 32
  Margin = 3
  TemperatureField <- MCTemperatureField
  StatusField <- MCStatusField
  StatusLabel <- MCStatusLabel
  Override <- MCOverride
  None = None
  MaxFaults = 2
PROPERTIES WithinResolution NoRinging NoChatter BandHeld Recovers
CHECK_DEADLOCK FALSE
