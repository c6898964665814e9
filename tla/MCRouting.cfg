SPECIFICATION Spec
CONSTANTS
  None = None
  Arg = Arg
  DefaultLimit = 2
  BuiltIn <- MCBuiltIn
  ThirdParty <- MCThirdParty
  Setups <- MCSetups
  MaxRegistrations = 1
  FirstChunk = 1
  NextChunk = 1
  AllAddresses = {1, 2, 3, 4}
  Steps <- MCSteps
  Arguments = {Arg}
  Values = {0, 1}
  Supported <- MCSupported
  Reports <- MCReports
  PeerPackets <- MCPeerPackets
  MaxTraffic = 2
  MaxPeerCalls = 2
INVARIANTS
  DeliveredAsSent
  ArgumentsAreOwn
  NothingLostQuietly
  TraceTellsTheTruth
  ValidatedStepsResolve
  EpsFindsPayload
  PeersHearOnceInOrder
PROPERTIES
  ImplementsChannel
  EverythingSettles
CHECK_DEADLOCK FALSE
