SPECIFICATION EitherSpec
CONSTANTS
  Kind = {k1}
  Handler = {h1}
  None = None
  MaxTime = 2
  MaxEvents = 3
  MaxDepth = 3
  MaxBudget = 1
  MaxHandlers = 1
  StateTarget = {s1}
  SignalTarget = {g1}
  Module = {m1, m2}
  FaultName = {f1}
  Value = {v1}
  Nothing = Nothing
  MaxClock = 2
  MaxCycle = 2
  MaxSpan = 1
INVARIANTS
  TypeOK
  DispatchOrder
  HandlersAtEventTime
  NoEventLost
PROPERTIES
  TimeNeverBackward
  LookupAnswersRequest
