CONSTANTS
  j1 = j1
  j2 = j2
  m1 = m1
  m2 = m2
  m3 = m3
  Jobs = {j1}
  Messages = {m1, m2}
  JobOf <- OneJob
  IdleChecks = {check1, check2}
  None = None
  Deliverers = {socket, poller}
  MaxOffers = 1
  MaxChannels = 2
  ChannelCap = 2
  MaxConcurrency = 2
  Stoppers = {stop1}
  MaxStops = 1
SPECIFICATION Spec
INVARIANTS
  TypeOK
  NoChannelPanic
  NoStrandedMessage
  AcceptedIsExact
  InFlightWhileHeld
  ClaimExcludesWork
  RemovedRowIsCurrent
SYMMETRY OneJobSymmetry
CHECK_DEADLOCK FALSE
