CONSTANTS
  j1 = j1
  j2 = j2
  m1 = m1
  m2 = m2
  m3 = m3
  Jobs = {j1, j2}
  Messages = {m1, m2, m3}
  JobOf <- TwoJobs
  IdleChecks = {}
  None = None
  Deliverers = {socket, poller}
  MaxOffers = 1
  MaxChannels = 3
  ChannelCap = 2
  MaxConcurrency = 2
  Stoppers = {}
  MaxStops = 0
SPECIFICATION Spec
INVARIANTS
  OneTurnPerJob
PROPERTIES
  ImplementsLanes
SYMMETRY TwoJobsSymmetry
CHECK_DEADLOCK FALSE
