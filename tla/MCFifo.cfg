CONSTANTS
  j1 = j1
  j2 = j2
  r1 = r1
  r2 = r2
  r3 = r3
  Jobs = {j1, j2}
  Replies = {r1, r2, r3}
  JobOf <- TwoJobs
  KindOf <- Mixed
  NoReply = NoReply
  FailingWrites = {"turn", "remove"}
  MaxFailures = 1
  MaxCrashes = 1
SPECIFICATION Spec
INVARIANTS
  TypeOK
  OneSenderPerReply
  FailedTurnSendsNothing
PROPERTIES
  ImplementsOrder
  KeptUntilReceived
CHECK_DEADLOCK FALSE
