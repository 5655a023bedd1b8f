CONSTANTS
  j1 = j1
  j2 = j2
  r1 = r1
  r2 = r2
  r3 = r3
  Jobs = {j1}
  Replies = {r1, r2}
  JobOf <- OneJob
  KindOf <- WithNotice
  NoReply = NoReply
  FailingWrites = {"add"}
  MaxFailures = 1
  MaxCrashes = 1
SPECIFICATION FairSpec
PROPERTIES SavedIsReceived
CHECK_DEADLOCK FALSE
