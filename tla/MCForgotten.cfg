CONSTANTS
  NoMessage = NoMessage
  j1 = j1
  j2 = j2
  m1 = m1
  m2 = m2
  m3 = m3
  Messages = {m1, m2}
  Jobs = {j1}
  JobOf <- MCJobOfOne
  First = {m1}
  Window = TRUE
  MaxWriteErrors = 0
  MaxLives = 2
SPECIFICATION FairJournalSpec
PROPERTY RestartReplays
CHECK_DEADLOCK FALSE
