CONSTANTS
  j1 = j1
  j2 = j2
  m1 = m1
  m2 = m2
  m3 = m3
  socket = socket
  stop1 = stop1
  check1 = check1
  None = None
  Messages = {m1, m2}
  NoMessage = NoMessage
  MaxPresses = 1
SPECIFICATION MCSpec
PROPERTIES
  OfferedIsHandled
  StopIsAnswered
  
  AcceptedIsFinished
CHECK_DEADLOCK FALSE
