CONSTANTS
  j1 = j1
  s1 = s1
  s2 = s2
  m1 = m1
  NoSlot = NoSlot
  NoBranch = NoBranch
  NoMessage = NoMessage
  MaxLines = 2
  MaxUpdates = 1
  MaxEdits = 1
  Agents = {"claude", "codex", "cursor"}
SPECIFICATION PartsSpec
INVARIANTS
  PartsTypeOK
  FooterStands
  CutShortIsReported
PROPERTIES
  RefillsUnlessFailed
  EveryMessageIsTold
  CliRunEnds
  OneFooterRestored
CHECK_DEADLOCK FALSE
