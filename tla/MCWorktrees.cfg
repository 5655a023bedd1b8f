CONSTANTS
  j1 = j1
  j2 = j2
  s1 = s1
  s2 = s2
  s3 = s3
  s4 = s4
  Jobs = {j1, j2}
  Slots = {s1, s2}
  NoSlot = NoSlot
  NoBranch = NoBranch
  Target = 1
  MaxAttempts = 2
  MaxPushes = 1
  FailingSteps = {"fetch", "branch", "add", "list", "move", "rename", "refresh", "remove", "state", "volume"}
  MaxFailures = 1
  MaxCrashes = 1
SPECIFICATION WorktreesSpec
SYMMETRY Symmetry
INVARIANTS
  OneHolder
  ReadyIsUsable
  StartsClean
  HeldWorkSurvives
PROPERTIES
  CleanupSparesTracked
CHECK_DEADLOCK FALSE
