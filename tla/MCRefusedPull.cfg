CONSTANTS
  j1 = j1
  j2 = j2
  Jobs = {j1, j2}
  AskJobs = {}
  Main = Main
  Default = Default
  NoBranch = NoBranch
  Modes = {"worktrees"}
  CLIBranches = {"given", "own"}
  MaxTurns <- MCThreeTurns
  FailingSteps = {"clean", "checkoutDefault", "resetToRef", "message", "commit", "push", "createPR", "answer", "state", "status", "find", "url", "worktree", "remove", "load", "upstream", "footer"}
  MaxIncidents = 0
SPECIFICATION GitDeliverySpec
INVARIANT PullsClean
CHECK_DEADLOCK FALSE
