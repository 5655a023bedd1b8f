CONSTANTS
  j1 = j1
  j2 = j2
  Jobs = {j1, j2}
  AskJobs = {}
  Main = Main
  Default = Default
  NoBranch = NoBranch
  Modes = {"branches", "worktrees"}
  CLIBranches = {"given", "own"}
  MaxTurns <- MCMaxTurns
  FailingSteps = {"clean", "checkoutDefault", "resetToRef", "message", "commit", "push", "createPR", "answer", "state", "status", "find", "url", "worktree", "remove", "load", "upstream", "footer"}
  MaxIncidents = 2
SPECIFICATION GitDeliverySpec
INVARIANTS OwnWorkOnly LossIsReported AnsweredWorkIsPushed
SYMMETRY Symmetry
CHECK_DEADLOCK FALSE
