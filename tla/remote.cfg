\* A command may be the last one
SPECIFICATION RemoteSpec
CHECK_DEADLOCK FALSE
CONSTANTS
  Commands = {"wait", "restart", "run_lume", "build"}
  Timeout = 6
  Slow = 2
  Grace = 3
  MaxBoots = 2
  Jobs = {j1}
  Watchers = {w1}
  Pieces = 2
  Restarts = 1
  Patience = 2
  NoJob = NoJob
  Trouble = {"cut", "killed", "reuse"}
INVARIANT RestartMeansRestarted
INVARIANT OnTime
INVARIANT RefusedThroughout
INVARIANT DeathIsNoticed
INVARIANT ExitMeansWhole
INVARIANT ShownOnce
INVARIANT LostMeansOver
PROPERTY WaitEnds
PROPERTY AttachEnds
