SPECIFICATION JobsSpec
CONSTANTS
  Jobs = {j1}
  Watchers = {w1}
  Pieces = 1
  Restarts = 0
  Patience = 2
  NoJob = NoJob
  Trouble = {}
INVARIANT LostIsLost
