SPECIFICATION FetchSpec
CHECK_DEADLOCK FALSE
CONSTANTS
  Fetches = {f1, f2}
  Inodes = {i1, i2, i3}
  Nothing = Nothing
  Last = 2
  Streams = 2
  Versions = {1}
  Length <- MCLength
  Wanted = 1
  Verified = {}
  FetchTrouble = {"fail", "together"}
INVARIANT InterruptedLeavesNoImage
