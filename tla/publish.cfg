\* A build, or a download, may be the last one
SPECIFICATION FairBuildSpec
CHECK_DEADLOCK FALSE
CONSTANTS
  Builds = {b1, b2, b3}
  Absent = Absent
  NoFile = NoFile
  Unfit = Unfit
  Old = Old
  Trouble = {"fail", "crash"}
  QemuBuilds = {b1, b2}
  Scripted = {b1}
  Windows = {b2}
  Keepers = {b2}
  LastSecond = 2
  Mishaps = {"crash", "reuse", "unread"}
  Fetches = {f1, f2}
  Inodes = {i1, i2}
  Nothing = Nothing
  Last = 2
  Streams = 2
  Versions = {1, 2, 3}
  Length <- MCLength
  Wanted = 1
  Verified = {f2}
  FetchTrouble = {"fail", "crash", "change"}
INVARIANT ImagesWhole
INVARIANT BuildTidies
PROPERTY WorkingKept
PROPERTY GoldenCopied
PROPERTY ImagesStay
INVARIANT CacheWhole
PROPERTY DoneMeansWanted
PROPERTY FetchEnds
