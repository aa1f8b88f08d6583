\* A command may be the last one
SPECIFICATION Spec
CHECK_DEADLOCK FALSE
CONSTANTS
  Hands = {h1, h2}
  Keys = {shift}
  Sizes = {1, 2}
  Resizes = 2
  Parts = {1, 2}
  Attempts = 2
  Mishaps = {"refused", "lost", "killed"}
  Hosts = {g1, g2}
  MaxPacks = 3
  Absent = Absent
  FileTrouble = {"cut"}
  Sessions = {s1, s2}
  MaxStarts = 3
  VmNames = {"rust-1", "rust-2", "win-1"}
  Images = {"rust", "win"}
  Typed = {"rust-1", "rust-2", "win-1", "rust", "win", "ru", "ls"}
  Begins <- MCBegins
  Symbols <- MCSymbols
  Words <- MCWords
  MaxWords = 2
  Values <- MCValues
  Root = "project"
  Git = ".git"
  Dirs = {"project", ".git", "sub"}
  Files = {"main", "id", "lib"}
  Links = {"link", "sublink"}
  Holder <- MCHolder
  Above <- MCAbove
  Ignorable <- MCIgnorable
  Outside = "outside"
  Gone = "gone"
  MaxKeys = 2
  SetupTrouble = {"torn", "odd"}
  MaxLacks = 2
  ImageKeys = {"rust", "win"}
  Codes = {0, 2, 256}
INVARIANT HandsComeUp
INVARIANT PictureWhole
INVARIANT RunsWhatWasSent
INVARIANT ActsOnItsPick
INVARIANT ArrivesAsSent
INVARIANT ExitTellsTruth
INVARIANT SendsTheProject
INVARIANT ImageOpens
INVARIANT DoctorIsRight
