\* A promote beside a run that waits for its guest.
SPECIFICATION Spec
CONSTANTS
  Clients = {c1, c2}
  Names = {n1, n2}
  Pids = {p1, p2}
  MaxBirths = 2
  NoOne = NoOne
  NoPid = NoPid
  NoName = NoName
  Foreign = Foreign
  Commands = {"run", "promote"}
  Given = {}
  Faults = {}
SYMMETRY Symmetry
INVARIANT ConvertedDiskStays
