\* A prune beside a run: the lock is the run's alone.
SPECIFICATION Spec
CONSTANTS
  Clients = {c1, c2}
  Names = {n1, n2}
  Pids = {p1, p2}
  MaxBirths = 2
  NoOne = NoOne
  NoPid = NoPid
  NoName = NoName
  Foreign = Foreign
  Commands = {"run", "prune"}
  Given = {}
  Faults = {}
SYMMETRY Symmetry
INVARIANT StartingDirStays
