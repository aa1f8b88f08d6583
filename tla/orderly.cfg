\* Nothing goes wrong around vitro: no crash, generated names, no prune. Guests
\* still die, commands still time out, and PIDs still come back.
SPECIFICATION FairSpec
CONSTANTS
  Clients = {c1, c2}
  Names = {n1, n2}
  Pids = {p1, p2}
  MaxBirths = 3
  NoOne = NoOne
  NoPid = NoPid
  NoName = NoName
  Foreign = Foreign
  Commands = {"run", "destroy", "promote"}
  Given = {}
  Faults = {}
INVARIANTS NoneStranded DiskKept StartingDirStays
PROPERTIES ImplementsRegistry CommandsFinish
