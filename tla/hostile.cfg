\* Everything that can go wrong at once: crashes, processes that outlive
\* SIGKILL, unreadable pidfiles, prune without the lock, names typed twice.
SPECIFICATION Spec
CONSTANTS
  Clients = {c1, c2}
  Names = {n1, n2}
  Pids = {p1, p2}
  MaxBirths = 3
  NoOne = NoOne
  NoPid = NoPid
  NoName = NoName
  Foreign = Foreign
  Commands = {"run", "destroy", "promote", "prune"}
  Given = {n1, n2}
  Faults = {"crash", "stubborn", "pidfile", "remove"}
SYMMETRY Symmetry
INVARIANTS TypeOK RecordsAreTrue DestroyedMeansStopped
PROPERTIES DestroySignalsOnlyItsVm
