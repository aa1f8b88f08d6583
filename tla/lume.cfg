\* No more VMs than MaxClones
SPECIFICATION Spec
CHECK_DEADLOCK FALSE
CONSTANTS
  Clients = {c1, c2}
  Names = {n1, n2}
  Image = image
  MaxClones = 2
  Absent = Absent
  Trouble = {"fail", "crash"}
INVARIANT EveryVmNamed
INVARIANT RecordNamesItsVm
INVARIANT AliasStays
PROPERTY WorkKept
SYMMETRY Symmetry
