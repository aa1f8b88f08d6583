--------------------------- MODULE MCVmLifecycle ---------------------------
(* VmLifecycle on small instances, and the registry it implements.         *)
EXTENDS VmLifecycle, TLC

Symmetry == Permutations(Clients) \cup Permutations(Names) \cup Permutations(Pids)

\* What the directory and the process table say of a name
RegistryOf(n) ==
  IF n \notin dirs THEN "free"
  ELSE IF record[n] = NoIdent THEN "claimed"
  ELSE IF Running(record[n]) THEN "up"
  ELSE "down"

Registry == INSTANCE VmRegistry WITH reg <- [n \in Names |-> RegistryOf(n)]

\* Without prune, typed names and faults, the commands keep the promise of
\* VmRegistry: a VM that is up is never forgotten, and a claimed name is only
\* given up by the command that claimed it
ImplementsRegistry == Registry!Spec
=============================================================================
