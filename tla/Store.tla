------------------------------- MODULE Store -------------------------------
(***************************************************************************)
(* The state directory of vitro and the host's process table (state.rs,    *)
(* process.rs).  A VM is a directory that may hold a disk (the overlay)    *)
(* and a record (vm.json).  The record names the process that runs the VM  *)
(* by PID and start time; a PID alone is a number the host hands out       *)
(* again.  One file lock serialises the commands that take it.             *)
(***************************************************************************)
EXTENDS Integers, FiniteSets

CONSTANTS
  Clients,    \* vitro processes
  Names,      \* names of VMs
  Pids,       \* process numbers of the host
  MaxBirths,  \* bound: how many processes are ever started
  NoOne,      \* the lock is free
  NoPid,      \* a record that is not there
  NoName,     \* a command that has no VM yet
  Foreign     \* what a process that is nobody's VM runs

ASSUME StoreAssumption ==
  /\ MaxBirths \in Nat
  /\ NoOne \notin Clients
  /\ NoPid \notin Pids
  /\ NoName \notin Names
  /\ Foreign \notin Names

VARIABLES
  lock,    \* who holds vitro.lock
  dirs,    \* the VM directories that exist
  disks,   \* those of them that hold an overlay
  record,  \* the identity each vm.json names, NoIdent where none is readable
  table,   \* the process behind each PID
  births   \* processes started so far; the next start time

storeVars == <<lock, dirs, disks, record, table, births>>

-----------------------------------------------------------------------------
(* Processes.  born is the start time, 0 for no such process; disk says    *)
(* whether the overlay a QEMU runs on is still linked at its path.         *)

Ident == [pid : Pids \cup {NoPid}, born : 0 .. MaxBirths]
NoIdent == [pid |-> NoPid, born |-> 0]
Process == [born : 0 .. MaxBirths, vm : Names \cup {Foreign}, disk : BOOLEAN]
NoProcess == [born |-> 0, vm |-> Foreign, disk |-> FALSE]

Exists(p) == table[p].born # 0

\* mutant: liveness by PID alone, the mistake the start time guards against
RunningByPidAlone(i) == i.pid # NoPid /\ Exists(i.pid)

\* is_running, VmRecord::liveness: the PID and the start time both match
Running(i) == i.pid # NoPid /\ i.born # 0 /\ table[i.pid].born = i.born

\* What stop_and_wait polls: before the start time is known, the PID alone
Alive(i) ==
  /\ i.pid # NoPid
  /\ IF i.born = 0 THEN Exists(i.pid) ELSE Running(i)

\* A process of VM n, or of nobody, starts on the free PID p
Start(p, n) ==
  /\ ~Exists(p)
  /\ births < MaxBirths
  /\ births' = births + 1
  /\ table' = [table EXCEPT ![p] =
                 [born |-> births + 1, vm |-> n, disk |-> n \in Names]]

\* The processes once the disk of VM n is unlinked or written over
Unlinked(n) ==
  [p \in Pids |-> [born |-> table[p].born, vm |-> table[p].vm,
                  disk |-> table[p].disk /\ table[p].vm # n]]

-----------------------------------------------------------------------------
(* The store.                                                              *)

\* mutant: the records of running VMs look stale too
StaleEverything == dirs

\* Store::list as reap_dead reads it: dead records, and directories without
\* a readable record
Stale == {n \in dirs : ~Running(record[n])}

\* Store::save: the directory is made again if it has gone
Save(n, i) ==
  /\ dirs' = dirs \cup {n}
  /\ record' = [record EXCEPT ![n] = i]
  /\ UNCHANGED <<disks, table, births>>

\* Store::remove: missing is success
Remove(n) ==
  /\ dirs' = dirs \ {n}
  /\ disks' = disks \ {n}
  /\ record' = [record EXCEPT ![n] = NoIdent]
  /\ table' = Unlinked(n)
  /\ UNCHANGED births

\* Store::lock fails instead of waiting; dropping the lock frees it
TryLock(c) == lock = NoOne /\ lock' = c
LockedOut(c) == lock \notin {NoOne, c} /\ UNCHANGED lock
Unlock(c) == lock' = IF lock = c THEN NoOne ELSE lock

-----------------------------------------------------------------------------
StoreInit ==
  /\ lock = NoOne
  /\ dirs = {}
  /\ disks = {}
  /\ record = [n \in Names |-> NoIdent]
  /\ table = [p \in Pids |-> NoProcess]
  /\ births = 0

StoreTypeOK ==
  /\ lock \in Clients \cup {NoOne}
  /\ dirs \subseteq Names
  /\ disks \subseteq dirs
  /\ record \in [Names -> Ident]
  /\ table \in [Pids -> Process]
  /\ births \in 0 .. MaxBirths
=============================================================================
