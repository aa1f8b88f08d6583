--------------------------- MODULE OrderlyProofs ---------------------------
(***************************************************************************)
(* What holds of VmLifecycle when nothing goes wrong around vitro: names   *)
(* are generated, nobody prunes and no fault happens, while guests die,    *)
(* commands fail and PIDs come back.  No QEMU is stranded, none loses its  *)
(* disk and no directory in use is reaped, for any number of clients,      *)
(* names and PIDs.                                                         *)
(*                                                                         *)
(* The argument: a run has its name for itself until its record is saved   *)
(* (EarlyInv); afterwards the record is of the process its guard owns, or  *)
(* gone (LateInv); whoever removes a directory does so when no process of  *)
(* that VM is left, for the record or the guard under the lock names every *)
(* one there is (Tracked).                                                 *)
(***************************************************************************)
EXTENDS VmLifecycleProofs, MCVmLifecycle

USE StoreAssumption, CommandAssumption

Orderly ==
  /\ Commands \subseteq {"run", "destroy", "promote"}
  /\ Given = {}
  /\ Faults = {}

\* The process of a VM at p, as a record names it
Guest(p) == Exists(p) /\ table[p].vm \in Names
Me(p) == [pid |-> p, born |-> table[p].born]
NoGuest(n) == \A p \in Pids : Exists(p) => table[p].vm # n

Unmade == {"named", "reaping"}
Early == Unmade \cup StartLocations
Late == StopLocations \cup {"waiting", "teardown"}

EarlyInv(c) ==
  job[c] = "run" /\ at[c] \in Early =>
    /\ record[name[c]] = NoIdent
    /\ at[c] \in StartLocations <=> name[c] \in dirs
    /\ \A d \in Clients \ {c} : name[d] # name[c] /\ name[c] \notin todo[d]
    /\ at[c] \in Unmade \cup {"made", "imaged"} => owned[c] = NoIdent
    /\ at[c] = "timed" => owned[c].born # 0

LateInv(c) ==
  job[c] = "run" /\ at[c] \in Late =>
    /\ record[name[c]] \in {NoIdent, owned[c]}
    /\ \A d \in Clients \ {c} : job[d] = "run" => name[d] # name[c]
    /\ at[c] \in {"killed", "stopped"} => NoGuest(name[c])

PromoteInv(c) ==
  job[c] = "promote" =>
    /\ owned[c].born # 0 /\ record[name[c]] \in {NoIdent, owned[c]}
    /\ at[c] # "prepared" => lock = c
    /\ at[c] \in {"killed", "stopped"} => ~Running(owned[c])

ReapInv(c) ==
  at[c] = "reaping" => job[c] = "run" /\ \A n \in todo[c] : ~Running(record[n])

OrderInv(c) == EarlyInv(c) /\ LateInv(c) /\ PromoteInv(c) /\ ReapInv(c)

\* c is the run that started the process at p and has not recorded it
Tracks(c, p) ==
  /\ job[c] = "run" /\ lock = c /\ name[c] = table[p].vm
  /\ at[c] \in {"spawned", "timed", "teardown", "stopping"}
  /\ owned[c].pid = p /\ owned[c].born \in {0, table[p].born}

Tracked(p) ==
  Guest(p) =>
    /\ table[p].disk
    /\ record[table[p].vm] = Me(p) \/ \E c \in Clients : Tracks(c, p)

\* A record is in a directory
Placed == \A n \in Names : n \notin dirs => record[n] = NoIdent

OInv == IInv /\ Placed /\ (\A c \in Clients : OrderInv(c)) /\ \A p \in Pids : Tracked(p)

-----------------------------------------------------------------------------
(* What the invariant says of a VM's processes.                            *)

LEMMA RunNamed ==
  ASSUME OInv, NEW c \in Clients, job[c] = "run"
  PROVE  name[c] \in Names /\ at[c] \in Early \cup Late
BY DEF OInv, IInv, TypeOK, ClientTypeOK, HasVm, InPlace, RunLocations, Early, Late, Unmade

\* Every process of its VM is the one the guard of a run owns
LEMMA GuestIsOwned ==
  ASSUME OInv, NEW c \in Clients, job[c] = "run",
         NEW p \in Pids, Exists(p), table[p].vm = name[c]
  PROVE  owned[c].pid = p /\ owned[c].born \in {0, table[p].born} /\ at[c] \notin Unmade \cup {"made", "imaged"}
<1>1. name[c] \in Names /\ at[c] \in Early \cup Late /\ EarlyInv(c) /\ LateInv(c)
  BY RunNamed DEF OInv, OrderInv
<1>2. Me(p).pid = p /\ Me(p).born = table[p].born /\ NoIdent.pid = NoPid /\ p # NoPid
  BY DEF Me, NoIdent
<1>3. record[name[c]] = Me(p) \/ \E d \in Clients : Tracks(d, p)
  BY <1>1 DEF OInv, Tracked, Guest
<1>4. CASE record[name[c]] = Me(p)
  BY <1>1, <1>2, <1>4 DEF EarlyInv, LateInv, Early, Late, Unmade, StartLocations, StopLocations
<1>5. ASSUME NEW d \in Clients, Tracks(d, p)
      PROVE  d = c
  BY <1>1, <1>5 DEF EarlyInv, LateInv, Tracks
<1>6. CASE Tracks(c, p)
  BY <1>6 DEF Tracks, Unmade
<1> QED BY <1>3, <1>4, <1>5, <1>6

\* Under the lock of another command, a VM without a live record has no process
LEMMA DeadHasNone ==
  ASSUME OInv, NEW c \in Clients, lock = c, NEW n \in Names, ~Running(record[n]),
         \A p \in Pids : ~Tracks(c, p)
  PROVE  NoGuest(n)
<1> SUFFICES ASSUME NEW p \in Pids, Exists(p), table[p].vm = n PROVE FALSE
  BY DEF NoGuest
<1>1. record[n] = Me(p) \/ \E d \in Clients : Tracks(d, p)
  BY DEF OInv, Tracked, Guest
<1>2. record[n] # Me(p)
  BY DEF Me, Running, Exists
<1>3. \A d \in Clients : Tracks(d, p) => d = c
  BY DEF Tracks
<1> QED BY <1>1, <1>2, <1>3

LEMMA ReapsDead ==
  ASSUME OInv, NEW c \in Clients, at[c] = "reaping", NEW n \in todo[c]
  PROVE  n \in Names /\ NoGuest(n)
<1>1. job[c] = "run" /\ n \in Names /\ ~Running(record[n]) /\ lock = c
  BY DEF OInv, OrderInv, ReapInv, IInv, TypeOK, ClientTypeOK, ClientInv, LockInv, InLock
<1> QED BY <1>1, DeadHasNone DEF Tracks

LEMMA RemovesDead ==
  ASSUME OInv, NEW c \in Clients, at[c] = "stopped"
  PROVE  name[c] \in Names /\ NoGuest(name[c])
<1>1. /\ name[c] \in Names /\ job[c] \in {"run", "destroy", "promote"}
      /\ ClientInv(c) /\ OrderInv(c)
  BY DEF OInv, IInv, TypeOK, ClientTypeOK, HasVm, InPlace, StopLocations
<1>2. CASE job[c] = "run"
  BY <1>1, <1>2 DEF OrderInv, LateInv, Late, StopLocations
<1>3. CASE job[c] = "destroy"
  <2>1. ~Running(record[name[c]]) /\ lock = c
    BY <1>1, <1>3 DEF ClientInv, ListedInv, LockInv, InLock, StopLocations, Running, NoIdent
  <2> QED BY <1>1, <1>3, <2>1, DeadHasNone DEF Tracks
<1>4. CASE job[c] = "promote"
  <2>1. ~Running(record[name[c]]) /\ lock = c
    BY <1>1, <1>4 DEF OrderInv, PromoteInv, Running, NoIdent
  <2> QED BY <1>1, <1>4, <2>1, DeadHasNone DEF Tracks
<1> QED BY <1>1, <1>2, <1>3, <1>4

-----------------------------------------------------------------------------
(* The processes stay tracked.                                             *)

\* The processes of VMs there are after the step were there before it, with
\* their disks and their records
Settled ==
  \A p \in Pids :
    Guest(p)' => /\ Same(p) /\ table'[p].disk = table[p].disk
                 /\ record'[table[p].vm] = record[table[p].vm]

LEMMA RemoveSettled ==
  ASSUME TypeOK, NEW n \in Names, NoGuest(n), table' = Unlinked(n),
         \A m \in Names : m # n => record'[m] = record[m]
  PROVE  Settled
BY DEF Settled, Guest, Same, Unlinked, NoGuest, Exists, TypeOK, StoreTypeOK, Process

LEMMA StillSettled ==
  ASSUME TypeOK, UNCHANGED <<record, table>>
  PROVE  Settled
BY DEF Settled, Same

LEMMA EndSettled ==
  ASSUME TypeOK, NEW p \in Pids, table' = [table EXCEPT ![p] = NoProcess], record' = record
  PROVE  Settled
BY DEF Settled, Same, Guest, Exists, NoProcess, TypeOK, StoreTypeOK

LEMMA TrackedOn ==
  ASSUME OInv, Settled, NEW c \in Clients, Frame(c),
         \A p \in Pids : Tracks(c, p) /\ Guest(p)' => Tracks(c, p)'
  PROVE  \A p \in Pids : Tracked(p)'
<1> SUFFICES ASSUME NEW p \in Pids, Guest(p)' PROVE Tracked(p)'
  BY DEF Tracked
<1>1. /\ Same(p) /\ table'[p].disk = table[p].disk
      /\ record'[table[p].vm] = record[table[p].vm]
  BY DEF Settled
<1>2. Guest(p) /\ Tracked(p)
  BY <1>1 DEF OInv, Guest, Exists, Same
<1>3. CASE record[table[p].vm] = Me(p)
  BY <1>1, <1>2, <1>3 DEF Tracked, Me, Same
<1>4. ASSUME NEW d \in Clients, Tracks(d, p), d # c
      PROVE  Tracks(d, p)'
  BY <1>1, <1>4 DEF Tracks, Frame, Same
<1> QED BY <1>1, <1>2, <1>3, <1>4 DEF Tracked

-----------------------------------------------------------------------------
(* The other clients.                                                      *)

OthersTodo(c) == \A d \in Clients \ {c} : todo'[d] = todo[d]

\* Records go, and none is written but by a run that had none
RecordsOn(c) ==
  \A n \in Names :
    \/ record'[n] \in {record[n], NoIdent}
    \/ n = name[c] /\ job[c] = "run" /\ at[c] = "timed"

\* Processes go, and none starts but a run's that had none
GuestsOn(c) ==
  \A p \in Pids :
    Guest(p)' => \/ Same(p)
                 \/ table'[p].vm = name[c] /\ job[c] = "run" /\ at[c] = "imaged"

\* c lets the name of a run be that has no record yet
LetsBe(c, d) ==
  job[d] = "run" /\ at[d] \in Early =>
    /\ name'[c] # name[d] /\ name[d] \notin todo'[c]
    /\ name[d] \in dirs' <=> name[d] \in dirs

\* c takes no name for a run that is in use
NamesApart(c) ==
  job'[c] = "run" =>
    \/ job[c] = "run" /\ name'[c] = name[c]
    \/ \A d \in Clients : name[d] # name'[c]

LEMMA OthersOrder ==
  ASSUME OInv, Ages, NEW c \in Clients, NEW d \in Clients, d # c,
         Frame(c), OthersTodo(c), RecordsOn(c), GuestsOn(c), LetsBe(c, d), NamesApart(c)
  PROVE  OrderInv(d)'
<1>0. /\ at'[d] = at[d] /\ job'[d] = job[d] /\ name'[d] = name[d]
      /\ owned'[d] = owned[d] /\ todo'[d] = todo[d]
  BY DEF Frame, OthersTodo
<1>1. OrderInv(d) /\ EarlyInv(c) /\ TypeOK
  BY DEF OInv, IInv, OrderInv
<1>2. job[d] = "run" => name[d] \in Names
  BY RunNamed
<1>3. \A e \in Clients \ {c} : name'[e] = name[e] /\ job'[e] = job[e] /\ todo'[e] = todo[e]
  BY DEF Frame, OthersTodo
<1>4. at[c] \in {"timed", "imaged"} /\ job[c] = "run" => name[d] # name[c] /\ name[c] \notin todo[d]
  BY <1>1 DEF EarlyInv, Early, StartLocations
<1>5. EarlyInv(d)'
  <2> SUFFICES ASSUME job[d] = "run", at[d] \in Early PROVE EarlyInv(d)'
    BY <1>0 DEF EarlyInv
  <2>1. record'[name[d]] = NoIdent
    BY <1>1, <1>2, <1>4 DEF OrderInv, EarlyInv, RecordsOn
  <2>2. \A e \in Clients \ {d} : name'[e] # name[d] /\ name[d] \notin todo'[e]
    BY <1>1, <1>3 DEF OrderInv, EarlyInv, LetsBe
  <2>3. name[d] \in dirs' <=> name[d] \in dirs
    BY DEF LetsBe
  <2> QED BY <1>0, <1>1, <2>1, <2>2, <2>3 DEF OrderInv, EarlyInv
<1>6. LateInv(d)'
  <2> SUFFICES ASSUME job[d] = "run", at[d] \in Late PROVE LateInv(d)'
    BY <1>0 DEF LateInv
  <2>1. record'[name[d]] \in {NoIdent, owned[d]}
    BY <1>1, <1>2, <1>4 DEF OrderInv, LateInv, RecordsOn
  <2>2. \A e \in Clients \ {d} : job'[e] = "run" => name'[e] # name[d]
    BY <1>1, <1>3 DEF OrderInv, LateInv, NamesApart
  <2>3. NoGuest(name[d]) => NoGuest(name[d])'
    BY <1>0, <1>2, <1>4 DEF NoGuest, GuestsOn, Guest, Exists, Same
  <2> QED BY <1>0, <1>1, <2>1, <2>2, <2>3 DEF OrderInv, LateInv, NoGuest
<1>7. PromoteInv(d)'
  <2> SUFFICES ASSUME job[d] = "promote" PROVE PromoteInv(d)'
    BY <1>0 DEF PromoteInv
  <2>1. name[d] \in Names /\ owned[d] \in Ident /\ owned[d].born <= births
    BY DEF OInv, IInv, TypeOK, ClientTypeOK, HasVm, ClientInv, KnowsInv, Knows
  <2>2. record'[name[d]] \in {NoIdent, owned[d]}
    BY <1>1, <1>4, <2>1 DEF OrderInv, PromoteInv, RecordsOn
  <2>3. ~Running(owned[d]) => ~RunningAfter(owned[d])
    BY <1>1, <2>1, Persist
  <2>4. lock = d => lock' = d
    BY DEF Frame
  <2> QED BY <1>0, <1>1, <2>2, <2>3, <2>4 DEF OrderInv, PromoteInv, Running, RunningAfter
<1>8. ReapInv(d)'
  <2> SUFFICES ASSUME at[d] = "reaping" PROVE ReapInv(d)'
    BY <1>0 DEF ReapInv
  <2>1. ASSUME NEW n \in todo[d] PROVE ~RunningAfter(record'[n])
    <3>1. n \in Names /\ ~Running(record[n])
      BY <1>1 DEF OrderInv, ReapInv, TypeOK, ClientTypeOK
    <3>2. record[n] \in Ident /\ record[n].born <= births
      BY <3>1 DEF OInv, IInv, StoreInv, Knows, TypeOK, StoreTypeOK
    <3>3. ~RunningAfter(record[n]) /\ ~RunningAfter(NoIdent)
      BY <1>1, <3>1, <3>2, Persist DEF RunningAfter, NoIdent
    <3> QED BY <1>4, <3>1, <3>3 DEF RecordsOn
  <2> QED BY <1>0, <1>1, <2>1 DEF OrderInv, ReapInv, Running, RunningAfter
<1> QED BY <1>5, <1>6, <1>7, <1>8 DEF OrderInv

\* Most steps work on the client's own VM and its own listing
Modest(c) ==
  /\ OthersTodo(c)
  /\ name'[c] \in {name[c], NoName} \cup todo[c]
  /\ todo'[c] \subseteq todo[c]
  /\ \A n \in Names : n = name[c] \/ n \in todo[c] \/ (n \in dirs' <=> n \in dirs)
  /\ job'[c] \in {job[c], "none"}
  /\ job[c] = "run" /\ job'[c] = "run" => name'[c] = name[c]

LEMMA ModestOthers ==
  ASSUME OInv, Ages, NEW c \in Clients, NEW d \in Clients, d # c,
         Frame(c), Modest(c), RecordsOn(c), GuestsOn(c)
  PROVE  OrderInv(d)'
<1>1. LetsBe(c, d)
  <2> SUFFICES ASSUME job[d] = "run", at[d] \in Early
               PROVE  /\ name'[c] # name[d] /\ name[d] \notin todo'[c]
                      /\ name[d] \in dirs' <=> name[d] \in dirs
    BY DEF LetsBe
  <2>1. name[d] \in Names /\ name[c] # name[d] /\ name[d] \notin todo[c]
    BY RunNamed DEF OInv, OrderInv, EarlyInv
  <2> QED BY <2>1 DEF Modest
<1>2. NamesApart(c)
  BY DEF Modest, NamesApart
<1> QED BY <1>1, <1>2, OthersOrder DEF Modest

-----------------------------------------------------------------------------
(* The client that takes the step.                                         *)

LEMMA DoneOrder ==
  ASSUME TypeOK, NEW c \in Clients, Done(c)
  PROVE  OrderInv(c)'
<1>1. job'[c] = "none" /\ at'[c] = "idle"
  BY DEF Done, Goto, TypeOK, ClientTypeOK
<1> QED BY <1>1 DEF OrderInv, EarlyInv, LateInv, PromoteInv, ReapInv, Early, Late, Unmade,
           StartLocations, StopLocations

LEMMA RunOrder ==
  ASSUME OInv, Orderly, NEW c \in Clients, RunStep(c)
  PROVE  OrderInv(c)'
<1> USE DEF Early, Late, Unmade, StartLocations, StopLocations
<1>0. TypeOK /\ InPlace(c) /\ OrderInv(c) /\ Frame(c)
  BY MovesRun DEF OInv, IInv, TypeOK, ClientTypeOK
<1>1. CASE RunLocks(c)
  <2>1. job[c] = "run" /\ at'[c] = "reaping" /\ todo'[c] = Stale
    BY <1>0, <1>1 DEF RunLocks, Goto, InPlace, TypeOK, ClientTypeOK, DestroyLocations, PromoteLocations
  <2>2. \A d \in Clients \ {c} : todo'[d] = todo[d]
    BY <1>0, <1>1 DEF RunLocks, TypeOK, ClientTypeOK
  <2>3. EarlyInv(c)'
    BY <1>0, <1>1, <2>1, <2>2 DEF RunLocks, OrderInv, EarlyInv
  <2>4. ReapInv(c)'
    BY <1>1, <2>1 DEF RunLocks, ReapInv, Stale, Running
  <2> QED BY <1>1, <2>1, <2>3, <2>4 DEF RunLocks, OrderInv, LateInv, PromoteInv
<1>2. CASE LockBusy(c) \/ Reachable(c)
  BY <1>0, <1>2, DoneOrder DEF LockBusy, Reachable
<1>3. CASE ReapOne(c)
  <2>1. job[c] = "run" /\ at'[c] = "reaping" /\ todo'[c] \subseteq todo[c] /\ name[c] \in Names
    BY <1>0, <1>3 DEF ReapOne, OrderInv, ReapInv, TypeOK, ClientTypeOK, HasVm
  <2>2. \A d \in Clients \ {c} : todo'[d] = todo[d]
    BY <1>0, <1>3 DEF ReapOne, TypeOK, ClientTypeOK
  <2>3. /\ \A m \in Names : record'[m] \in {record[m], NoIdent}
        /\ dirs' \subseteq dirs
        /\ \A p \in Pids : table'[p].born = table[p].born
    BY <1>0, <1>3 DEF ReapOne, Remove, Unlinked, TypeOK, StoreTypeOK, ClientTypeOK
  <2>4. EarlyInv(c)'
    BY <1>0, <1>3, <2>1, <2>2, <2>3 DEF ReapOne, OrderInv, EarlyInv
  <2>5. ReapInv(c)'
    <3>1. ASSUME NEW n \in todo[c] PROVE ~RunningAfter(record'[n])
      <4>1. n \in Names /\ ~Running(record[n]) /\ record[n] \in Ident
        BY <1>0, <1>3 DEF ReapOne, OrderInv, ReapInv, TypeOK, ClientTypeOK, StoreTypeOK
      <4> QED BY <2>3, <4>1 DEF RunningAfter, Running, NoIdent, Ident
    <3> QED BY <2>1, <3>1, <1>3 DEF ReapInv, Running, RunningAfter, ReapOne
  <2> QED BY <1>3, <2>1, <2>4, <2>5 DEF ReapOne, OrderInv, LateInv, PromoteInv
<1>4. CASE MakeDir(c)
  <2>1. job'[c] = "run" /\ at[c] = "reaping" /\ at'[c] = "made" /\ name[c] \in dirs'
    BY <1>0, <1>4 DEF MakeDir, Goto, TypeOK, ClientTypeOK
  <2>2. EarlyInv(c)'
    BY <1>0, <1>4, <2>1 DEF MakeDir, OrderInv, EarlyInv
  <2> QED BY <2>1, <2>2 DEF OrderInv, LateInv, PromoteInv, ReapInv
<1>5. CASE CreateOverlay(c)
  <2>1. job[c] = "run" /\ at'[c] = "imaged"
    BY <1>0, <1>5 DEF CreateOverlay, Goto, InPlace, TypeOK, ClientTypeOK, DestroyLocations, PromoteLocations
  <2>2. EarlyInv(c)'
    BY <1>0, <1>5, <2>1 DEF CreateOverlay, OrderInv, EarlyInv
  <2> QED BY <1>5, <2>1, <2>2 DEF CreateOverlay, OrderInv, LateInv, PromoteInv, ReapInv
<1>6. CASE \E p \in Pids : Spawn(c, p)
  <2>1. job[c] = "run" /\ at[c] = "imaged" /\ at'[c] = "spawned"
    BY <1>0, <1>6 DEF Spawn, Goto, InPlace, TypeOK, ClientTypeOK, DestroyLocations, PromoteLocations
  <2>2. EarlyInv(c)'
    BY <1>0, <1>6, <2>1 DEF Spawn, OrderInv, EarlyInv
  <2> QED BY <1>6, <2>1, <2>2 DEF Spawn, OrderInv, LateInv, PromoteInv, ReapInv
<1>7. CASE \E p \in Pids : SpawnUnread(c, p)
  BY <1>7 DEF SpawnUnread, Orderly
<1>8. CASE ReadStartTime(c)
  <2>1. /\ job[c] = "run" /\ at'[c] = "timed" /\ at[c] = "spawned"
        /\ owned'[c].born # 0
    BY <1>0, <1>8 DEF ReadStartTime, Goto, Exists, InPlace, TypeOK, ClientTypeOK, DestroyLocations, PromoteLocations
  <2>2. EarlyInv(c)'
    BY <1>0, <1>8, <2>1 DEF ReadStartTime, OrderInv, EarlyInv, storeVars
  <2> QED BY <1>8, <2>1, <2>2 DEF ReadStartTime, OrderInv, LateInv, PromoteInv, ReapInv
<1>9. CASE SaveRecord(c)
  <2>1. job[c] = "run" /\ at'[c] = "waiting" /\ at[c] = "timed" /\ name[c] \in Names
    BY <1>0, <1>9 DEF SaveRecord, Goto, InPlace, TypeOK, ClientTypeOK, HasVm, DestroyLocations, PromoteLocations
  <2>2. record'[name[c]] = owned[c]
    BY <1>0, <1>9, <2>1 DEF SaveRecord, Save, TypeOK, StoreTypeOK
  <2>3. LateInv(c)'
    BY <1>0, <1>9, <2>1, <2>2 DEF SaveRecord, OrderInv, EarlyInv, LateInv
  <2> QED BY <1>9, <2>1, <2>3 DEF SaveRecord, OrderInv, EarlyInv, PromoteInv, ReapInv
<1>10. CASE RunFails(c)
  <2>1. job[c] = "run" /\ at'[c] = "teardown"
    BY <1>0, <1>10 DEF RunFails, Goto, InPlace, TypeOK, ClientTypeOK, DestroyLocations, PromoteLocations
  <2>2. LateInv(c)'
    BY <1>0, <1>10, <2>1 DEF RunFails, OrderInv, EarlyInv, LateInv, storeVars
  <2> QED BY <1>10, <2>1, <2>2 DEF RunFails, OrderInv, EarlyInv, PromoteInv, ReapInv
<1>11. CASE GuardDrop(c)
  <2>1. /\ job[c] = "run" /\ at[c] = "teardown"
        /\ at'[c] = IF owned[c] = NoIdent THEN "stopped" ELSE "stopping"
    BY <1>0, <1>11 DEF GuardDrop, Goto, InPlace, TypeOK, ClientTypeOK, DestroyLocations, PromoteLocations
  <2>2. owned[c] = NoIdent => NoGuest(name[c])
    BY <2>1, GuestIsOwned DEF NoGuest, NoIdent
  <2>3. LateInv(c)'
    BY <1>0, <1>11, <2>1, <2>2 DEF GuardDrop, OrderInv, LateInv, NoGuest, Exists, storeVars
  <2> QED BY <1>11, <2>1, <2>3 DEF GuardDrop, OrderInv, EarlyInv, PromoteInv, ReapInv
<1> QED BY <1>1, <1>2, <1>3, <1>4, <1>5, <1>6, <1>7, <1>8, <1>9, <1>10, <1>11 DEF RunStep

LEMMA DestroyingOrder ==
  ASSUME NEW c \in Clients, job'[c] = "destroy", at'[c] # "reaping"
  PROVE  OrderInv(c)'
BY DEF OrderInv, EarlyInv, LateInv, PromoteInv, ReapInv

LEMMA MovesOnOrder ==
  ASSUME TypeOK, NEW c \in Clients, job[c] = "destroy", DestroyMovesOn(c)
  PROVE  OrderInv(c)'
<1>1. job'[c] = "destroy" /\ at'[c] = "destroying"
  BY DEF DestroyMovesOn, Goto, TypeOK, ClientTypeOK
<1> QED BY <1>1, DestroyingOrder

LEMMA StopOrder ==
  ASSUME OInv, Orderly, NEW c \in Clients, StopStep(c)
  PROVE  OrderInv(c)'
<1> USE DEF Early, Late, Unmade, StartLocations, StopLocations
<1>0. TypeOK /\ InPlace(c) /\ OrderInv(c)
  BY DEF OInv, IInv, TypeOK, ClientTypeOK
<1>1. ASSUME job[c] = "run", NEW p \in Pids, Exists(p), table[p].vm = name[c]
      PROVE  owned[c].pid = p /\ Alive(owned[c])
  <2>1. owned[c].pid = p /\ owned[c].born \in {0, table[p].born}
    BY <1>1, GuestIsOwned
  <2> QED BY <1>1, <2>1 DEF Alive, Running, Exists
<1>2. job[c] = "promote" => owned[c].born # 0 /\ (Alive(owned[c]) => Running(owned[c]))
  BY <1>0 DEF OrderInv, PromoteInv, Alive
<1>3. CASE Gone(c)
  <2>1. at'[c] = "stopped" /\ ~Alive(owned[c])
    BY <1>0, <1>3 DEF Gone, Goto, TypeOK, ClientTypeOK
  <2>2. CASE job[c] = "run"
    <3>1. NoGuest(name[c])
      BY <1>1, <2>1, <2>2 DEF NoGuest
    <3>2. LateInv(c)'
      BY <1>0, <1>3, <2>1, <2>2, <3>1 DEF Gone, OrderInv, LateInv, NoGuest, Exists, storeVars
    <3> QED BY <1>3, <2>1, <2>2, <3>2 DEF Gone, OrderInv, EarlyInv, PromoteInv, ReapInv
  <2>3. CASE job[c] = "promote"
    <3>1. ~Running(owned[c])
      BY <1>2, <2>1, <2>3 DEF Alive, Running
    <3>2. PromoteInv(c)'
      BY <1>0, <1>3, <2>1, <2>3, <3>1 DEF Gone, OrderInv, PromoteInv, Running, storeVars
    <3> QED BY <1>3, <2>1, <2>3, <3>2 DEF Gone, OrderInv, EarlyInv, LateInv, ReapInv
  <2>4. CASE job[c] = "destroy"
    BY <1>3, <2>1, <2>4, DestroyingOrder DEF Gone
  <2> QED BY <1>0, <1>3, <2>2, <2>3, <2>4 DEF Gone, InPlace
<1>4. CASE Kill(c)
  <2>1. /\ at'[c] = "killed" /\ owned[c].pid \in Pids
        /\ table' = [table EXCEPT ![owned[c].pid] = NoProcess]
    BY <1>0, <1>4 DEF Kill, Goto, Alive, Ident, TypeOK, ClientTypeOK, Orderly
  <2>2. table'[owned[c].pid].born = 0 /\ \A p \in Pids \ {owned[c].pid} : table'[p] = table[p]
    BY <1>0, <2>1 DEF TypeOK, StoreTypeOK, NoProcess
  <2>3. CASE job[c] = "run"
    <3>1. NoGuest(name[c])'
      BY <1>1, <1>4, <2>2, <2>3 DEF NoGuest, Kill, Exists
    <3>2. LateInv(c)'
      BY <1>0, <1>4, <2>1, <2>3, <3>1 DEF Kill, OrderInv, LateInv
    <3> QED BY <1>4, <2>1, <2>3, <3>2 DEF Kill, OrderInv, EarlyInv, PromoteInv, ReapInv
  <2>4. CASE job[c] = "promote"
    <3>1. PromoteInv(c)'
      BY <1>0, <1>4, <2>1, <2>2, <2>4 DEF Kill, OrderInv, PromoteInv, Running
    <3> QED BY <1>4, <2>1, <2>4, <3>1 DEF Kill, OrderInv, EarlyInv, LateInv, ReapInv
  <2>5. CASE job[c] = "destroy"
    BY <1>4, <2>1, <2>5, DestroyingOrder DEF Kill
  <2> QED BY <1>0, <1>4, <2>3, <2>4, <2>5 DEF Kill, InPlace
<1>5. CASE GiveUp(c)
  <2>1. job[c] # "promote"
    BY <1>0, <1>2, <1>5 DEF GiveUp, OrderInv, PromoteInv
  <2> QED BY <1>0, <1>5, <2>1, DoneOrder, MovesOnOrder DEF GiveUp
<1>6. CASE RemoveStopped(c)
  BY <1>0, <1>6, DoneOrder, MovesOnOrder DEF RemoveStopped
<1> QED BY <1>3, <1>4, <1>5, <1>6 DEF StopStep

LEMMA DestroyOrder ==
  ASSUME OInv, NEW c \in Clients, DestroyStep(c)
  PROVE  OrderInv(c)'
<1>0. TypeOK /\ InPlace(c)
  BY DEF OInv, IInv, TypeOK, ClientTypeOK
<1>1. ASSUME NEW n \in Names, NEW l \in {"stopped", "stopping", "graceful"}, DestroyTurnsTo(c, n, l)
      PROVE  OrderInv(c)'
  <2>1. job'[c] = "destroy" /\ at'[c] = l
    BY <1>0, <1>1 DEF DestroyTurnsTo, Goto, InPlace, TypeOK, ClientTypeOK, RunLocations,
       PromoteLocations, StartLocations, StopLocations
  <2> QED BY <2>1, DestroyingOrder
<1>2. CASE GracefulExit(c) \/ GracefulFails(c)
  <2>1. job[c] = "destroy"
    BY <1>0, <1>2 DEF GracefulExit, GracefulFails, InPlace, RunLocations, PromoteLocations,
       StartLocations, StopLocations
  <2>2. CASE GracefulExit(c)
    BY <1>0, <2>1, <2>2, DestroyingOrder DEF GracefulExit, Goto, TypeOK, ClientTypeOK
  <2>3. CASE GracefulFails(c)
    BY <1>0, <2>1, <2>3, MovesOnOrder DEF GracefulFails
  <2> QED BY <1>2, <2>2, <2>3
<1>3. CASE DestroyDone(c)
  BY <1>0, <1>3, DoneOrder DEF DestroyDone
<1> QED BY <1>1, <1>2, <1>3 DEF DestroyStep, DestroyDead, DestroyForced, DestroyGraceful

LEMMA PromoteOrder ==
  ASSUME OInv, NEW c \in Clients, PromoteStep(c)
  PROVE  OrderInv(c)'
<1>0. TypeOK /\ InPlace(c) /\ OrderInv(c)
  BY DEF OInv, IInv, TypeOK, ClientTypeOK
<1>1. ASSUME job'[c] = "promote", at'[c] \in {"shutting", "off", "converting", "stopping"},
             PromoteInv(c)'
      PROVE  OrderInv(c)'
  BY <1>1 DEF OrderInv, EarlyInv, LateInv, ReapInv
<1>2. CASE PromoteLocks(c)
  <2>1. job[c] = "promote" /\ at'[c] = "shutting" /\ lock' = c
    BY <1>0, <1>2 DEF PromoteLocks, TryLock, Goto, InPlace, TypeOK, ClientTypeOK, RunLocations,
       DestroyLocations, StartLocations, StopLocations
  <2>2. PromoteInv(c)'
    BY <1>0, <1>2, <2>1 DEF PromoteLocks, OrderInv, PromoteInv
  <2> QED BY <1>1, <1>2, <2>1, <2>2 DEF PromoteLocks
<1>3. CASE GuestGone(c) \/ Convert(c) \/ PromoteReplaces(c)
  <2>1. job[c] = "promote" /\ at'[c] \in {"off", "converting", "stopping"} /\ at[c] # "prepared"
    BY <1>0, <1>3 DEF GuestGone, Convert, PromoteReplaces, Goto, InPlace, TypeOK, ClientTypeOK,
       RunLocations, DestroyLocations, StartLocations, StopLocations
  <2>2. PromoteInv(c)'
    BY <1>0, <1>3, <2>1 DEF GuestGone, Convert, PromoteReplaces, OrderInv, PromoteInv, storeVars
  <2> QED BY <1>1, <1>3, <2>1, <2>2 DEF GuestGone, Convert, PromoteReplaces
<1>4. CASE PromoteFails(c) \/ PromoteKeeps(c)
  BY <1>0, <1>4, DoneOrder DEF PromoteFails, PromoteKeeps
<1> QED BY <1>2, <1>3, <1>4 DEF PromoteStep

LEMMA IssueOrder ==
  ASSUME OInv, Orderly, NEW c \in Clients, Issue(c)
  PROVE  OrderInv(c)'
<1>0. TypeOK /\ OrderInv(c)
  BY DEF OInv, IInv
<1>1. ASSUME NEW n \in Names, ChooseName(c, n)
      PROVE  OrderInv(c)'
  <2>1. job'[c] = "run" /\ at'[c] = "named" /\ name'[c] = n /\ n \notin dirs
    BY <1>0, <1>1 DEF ChooseName, Begin, Goto, TypeOK, ClientTypeOK
  <2>2. record[n] = NoIdent /\ owned[c] = NoIdent /\ ~InHand(n)
    BY <1>0, <1>1, <2>1 DEF OInv, Placed, Orderly, ChooseName, Begin, TypeOK, ClientTypeOK
  <2>3. EarlyInv(c)'
    BY <1>0, <1>1, <2>1, <2>2 DEF ChooseName, Begin, InHand, EarlyInv, storeVars, StartLocations,
       TypeOK, ClientTypeOK
  <2> QED BY <2>1, <2>3 DEF OrderInv, LateInv, PromoteInv, ReapInv, Late, StopLocations
<1>2. ASSUME NEW ns, DestroyLocks(c, ns)
      PROVE  OrderInv(c)'
  <2>1. job'[c] = "destroy" /\ at'[c] = "destroying"
    BY <1>0, <1>2 DEF DestroyLocks, Begin, Goto, TypeOK, ClientTypeOK
  <2> QED BY <2>1, DestroyingOrder
<1>3. ASSUME NEW n \in Names, PromotePrepares(c, n)
      PROVE  OrderInv(c)'
  <2>1. job'[c] = "promote" /\ at'[c] = "prepared" /\ name'[c] = n /\ owned'[c] = record[n]
    BY <1>0, <1>3 DEF PromotePrepares, Begin, Goto, TypeOK, ClientTypeOK
  <2>2. owned'[c].born # 0 /\ record' = record
    BY <1>3, <2>1 DEF PromotePrepares, Running, storeVars
  <2> QED BY <2>1, <2>2 DEF OrderInv, EarlyInv, LateInv, PromoteInv, ReapInv
<1>4. CASE PruneLists(c)
  BY <1>4 DEF PruneLists, Begin, Orderly
<1> QED BY <1>1, <1>2, <1>3, <1>4 DEF Issue, DestroyOne, DestroyAll

-----------------------------------------------------------------------------
(* The clients that do not take the step.                                  *)

LEMMA CalmOn ==
  ASSUME Calm, NEW c \in Clients
  PROVE  RecordsOn(c) /\ GuestsOn(c)
BY DEF Calm, RecordsOn, GuestsOn, Guest, Exists

LEMMA CalmOthers ==
  ASSUME OInv, Calm, NEW c \in Clients, Frame(c), Modest(c)
  PROVE  \A d \in Clients \ {c} : OrderInv(d)'
BY CalmAges, CalmOn, ModestOthers

LEMMA DoneModest ==
  ASSUME TypeOK, NEW c \in Clients, Done(c), dirs' = dirs
  PROVE  Modest(c)
BY DEF Done, Modest, OthersTodo, TypeOK, ClientTypeOK

LEMMA StillModest ==
  ASSUME TypeOK, NEW c \in Clients, UNCHANGED <<dirs, job, name, todo>>
  PROVE  Modest(c)
BY DEF Modest, OthersTodo

LEMMA MovesOnModest ==
  ASSUME TypeOK, NEW c \in Clients, DestroyMovesOn(c),
         \A n \in Names : n = name[c] \/ (n \in dirs' <=> n \in dirs)
  PROVE  Modest(c)
BY DEF DestroyMovesOn, Modest, OthersTodo, TypeOK, ClientTypeOK

\* Where the lock is free, a run that has no record yet has no directory either
LEMMA FreeLock ==
  ASSUME OInv, lock = NoOne, NEW d \in Clients, job[d] = "run", at[d] \in Early
  PROVE  name[d] \notin dirs
BY DEF OInv, OrderInv, EarlyInv, IInv, ClientInv, LockInv, InLock, Early, Unmade, StartLocations

LEMMA RunOthers ==
  ASSUME OInv, Orderly, NEW c \in Clients, RunStep(c)
  PROVE  \A d \in Clients \ {c} : OrderInv(d)'
<1>0. TypeOK /\ Frame(c)
  BY MovesRun DEF OInv, IInv
<1>1. ASSUME Modest(c), Calm
      PROVE  \A d \in Clients \ {c} : OrderInv(d)'
  BY <1>0, <1>1, CalmOthers
<1>2. CASE RunLocks(c)
  <2>1. Calm /\ lock = NoOne /\ UNCHANGED <<dirs, name, job>>
    BY <1>0, <1>2, StillCalm DEF RunLocks, TryLock
  <2>2. todo' = [todo EXCEPT ![c] = Stale] /\ OthersTodo(c)
    BY <1>0, <1>2 DEF RunLocks, OthersTodo, TypeOK, ClientTypeOK
  <2>3. ASSUME NEW d \in Clients \ {c}
        PROVE  LetsBe(c, d)
    <3>1. job[d] = "run" /\ at[d] \in Early => name[c] # name[d] /\ name[d] \notin dirs
      BY <2>1, FreeLock DEF OInv, OrderInv, EarlyInv
    <3> QED BY <1>0, <2>1, <2>2, <3>1 DEF LetsBe, Stale, TypeOK, ClientTypeOK
  <2>4. NamesApart(c)
    BY <2>1 DEF NamesApart
  <2> QED BY <1>0, <2>1, <2>2, <2>3, <2>4, CalmAges, CalmOn, OthersOrder
<1>3. CASE LockBusy(c) \/ Reachable(c)
  <2>1. Done(c) /\ UNCHANGED <<dirs, record, table, births>>
    BY <1>3 DEF LockBusy, Reachable
  <2> QED BY <1>0, <1>1, <2>1, DoneModest, StillCalm
<1>4. CASE ReapOne(c)
  <2>1. \E n \in Names : Remove(n)
    BY <1>0, <1>4 DEF ReapOne, TypeOK, ClientTypeOK
  <2>2. Modest(c)
    BY <1>0, <1>4 DEF ReapOne, Remove, Modest, OthersTodo, TypeOK, ClientTypeOK
  <2> QED BY <1>0, <1>1, <2>1, <2>2, RemoveCalm
<1>5. CASE MakeDir(c)
  <2>1. Modest(c) /\ Calm
    BY <1>0, <1>5, StillCalm DEF MakeDir, Modest, OthersTodo
  <2> QED BY <1>1, <2>1
<1>6. CASE CreateOverlay(c)
  <2>1. Modest(c)
    BY <1>0, <1>6, StillModest DEF CreateOverlay
  <2>2. Calm
    BY <1>0, <1>6 DEF CreateOverlay, Unlinked, Calm, Same, TypeOK, StoreTypeOK, Process
  <2> QED BY <1>1, <2>1, <2>2
<1>7. ASSUME NEW p \in Pids, Spawn(c, p)
      PROVE  \A d \in Clients \ {c} : OrderInv(d)'
  <2>1. Start(p, name[c]) /\ Modest(c) /\ RecordsOn(c)
    BY <1>0, <1>7, StillModest DEF Spawn, RecordsOn
  <2>2. Ages /\ \A q \in Pids : q # p => Same(q)
    BY <1>0, <2>1, StartAges
  <2>3. table'[p].vm = name[c]
    BY <1>0, <2>1 DEF Start, TypeOK, StoreTypeOK
  <2>5. InPlace(c)
    BY <1>0 DEF TypeOK, ClientTypeOK
  <2>6. job[c] = "run" /\ at[c] = "imaged"
    BY <1>7, <2>5 DEF Spawn, InPlace, DestroyLocations, PromoteLocations, StopLocations
  <2>4. GuestsOn(c)
    BY <2>2, <2>3, <2>6 DEF GuestsOn
  <2> QED BY <1>0, <2>1, <2>2, <2>4, ModestOthers
<1>8. CASE \E p \in Pids : SpawnUnread(c, p)
  BY <1>8 DEF SpawnUnread, Orderly
<1>9. CASE ReadStartTime(c) \/ RunFails(c) \/ GuardDrop(c)
  <2>1. Modest(c) /\ Calm
    BY <1>0, <1>9, StillCalm, StillModest DEF ReadStartTime, RunFails, GuardDrop, storeVars
  <2> QED BY <1>1, <2>1
<1>10. CASE SaveRecord(c)
  <2>1. job[c] = "run" /\ at[c] = "timed"
    BY <1>0, <1>10 DEF SaveRecord, InPlace, TypeOK, ClientTypeOK, DestroyLocations,
       PromoteLocations, StopLocations
  <2>2. Ages /\ GuestsOn(c)
    BY <1>0, <1>10 DEF SaveRecord, Save, Ages, GuestsOn, Same, TypeOK, StoreTypeOK
  <2>3. RecordsOn(c) /\ Modest(c)
    BY <1>0, <1>10, <2>1 DEF SaveRecord, Save, RecordsOn, Modest, OthersTodo, TypeOK, StoreTypeOK
  <2> QED BY <1>0, <2>2, <2>3, ModestOthers
<1> QED BY <1>2, <1>3, <1>4, <1>5, <1>6, <1>7, <1>8, <1>9, <1>10 DEF RunStep

LEMMA StopOthers ==
  ASSUME OInv, NEW c \in Clients, StopStep(c)
  PROVE  \A d \in Clients \ {c} : OrderInv(d)'
<1>0. TypeOK /\ Frame(c) /\ Calm
  BY MovesStop DEF OInv, IInv
<1>1. CASE Gone(c) \/ Kill(c)
  BY <1>0, <1>1, StillModest, CalmOthers DEF Gone, Kill, storeVars
<1>2. CASE GiveUp(c)
  <2>1. dirs' = dirs
    BY <1>2 DEF GiveUp
  <2>2. Modest(c)
    BY <1>0, <1>2, <2>1, DoneModest, MovesOnModest, StillModest DEF GiveUp
  <2> QED BY <1>0, <2>2, CalmOthers
<1>3. CASE RemoveStopped(c)
  <2>1. \A n \in Names : n = name[c] \/ (n \in dirs' <=> n \in dirs)
    BY <1>3 DEF RemoveStopped, Remove
  <2>2. CASE DestroyMovesOn(c)
    BY <1>0, <2>1, <2>2, MovesOnModest, CalmOthers
  <2>3. CASE Done(c)
    <3>1. Modest(c)
      BY <1>0, <2>1, <2>3 DEF Done, Modest, OthersTodo, TypeOK, ClientTypeOK
    <3> QED BY <1>0, <3>1, CalmOthers
  <2> QED BY <1>3, <2>2, <2>3 DEF RemoveStopped
<1> QED BY <1>1, <1>2, <1>3 DEF StopStep

LEMMA DestroyOthers ==
  ASSUME OInv, NEW c \in Clients, DestroyStep(c)
  PROVE  \A d \in Clients \ {c} : OrderInv(d)'
<1>0. TypeOK /\ Frame(c) /\ Calm
  BY MovesDestroy DEF OInv, IInv
<1>1. ASSUME NEW n \in Names, NEW l, DestroyTurnsTo(c, n, l)
      PROVE  \A d \in Clients \ {c} : OrderInv(d)'
  <2>1. InPlace(c)
    BY <1>0 DEF TypeOK, ClientTypeOK
  <2>2. job[c] = "destroy"
    BY <1>1, <2>1 DEF DestroyTurnsTo, InPlace, RunLocations, PromoteLocations, StartLocations, StopLocations
  <2>3. Modest(c)
    BY <1>0, <1>1, <2>2 DEF DestroyTurnsTo, Modest, OthersTodo, TypeOK, ClientTypeOK, storeVars
  <2> QED BY <1>0, <2>3, CalmOthers
<1>2. CASE GracefulExit(c) \/ GracefulFails(c) \/ DestroyDone(c)
  <2>1. dirs' = dirs
    BY <1>2 DEF GracefulExit, GracefulFails, DestroyDone, storeVars
  <2>2. Modest(c)
    BY <1>0, <1>2, <2>1, DoneModest, MovesOnModest, StillModest
       DEF GracefulExit, GracefulFails, DestroyDone
  <2> QED BY <1>0, <2>2, CalmOthers
<1> QED BY <1>1, <1>2 DEF DestroyStep, DestroyDead, DestroyForced, DestroyGraceful

LEMMA PromoteOthers ==
  ASSUME OInv, NEW c \in Clients, PromoteStep(c)
  PROVE  \A d \in Clients \ {c} : OrderInv(d)'
<1>0. TypeOK /\ Frame(c) /\ Calm
  BY MovesPromote DEF OInv, IInv
<1>1. Modest(c)
  BY <1>0, DoneModest, StillModest
     DEF PromoteStep, PromoteLocks, GuestGone, Convert, PromoteFails, PromoteKeeps, PromoteReplaces, storeVars
<1> QED BY <1>0, <1>1, CalmOthers

LEMMA IssueOthers ==
  ASSUME OInv, Orderly, NEW c \in Clients, Issue(c)
  PROVE  \A d \in Clients \ {c} : OrderInv(d)'
<1>0. TypeOK /\ Frame(c) /\ Calm
  BY MovesIssue DEF OInv, IInv
<1>1. ASSUME OthersTodo(c), NamesApart(c), \A d \in Clients \ {c} : LetsBe(c, d)
      PROVE  \A d \in Clients \ {c} : OrderInv(d)'
  BY <1>0, <1>1, CalmAges, CalmOn, OthersOrder
<1>2. ASSUME NEW d \in Clients \ {c}, job[d] = "run", at[d] \in Early
      PROVE  /\ record[name[d]] = NoIdent /\ name[d] \in Names
             /\ name[d] \notin todo[c] /\ name[d] # name[c]
  BY <1>2, RunNamed DEF OInv, OrderInv, EarlyInv
<1>3. ASSUME NEW n \in Names, ChooseName(c, n)
      PROVE  \A d \in Clients \ {c} : OrderInv(d)'
  <2>1. ~InHand(n) /\ UNCHANGED <<todo, dirs>> /\ name'[c] = n
    BY <1>0, <1>3 DEF ChooseName, Begin, Orderly, storeVars, TypeOK, ClientTypeOK
  <2>2. OthersTodo(c) /\ NamesApart(c)
    BY <2>1 DEF OthersTodo, NamesApart, InHand
  <2>3. \A d \in Clients \ {c} : LetsBe(c, d)
    BY <1>2, <2>1 DEF LetsBe, InHand
  <2> QED BY <1>1, <2>2, <2>3
<1>4. ASSUME NEW ns \in SUBSET dirs, DestroyLocks(c, ns)
      PROVE  \A d \in Clients \ {c} : OrderInv(d)'
  <2>1. /\ lock = NoOne /\ dirs' = dirs
        /\ name'[c] = NoName /\ todo'[c] = ns /\ job'[c] = "destroy"
    BY <1>0, <1>4 DEF DestroyLocks, Begin, TryLock, TypeOK, ClientTypeOK
  <2>2. OthersTodo(c) /\ NamesApart(c)
    BY <1>0, <1>4, <2>1 DEF DestroyLocks, OthersTodo, NamesApart, TypeOK, ClientTypeOK
  <2>3. \A d \in Clients \ {c} : LetsBe(c, d)
    BY <1>2, <2>1, FreeLock DEF LetsBe
  <2> QED BY <1>1, <2>2, <2>3
<1>5. ASSUME NEW n \in Names, PromotePrepares(c, n)
      PROVE  \A d \in Clients \ {c} : OrderInv(d)'
  <2>1. UNCHANGED <<todo, dirs>> /\ name'[c] = n /\ job'[c] = "promote" /\ record[n] # NoIdent
    BY <1>0, <1>5 DEF PromotePrepares, Begin, Running, NoIdent, storeVars, TypeOK, ClientTypeOK
  <2>2. OthersTodo(c) /\ NamesApart(c)
    BY <2>1 DEF OthersTodo, NamesApart
  <2>3. \A d \in Clients \ {c} : LetsBe(c, d)
    BY <1>2, <2>1 DEF LetsBe
  <2> QED BY <1>1, <2>2, <2>3
<1>6. CASE PruneLists(c)
  BY <1>6 DEF PruneLists, Begin, Orderly
<1> QED BY <1>3, <1>4, <1>5, <1>6 DEF Issue, DestroyOne, DestroyAll

-----------------------------------------------------------------------------
(* The processes and the records after a step.                             *)

LEMMA PlacedOn ==
  ASSUME TypeOK, Placed,
         \/ record' = record /\ dirs \subseteq dirs'
         \/ \E n \in Names : Remove(n) \/ \E i : Save(n, i)
  PROVE  Placed'
BY DEF Placed, Remove, Save, TypeOK, StoreTypeOK

LEMMA TrackedRun ==
  ASSUME OInv, Orderly, NEW c \in Clients, RunStep(c)
  PROVE  Placed' /\ \A p \in Pids : Tracked(p)'
<1>0. TypeOK /\ InPlace(c) /\ Frame(c) /\ Placed
  BY MovesRun DEF OInv, IInv, TypeOK, ClientTypeOK
<1>1. ASSUME UNCHANGED <<record, table>>, dirs \subseteq dirs',
             \A p \in Pids : Tracks(c, p) /\ Guest(p)' => Tracks(c, p)'
      PROVE  Placed' /\ \A p \in Pids : Tracked(p)'
  BY <1>0, <1>1, StillSettled, TrackedOn, PlacedOn
<1>2. CASE RunLocks(c) \/ LockBusy(c) \/ MakeDir(c) \/ Reachable(c)
  <2>1. \A p \in Pids : ~Tracks(c, p)
    BY <1>2 DEF RunLocks, LockBusy, MakeDir, Reachable, Tracks
  <2> QED BY <1>1, <1>2, <2>1 DEF RunLocks, LockBusy, MakeDir, Reachable
<1>3. CASE ReapOne(c)
  <2>1. PICK n \in todo[c] : Remove(n)
    BY <1>3 DEF ReapOne
  <2>2. n \in Names /\ NoGuest(n)
    BY <1>3, ReapsDead DEF ReapOne
  <2>3. Settled
    BY <1>0, <2>1, <2>2, RemoveSettled DEF Remove, TypeOK, StoreTypeOK
  <2> QED BY <1>0, <1>3, <2>1, <2>2, <2>3, TrackedOn, PlacedOn DEF ReapOne, Tracks
<1>4. CASE CreateOverlay(c)
  <2>1. job[c] = "run" /\ name[c] \in Names
    BY <1>0, <1>4 DEF CreateOverlay, InPlace, HasVm, TypeOK, ClientTypeOK, DestroyLocations,
       PromoteLocations, StopLocations
  <2>2. NoGuest(name[c])
    BY <1>4, <2>1, GuestIsOwned DEF CreateOverlay, NoGuest
  <2>3. Settled
    BY <1>0, <1>4, <2>1, <2>2, RemoveSettled DEF CreateOverlay
  <2> QED BY <1>0, <1>4, <2>3, TrackedOn, PlacedOn DEF CreateOverlay, Tracks
<1>5. ASSUME NEW p \in Pids, Spawn(c, p)
      PROVE  Placed' /\ \A q \in Pids : Tracked(q)'
  <2>1. /\ job[c] = "run" /\ name[c] \in Names /\ lock = c
        /\ at'[c] = "spawned" /\ owned'[c] = [pid |-> p, born |-> 0]
        /\ job'[c] = "run" /\ name'[c] = name[c] /\ lock' = c
    <3>1. job[c] = "run" /\ at[c] = "imaged"
      BY <1>0, <1>5 DEF Spawn, InPlace, DestroyLocations, PromoteLocations, StopLocations
    <3>2. lock = c /\ name[c] \in Names
      BY <1>0, <3>1 DEF OInv, IInv, ClientInv, LockInv, InLock, StartLocations, HasVm, TypeOK, ClientTypeOK
    <3> QED BY <1>0, <1>5, <3>1, <3>2 DEF Spawn, Goto, TypeOK, ClientTypeOK
  <2>2. table'[p].vm = name[c] /\ table'[p].disk
    BY <1>0, <1>5, <2>1 DEF Spawn, Start, TypeOK, StoreTypeOK
  <2>3. Tracked(p)'
    BY <2>1, <2>2 DEF Tracked, Tracks
  <2>4. ASSUME NEW q \in Pids, q # p
        PROVE  Tracked(q)'
    <3>1. table'[q] = table[q] /\ record' = record
      BY <1>0, <1>5, <2>4 DEF Spawn, Start, TypeOK, StoreTypeOK
    <3>2. ASSUME NEW d \in Clients, Tracks(d, q)
          PROVE  Tracks(d, q)'
      <4>1. d # c
        BY <1>5, <3>2 DEF Tracks, Spawn
      <4> QED BY <1>0, <2>1, <3>1, <3>2, <4>1 DEF Frame, Tracks
    <3> QED BY <3>1, <3>2 DEF OInv, Tracked, Guest, Exists, Me
  <2>5. Placed'
    BY <1>0, <1>5, PlacedOn DEF Spawn
  <2> QED BY <2>3, <2>4, <2>5
<1>6. CASE \E p \in Pids : SpawnUnread(c, p)
  BY <1>6 DEF SpawnUnread, Orderly
<1>7. CASE ReadStartTime(c)
  <2>1. ASSUME NEW p \in Pids, Tracks(c, p)
        PROVE  Tracks(c, p)'
    BY <1>0, <1>7, <2>1 DEF ReadStartTime, Tracks, Goto, storeVars, TypeOK, ClientTypeOK
  <2> QED BY <1>1, <1>7, <2>1 DEF ReadStartTime, storeVars
<1>8. CASE RunFails(c)
  <2>1. ASSUME NEW p \in Pids, Tracks(c, p)
        PROVE  Tracks(c, p)'
    BY <1>0, <1>8, <2>1 DEF RunFails, Tracks, Goto, storeVars, TypeOK, ClientTypeOK
  <2> QED BY <1>1, <1>8, <2>1 DEF RunFails, storeVars
<1>9. CASE GuardDrop(c)
  <2>1. ASSUME NEW p \in Pids, Tracks(c, p)
        PROVE  Tracks(c, p)'
    BY <1>0, <1>9, <2>1 DEF GuardDrop, NoIdent, Tracks, Goto, storeVars, TypeOK, ClientTypeOK
  <2> QED BY <1>1, <1>9, <2>1 DEF GuardDrop, storeVars
<1>10. CASE SaveRecord(c)
  <2>1. job[c] = "run" /\ at[c] = "timed"
    BY <1>0, <1>10 DEF SaveRecord, InPlace, DestroyLocations, PromoteLocations, StopLocations
  <2>2. name[c] \in Names /\ owned[c].born # 0 /\ owned[c] \in Ident /\ record[name[c]] = NoIdent
    BY <1>0, <2>1 DEF OInv, OrderInv, EarlyInv, Early, StartLocations, HasVm, TypeOK, ClientTypeOK
  <2>3. record' = [record EXCEPT ![name[c]] = owned[c]] /\ table' = table
    BY <1>10 DEF SaveRecord, Save
  <2>4. ASSUME NEW p \in Pids, Guest(p)
        PROVE  Tracked(p)'
    <3>0. /\ table[p].disk
          /\ record[table[p].vm] = Me(p) \/ \E d \in Clients : Tracks(d, p)
      BY <2>4 DEF OInv, Tracked
    <3>1. CASE record[table[p].vm] = Me(p)
      <4>1. table[p].vm # name[c]
        BY <2>2, <3>1 DEF Me, NoIdent
      <4> QED BY <1>0, <2>3, <3>0, <3>1, <4>1, <2>4 DEF Tracked, Guest, Me, TypeOK, StoreTypeOK
    <3>2. CASE Tracks(c, p)
      <4>1. owned[c] = Me(p) /\ name[c] = table[p].vm
        BY <2>2, <3>2 DEF Tracks, Me, Ident
      <4>2. record'[table[p].vm] = Me(p)
        BY <1>0, <2>2, <2>3, <4>1 DEF TypeOK, StoreTypeOK
      <4> QED BY <2>3, <3>0, <4>2 DEF Tracked, Me
    <3>3. ASSUME NEW d \in Clients, d # c, Tracks(d, p)
          PROVE  FALSE
      <4>1. lock = c
        BY <2>1 DEF OInv, IInv, ClientInv, LockInv, InLock, StartLocations
      <4> QED BY <3>3, <4>1 DEF Tracks
    <3> QED BY <3>0, <3>1, <3>2, <3>3
  <2>5. Placed'
    BY <1>0, <1>10, <2>2, PlacedOn DEF SaveRecord
  <2> QED BY <2>3, <2>4, <2>5 DEF Tracked, Guest, Exists
<1> QED BY <1>2, <1>3, <1>4, <1>5, <1>6, <1>7, <1>8, <1>9, <1>10 DEF RunStep

LEMMA TrackedStop ==
  ASSUME OInv, Orderly, NEW c \in Clients, StopStep(c)
  PROVE  Placed' /\ \A p \in Pids : Tracked(p)'
<1>0. TypeOK /\ Frame(c) /\ Placed
  BY MovesStop DEF OInv, IInv
<1>1. CASE Gone(c)
  <2>1. ASSUME NEW p \in Pids, Tracks(c, p), Guest(p)'
        PROVE  FALSE
    BY <1>1, <2>1 DEF Gone, Tracks, Guest, Exists, Alive, Running, storeVars
  <2> QED BY <1>0, <1>1, <2>1, StillSettled, TrackedOn, PlacedOn DEF Gone, storeVars
<1>2. CASE Kill(c)
  <2>1. owned[c].pid \in Pids /\ table' = [table EXCEPT ![owned[c].pid] = NoProcess]
    BY <1>0, <1>2 DEF Kill, Alive, Ident, Orderly, TypeOK, ClientTypeOK
  <2>2. Settled
    BY <1>0, <1>2, <2>1, EndSettled DEF Kill
  <2>3. ASSUME NEW p \in Pids, Tracks(c, p), Guest(p)'
        PROVE  FALSE
    BY <1>0, <2>1, <2>3 DEF Tracks, Guest, Exists, NoProcess, TypeOK, StoreTypeOK
  <2> QED BY <1>0, <1>2, <2>2, <2>3, TrackedOn, PlacedOn DEF Kill
<1>3. CASE GiveUp(c)
  <2>1. \A p \in Pids : ~Tracks(c, p)
    BY <1>3 DEF GiveUp, Tracks
  <2> QED BY <1>0, <1>3, <2>1, StillSettled, TrackedOn, PlacedOn DEF GiveUp
<1>4. CASE RemoveStopped(c)
  <2>1. Remove(name[c]) /\ name[c] \in Names /\ NoGuest(name[c])
    BY <1>4, RemovesDead DEF RemoveStopped
  <2>2. Settled
    BY <1>0, <2>1, RemoveSettled DEF Remove, TypeOK, StoreTypeOK
  <2>3. \A p \in Pids : ~Tracks(c, p)
    BY <1>4 DEF RemoveStopped, Tracks
  <2> QED BY <1>0, <2>1, <2>2, <2>3, TrackedOn, PlacedOn
<1> QED BY <1>1, <1>2, <1>3, <1>4 DEF StopStep

\* The other steps of a client touch neither processes nor records
LEMMA TrackedElse ==
  ASSUME OInv, Orderly, NEW c \in Clients,
         Issue(c) \/ DestroyStep(c) \/ PromoteStep(c) \/ PruneDone(c)
  PROVE  Placed' /\ \A p \in Pids : Tracked(p)'
<1>0. TypeOK /\ InPlace(c) /\ Placed
  BY DEF OInv, IInv, TypeOK, ClientTypeOK
<1>1. Frame(c)
  BY <1>0, MovesIssue, MovesDestroy, MovesPromote, DoneFrame DEF PruneDone
<1>2. UNCHANGED <<record, table, dirs>>
  BY DEF Issue, ChooseName, DestroyOne, DestroyAll, DestroyLocks, PromotePrepares, PruneLists,
     DestroyStep, DestroyDead, DestroyForced, DestroyGraceful, DestroyTurnsTo, GracefulExit,
     GracefulFails, DestroyDone, PromoteStep, PromoteLocks, GuestGone, Convert, PromoteFails,
     PromoteKeeps, PromoteReplaces, PruneDone, storeVars
<1>3. at[c] \in {"idle", "destroying", "graceful", "prepared", "shutting", "off", "converting"}
      \/ at[c] = "reaping"
  BY DEF Issue, ChooseName, DestroyOne, DestroyAll, DestroyLocks, PromotePrepares, PruneLists, Begin,
     DestroyStep, DestroyDead, DestroyForced, DestroyGraceful, DestroyTurnsTo, GracefulExit,
     GracefulFails, DestroyDone, PromoteStep, PromoteLocks, GuestGone, Convert, PromoteFails,
     PromoteKeeps, PromoteReplaces, PruneDone
<1>4. \A p \in Pids : ~Tracks(c, p)
  BY <1>3 DEF Tracks
<1> QED BY <1>0, <1>1, <1>2, <1>4, StillSettled, TrackedOn, PlacedOn

-----------------------------------------------------------------------------
(* The steps of the host.                                                  *)

LEMMA HostOrder ==
  ASSUME OInv, UNCHANGED <<lock, dirs, record, clientVars>>, Ages,
         \A p \in Pids : Guest(p)' => Same(p) /\ table'[p].disk = table[p].disk
  PROVE  /\ Placed'
         /\ \A d \in Clients : OrderInv(d)'
         /\ \A p \in Pids : Tracked(p)'
<1>0. TypeOK /\ UNCHANGED <<at, job, name, owned, todo>>
  BY DEF OInv, IInv, clientVars
<1>1. Placed'
  BY DEF OInv, Placed
<1>2. ASSUME NEW p \in Pids, Guest(p)'
      PROVE  Tracked(p)'
  <2>1. Same(p) /\ table'[p].disk = table[p].disk /\ Guest(p)
    BY <1>2 DEF Guest, Exists, Same
  <2>2. table[p].disk /\ (record[table[p].vm] = Me(p) \/ \E c \in Clients : Tracks(c, p))
    BY <2>1 DEF OInv, Tracked
  <2> QED BY <1>0, <2>1, <2>2 DEF Tracked, Tracks, Same, Me
<1>3. ASSUME NEW d \in Clients
      PROVE  OrderInv(d)'
  <2>0. OrderInv(d)
    BY DEF OInv
  <2>1. EarlyInv(d)'
    BY <1>0, <2>0 DEF OrderInv, EarlyInv
  <2>2. LateInv(d)'
    <3>1. job[d] = "run" => name[d] \in Names
      BY RunNamed
    <3>2. job[d] = "run" /\ NoGuest(name[d]) => NoGuest(name[d])'
      BY <1>0, <3>1 DEF NoGuest, Guest, Exists, Same
    <3> QED BY <1>0, <2>0, <3>2 DEF OrderInv, LateInv, NoGuest
  <2>3. PromoteInv(d)'
    <3>1. job[d] = "promote" => owned[d] \in Ident /\ owned[d].born <= births
      BY <1>0 DEF OInv, IInv, TypeOK, ClientTypeOK, ClientInv, KnowsInv, Knows
    <3>2. job[d] = "promote" /\ ~Running(owned[d]) => ~RunningAfter(owned[d])
      BY <1>0, <3>1, Persist
    <3> QED BY <1>0, <2>0, <3>2 DEF OrderInv, PromoteInv, Running, RunningAfter
  <2>4. ReapInv(d)'
    <3>1. ASSUME at[d] = "reaping", NEW n \in todo[d] PROVE ~RunningAfter(record[n])
      <4>1. n \in Names /\ ~Running(record[n])
        BY <1>0, <2>0, <3>1 DEF OrderInv, ReapInv, TypeOK, ClientTypeOK
      <4>2. record[n] \in Ident /\ record[n].born <= births
        BY <4>1 DEF OInv, IInv, StoreInv, Knows, TypeOK, StoreTypeOK
      <4> QED BY <1>0, <4>1, <4>2, Persist
    <3> QED BY <1>0, <2>0, <3>1 DEF OrderInv, ReapInv, Running, RunningAfter
  <2> QED BY <2>1, <2>2, <2>3, <2>4 DEF OrderInv
<1> QED BY <1>1, <1>2, <1>3 DEF Tracked

LEMMA OrderInit == Init => OInv
<1> SUFFICES ASSUME Init PROVE OInv
  OBVIOUS
<1>1. Placed
  BY DEF Init, StoreInit, Placed
<1>2. \A c \in Clients : OrderInv(c)
  BY DEF Init, OrderInv, EarlyInv, LateInv, PromoteInv, ReapInv
<1>3. \A p \in Pids : Tracked(p)
  BY DEF Init, StoreInit, Tracked, Guest, Exists, NoProcess
<1> QED BY <1>1, <1>2, <1>3, InitInv DEF OInv

LEMMA OrderStep ==
  ASSUME Orderly, OInv, [Next]_vars
  PROVE  OInv'
<1>1. IInv'
  BY StepInv DEF OInv
<1>2. ASSUME NEW c \in Clients, OrderInv(c)', \A d \in Clients \ {c} : OrderInv(d)',
             Placed', \A p \in Pids : Tracked(p)'
      PROVE  OInv'
  BY <1>1, <1>2 DEF OInv
<1>3. ASSUME NEW c \in Clients, RunStep(c) PROVE OInv'
  BY <1>2, <1>3, RunOrder, RunOthers, TrackedRun
<1>4. ASSUME NEW c \in Clients, StopStep(c) PROVE OInv'
  BY <1>2, <1>4, StopOrder, StopOthers, TrackedStop
<1>5. ASSUME NEW c \in Clients, DestroyStep(c) PROVE OInv'
  BY <1>2, <1>5, DestroyOrder, DestroyOthers, TrackedElse
<1>6. ASSUME NEW c \in Clients, PromoteStep(c) PROVE OInv'
  BY <1>2, <1>6, PromoteOrder, PromoteOthers, TrackedElse
<1>7. ASSUME NEW c \in Clients, Issue(c) PROVE OInv'
  BY <1>2, <1>7, IssueOrder, IssueOthers, TrackedElse
<1>8. ASSUME NEW c \in Clients, PruneDone(c) PROVE OInv'
  <2>1. OrderInv(c) /\ at[c] = "reaping" /\ job[c] = "prune"
    BY <1>8 DEF PruneDone, OInv
  <2> QED BY <2>1 DEF OrderInv, ReapInv
<1>9. CASE \E c \in Clients : Crash(c) \/ \E n \in Names : RemoveFails(c, n)
  BY <1>9 DEF Crash, RemoveFails, Orderly
<1>10. ASSUME NEW p \in Pids, Exit(p) PROVE OInv'
  <2>1. TypeOK /\ UNCHANGED <<lock, dirs, record, births, clientVars>>
    BY <1>10 DEF Exit, OInv, IInv
  <2>2. table' = [table EXCEPT ![p] = NoProcess]
    BY <1>10 DEF Exit
  <2>3. Ages /\ \A q \in Pids : Guest(q)' => Same(q) /\ table'[q].disk = table[q].disk
    BY <2>1, <2>2, EndCalm, CalmAges, EndSettled DEF Settled
  <2> QED BY <1>1, <2>1, <2>3, HostOrder DEF OInv
<1>11. ASSUME NEW p \in Pids, Stranger(p) PROVE OInv'
  <2>1. TypeOK /\ UNCHANGED <<lock, dirs, record, clientVars>> /\ Start(p, Foreign)
    BY <1>11 DEF Stranger, OInv, IInv
  <2>2. Ages /\ \A q \in Pids : q # p => Same(q)
    BY <2>1, StartAges
  <2>3. ASSUME NEW q \in Pids, Guest(q)'
        PROVE  Same(q) /\ table'[q].disk = table[q].disk
    <3>1. table' = [table EXCEPT ![p] = [born |-> births + 1, vm |-> Foreign, disk |-> Foreign \in Names]]
      BY <2>1 DEF Start
    <3>2. q # p
      BY <2>1, <2>3, <3>1 DEF Guest, TypeOK, StoreTypeOK
    <3> QED BY <2>1, <2>2, <3>1, <3>2 DEF TypeOK, StoreTypeOK
  <2> QED BY <1>1, <2>1, <2>2, <2>3, HostOrder DEF OInv
<1>12. CASE UNCHANGED vars
  <2>1. TypeOK /\ UNCHANGED <<lock, dirs, record, table, births, clientVars>>
    BY <1>12 DEF OInv, IInv, vars, storeVars
  <2>2. Ages /\ \A q \in Pids : Guest(q)' => Same(q) /\ table'[q].disk = table[q].disk
    BY <2>1, StillCalm, CalmAges DEF Same
  <2> QED BY <1>1, <2>1, <2>2, HostOrder DEF OInv
<1> QED BY <1>3, <1>4, <1>5, <1>6, <1>7, <1>8, <1>9, <1>10, <1>11, <1>12 DEF Next, Step

-----------------------------------------------------------------------------
(* The results.                                                            *)

\* What every command may rely on at each place, and what is true of the VM of each
\* name: the inductive invariant.
THEOREM OrderlyInvariant ==
  ASSUME Orderly
  PROVE  Spec => []OInv
<1>1. OInv /\ [Next]_vars => OInv'
  BY OrderStep
<1> QED BY <1>1, OrderInit, PTL DEF Spec

\* With generated names, no prune and no fault, every QEMU can be found: its
\* record names it or the run that started it still owns it, however many
\* commands race and however often PIDs come back.
THEOREM NobodyStranded ==
  ASSUME Orderly
  PROVE  Spec => []NoneStranded
<1>1. OInv => NoneStranded
  <2> SUFFICES ASSUME OInv, NEW p \in Pids, Exists(p), table[p].vm \in Names
               PROVE  \/ record[table[p].vm] = Me(p)
                      \/ \E c \in Clients : job[c] = "run" /\ owned[c] \in {Me(p), [pid |-> p, born |-> 0]}
    BY DEF NoneStranded, Me
  <2>1. ASSUME NEW c \in Clients, Tracks(c, p)
        PROVE  job[c] = "run" /\ owned[c] \in {Me(p), [pid |-> p, born |-> 0]}
    BY <2>1 DEF OInv, IInv, TypeOK, ClientTypeOK, Ident, Tracks, Me
  <2> QED BY <2>1 DEF OInv, Tracked, Guest
<1> QED BY <1>1, OrderlyInvariant, PTL

\* Under the same conditions no running QEMU loses the overlay it runs on.
THEOREM DisksKept ==
  ASSUME Orderly
  PROVE  Spec => []DiskKept
<1>1. OInv => DiskKept
  BY DEF OInv, Tracked, Guest, DiskKept
<1> QED BY <1>1, OrderlyInvariant, PTL

\* Under the same conditions nobody reaps the directory of a VM that is being
\* started.
THEOREM StartingDirsStay ==
  ASSUME Orderly
  PROVE  Spec => []StartingDirStays
<1>1. OInv => StartingDirStays
  <2> SUFFICES ASSUME OInv, NEW c \in Clients, at[c] \in StartLocations
               PROVE  name[c] \in dirs
    BY DEF StartingDirStays
  <2>1. InPlace(c) /\ EarlyInv(c)
    BY DEF OInv, OrderInv, IInv, TypeOK, ClientTypeOK
  <2> QED BY <2>1 DEF InPlace, EarlyInv, Early, StartLocations, StopLocations,
             DestroyLocations, PromoteLocations
<1> QED BY <1>1, OrderlyInvariant, PTL

-----------------------------------------------------------------------------
(* VmLifecycle keeps the promise of VmRegistry: every step changes what the
   registry says of one name at most, in a way VmRegistry allows.            *)

reg == [n \in Names |-> RegistryOf(n)]

\* What VmRegistry allows to happen to a name
Allowed(from, to) ==
  \/ from = "free" /\ to = "claimed"
  \/ from = "claimed" /\ to \in {"free", "up", "down"}
  \/ from = "up" /\ to = "down"
  \/ from = "down" /\ to = "free"

\* At most n changes, in an allowed way
Moves(n) ==
  /\ \A m \in Names \ {n} : RegistryOf(m)' = RegistryOf(m)
  /\ RegistryOf(n)' = RegistryOf(n) \/ Allowed(RegistryOf(n), RegistryOf(n)')

Holds == \A n \in Names : RegistryOf(n)' = RegistryOf(n)

LEMMA MovesImplements ==
  ASSUME NEW n \in Names, Moves(n)
  PROVE  [Registry!Next]_reg
<1>1. reg' = [reg EXCEPT ![n] = RegistryOf(n)']
  BY DEF reg, Moves
<1>2. reg[n] = RegistryOf(n)
  BY DEF reg
<1>3. CASE RegistryOf(n)' = RegistryOf(n)
  BY <1>1, <1>2, <1>3 DEF reg
<1>4. CASE Allowed(RegistryOf(n), RegistryOf(n)')
  <2>1. \/ Registry!Claim(n) \/ Registry!Abandon(n) \/ Registry!Publish(n)
        \/ Registry!GoDown(n) \/ Registry!Forget(n)
    BY <1>1, <1>2, <1>4 DEF Allowed, reg, Registry!Claim, Registry!Abandon, Registry!Publish,
       Registry!GoDown, Registry!Forget, Registry!Becomes
  <2> QED BY <2>1 DEF Registry!Next
<1> QED BY <1>3, <1>4 DEF Moves

LEMMA HoldsImplements ==
  ASSUME Holds
  PROVE  [Registry!Next]_reg
BY DEF Holds, reg

\* Records and directories as they were, and no recorded process started or ended
LEMMA StillHolds ==
  ASSUME TypeOK, UNCHANGED <<dirs, record>>, \A p \in Pids : table'[p].born = table[p].born
  PROVE  Holds
BY DEF Holds, RegistryOf, Running, TypeOK, StoreTypeOK, Ident

\* A process starts: no record names it yet
LEMMA StartHolds ==
  ASSUME OInv, NEW p \in Pids, NEW n, Start(p, n), UNCHANGED <<dirs, record>>
  PROVE  Holds
<1> SUFFICES ASSUME NEW m \in Names PROVE RegistryOf(m)' = RegistryOf(m)
  BY DEF Holds
<1>1. TypeOK /\ record[m] \in Ident /\ record[m].born <= births
  BY DEF OInv, IInv, StoreInv, Knows, TypeOK, StoreTypeOK
<1>2. /\ table[p].born = 0 /\ table'[p].born = births + 1 /\ births \in Nat
      /\ \A q \in Pids \ {p} : table'[q] = table[q]
  BY <1>1 DEF Start, Exists, TypeOK, StoreTypeOK
<1>3. Running(record[m])' <=> Running(record[m])
  BY <1>1, <1>2 DEF Running, Ident
<1> QED BY <1>3 DEF RegistryOf

\* A process ends: its VM, if it is one, is the only one to go down
LEMMA EndMoves ==
  ASSUME OInv, NEW p \in Pids, table' = [table EXCEPT ![p] = NoProcess], UNCHANGED <<dirs, record>>
  PROVE  Holds \/ \E n \in Names : Moves(n)
<1>1. TypeOK /\ record \in [Names -> Ident] /\ \A n \in Names : Knows(record[n], n)
  BY DEF OInv, IInv, StoreInv, TypeOK, StoreTypeOK
<1>2. table'[p].born = 0 /\ \A q \in Pids \ {p} : table'[q] = table[q]
  BY <1>1 DEF NoProcess, TypeOK, StoreTypeOK
<1>3. ASSUME NEW m \in Names, record[m].pid # p \/ ~Running(record[m])
      PROVE  RegistryOf(m)' = RegistryOf(m)
  <2>1. Running(record[m])' <=> Running(record[m])
    BY <1>1, <1>2, <1>3 DEF Running, Ident
  <2> QED BY <2>1 DEF RegistryOf
<1>4. ASSUME NEW m \in Names, record[m].pid = p, Running(record[m])
      PROVE  m = table[p].vm /\ (RegistryOf(m)' = RegistryOf(m) \/ Allowed(RegistryOf(m), RegistryOf(m)'))
  <2>1. ~Running(record[m])' /\ record[m] # NoIdent
    BY <1>1, <1>2, <1>4 DEF Running, Ident, NoIdent
  <2> QED BY <1>1, <1>4, <2>1 DEF Knows, RegistryOf, Allowed
<1>5. CASE table[p].vm \in Names
  BY <1>3, <1>4, <1>5 DEF Moves
<1>6. CASE table[p].vm \notin Names
  BY <1>3, <1>4, <1>6 DEF Holds
<1> QED BY <1>5, <1>6

LEMMA RemoveMoves ==
  ASSUME OInv, NEW n \in Names, Remove(n), NoGuest(n)
  PROVE  Moves(n)
<1>1. TypeOK /\ Knows(record[n], n) /\ record[n] \in Ident
  BY DEF OInv, IInv, StoreInv, TypeOK, StoreTypeOK
<1>2. ~Running(record[n])
  BY <1>1 DEF Knows, Running, NoGuest, Exists, Ident
<1>3. \A p \in Pids : table'[p].born = table[p].born
  BY DEF Remove, Unlinked
<1>4. ASSUME NEW m \in Names \ {n}
      PROVE  RegistryOf(m)' = RegistryOf(m)
  <2>1. record'[m] = record[m] /\ (m \in dirs' <=> m \in dirs) /\ record[m] \in Ident
    BY <1>1 DEF Remove, TypeOK, StoreTypeOK
  <2>2. Running(record[m])' <=> Running(record[m])
    BY <1>3, <2>1 DEF Running, Ident
  <2> QED BY <2>1, <2>2 DEF RegistryOf
<1>5. RegistryOf(n)' = "free"
  BY DEF Remove, RegistryOf
<1> QED BY <1>2, <1>4, <1>5 DEF Moves, RegistryOf, Allowed

LEMMA RunImplements ==
  ASSUME OInv, Orderly, NEW c \in Clients, RunStep(c)
  PROVE  Holds \/ \E n \in Names : Moves(n)
<1>0. TypeOK /\ InPlace(c) /\ HasVm(c) /\ OrderInv(c)
  BY DEF OInv, IInv, TypeOK, ClientTypeOK
<1>1. CASE RunLocks(c) \/ LockBusy(c) \/ ReadStartTime(c) \/ Reachable(c) \/ RunFails(c) \/ GuardDrop(c)
  BY <1>0, <1>1, StillHolds DEF RunLocks, LockBusy, ReadStartTime, Reachable, RunFails, GuardDrop, storeVars
<1>2. CASE ReapOne(c)
  <2>1. PICK n \in todo[c] : Remove(n)
    BY <1>2 DEF ReapOne
  <2>2. n \in Names /\ NoGuest(n)
    BY <1>2, ReapsDead DEF ReapOne
  <2> QED BY <2>1, <2>2, RemoveMoves
<1>3. CASE MakeDir(c)
  <2>1. PICK n \in Names : n = name[c] /\ n \notin dirs /\ record[n] = NoIdent
    BY <1>0, <1>3 DEF MakeDir, HasVm, OrderInv, EarlyInv, Early, Unmade, StartLocations
  <2>2. UNCHANGED <<record, table>> /\ dirs' = dirs \cup {n}
    BY <1>3, <2>1 DEF MakeDir
  <2>3. Moves(n)
    BY <2>1, <2>2 DEF Moves, RegistryOf, Allowed, Running
  <2> QED BY <2>3
<1>4. CASE CreateOverlay(c)
  <2>1. \A p \in Pids : table'[p].born = table[p].born
    BY <1>4 DEF CreateOverlay, Unlinked
  <2> QED BY <1>0, <1>4, <2>1, StillHolds DEF CreateOverlay
<1>5. ASSUME NEW p \in Pids, Spawn(c, p)
      PROVE  Holds
  BY <1>5, StartHolds DEF Spawn
<1>6. CASE \E p \in Pids : SpawnUnread(c, p)
  BY <1>6 DEF SpawnUnread, Orderly
<1>7. CASE SaveRecord(c)
  <2>1. job[c] = "run" /\ at[c] = "timed"
    BY <1>0, <1>7 DEF SaveRecord, InPlace, DestroyLocations, PromoteLocations, StopLocations
  <2>2. PICK n \in Names : n = name[c] /\ n \in dirs /\ record[n] = NoIdent /\ owned[c].born # 0
    BY <1>0, <2>1 DEF HasVm, OrderInv, EarlyInv, Early, StartLocations
  <2>3. record' = [record EXCEPT ![n] = owned[c]] /\ dirs' = dirs /\ table' = table
    BY <1>7, <2>2 DEF SaveRecord, Save
  <2>4. RegistryOf(n) = "claimed" /\ RegistryOf(n)' \in {"up", "down"}
    BY <1>0, <2>2, <2>3 DEF RegistryOf, NoIdent, TypeOK, StoreTypeOK
  <2>5. \A m \in Names \ {n} : RegistryOf(m)' = RegistryOf(m)
    BY <1>0, <2>3 DEF RegistryOf, Running, TypeOK, StoreTypeOK
  <2>6. Moves(n)
    BY <2>4, <2>5 DEF Moves, Allowed
  <2> QED BY <2>6
<1> QED BY <1>1, <1>2, <1>3, <1>4, <1>5, <1>6, <1>7 DEF RunStep

LEMMA StopImplements ==
  ASSUME OInv, Orderly, NEW c \in Clients, StopStep(c)
  PROVE  Holds \/ \E n \in Names : Moves(n)
<1>0. TypeOK
  BY DEF OInv, IInv
<1>1. CASE Gone(c) \/ GiveUp(c)
  BY <1>0, <1>1, StillHolds DEF Gone, GiveUp, storeVars
<1>2. CASE Kill(c)
  <2>1. owned[c].pid \in Pids /\ table' = [table EXCEPT ![owned[c].pid] = NoProcess]
    BY <1>0, <1>2 DEF Kill, Alive, Ident, Orderly, TypeOK, ClientTypeOK
  <2> QED BY <1>2, <2>1, EndMoves DEF Kill
<1>3. CASE RemoveStopped(c)
  <2>1. PICK n \in Names : Remove(n) /\ NoGuest(n)
    BY <1>3, RemovesDead DEF RemoveStopped
  <2> QED BY <2>1, RemoveMoves
<1> QED BY <1>1, <1>2, <1>3 DEF StopStep

LEMMA StepImplements ==
  ASSUME OInv, Orderly, [Next]_vars
  PROVE  [Registry!Next]_reg
<1>0. TypeOK
  BY DEF OInv, IInv
<1>1. ASSUME NEW c \in Clients, Issue(c) \/ DestroyStep(c) \/ PromoteStep(c) \/ PruneDone(c)
      PROVE  Holds
  <2>1. UNCHANGED <<record, table, dirs>>
    BY <1>1 DEF Issue, ChooseName, DestroyOne, DestroyAll, DestroyLocks, PromotePrepares, PruneLists,
       DestroyStep, DestroyDead, DestroyForced, DestroyGraceful, DestroyTurnsTo, GracefulExit,
       GracefulFails, DestroyDone, PromoteStep, PromoteLocks, GuestGone, Convert, PromoteFails,
       PromoteKeeps, PromoteReplaces, PruneDone, storeVars
  <2> QED BY <1>0, <2>1, StillHolds
<1>2. ASSUME \E c \in Clients : Crash(c) \/ \E n \in Names : RemoveFails(c, n)
      PROVE  FALSE
  BY <1>2 DEF Crash, RemoveFails, Orderly
<1>3. ASSUME NEW p \in Pids, Exit(p)
      PROVE  Holds \/ \E n \in Names : Moves(n)
  BY <1>3, EndMoves DEF Exit
<1>4. ASSUME NEW p \in Pids, Stranger(p)
      PROVE  Holds
  BY <1>4, StartHolds DEF Stranger
<1>5. ASSUME UNCHANGED vars
      PROVE  Holds
  BY <1>0, <1>5, StillHolds DEF vars, storeVars
<1>6. Holds \/ \E n \in Names : Moves(n)
  BY <1>1, <1>2, <1>3, <1>4, <1>5, RunImplements, StopImplements DEF Next, Step
<1> QED BY <1>6, HoldsImplements, MovesImplements

\* The commands implement the registry of names: with generated names, no
\* prune and no fault, a VM that is up is never forgotten and a claimed name
\* is given up only before its record is written, for any number of clients,
\* names and PIDs.
THEOREM RegistryIsKept ==
  ASSUME Orderly
  PROVE  Spec => ImplementsRegistry
<1>1. Init => Registry!Init
  BY DEF Init, StoreInit, RegistryOf, Registry!Init
<1>2. OInv /\ [Next]_vars => [Registry!Next]_reg
  BY StepImplements
<1> QED BY <1>1, <1>2, OrderlyInvariant, PTL DEF Spec, ImplementsRegistry, Registry!Spec, reg
=============================================================================
