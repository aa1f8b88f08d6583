---------------------------- MODULE VmLifecycle ----------------------------
(***************************************************************************)
(* The commands that create and remove QEMU VMs (`vitro run`, `destroy`,   *)
(* `destroy --all`, `promote`, `ls --prune`), run by several vitro         *)
(* processes over one state directory.  A client is at one location of one *)
(* command; every location is a point of the code where another process    *)
(* can get in between.                                                     *)
(***************************************************************************)
EXTENDS Store

CONSTANTS
  Commands,  \* the commands users issue, a subset of AllCommands
  Given,     \* the names users may type after --name
  Faults     \* what may go wrong around vitro, a subset of AllFaults

AllCommands == {"run", "destroy", "promote", "prune"}

\* crash: vitro is killed outright; stubborn: a process outlives SIGKILL by
\* more than the wait for it; pidfile: a started QEMU's pidfile is unreadable;
\* remove: a directory cannot be removed, or not all of it
AllFaults == {"crash", "stubborn", "pidfile", "remove"}

ASSUME CommandAssumption ==
  /\ Commands \subseteq AllCommands
  /\ Given \subseteq Names
  /\ Faults \subseteq AllFaults

VARIABLES
  at,      \* where each client is
  job,     \* the command it runs
  name,    \* the VM it works on
  owned,   \* the process its guard owns, or the record it loaded names
  todo,    \* the VMs its listing leaves to be reaped or destroyed
  listed   \* the records a destroy read

clientVars == <<at, job, name, owned, todo, listed>>
vars == <<storeVars, clientVars>>

\* Where a client of each command can be.  The locations between RunLocks and
\* SaveRecord, all of destroy's and all of promote's but "prepared" are under
\* the lock; "waiting" and everything of prune are not; a run comes to
\* "teardown" either way
StopLocations == {"stopping", "killed", "stopped"}
StartLocations == {"made", "imaged", "spawned", "timed"}
RunLocations ==
  StartLocations \cup StopLocations \cup {"named", "reaping", "waiting", "teardown"}
DestroyLocations == StopLocations \cup {"destroying", "graceful"}
PromoteLocations == StopLocations \cup {"prepared", "shutting", "off", "converting"}

InPlace(c) ==
  \/ job[c] = "none" /\ at[c] = "idle"
  \/ job[c] = "run" /\ at[c] \in RunLocations
  \/ job[c] = "destroy" /\ at[c] \in DestroyLocations
  \/ job[c] = "promote" /\ at[c] \in PromoteLocations
  \/ job[c] = "prune" /\ at[c] = "reaping"

NoListing == [n \in Names |-> NoIdent]

-----------------------------------------------------------------------------
Goto(c, l) == at' = [at EXCEPT ![c] = l]

\* mutant: the finished command forgets to let go of what it owned
KeepsItsVm(c) ==
  /\ Goto(c, "idle")
  /\ job' = [job EXCEPT ![c] = "none"]
  /\ todo' = [todo EXCEPT ![c] = {}]
  /\ listed' = [listed EXCEPT ![c] = NoListing]
  /\ Unlock(c)
  /\ UNCHANGED <<name, owned>>

\* The process exits, or the command returns: its locals are gone, and
\* StateLock is dropped if it was held
Done(c) ==
  /\ Goto(c, "idle")
  /\ job' = [job EXCEPT ![c] = "none"]
  /\ name' = [name EXCEPT ![c] = NoName]
  /\ owned' = [owned EXCEPT ![c] = NoIdent]
  /\ todo' = [todo EXCEPT ![c] = {}]
  /\ listed' = [listed EXCEPT ![c] = NoListing]
  /\ Unlock(c)

Begin(c, command, n) ==
  /\ at[c] = "idle"
  /\ command \in Commands
  /\ job' = [job EXCEPT ![c] = command]
  /\ name' = [name EXCEPT ![c] = n]

-----------------------------------------------------------------------------
(* run: from the name to the saved record, under the lock.                 *)

\* unique_name draws 24 random bits: it never hits a name a live command
\* still works with, which a name typed by the user may
InHand(n) == \E d \in Clients : name[d] = n \/ n \in todo[d]

ChooseName(c, n) ==
  /\ Begin(c, "run", n)
  /\ n \notin dirs
  /\ n \in Given \/ ~InHand(n)
  /\ Goto(c, "named")
  /\ UNCHANGED <<storeVars, owned, todo, listed>>

RunLocks(c) ==
  /\ at[c] = "named"
  /\ TryLock(c)
  /\ todo' = [todo EXCEPT ![c] = Stale]
  /\ Goto(c, "reaping")
  /\ UNCHANGED <<dirs, disks, record, table, births, job, name, owned, listed>>

\* "another vitro is using ..."
LockBusy(c) ==
  /\ at[c] \in {"named", "prepared"}
  /\ LockedOut(c)
  /\ Done(c)
  /\ UNCHANGED <<dirs, disks, record, table, births>>

\* mutant: the listing is never worked off
ReapForever(c) ==
  /\ at[c] = "reaping"
  /\ \E n \in todo[c] : Remove(n)
  /\ UNCHANGED <<lock, clientVars>>

\* reap_dead removes what its listing found stale, whatever it is by now
ReapOne(c) ==
  /\ at[c] = "reaping"
  /\ \E n \in todo[c] :
       /\ Remove(n)
       /\ todo' = [todo EXCEPT ![c] = @ \ {n}]
  /\ UNCHANGED <<lock, at, job, name, owned, listed>>

\* mutant: the lock only covers the claim of the name, as in run_lume
MakeDirUnlocks(c) ==
  /\ at[c] = "reaping"
  /\ job[c] = "run"
  /\ todo[c] = {}
  /\ dirs' = dirs \cup {name[c]}
  /\ Unlock(c)
  /\ Goto(c, "made")
  /\ UNCHANGED <<disks, record, table, births, job, name, owned, todo, listed>>

MakeDir(c) ==
  /\ at[c] = "reaping"
  /\ job[c] = "run"
  /\ todo[c] = {}
  /\ dirs' = dirs \cup {name[c]}
  /\ Goto(c, "made")
  /\ UNCHANGED <<lock, disks, record, table, births, job, name, owned, todo, listed>>

\* create_overlay writes over an overlay that is already there
CreateOverlay(c) ==
  /\ at[c] = "made"
  /\ name[c] \in dirs
  /\ disks' = disks \cup {name[c]}
  /\ table' = Unlinked(name[c])
  /\ Goto(c, "imaged")
  /\ UNCHANGED <<lock, dirs, record, births, job, name, owned, todo, listed>>

Spawn(c, p) ==
  /\ at[c] = "imaged"
  /\ name[c] \in disks
  /\ Start(p, name[c])
  /\ owned' = [owned EXCEPT ![c] = [pid |-> p, born |-> 0]]
  /\ Goto(c, "spawned")
  /\ UNCHANGED <<lock, dirs, disks, record, job, name, todo, listed>>

\* QEMU has daemonised, but nobody can say which process it is
SpawnUnread(c, p) ==
  /\ "pidfile" \in Faults
  /\ at[c] = "imaged"
  /\ name[c] \in disks
  /\ Start(p, name[c])
  /\ Goto(c, "teardown")
  /\ UNCHANGED <<lock, dirs, disks, record, job, name, owned, todo, listed>>

ReadStartTime(c) ==
  /\ at[c] = "spawned"
  /\ Exists(owned[c].pid)
  /\ owned' = [owned EXCEPT ![c] = [pid |-> owned[c].pid, born |-> table[owned[c].pid].born]]
  /\ Goto(c, "timed")
  /\ UNCHANGED <<storeVars, job, name, todo, listed>>

SaveRecord(c) ==
  /\ at[c] = "timed"
  /\ Save(name[c], owned[c])
  /\ Unlock(c)
  /\ Goto(c, "waiting")
  /\ UNCHANGED <<job, name, owned, todo, listed>>

Reachable(c) ==
  /\ at[c] = "waiting"
  /\ Running(owned[c])
  /\ Done(c)
  /\ UNCHANGED <<dirs, disks, record, table, births>>

\* Any `?` from MakeDir on: no golden image, no start, no record written, a
\* dead guest, a timeout, Ctrl-C
RunFails(c) ==
  /\ at[c] \in {"made", "imaged", "spawned", "timed", "waiting"}
  /\ Goto(c, "teardown")
  /\ UNCHANGED <<storeVars, job, name, owned, todo, listed>>

\* mutant: the directory goes while the process still runs
DropWithoutStopping(c) ==
  /\ at[c] = "teardown"
  /\ Goto(c, "stopped")
  /\ UNCHANGED <<storeVars, job, name, owned, todo, listed>>

\* VmGuard::drop: SIGTERM to whatever has the PID, if there is one to stop
GuardDrop(c) ==
  /\ at[c] = "teardown"
  /\ Goto(c, IF owned[c] = NoIdent THEN "stopped" ELSE "stopping")
  /\ UNCHANGED <<storeVars, job, name, owned, todo, listed>>

-----------------------------------------------------------------------------
(* stop_and_wait, once SIGTERM is sent, and what its callers make of it.   *)

Gone(c) ==
  /\ at[c] \in {"stopping", "killed"}
  /\ ~Alive(owned[c])
  /\ Goto(c, "stopped")
  /\ UNCHANGED <<storeVars, job, name, owned, todo, listed>>

\* mutant: no insisting after SIGTERM
NeverKill(c) == FALSE /\ UNCHANGED vars

\* After TERM_TIMEOUT, or at once when interrupted
Kill(c) ==
  /\ at[c] = "stopping"
  /\ Alive(owned[c])
  /\ Goto(c, "killed")
  /\ \/ table' = [table EXCEPT ![owned[c].pid] = NoProcess]
     \/ "stubborn" \in Faults /\ UNCHANGED table
  /\ UNCHANGED <<lock, dirs, disks, record, births, job, name, owned, todo, listed>>

\* destroy is through with a VM, whether it could be removed or not
DestroyMovesOn(c) ==
  /\ todo' = [todo EXCEPT ![c] = @ \ {name[c]}]
  /\ Goto(c, "destroying")
  /\ UNCHANGED <<lock, job, name, owned, listed>>

\* mutant: a destroy does not look again before it removes the record
GiveUpAnyway(c) ==
  /\ at[c] = "killed"
  /\ Alive(owned[c])
  /\ Goto(c, "stopped")
  /\ UNCHANGED <<storeVars, job, name, owned, todo, listed>>

\* The guard leaves the directory in place; destroy reports the failure and
\* keeps the record
GiveUp(c) ==
  /\ at[c] = "killed"
  /\ Alive(owned[c])
  /\ \/ job[c] = "run" /\ Done(c)
     \/ job[c] = "destroy" /\ DestroyMovesOn(c)
     \/ /\ job[c] = "promote"  \* which does not look at the answer
        /\ Goto(c, "stopped")
        /\ UNCHANGED <<lock, job, name, owned, todo, listed>>
  /\ UNCHANGED <<dirs, disks, record, table, births>>

\* The directory goes; a destroy carries on with its listing
RemoveStopped(c) ==
  /\ at[c] = "stopped"
  /\ Remove(name[c])
  /\ IF job[c] = "destroy" THEN DestroyMovesOn(c) ELSE Done(c)

-----------------------------------------------------------------------------
(* destroy.                                                                *)

\* One VM with a readable record, or with --all every directory there is
DestroyLocks(c, ns) ==
  /\ Begin(c, "destroy", NoName)
  /\ TryLock(c)
  /\ todo' = [todo EXCEPT ![c] = ns]
  /\ listed' = [listed EXCEPT ![c] = record]
  /\ Goto(c, "destroying")
  /\ UNCHANGED <<dirs, disks, record, table, births, owned>>

DestroyOne(c, n) == n \in dirs /\ record[n] # NoIdent /\ DestroyLocks(c, {n})

DestroyAll(c) == DestroyLocks(c, dirs)

DestroyTurnsTo(c, n, l) ==
  /\ at[c] = "destroying"
  /\ n \in todo[c]
  /\ name' = [name EXCEPT ![c] = n]
  /\ owned' = [owned EXCEPT ![c] = listed[c][n]]
  /\ Goto(c, l)
  /\ UNCHANGED <<storeVars, job, todo, listed>>

\* Debris, or a process that has already gone
DestroyDead(c, n) ==
  /\ ~Running(listed[c][n])
  /\ DestroyTurnsTo(c, n, "stopped")

\* mutant: SIGTERM goes out on the strength of the record alone
DestroyUnprobed(c, n) ==
  /\ listed[c][n] # NoIdent
  /\ DestroyTurnsTo(c, n, "stopping")

\* The probe and SIGTERM are one step: no PID is reused between the two
DestroyForced(c, n) ==
  /\ Running(listed[c][n])
  /\ DestroyTurnsTo(c, n, "stopping")

DestroyGraceful(c, n) ==
  /\ Running(listed[c][n])
  /\ DestroyTurnsTo(c, n, "graceful")

GracefulExit(c) ==
  /\ at[c] = "graceful"
  /\ ~Running(owned[c])
  /\ Goto(c, "stopped")
  /\ UNCHANGED <<storeVars, job, name, owned, todo, listed>>

\* No monitor socket, QMP refuses, the guest ignores the button, Ctrl-C
GracefulFails(c) ==
  /\ at[c] = "graceful"
  /\ DestroyMovesOn(c)
  /\ UNCHANGED <<dirs, disks, record, table, births>>

DestroyDone(c) ==
  /\ at[c] = "destroying"
  /\ todo[c] = {}
  /\ Done(c)
  /\ UNCHANGED <<dirs, disks, record, table, births>>

-----------------------------------------------------------------------------
(* promote.                                                                *)

\* The record and the overlay are looked at before the lock is taken
PromotePrepares(c, n) ==
  /\ Begin(c, "promote", n)
  /\ Running(record[n])
  /\ n \in disks
  /\ owned' = [owned EXCEPT ![c] = record[n]]
  /\ Goto(c, "prepared")
  /\ UNCHANGED <<storeVars, todo, listed>>

PromoteLocks(c) ==
  /\ at[c] = "prepared"
  /\ TryLock(c)
  /\ Goto(c, "shutting")
  /\ UNCHANGED <<dirs, disks, record, table, births, job, name, owned, todo, listed>>

\* shut_down asks for the PID only
GuestGone(c) ==
  /\ at[c] = "shutting"
  /\ ~Exists(owned[c].pid)
  /\ Goto(c, "off")
  /\ UNCHANGED <<storeVars, job, name, owned, todo, listed>>

Convert(c) ==
  /\ at[c] = "off"
  /\ name[c] \in disks
  /\ Goto(c, "converting")
  /\ UNCHANGED <<storeVars, job, name, owned, todo, listed>>

\* The shutdown times out, Ctrl-C, or the conversion fails
PromoteFails(c) ==
  /\ at[c] \in {"shutting", "off", "converting"}
  /\ at[c] = "shutting" => Exists(owned[c].pid)
  /\ Done(c)
  /\ UNCHANGED <<dirs, disks, record, table, births>>

PromoteKeeps(c) ==
  /\ at[c] = "converting"
  /\ Done(c)
  /\ UNCHANGED <<dirs, disks, record, table, births>>

\* stop_and_wait sends its SIGTERM before it looks at anything
PromoteReplaces(c) ==
  /\ at[c] = "converting"
  /\ Goto(c, "stopping")
  /\ UNCHANGED <<storeVars, job, name, owned, todo, listed>>

-----------------------------------------------------------------------------
(* ls --prune takes no lock.                                               *)

PruneLists(c) ==
  /\ Begin(c, "prune", NoName)
  /\ todo' = [todo EXCEPT ![c] = Stale]
  /\ Goto(c, "reaping")
  /\ UNCHANGED <<storeVars, owned, listed>>

PruneDone(c) ==
  /\ at[c] = "reaping"
  /\ job[c] = "prune"
  /\ todo[c] = {}
  /\ Done(c)
  /\ UNCHANGED <<dirs, disks, record, table, births>>

-----------------------------------------------------------------------------
(* The host.                                                               *)

\* Whoever was to remove n reports the error and gives up, the rest of its
\* listing included
RemoveFails(c, n) ==
  /\ "remove" \in Faults
  /\ n \in dirs
  /\ \/ at[c] = "reaping" /\ n \in todo[c]
     \/ at[c] = "stopped" /\ n = name[c]
  /\ disks' \in {disks, disks \ {n}}
  /\ record' \in {record, [record EXCEPT ![n] = NoIdent]}
  /\ table' = IF n \in disks' THEN table ELSE Unlinked(n)
  /\ Done(c)
  /\ UNCHANGED <<dirs, births>>

\* SIGKILL, a second Ctrl-C: no guard runs, and the kernel frees the lock
Crash(c) ==
  /\ "crash" \in Faults
  /\ at[c] # "idle"
  /\ Done(c)
  /\ UNCHANGED <<dirs, disks, record, table, births>>

\* A guest powers off, QEMU dies, a process ends
Exit(p) ==
  /\ Exists(p)
  /\ table' = [table EXCEPT ![p] = NoProcess]
  /\ UNCHANGED <<lock, dirs, disks, record, births, clientVars>>

\* Some other program gets the PID, but not in the moment between QEMU's
\* start and the reading of its start time
Stranger(p) ==
  /\ \A c \in Clients : ~(at[c] = "spawned" /\ owned[c].pid = p)
  /\ Start(p, Foreign)
  /\ UNCHANGED <<lock, dirs, disks, record, clientVars>>

-----------------------------------------------------------------------------
Init ==
  /\ StoreInit
  /\ at = [c \in Clients |-> "idle"]
  /\ job = [c \in Clients |-> "none"]
  /\ name = [c \in Clients |-> NoName]
  /\ owned = [c \in Clients |-> NoIdent]
  /\ todo = [c \in Clients |-> {}]
  /\ listed = [c \in Clients |-> NoListing]

\* A user issues a command
Issue(c) ==
  \/ \E n \in Names : ChooseName(c, n)
  \/ \E n \in Names : DestroyOne(c, n)
  \/ DestroyAll(c)
  \/ \E n \in Names : PromotePrepares(c, n)
  \/ PruneLists(c)

\* A command goes on
RunStep(c) ==
  \/ RunLocks(c) \/ LockBusy(c) \/ ReapOne(c) \/ MakeDir(c) \/ CreateOverlay(c)
  \/ \E p \in Pids : Spawn(c, p) \/ SpawnUnread(c, p)
  \/ ReadStartTime(c) \/ SaveRecord(c) \/ Reachable(c) \/ RunFails(c) \/ GuardDrop(c)

StopStep(c) == Gone(c) \/ Kill(c) \/ GiveUp(c) \/ RemoveStopped(c)

DestroyStep(c) ==
  \/ \E n \in Names : DestroyDead(c, n) \/ DestroyForced(c, n) \/ DestroyGraceful(c, n)
  \/ GracefulExit(c) \/ GracefulFails(c) \/ DestroyDone(c)

PromoteStep(c) ==
  \/ PromoteLocks(c) \/ GuestGone(c) \/ Convert(c)
  \/ PromoteFails(c) \/ PromoteKeeps(c) \/ PromoteReplaces(c)

Step(c) == RunStep(c) \/ StopStep(c) \/ DestroyStep(c) \/ PromoteStep(c) \/ PruneDone(c)

Next ==
  \/ \E c \in Clients : Issue(c) \/ Step(c) \/ Crash(c)
  \/ \E c \in Clients, n \in Names : RemoveFails(c, n)
  \/ \E p \in Pids : Exit(p) \/ Stranger(p)

Spec == Init /\ [][Next]_vars

\* The command has asked a guest that runs something over ssh.  promote's
\* shut_down gives ssh neither a deadline nor a ConnectTimeout, the wait of a
\* run only a ConnectTimeout, so a frozen guest keeps them for as long as it
\* likes; when its QEMU goes, the connection breaks and ssh returns
Held(c) == at[c] \in {"waiting", "shutting"} /\ Running(owned[c])

\* A command that has been started is carried on, except while a guest keeps
\* it: every other wait in it has a deadline, and a timeout is one of its steps
FairSpec == Spec /\ \A c \in Clients : WF_vars(~Held(c) /\ Step(c))

-----------------------------------------------------------------------------
(* Properties.                                                             *)

\* A command that touches a VM has one in mind
HasVm(c) ==
  /\ job[c] \in {"run", "promote"} => name[c] \in Names
  /\ at[c] \in StopLocations \cup {"graceful"} => name[c] \in Names
  /\ at[c] = "spawned" => owned[c].pid \in Pids

\* Types, that each client is at a location of its command with a VM to work
\* on, and that an idle one holds on to nothing
ClientTypeOK ==
  /\ job \in [Clients -> AllCommands \cup {"none"}]
  /\ at \in [Clients -> RunLocations \cup DestroyLocations \cup PromoteLocations \cup {"idle"}]
  /\ \A c \in Clients : InPlace(c) /\ HasVm(c)
  /\ name \in [Clients -> Names \cup {NoName}]
  /\ owned \in [Clients -> Ident]
  /\ todo \in [Clients -> SUBSET Names]
  /\ listed \in [Clients -> [Names -> Ident]]
  /\ \A c \in Clients :
       at[c] = "idle" => lock # c /\ name[c] = NoName /\ owned[c] = NoIdent

TypeOK == StoreTypeOK /\ ClientTypeOK

\* A record whose process runs names a process of that very VM: a command
\* that acts on a record it believes in never acts on anyone else's process
\* (state.rs, liveness; docs/internals.md, "Records, and PIDs that come back")
RecordsAreTrue ==
  \A n \in Names : Running(record[n]) => table[record[n].pid].vm = n

\* When destroy is about to remove a VM, the process its record names is gone
\* (destroy.rs, stop: a VM that is still running keeps its record)
DestroyedMeansStopped ==
  \A c \in Clients :
    job[c] = "destroy" /\ at[c] = "stopped" => ~Running(record[name[c]])

\* c sends a signal in this step, and to whom
Signals(c) == at[c] # at'[c] /\ at'[c] \in {"stopping", "killed"}
HitsOwnVm(c) ==
  LET target == table[owned'[c].pid]
  IN  target.born # 0 => target.vm = name'[c]

\* destroy signals processes of the VM it destroys and no other process,
\* however often PIDs are handed out again
DestroySignalsOnlyItsVm ==
  [][\A c \in Clients : job[c] = "destroy" /\ Signals(c) => HitsOwnVm(c)]_vars

\* Once the start time is known, promote signals no process but its VM's
\* (process.rs:193).  It does not hold: the first SIGTERM goes out unprobed
PromoteSignalsOnlyItsVm ==
  [][\A c \in Clients : job[c] = "promote" /\ Signals(c) => HitsOwnVm(c)]_vars

\* Every QEMU can be found: its record names it, or the guard of the run that
\* started it still owns it (run.rs, VmGuard; process.rs:188)
NoneStranded ==
  \A p \in Pids : Exists(p) /\ table[p].vm \in Names =>
    LET me == [pid |-> p, born |-> table[p].born]
    IN  \/ record[table[p].vm] = me
        \/ \E c \in Clients : job[c] = "run" /\ owned[c] \in {me, [me EXCEPT !.born = 0]}

\* A QEMU that runs has its overlay where it opened it (process.rs:188)
DiskKept == \A p \in Pids : Exists(p) /\ table[p].vm \in Names => table[p].disk

\* The directory a run works in stays until its record is written
\* (run.rs:98-100)
StartingDirStays ==
  \A c \in Clients :
    at[c] \in StartLocations => name[c] \in dirs

\* The overlay promote is converting stays until it is converted
\* (promote.rs:70-72)
ConvertedDiskStays ==
  \A c \in Clients : at[c] = "converting" => name[c] \in disks

\* Every command ends, and with it its hold on the lock, unless a guest that
\* runs keeps the ssh it waits for (destroy.rs, stop; process.rs, stop_and_wait)
CommandsFinish ==
  \A c \in Clients : at[c] # "idle" ~> at[c] = "idle" \/ Held(c)

-----------------------------------------------------------------------------
(* The inductive invariant behind RecordsAreTrue and DestroyedMeansStopped. *)

\* i was read off a process of VM n: it is from the past, and if its process
\* still runs, that is n's
Knows(i, n) ==
  /\ i.born <= births
  /\ Running(i) => table[i.pid].vm = n

\* The clients that hold the lock
InLock(c) ==
  \/ at[c] \in StartLocations
  \/ job[c] = "run" /\ at[c] = "reaping"
  \/ job[c] = "destroy"

LockInv(c) == InLock(c) => lock = c

\* The PID of a QEMU that has just been started is still that QEMU's, or free
SpawnInv(c) ==
  at[c] = "spawned" /\ Exists(owned[c].pid) => table[owned[c].pid].vm = name[c]

\* What a client holds of a VM is true of that VM
KnowsInv(c) ==
  /\ Knows(owned[c], name[c])
  /\ \A n \in Names : Knows(listed[c][n], n)

\* What a destroy read at its start is what it acts on; meanwhile a record can
\* go, but none is written
ListedInv(c) ==
  job[c] = "destroy" =>
    /\ \A n \in Names : record[n] \in {listed[c][n], NoIdent}
    /\ at[c] \in StopLocations \cup {"graceful"} => owned[c] = listed[c][name[c]]
    /\ at[c] \in {"graceful", "stopping", "killed"} => owned[c].born # 0
    /\ at[c] = "stopped" => ~Running(owned[c])

ClientInv(c) == LockInv(c) /\ SpawnInv(c) /\ KnowsInv(c) /\ ListedInv(c)

\* No process is from the future, and what a record says is true of its VM
StoreInv ==
  /\ \A p \in Pids : table[p].born <= births
  /\ \A n \in Names : Knows(record[n], n)

IInv == TypeOK /\ StoreInv /\ \A c \in Clients : ClientInv(c)
=============================================================================
