------------------------------- MODULE LumeRun -------------------------------
(***************************************************************************)
(* macOS guests: run_lume, and what destroy, promote and ls --prune do with *)
(* a guest that lume keeps, each ending with the refresh of the ssh_config *)
(* file.  vitro's records and lume's own list of VMs have to agree, and    *)
(* run_lume holds the state lock twice, briefly, with minutes in between.  *)
(***************************************************************************)
EXTENDS Naturals

CONSTANTS
  Clients,    \* vitro processes
  Names,      \* of VMs
  Image,      \* what promote --as names, another VM of lume's
  MaxClones,  \* bound on the VMs ever made
  Absent,     \* no directory, VM, record or file; nobody
  Trouble     \* a subset of AllTrouble

\* fail: a call to lume fails, after its work or before it; crash: vitro is killed; half:
\* the clone of a run that fails leaves half a VM, or a whole one; typed: a --name that
\* another command still works with; early: promote of a VM whose run has not ended;
\* prune: `ls --prune` while somebody holds or is about to take the lock, or has claimed a
\* directory; overlap: a refresh of the ssh_config file begins while another is not finished
AllTrouble == {"fail", "crash", "half", "typed", "early", "prune", "overlap"}

ASSUME LumeRunAssumption ==
  /\ MaxClones \in Nat
  /\ Image \notin Names
  /\ Absent \notin Nat \cup Clients \cup Names
  /\ Trouble \subseteq AllTrouble

\* A VM is the number of the clone it was made as; its process is known by that
Vms == 1..MaxClones

VARIABLES
  dir,      \* the directories under vms/, each with the VM its vm.json names, or 0
  lock,     \* who holds the state lock
  vm,       \* what lume keeps under each name
  up,       \* the names of the VMs that lume runs
  made,     \* how many there were
  file,     \* the ssh_config file: the VMs it has an alias for
  self,     \* each client's command and where it is in it (cmd, at), the name it works
            \* on, the VM its guard owns or 0 (has), what is left of its listing (todo: a
            \* name and the VM recorded for it, each), and what it has rendered (view)
  excused   \* the VMs whose run was killed, and those of whose deletion it was told that it failed

vars == <<dir, lock, vm, up, made, file, self, excused>>

kept == <<vm, up, made>>
disk == <<dir, lock>>

Idle == [cmd |-> "none", at |-> "idle", name |-> Absent, has |-> 0, todo |-> {}, view |-> {}]

Goes(c, to) == self' = [self EXCEPT ![c].at = to]
Ends(c) == self' = [self EXCEPT ![c] = Idle]
Frees(c) == lock' = IF lock = c THEN Absent ELSE lock

Recorded(n) == dir[n] \notin {Absent, 0}
\* VmRecord::liveness, and what find_by_command looks for
Running(n) == Recorded(n) /\ n \in up /\ vm[n] = dir[n]

Listing == {<<n, dir[n]>> : n \in {m \in Names : dir[m] # Absent}}
Dead == {e \in Listing : ~Running(e[1])}

Busy == {"claiming", "reaping", "making", "cloning", "starting", "readying", "finding",
         "saving", "reaching", "dropping"}
InHand(c, n) == self[c].cmd = "run" /\ self[c].at \in Busy /\ self[c].name = n
WorksWith(c, n) == self[c].at # "idle" /\ (self[c].name = n \/ \E e \in self[c].todo : e[1] = n)

-----------------------------------------------------------------------------
(* Calls to lume                                                           *)

Breaks == "fail" \in Trouble

\* lume::stop: an interrupt to the process that holds the VM, seen through; and
\* `lume stop` where there is none, which has nothing to stop
Stopped(n) == up' = up \ {n}
StopFails(n) == (Breaks \/ n \notin up) /\ UNCHANGED up

\* lume delete refuses a VM that runs
Deleted(n) == vm[n] # Absent /\ n \notin up' /\ vm' = [vm EXCEPT ![n] = Absent]
DeleteFails(n) ==
  \/ (Breaks \/ vm[n] = Absent \/ n \in up') /\ UNCHANGED vm
  \/ Breaks /\ Deleted(n)

\* As reap_backend and the guard do: stop, delete, and a message when that fails
Discard(n) ==
  /\ Stopped(n) \/ StopFails(n)
  /\ \/ Deleted(n) /\ UNCHANGED excused
     \/ DeleteFails(n) /\ excused' = excused \cup {vm[n]}

\* lume clone, onto a name that is free
Cloned(from, to) == vm[from] # Absent /\ vm[to] = Absent /\ vm' = [vm EXCEPT ![to] = vm[from]]
CloneFails(from, to) ==
  \/ (Breaks \/ vm[from] = Absent \/ vm[to] # Absent) /\ UNCHANGED vm
  \/ Breaks /\ Cloned(from, to)
  \/ "half" \in Trouble /\ vm[to] = Absent /\ vm' = [vm EXCEPT ![to] = 0]

-----------------------------------------------------------------------------
(* run_lume                                                                *)

\* mutant: any name
ChooseAny(c) ==
  /\ self[c].at = "idle"
  /\ \E n \in Names : self' = [self EXCEPT ![c].cmd = "run", ![c].at = "claiming", ![c].name = n]
  /\ UNCHANGED <<disk, kept, file, excused>>

\* A generated name is one that no directory has; a typed one may be any other's
ChooseName(c) ==
  /\ self[c].at = "idle"
  /\ \E n \in Names :
       /\ dir[n] = Absent
       /\ "typed" \in Trouble \/ (vm[n] = Absent /\ \A d \in Clients : ~WorksWith(d, n))
       /\ self' = [self EXCEPT ![c].cmd = "run", ![c].at = "claiming", ![c].name = n]
  /\ UNCHANGED <<disk, kept, file, excused>>

\* The lock, for as long as it takes to reap and to make the directory
Claim(c) ==
  /\ self[c].at = "claiming"
  /\ \/ /\ lock = Absent /\ lock' = c
        /\ self' = [self EXCEPT ![c].at = "reaping", ![c].todo = Dead]
     \/ lock # Absent /\ Ends(c) /\ UNCHANGED lock
  /\ UNCHANGED <<dir, kept, file, excused>>

\* mutant: the record goes, and with it the VM's name
ReapRecord(c) ==
  /\ self[c].at = "reaping"
  /\ \E e \in self[c].todo :
       /\ dir' = [dir EXCEPT ![e[1]] = Absent]
       /\ self' = [self EXCEPT ![c].todo = @ \ {e}]
  /\ UNCHANGED <<lock, kept, file, excused>>

\* reap_dead: the backend's own VM first
ReapOne(c) ==
  /\ self[c].at = "reaping"
  /\ \E e \in self[c].todo :
       /\ IF e[2] = 0 THEN UNCHANGED <<vm, up, excused>> ELSE Discard(e[1])
       /\ dir' = [dir EXCEPT ![e[1]] = Absent]
       /\ self' = [self EXCEPT ![c].todo = @ \ {e}]
  /\ UNCHANGED <<lock, made, file>>

Reaped(c) ==
  /\ self[c].at = "reaping" /\ self[c].todo = {}
  /\ Goes(c, IF self[c].cmd = "run" THEN "making" ELSE "rendering")
  /\ UNCHANGED <<disk, kept, file, excused>>

\* The directory without a record, and the lock given back
MakeDir(c) ==
  /\ self[c].at = "making"
  /\ dir' = [dir EXCEPT ![self[c].name] = IF @ = Absent THEN 0 ELSE @]
  /\ Frees(c)
  /\ Goes(c, "cloning")
  /\ UNCHANGED <<kept, file, excused>>

\* The guard owns the VM once lume has said that it made it
CloneGolden(c) ==
  /\ self[c].at = "cloning"
  /\ made < MaxClones
  /\ LET n == self[c].name
         Clones == vm[n] = Absent /\ vm' = [vm EXCEPT ![n] = made + 1] /\ made' = made + 1 IN
     \/ Clones /\ self' = [self EXCEPT ![c].at = "starting", ![c].has = made + 1]
     \/ "half" \in Trouble /\ Clones /\ Goes(c, "dropping")
     \/ /\ CloneFails(n, n)
        /\ Goes(c, "dropping")
        /\ UNCHANGED made
  /\ UNCHANGED <<disk, up, file, excused>>

\* lume run --detach
StartVm(c) ==
  /\ self[c].at = "starting"
  /\ \/ /\ vm[self[c].name] # Absent /\ up' = up \cup {self[c].name}
        /\ Goes(c, "readying") \/ (Breaks /\ Goes(c, "dropping"))
     \/ (Breaks \/ vm[self[c].name] = Absent) /\ UNCHANGED up /\ Goes(c, "dropping")
  /\ UNCHANGED <<disk, vm, made, file, excused>>

\* wait_until_ready, then find_by_command finds the process, or not
Find(c) ==
  /\ self[c].at = "readying"
  /\ \/ self[c].name \in up /\ Goes(c, "saving")
     \/ Goes(c, "dropping")
  /\ UNCHANGED <<disk, kept, file, excused>>

\* The lock again; save makes the directory if it is gone
SaveRecord(c) ==
  /\ self[c].at = "saving"
  /\ \/ lock = Absent /\ dir' = [dir EXCEPT ![self[c].name] = self[c].has] /\ Goes(c, "reaching")
     \/ lock # Absent /\ UNCHANGED dir /\ Goes(c, "dropping")
  /\ UNCHANGED <<lock, kept, file, excused>>

\* mutant: the refresh is forgotten
ReachEnds(c) ==
  /\ self[c].at = "reaching"
  /\ \/ Running(self[c].name) /\ Ends(c)
     \/ Goes(c, "dropping")
  /\ UNCHANGED <<disk, kept, file, excused>>

\* wait_until_reachable, which looks for the process; then the guard is told
Reach(c) ==
  /\ self[c].at = "reaching"
  /\ \/ /\ Running(self[c].name)
        /\ self' = [self EXCEPT ![c].at = "rendering", ![c].has = 0]
     \/ Goes(c, "dropping")
  /\ UNCHANGED <<disk, kept, file, excused>>

\* VmGuard::drop: through lume, by name, and the directory, without the lock
Drop(c) ==
  /\ self[c].at = "dropping"
  /\ IF self[c].has = 0 THEN UNCHANGED <<vm, up, excused>> ELSE Discard(self[c].name)
  /\ dir' = [dir EXCEPT ![self[c].name] = Absent]
  /\ Ends(c)
  /\ UNCHANGED <<lock, made, file>>

-----------------------------------------------------------------------------
(* destroy                                                                 *)

Begins(c, what, where, n, todo) ==
  /\ self[c].at = "idle"
  /\ self' = [self EXCEPT ![c].cmd = what, ![c].at = where, ![c].name = n, ![c].todo = todo]

DestroyOne(c) ==
  /\ lock = Absent /\ lock' = c
  /\ \E n \in Names : Recorded(n) /\ Begins(c, "destroy", "turning", Absent, {<<n, dir[n]>>})
  /\ UNCHANGED <<dir, kept, file, excused>>

DestroyAll(c) ==
  /\ lock = Absent /\ lock' = c
  /\ Begins(c, "destroy --all", "turning", Absent, Listing)
  /\ UNCHANGED <<dir, kept, file, excused>>

\* The next of the listing; debris has nothing to stop
Turn(c) ==
  /\ self[c].at = "turning"
  /\ \E e \in self[c].todo :
       self' = [self EXCEPT ![c].at = IF e[2] = 0 THEN "removing" ELSE "stopping",
                            ![c].name = e[1], ![c].todo = @ \ {e}]
  /\ UNCHANGED <<disk, kept, file, excused>>

\* Whether it was stopped does not matter, whether it was deleted does
StopVm(c) ==
  /\ self[c].at = "stopping"
  /\ Stopped(self[c].name) \/ StopFails(self[c].name)
  /\ Goes(c, "deleting")
  /\ UNCHANGED <<disk, vm, made, file, excused>>

\* mutant: nor does that
DeleteOrNot(c) ==
  /\ self[c].at = "deleting"
  /\ UNCHANGED up
  /\ Deleted(self[c].name) \/ DeleteFails(self[c].name)
  /\ Goes(c, "removing")
  /\ UNCHANGED <<disk, made, file, excused>>

\* An error leaves the record; --all goes on to the next
DeleteVm(c) ==
  /\ self[c].at = "deleting"
  /\ UNCHANGED up
  /\ \/ Deleted(self[c].name) /\ Goes(c, "removing") /\ UNCHANGED lock
     \/ /\ DeleteFails(self[c].name)
        /\ IF self[c].cmd = "destroy --all" THEN Goes(c, "turning") /\ UNCHANGED lock
           ELSE Ends(c) /\ Frees(c)
  /\ UNCHANGED <<dir, made, file, excused>>

RemoveRecord(c) ==
  /\ self[c].at = "removing"
  /\ dir' = [dir EXCEPT ![self[c].name] = Absent]
  /\ Goes(c, "turning")
  /\ UNCHANGED <<lock, kept, file, excused>>

Turned(c) ==
  /\ self[c].at = "turning" /\ self[c].todo = {}
  /\ Frees(c)
  /\ Goes(c, "rendering")
  /\ UNCHANGED <<dir, kept, file, excused>>

-----------------------------------------------------------------------------
(* promote_lume                                                            *)

\* exec::prepare wants it running; without --force the image must not be there
PromotePrepares(c) ==
  /\ \E n \in Names, how \in {"promote", "promote --force"} :
       /\ Begins(c, how, "locking", n, {})
       /\ Running(n)
       /\ "early" \in Trouble \/ \A d \in Clients : ~InHand(d, n)
       /\ vm[Image] # Absent => how = "promote --force"
  /\ UNCHANGED <<disk, kept, file, excused>>

PromoteLocks(c) ==
  /\ self[c].at = "locking"
  /\ \/ lock = Absent /\ lock' = c /\ Goes(c, "halting")
     \/ lock # Absent /\ UNCHANGED lock /\ Ends(c)
  /\ UNCHANGED <<dir, kept, file, excused>>

PromoteFails(c) == Ends(c) /\ Frees(c)

\* A failed stop ends it, here, as of a VM that is no more; so does signals::check
Halt(c) ==
  /\ self[c].at = "halting"
  /\ \/ vm[self[c].name] # Absent /\ Stopped(self[c].name) /\ Goes(c, "clearing") /\ UNCHANGED lock
     \/ (Stopped(self[c].name) \/ StopFails(self[c].name)) /\ PromoteFails(c)
  /\ UNCHANGED <<dir, vm, made, file, excused>>

\* --force drops the image there was, if lume lets it
ClearImage(c) ==
  /\ self[c].at = "clearing"
  /\ UNCHANGED up
  /\ \/ self[c].cmd = "promote --force" /\ (Deleted(Image) \/ DeleteFails(Image))
     \/ self[c].cmd = "promote" /\ UNCHANGED vm
  /\ Goes(c, "copying")
  /\ UNCHANGED <<disk, made, file, excused>>

\* mutant: promote goes on without its image
CopyOrNot(c) ==
  /\ self[c].at = "copying"
  /\ Cloned(self[c].name, Image) \/ CloneFails(self[c].name, Image)
  /\ Goes(c, "replacing")
  /\ UNCHANGED <<disk, up, made, file, excused>>

CopyVm(c) ==
  /\ self[c].at = "copying"
  /\ \/ Cloned(self[c].name, Image) /\ Goes(c, "replacing") /\ UNCHANGED lock
     \/ CloneFails(self[c].name, Image) /\ PromoteFails(c)
  /\ UNCHANGED <<dir, up, made, file, excused>>

PromoteKeeps(c) ==
  /\ self[c].at = "replacing"
  /\ Frees(c) /\ Goes(c, "rendering")
  /\ UNCHANGED <<dir, kept, file, excused>>

\* The VM, then its record
PromoteReplaces(c) ==
  /\ self[c].at = "replacing"
  /\ UNCHANGED up
  /\ \/ /\ Deleted(self[c].name) /\ dir' = [dir EXCEPT ![self[c].name] = Absent]
        /\ Frees(c) /\ Goes(c, "rendering")
     \/ DeleteFails(self[c].name) /\ UNCHANGED dir /\ PromoteFails(c)
  /\ UNCHANGED <<made, file, excused>>

-----------------------------------------------------------------------------
(* ls --prune, ssh-config, and the refresh that ends the others            *)

\* Without the lock
Prune(c) ==
  /\ Begins(c, "ls --prune", "reaping", Absent, Dead)
  /\ \/ "prune" \in Trouble
     \/ /\ lock = Absent
        /\ \A d \in Clients, n \in Names : ~InHand(d, n) /\ self[d].at # "locking"
  /\ UNCHANGED <<disk, kept, file, excused>>

SshConfig(c) ==
  /\ Begins(c, "ssh-config --write", "rendering", Absent, {})
  /\ UNCHANGED <<disk, kept, file, excused>>

\* render: the VMs that run. A refresh wants the file to be there already
Render(c) ==
  /\ self[c].at = "rendering"
  /\ "overlap" \in Trouble \/ \A d \in Clients : self[d].at # "writing"
  /\ IF file = Absent /\ self[c].cmd # "ssh-config --write" THEN Ends(c)
     ELSE self' = [self EXCEPT ![c].at = "writing",
                               ![c].view = {<<n, dir[n]>> : n \in {m \in Names : Running(m)}}]
  /\ UNCHANGED <<disk, kept, file, excused>>

\* write: a new file, renamed
Write(c) ==
  /\ self[c].at = "writing"
  /\ file' = self[c].view
  /\ Ends(c)
  /\ UNCHANGED <<disk, kept, excused>>

-----------------------------------------------------------------------------
\* The guest shuts down, or lume ends
GuestStops ==
  /\ \E n \in up : up' = up \ {n}
  /\ UNCHANGED <<disk, vm, made, file, self, excused>>

\* The operating system gives the lock back
Crash(c) ==
  /\ "crash" \in Trouble /\ self[c].at # "idle"
  /\ Frees(c)
  /\ excused' = IF self[c].cmd = "run" THEN excused \cup {vm[self[c].name]} ELSE excused
  /\ Ends(c)
  /\ UNCHANGED <<dir, kept, file>>

Init ==
  /\ dir = [n \in Names |-> Absent]
  /\ lock = Absent
  /\ vm = [n \in Names \cup {Image} |-> Absent]
  /\ up = {}
  /\ made = 0
  /\ file \in {Absent, {}}
  /\ self = [c \in Clients |-> Idle]
  /\ excused = {}

Run(c) ==
  \/ ChooseName(c) \/ Claim(c) \/ ReapOne(c) \/ Reaped(c) \/ MakeDir(c) \/ CloneGolden(c)
  \/ StartVm(c) \/ Find(c) \/ SaveRecord(c) \/ Reach(c) \/ Drop(c)

Destroy(c) ==
  \/ DestroyOne(c) \/ DestroyAll(c) \/ Turn(c) \/ StopVm(c) \/ DeleteVm(c) \/ RemoveRecord(c)
  \/ Turned(c)

Promote(c) ==
  \/ PromotePrepares(c) \/ PromoteLocks(c) \/ Halt(c) \/ ClearImage(c) \/ CopyVm(c)
  \/ PromoteKeeps(c) \/ PromoteReplaces(c)

Next ==
  \/ GuestStops
  \/ \E c \in Clients :
       Run(c) \/ Destroy(c) \/ Promote(c) \/ Prune(c) \/ SshConfig(c) \/ Render(c) \/ Write(c)
         \/ Crash(c)

Spec == Init /\ [][Next]_vars

-----------------------------------------------------------------------------
(* Properties                                                              *)

\* Every VM that lume keeps for vitro is one that vitro can name: a record does, or
\* the guard of the run that is making it; or it was left by a kill or a failure
\* that was told (run.rs:377-381, 404-407).
EveryVmNamed ==
  \A n \in Names :
    vm[n] # Absent => \/ Recorded(n) \/ vm[n] \in excused
                      \/ \E c \in Clients : self[c].has # 0 /\ self[c].name = n

\* A record names the VM that lume has under that name, if lume has one, so that
\* what destroy stops and deletes by name, and promote clones, is its own.
RecordNamesItsVm == \A n \in Names : Recorded(n) /\ vm[n] # Absent => vm[n] = dir[n]

\* promote deletes a VM only when its image is the VM it was asked for, and until
\* then nobody else does (promote.rs:70-72).
Promoting(n) ==
  \E c \in Clients : self[c].at \in {"clearing", "copying", "replacing"} /\ self[c].name = n
WorkKept ==
  [][ \A n \in Names : Promoting(n) /\ vm'[n] = Absent => vm'[Image] = vm[n] ]_vars

\* Once the file is there, a VM whose run has ended has its alias for as long as it
\* runs, whatever ran meanwhile, unless a kill kept a refresh from coming
\* (sshconfig.rs:160-163).
AliasStays ==
  file # Absent =>
    \A n \in Names :
      Running(n) /\ dir[n] \notin excused =>
        \/ <<n, dir[n]>> \in file
        \/ \E c \in Clients : self[c].cmd = "run" /\ self[c].name = n /\ self[c].at # "idle"
=============================================================================
