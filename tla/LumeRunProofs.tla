--------------------------- MODULE LumeRunProofs ---------------------------
(***************************************************************************)
(* macOS guests, for any number of clients, names and VMs: when calls fail *)
(* and vitro is killed at any point, the records and lume's own list stay  *)
(* in step.                                                                *)
(*                                                                         *)
(* The argument: no two runs have a name in common (Apart), so what a name *)
(* has no record of yet is its run's alone (Guards); a listing made under  *)
(* the lock, or of the dead, stays true of what is left of it (TodoTrue);  *)
(* so whoever deletes a directory has deleted its VM, has been told that   *)
(* lume would not, or finds no record in it.                               *)
(***************************************************************************)
EXTENDS LumeRun, TLAPS

USE LumeRunAssumption DEF LumeRunAssumption

\* What the properties do not survive, one by one: README.md, section 4
Steady == Trouble \cap {"half", "typed", "early", "prune", "overlap"} = {}

BeforeSave == {"claiming", "reaping", "making", "cloning", "starting", "readying", "saving"}
Turns == {"turning", "stopping", "deleting", "removing"}
Promotes == {"locking", "halting", "clearing", "copying", "replacing"}
Ending == {"rendering", "writing"}
Places == {"idle", "claiming", "reaping", "making", "cloning", "starting", "readying", "saving", "reaching",
           "dropping", "turning", "stopping", "deleting", "removing", "locking", "halting", "clearing",
           "copying", "replacing", "rendering", "writing"}
Cmds == {"none", "run", "destroy", "destroy --all", "promote", "promote --force", "ls --prune",
         "ssh-config --write"}
Unlocked == {"idle", "claiming", "cloning", "starting", "readying", "saving", "reaching", "dropping",
             "locking"} \cup Ending

Numbers == 0..MaxClones
Client == [cmd : Cmds, at : Places, name : Names \cup {Absent}, has : Numbers,
           todo : SUBSET (Names \X Numbers), view : SUBSET (Names \X Numbers)]

\* The places of a command
Fits(s) ==
  \/ s.cmd = "none" /\ s.at = "idle"
  \/ s.cmd = "run" /\ s.at \in BeforeSave \cup {"reaching", "dropping"} \cup Ending
  \/ s.cmd \in {"destroy", "destroy --all"} /\ s.at \in Turns \cup Ending
  \/ s.cmd \in {"promote", "promote --force"} /\ s.at \in Promotes \cup Ending
  \/ s.cmd = "ls --prune" /\ s.at \in {"reaping"} \cup Ending
  \/ s.cmd = "ssh-config --write" /\ s.at \in Ending

Runs(c) == self[c].cmd = "run"
Pruning(c) == self[c].cmd = "ls --prune" /\ self[c].at = "reaping"
PromotesIt(c, n) == self[c].at \in Promotes /\ self[c].name = n

RunTypeOK ==
  /\ dir \in [Names -> Numbers \cup {Absent}]
  /\ lock \in Clients \cup {Absent}
  /\ vm \in [Names \cup {Image} -> Vms \cup {Absent}]
  /\ up \subseteq Names
  /\ made \in Numbers
  /\ self \in [Clients -> Client]

Placed(c) ==
  /\ Fits(self[c])
  /\ self[c].at = "idle" => self[c] = Idle
  /\ ~Runs(c) => self[c].has = 0
  /\ Runs(c) \/ self[c].at \in {"stopping", "deleting", "removing"} \cup Promotes => self[c].name \in Names
  /\ self[c].todo # {} => self[c].at \in Turns \cup {"reaping"}
  /\ self[c].at \in Unlocked \/ Pruning(c) \/ lock = c

\* A listing is of what there is, or of what somebody else has removed since
TodoTrue(c) ==
  \A e \in self[c].todo : dir[e[1]] \in {e[2], Absent} /\ (Pruning(c) => ~Running(e[1]))

\* A run's name is not recorded before it records it, and lume has the guard's VM under it
Guards(c) ==
  Runs(c) =>
    /\ self[c].at \in BeforeSave => ~Recorded(self[c].name)
    /\ self[c].at \in {"claiming", "reaping", "making", "cloning"} \cup Ending => self[c].has = 0
    /\ self[c].at \in {"starting", "readying", "saving", "reaching"} => self[c].has # 0
    /\ self[c].has # 0 => vm[self[c].name] \in {Absent, self[c].has}
    /\ self[c].at = "dropping" /\ self[c].has = 0 => ~Recorded(self[c].name)

Deletes(c) == self[c].at = "removing" => vm[self[c].name] = Absent \/ ~Recorded(self[c].name)

Copies(c) ==
  /\ self[c].at \in {"clearing", "copying", "replacing"} => vm[self[c].name] # Absent
  /\ self[c].at = "replacing" => vm[Image] = vm[self[c].name]

\* What is about to be written has every VM that runs, but for those whose run will
\* refresh the file later
Sees(c) ==
  self[c].at = "writing" =>
    \A n \in Names : Running(n) /\ dir[n] \notin excused =>
      <<n, dir[n]>> \in self[c].view \/ \E d \in Clients \ {c} : Runs(d) /\ self[d].name = n

Own(c) == Placed(c) /\ TodoTrue(c) /\ Guards(c) /\ Deletes(c) /\ Copies(c)

Apart(c, d) ==
  /\ Runs(c) /\ Runs(d) => self[c].name # self[d].name
  /\ Pruning(c) => \A e \in self[c].todo : ~InHand(d, e[1]) /\ ~PromotesIt(d, e[1])
  /\ self[c].at \in Promotes => ~InHand(d, self[c].name)
  /\ self[c].at = "writing" => self[d].at # "writing"

RInv ==
  /\ RunTypeOK
  /\ \A c \in Clients : Own(c) /\ Sees(c)
  /\ \A c \in Clients : \A d \in Clients \ {c} : Apart(c, d)
  /\ EveryVmNamed /\ RecordNamesItsVm /\ AliasStays

-----------------------------------------------------------------------------
(* What one step of a client can do                                        *)

\* Who may remove a directory, or have lume delete the VM of that name
MayRemove(c, n) ==
  \/ InHand(c, n) /\ self[c].at = "dropping"
  \/ self[c].at = "reaping" /\ \E e \in self[c].todo : e[1] = n
  \/ self[c].at \in {"deleting", "removing", "replacing"} /\ self[c].name = n

\* The run of n is at a place of its own
RunAt(c, n, where) == Runs(c) /\ self[c].at = where /\ self[c].name = n

DirStep(c) ==
  \A n \in Names :
    \/ dir'[n] = dir[n]
    \/ dir'[n] = Absent /\ MayRemove(c, n)
    \/ dir'[n] = 0 /\ dir[n] = Absent /\ RunAt(c, n, "making")
    \/ dir'[n] = self[c].has /\ lock = Absent /\ RunAt(c, n, "saving") /\ RunAt(c, n, "reaching")'

VmStep(c) ==
  /\ \A n \in Names :
       \/ vm'[n] = vm[n]
       \/ vm'[n] = Absent /\ MayRemove(c, n)
       \/ vm[n] = Absent /\ RunAt(c, n, "cloning")
  /\ vm'[Image] = vm[Image] \/ self[c].at \in {"clearing", "copying"}

Others(c) == \A d \in Clients \ {c} : self'[d] = self[d]

Effect(c) ==
  /\ Others(c)
  /\ lock' = lock \/ (lock = Absent /\ lock' = c) \/ (lock = c /\ lock' = Absent)
  /\ DirStep(c) /\ VmStep(c)
  /\ \A n \in up' \ up : RunAt(c, n, "starting")
  /\ excused \subseteq excused'

\* A VM of that name is no more, or somebody was told of it
Told(n) == vm'[n] = Absent \/ vm'[n] \in excused'

\* Neither a record nor a guard is given up while its VM is left, and a new VM has a guard
Accounts(c) ==
  \A n \in Names :
    /\ Recorded(n) => Recorded(n)' \/ Told(n)
    /\ self[c].has # 0 /\ self[c].name = n =>
         (self'[c].has # 0 /\ self'[c].name = n) \/ Recorded(n)' \/ Told(n)
    /\ vm'[n] \in {vm[n], Absent} \/ (self'[c].has # 0 /\ self'[c].name = n)

\* A run ends with its refresh, or its VM does not run or was left by a kill
Leaves(c) ==
  \A n \in Names :
    Runs(c) /\ self[c].name = n =>
      \/ Runs(c)' /\ self'[c].name = n
      \/ ~Running(n)' \/ dir'[n] \in excused'
      \/ file' = Absent /\ \A d \in Clients : self[d].at # "writing"
      \/ Write(c)

\* The steps after which nobody is nearer to a name than before
Quiet(c) ==
  /\ Runs(c)' => Runs(c) /\ self'[c].name = self[c].name /\ (self'[c].at \in Busy => self[c].at \in Busy)
  /\ self'[c].at \in Promotes => self[c].at \in Promotes /\ self'[c].name = self[c].name
  /\ Pruning(c)' => Pruning(c) /\ self'[c].todo \subseteq self[c].todo
  /\ self'[c].at # "writing"

Step(c) == Run(c) \/ Destroy(c) \/ Promote(c) \/ Prune(c) \/ SshConfig(c) \/ Render(c) \/ Write(c) \/ Crash(c)

-----------------------------------------------------------------------------
(* The client whose step it is                                             *)

SelfOK == self' \in [Clients -> Client]

LEMMA GoesTo ==
  ASSUME RunTypeOK, NEW c \in Clients, NEW to \in Places, Goes(c, to)
  PROVE  /\ Others(c) /\ SelfOK
         /\ self'[c].cmd = self[c].cmd /\ self'[c].at = to /\ self'[c].name = self[c].name
         /\ self'[c].has = self[c].has /\ self'[c].todo = self[c].todo /\ self'[c].view = self[c].view
BY DEF RunTypeOK, Client, Goes, Others, SelfOK

LEMMA EndsNow ==
  ASSUME RunTypeOK, NEW c \in Clients, Ends(c)
  PROVE  Others(c) /\ SelfOK /\ self'[c] = Idle
<1>1. Idle \in Client
  BY DEF Client, Idle, Numbers, Cmds, Places
<1> QED BY <1>1 DEF RunTypeOK, Ends, Others, SelfOK

LEMMA BeginsAs ==
  ASSUME RunTypeOK, NEW c \in Clients, NEW what \in Cmds, NEW where \in Places,
         NEW n \in Names \cup {Absent}, NEW todo \in SUBSET (Names \X Numbers),
         Begins(c, what, where, n, todo)
  PROVE  /\ Others(c) /\ SelfOK /\ self[c].at = "idle"
         /\ self'[c].cmd = what /\ self'[c].at = where /\ self'[c].name = n /\ self'[c].todo = todo
         /\ self'[c].has = self[c].has /\ self'[c].view = self[c].view
<1> DEFINE s == [self[c] EXCEPT !.cmd = what, !.at = where, !.name = n, !.todo = todo]
<1>1. self[c] \in Client /\ self \in [Clients -> Client]
  BY DEF RunTypeOK
<1>2. /\ s \in Client /\ s.cmd = what /\ s.at = where /\ s.name = n /\ s.todo = todo
      /\ s.has = self[c].has /\ s.view = self[c].view
  BY <1>1 DEF Client
<1>3. self' = [self EXCEPT ![c] = s] /\ self[c].at = "idle"
  BY <1>1 DEF Begins
<1> HIDE DEF s
<1> QED BY <1>1, <1>2, <1>3 DEF Others, SelfOK

LEMMA Listings ==
  ASSUME RunTypeOK
  PROVE  /\ Listing \in SUBSET (Names \X Numbers) /\ Dead \in SUBSET (Names \X Numbers)
         /\ \A e \in Listing : e[1] \in Names /\ dir[e[1]] = e[2]
         /\ \A e \in Dead : e[1] \in Names /\ dir[e[1]] = e[2] /\ ~Running(e[1])
<1>1. \A e \in Listing : \E n \in Names : e = <<n, dir[n]>> /\ dir[n] \in Numbers
  <2>1. \A n \in Names : dir[n] # Absent => dir[n] \in Numbers
    BY DEF RunTypeOK
  <2> QED BY <2>1 DEF Listing
<1>2. Dead \subseteq Listing /\ \A e \in Dead : ~Running(e[1])
  BY DEF Dead
<1>3. \A e \in Listing : e \in Names \X Numbers /\ e[1] \in Names /\ dir[e[1]] = e[2]
  BY <1>1
<1> QED BY <1>2, <1>3

Good(c) == RunTypeOK' /\ Effect(c) /\ Accounts(c) /\ Leaves(c) /\ Own(c)'

\* Where a client is says what it is and has
Located(c) ==
  /\ self[c].has \in Numbers /\ self[c].todo \in SUBSET (Names \X Numbers) /\ Idle \in Client
  /\ self[c].at \in {"claiming", "making", "cloning", "starting", "readying", "saving", "reaching", "dropping"}
       => Runs(c) /\ self[c].name \in Names /\ self[c].todo = {}
  /\ self[c].at = "reaping" => (Runs(c) /\ lock = c /\ self[c].name \in Names) \/ (Pruning(c) /\ ~Runs(c))
  /\ self[c].at \in Turns \cup Promotes => ~Runs(c) /\ self[c].has = 0 /\ ~Pruning(c)
  /\ self[c].at \in {"making", "turning", "stopping", "deleting", "removing", "halting", "clearing",
                     "copying", "replacing"} => lock = c
  /\ self[c].at \in {"stopping", "deleting", "removing"} \cup Promotes => self[c].name \in Names
  /\ self[c].at \in Promotes \cup Ending => self[c].todo = {}
  /\ self[c].at \in Ending => self[c].has = 0
  /\ Runs(c) => self[c].name \in Names
  /\ self[c].at = "idle" => self[c] = Idle /\ self[c].has = 0 /\ self[c].cmd = "none"

LEMMA IdleSays ==
  /\ Idle.cmd = "none" /\ Idle.at = "idle" /\ Idle.name = Absent /\ Idle.has = 0
  /\ Idle.todo = {} /\ Idle.view = {}
BY DEF Idle

LEMMA Locates ==
  ASSUME RInv, NEW c \in Clients
  PROVE  RunTypeOK /\ Own(c) /\ Located(c) /\ c # Absent /\ Image \notin Names
<1>1. RunTypeOK /\ Own(c)
  BY DEF RInv
<1>2. /\ self[c].has \in Numbers /\ self[c].todo \in SUBSET (Names \X Numbers)
  BY <1>1 DEF RunTypeOK, Client
<1>3. Idle \in Client
  BY DEF Client, Idle, Numbers, Cmds, Places
<1>4. self[c].at = "idle" => self[c] = Idle /\ self[c].has = 0 /\ self[c].cmd = "none"
  BY <1>1, IdleSays DEF Own, Placed
<1> QED BY <1>1, <1>2, <1>3, <1>4 DEF Located, Own, Placed, Guards, Fits, Runs, Pruning,
           BeforeSave, Turns, Promotes, Ending, Unlocked

LEMMA IdleIsOwn ==
  ASSUME NEW c \in Clients, self'[c] = Idle
  PROVE  Own(c)'
BY DEF Own, Placed, TodoTrue, Guards, Deletes, Copies, Fits, Runs, Pruning, Idle, Unlocked,
   Promotes

LEMMA FromIdle ==
  ASSUME NEW c \in Clients, self[c] = Idle, UNCHANGED <<dir, vm, excused>>
  PROVE  Accounts(c) /\ Leaves(c)
BY DEF Accounts, Leaves, Recorded, Runs, Told, Idle

LEMMA Becomes ==
  ASSUME RunTypeOK, NEW c \in Clients, NEW s \in Client, self' = [self EXCEPT ![c] = s]
  PROVE  Others(c) /\ SelfOK /\ self'[c] = s
BY DEF RunTypeOK, Others, SelfOK

LEMMA ReapedDoes ==
  ASSUME Steady, RInv, NEW c \in Clients, Reaped(c)
  PROVE  Good(c)
<1>0. RunTypeOK /\ Own(c) /\ Located(c) /\ c # Absent /\ Image \notin Names
  BY Locates
<1>1. Others(c) /\ SelfOK /\ (self'[c] = Idle \/ self'[c].at \in Places)
  BY <1>0, GoesTo, EndsNow DEF Reaped, Places
<1>2. RunTypeOK'
  BY <1>0, <1>1 DEF Reaped, RunTypeOK, SelfOK, Frees, disk, kept
<1>3. Effect(c)
  BY <1>0, <1>1, GoesTo DEF Reaped, Effect, DirStep, VmStep, Frees, disk, kept, Located, RunAt,
     Runs, MayRemove
<1>4. Accounts(c) /\ Leaves(c)
  BY <1>0, <1>1, GoesTo, EndsNow DEF Reaped, Accounts, Leaves, disk, kept, Own, Located, Guards,
     Deletes, Runs, Recorded, Running, Told, BeforeSave, Turns, Promotes, Ending, Unlocked, Places
<1>5. Own(c)'
  <2>1. CASE self'[c] = Idle
    BY <2>1, IdleIsOwn
  <2>2. CASE self'[c] # Idle
    <3>1. Placed(c)' /\ TodoTrue(c)'
      BY <1>0, <1>1, <1>2, <2>2, GoesTo, EndsNow DEF Reaped, Own, disk, kept, Placed, TodoTrue,
         Fits, Runs, Pruning, Located, Recorded, Running, BeforeSave, Turns, Promotes, Ending,
         Unlocked, Places
    <3>2. Guards(c)' /\ Deletes(c)' /\ Copies(c)'
      BY <1>0, <1>1, <1>2, <2>2, GoesTo, EndsNow DEF Reaped, Own, disk, kept, Guards, Deletes,
         Copies, Runs, Located, Recorded, BeforeSave, Turns, Promotes, Ending, Places
    <3> QED BY <3>1, <3>2 DEF Own
  <2> QED BY <2>1, <2>2
<1> QED BY <1>2, <1>3, <1>4, <1>5 DEF Good

LEMMA MakeDirDoes ==
  ASSUME Steady, RInv, NEW c \in Clients, MakeDir(c)
  PROVE  Good(c)
<1>0. RunTypeOK /\ Own(c) /\ Located(c) /\ c # Absent /\ Image \notin Names
  BY Locates
<1>1. Others(c) /\ SelfOK /\ (self'[c] = Idle \/ self'[c].at \in Places)
  BY <1>0, GoesTo, EndsNow DEF MakeDir, Places
<1>2. RunTypeOK'
  BY <1>0, <1>1 DEF MakeDir, RunTypeOK, SelfOK, Frees, disk, kept, Located, Numbers
<1>3. Effect(c)
  BY <1>0, <1>1, GoesTo DEF MakeDir, Effect, DirStep, VmStep, Frees, disk, kept, Located, RunAt,
     Runs, MayRemove
<1>4. Accounts(c) /\ Leaves(c)
  BY <1>0, <1>1, GoesTo, EndsNow DEF MakeDir, Accounts, Leaves, disk, kept, Own, Located, Guards,
     Deletes, Runs, Recorded, Running, Told, BeforeSave, Turns, Promotes, Ending, Unlocked
<1>5. Own(c)'
  <2>1. CASE self'[c] = Idle
    BY <2>1, IdleIsOwn
  <2>2. CASE self'[c] # Idle
    <3>1. Placed(c)' /\ TodoTrue(c)'
      BY <1>0, <1>1, <1>2, <2>2, GoesTo, EndsNow DEF MakeDir, Own, disk, kept, Placed, TodoTrue,
         Fits, Runs, Pruning, Located, Recorded, Running, BeforeSave, Turns, Promotes, Ending,
         Unlocked, Places
    <3>2. Guards(c)' /\ Deletes(c)' /\ Copies(c)'
      BY <1>0, <1>1, <1>2, <2>2, GoesTo, EndsNow DEF MakeDir, Own, disk, kept, Guards, Deletes,
         Copies, Runs, Located, Recorded, BeforeSave, Turns, Promotes, Ending, Places
    <3> QED BY <3>1, <3>2 DEF Own
  <2> QED BY <2>1, <2>2
<1> QED BY <1>2, <1>3, <1>4, <1>5 DEF Good

LEMMA StartVmDoes ==
  ASSUME Steady, RInv, NEW c \in Clients, StartVm(c)
  PROVE  Good(c)
<1>0. RunTypeOK /\ Own(c) /\ Located(c) /\ c # Absent /\ Image \notin Names
  BY Locates
<1>1. Others(c) /\ SelfOK /\ (self'[c] = Idle \/ self'[c].at \in Places)
  BY <1>0, GoesTo, EndsNow DEF StartVm, Places
<1>2. RunTypeOK'
  BY <1>0, <1>1 DEF StartVm, RunTypeOK, SelfOK, Frees, disk, Located
<1>3. Effect(c)
  BY <1>0, <1>1, GoesTo DEF StartVm, Effect, DirStep, VmStep, Frees, disk, kept, Located, RunAt,
     Runs, MayRemove
<1>4. Accounts(c) /\ Leaves(c)
  BY <1>0, <1>1, GoesTo, EndsNow DEF StartVm, Accounts, Leaves, disk, kept, Own, Located, Guards,
     Deletes, Runs, Recorded, Running, Told, BeforeSave, Turns, Promotes, Ending, Unlocked, Places
<1>5. Own(c)'
  <2>1. CASE self'[c] = Idle
    BY <2>1, IdleIsOwn
  <2>2. CASE self'[c] # Idle
    <3>1. Placed(c)' /\ TodoTrue(c)'
      BY <1>0, <1>1, <1>2, <2>2, GoesTo, EndsNow DEF StartVm, Own, disk, kept, Placed, TodoTrue,
         Fits, Runs, Pruning, Located, Recorded, Running, BeforeSave, Turns, Promotes, Ending,
         Unlocked, Places
    <3>2. Guards(c)' /\ Deletes(c)' /\ Copies(c)'
      BY <1>0, <1>1, <1>2, <2>2, GoesTo, EndsNow DEF StartVm, Own, disk, kept, Guards, Deletes,
         Copies, Runs, Located, Recorded, BeforeSave, Turns, Promotes, Ending, Places
    <3> QED BY <3>1, <3>2 DEF Own
  <2> QED BY <2>1, <2>2
<1> QED BY <1>2, <1>3, <1>4, <1>5 DEF Good

LEMMA FindDoes ==
  ASSUME Steady, RInv, NEW c \in Clients, Find(c)
  PROVE  Good(c)
<1>0. RunTypeOK /\ Own(c) /\ Located(c) /\ c # Absent /\ Image \notin Names
  BY Locates
<1>1. Others(c) /\ SelfOK /\ (self'[c] = Idle \/ self'[c].at \in Places)
  BY <1>0, GoesTo, EndsNow DEF Find, Places
<1>2. RunTypeOK'
  BY <1>0, <1>1 DEF Find, RunTypeOK, SelfOK, Frees, disk, kept
<1>3. Effect(c)
  BY <1>0, <1>1, GoesTo DEF Find, Effect, DirStep, VmStep, Frees, disk, kept, Located, RunAt,
     Runs, MayRemove
<1>4. Accounts(c) /\ Leaves(c)
  BY <1>0, <1>1, GoesTo, EndsNow DEF Find, Accounts, Leaves, disk, kept, Own, Located, Guards,
     Deletes, Runs, Recorded, Running, Told, BeforeSave, Turns, Promotes, Ending, Unlocked, Places
<1>5. Own(c)'
  <2>1. CASE self'[c] = Idle
    BY <2>1, IdleIsOwn
  <2>2. CASE self'[c] # Idle
    <3>1. Placed(c)' /\ TodoTrue(c)'
      BY <1>0, <1>1, <1>2, <2>2, GoesTo, EndsNow DEF Find, Own, disk, kept, Placed, TodoTrue,
         Fits, Runs, Pruning, Located, Recorded, Running, BeforeSave, Turns, Promotes, Ending,
         Unlocked, Places
    <3>2. Guards(c)' /\ Deletes(c)' /\ Copies(c)'
      BY <1>0, <1>1, <1>2, <2>2, GoesTo, EndsNow DEF Find, Own, disk, kept, Guards, Deletes,
         Copies, Runs, Located, Recorded, BeforeSave, Turns, Promotes, Ending, Places
    <3> QED BY <3>1, <3>2 DEF Own
  <2> QED BY <2>1, <2>2
<1> QED BY <1>2, <1>3, <1>4, <1>5 DEF Good

LEMMA SaveRecordDoes ==
  ASSUME Steady, RInv, NEW c \in Clients, SaveRecord(c)
  PROVE  Good(c)
<1>0. RunTypeOK /\ Own(c) /\ Located(c) /\ c # Absent /\ Image \notin Names
  BY Locates
<1>1. Others(c) /\ SelfOK /\ (self'[c] = Idle \/ self'[c].at \in Places)
  BY <1>0, GoesTo, EndsNow DEF SaveRecord, Places
<1>2. RunTypeOK'
  BY <1>0, <1>1 DEF SaveRecord, RunTypeOK, SelfOK, Frees, disk, kept, Located
<1>3. Effect(c)
  BY <1>0, <1>1, GoesTo DEF SaveRecord, Effect, DirStep, VmStep, Frees, disk, kept, Located,
     RunAt, Runs, MayRemove, RunTypeOK, Places
<1>4. Accounts(c) /\ Leaves(c)
  BY <1>0, <1>1, GoesTo, EndsNow DEF SaveRecord, Accounts, Leaves, disk, kept, Own, Located,
     Guards, Deletes, Runs, Recorded, Running, Told, BeforeSave, Turns, Promotes, Ending,
     Unlocked, RunTypeOK, Places
<1>5. Own(c)'
  <2>1. CASE self'[c] = Idle
    BY <2>1, IdleIsOwn
  <2>2. CASE self'[c] # Idle
    <3>1. Placed(c)' /\ TodoTrue(c)'
      BY <1>0, <1>1, <1>2, <2>2, GoesTo, EndsNow DEF SaveRecord, Own, disk, kept, Placed,
         TodoTrue, Fits, Runs, Pruning, Located, Recorded, Running, BeforeSave, Turns, Promotes,
         Ending, Unlocked, Places
    <3>2. Guards(c)' /\ Deletes(c)' /\ Copies(c)'
      BY <1>0, <1>1, <1>2, <2>2, GoesTo, EndsNow DEF SaveRecord, Own, disk, kept, Guards, Deletes,
         Copies, Runs, Located, Recorded, BeforeSave, Turns, Promotes, Ending, Places
    <3> QED BY <3>1, <3>2 DEF Own
  <2> QED BY <2>1, <2>2
<1> QED BY <1>2, <1>3, <1>4, <1>5 DEF Good

LEMMA DropDoes ==
  ASSUME Steady, RInv, NEW c \in Clients, Drop(c)
  PROVE  Good(c)
<1>0. RunTypeOK /\ Own(c) /\ Located(c) /\ c # Absent /\ Image \notin Names
  BY Locates
<1>1. Others(c) /\ SelfOK /\ (self'[c] = Idle \/ self'[c].at \in Places)
  BY <1>0, GoesTo, EndsNow DEF Drop, Discard, Stopped
<1>2. RunTypeOK'
  BY <1>0, <1>1 DEF Drop, Discard, Stopped, StopFails, Deleted, DeleteFails, RunTypeOK, SelfOK,
     Frees, disk
<1>3. Effect(c)
  BY <1>0, <1>1, GoesTo DEF Drop, Discard, Stopped, StopFails, Deleted, DeleteFails, Effect,
     DirStep, VmStep, Frees, disk, kept, Located, RunAt, Runs, MayRemove, InHand, Busy, RunTypeOK
<1>4. Accounts(c) /\ Leaves(c)
  BY <1>0, <1>1, GoesTo, EndsNow DEF Drop, Discard, Stopped, StopFails, Deleted, DeleteFails,
     Accounts, Leaves, disk, kept, Own, Located, Guards, Deletes, Runs, Recorded, Running, Told,
     BeforeSave, Turns, Promotes, Ending, Unlocked, RunTypeOK
<1>5. Own(c)'
  <2>1. CASE self'[c] = Idle
    BY <2>1, IdleIsOwn
  <2>2. CASE self'[c] # Idle
    <3>1. Placed(c)' /\ TodoTrue(c)'
      BY <1>0, <1>1, <1>2, <2>2, GoesTo, EndsNow DEF Drop, Discard, Stopped, StopFails, Deleted,
         DeleteFails, Own, disk, kept, Placed, TodoTrue, Fits, Runs, Pruning, Located, Recorded,
         Running, BeforeSave, Turns, Promotes, Ending, Unlocked
    <3>2. Guards(c)' /\ Deletes(c)' /\ Copies(c)'
      BY <1>0, <1>1, <1>2, <2>2, GoesTo, EndsNow DEF Drop, Discard, Stopped, StopFails, Deleted,
         DeleteFails, Own, disk, kept, Guards, Deletes, Copies, Runs, Located, Recorded,
         BeforeSave, Turns, Promotes, Ending
    <3> QED BY <3>1, <3>2 DEF Own
  <2> QED BY <2>1, <2>2
<1> QED BY <1>2, <1>3, <1>4, <1>5 DEF Good

LEMMA StopVmDoes ==
  ASSUME Steady, RInv, NEW c \in Clients, StopVm(c)
  PROVE  Good(c)
<1>0. RunTypeOK /\ Own(c) /\ Located(c) /\ c # Absent /\ Image \notin Names
  BY Locates
<1>1. Others(c) /\ SelfOK /\ (self'[c] = Idle \/ self'[c].at \in Places)
  BY <1>0, GoesTo, EndsNow DEF StopVm, Places
<1>2. RunTypeOK'
  BY <1>0, <1>1 DEF StopVm, Stopped, StopFails, RunTypeOK, SelfOK, Frees, disk
<1>3. Effect(c)
  BY <1>0, <1>1, GoesTo DEF StopVm, Stopped, StopFails, Effect, DirStep, VmStep, Frees, disk,
     kept, Located, RunAt, Runs, MayRemove
<1>4. Accounts(c) /\ Leaves(c)
  BY <1>0, <1>1, GoesTo, EndsNow DEF StopVm, Stopped, StopFails, Accounts, Leaves, disk, kept,
     Own, Located, Guards, Deletes, Runs, Recorded, Running, Told, BeforeSave, Turns, Promotes,
     Ending, Unlocked
<1>5. Own(c)'
  <2>1. CASE self'[c] = Idle
    BY <2>1, IdleIsOwn
  <2>2. CASE self'[c] # Idle
    <3>1. Placed(c)' /\ TodoTrue(c)'
      BY <1>0, <1>1, <1>2, <2>2, GoesTo, EndsNow DEF StopVm, Stopped, StopFails, Own, disk, kept,
         Placed, TodoTrue, Fits, Runs, Pruning, Located, Recorded, Running, BeforeSave, Turns,
         Promotes, Ending, Unlocked, Places
    <3>2. Guards(c)' /\ Deletes(c)' /\ Copies(c)'
      BY <1>0, <1>1, <1>2, <2>2, GoesTo, EndsNow DEF StopVm, Stopped, StopFails, Own, disk, kept,
         Guards, Deletes, Copies, Runs, Located, Recorded, BeforeSave, Turns, Promotes, Ending,
         Places
    <3> QED BY <3>1, <3>2 DEF Own
  <2> QED BY <2>1, <2>2
<1> QED BY <1>2, <1>3, <1>4, <1>5 DEF Good

LEMMA DeleteVmDoes ==
  ASSUME Steady, RInv, NEW c \in Clients, DeleteVm(c)
  PROVE  Good(c)
<1>0. RunTypeOK /\ Own(c) /\ Located(c) /\ c # Absent /\ Image \notin Names
  BY Locates
<1>1. Others(c) /\ SelfOK /\ (self'[c] = Idle \/ self'[c].at \in Places)
  BY <1>0, GoesTo, EndsNow DEF DeleteVm, Places
<1>2. RunTypeOK'
  BY <1>0, <1>1 DEF DeleteVm, Deleted, DeleteFails, RunTypeOK, SelfOK, Frees, disk
<1>3. Effect(c)
  BY <1>0, <1>1, GoesTo DEF DeleteVm, Deleted, DeleteFails, Effect, DirStep, VmStep, Frees, disk,
     kept, Located, RunAt, Runs, MayRemove, RunTypeOK
<1>4. Accounts(c) /\ Leaves(c)
  BY <1>0, <1>1, GoesTo, EndsNow DEF DeleteVm, Deleted, DeleteFails, Accounts, Leaves, disk, kept,
     Own, Located, Guards, Deletes, Runs, Recorded, Running, Told, BeforeSave, Turns, Promotes,
     Ending, Unlocked, RunTypeOK
<1>5. Own(c)'
  <2>1. CASE self'[c] = Idle
    BY <2>1, IdleIsOwn
  <2>2. CASE self'[c] # Idle
    <3>1. Placed(c)' /\ TodoTrue(c)'
      BY <1>0, <1>1, <1>2, <2>2, GoesTo, EndsNow DEF DeleteVm, Deleted, DeleteFails, Own, disk,
         kept, Placed, TodoTrue, Fits, Runs, Pruning, Located, Recorded, Running, BeforeSave,
         Turns, Promotes, Ending, Unlocked, Places
    <3>2. Guards(c)' /\ Copies(c)'
      BY <1>0, <1>1, <2>2, GoesTo, EndsNow DEF DeleteVm, Guards, Copies, Runs, Located, Turns,
         Places
    <3>3. Deletes(c)'
      <4>1. CASE Deleted(self[c].name) /\ Goes(c, "removing")
        <5>1. vm'[self[c].name] = Absent
          BY <1>0, <4>1 DEF DeleteVm, Deleted, Located, RunTypeOK
        <5> QED BY <1>0, <4>1, <5>1, GoesTo DEF Deletes, Places
      <4>2. CASE Goes(c, "turning")
        BY <1>0, <4>2, GoesTo DEF Deletes, Places
      <4> QED BY <1>0, <2>2, <4>1, <4>2, EndsNow DEF DeleteVm
    <3> QED BY <3>1, <3>2, <3>3 DEF Own
  <2> QED BY <2>1, <2>2
<1> QED BY <1>2, <1>3, <1>4, <1>5 DEF Good

LEMMA RemoveRecordDoes ==
  ASSUME Steady, RInv, NEW c \in Clients, RemoveRecord(c)
  PROVE  Good(c)
<1>0. RunTypeOK /\ Own(c) /\ Located(c) /\ c # Absent /\ Image \notin Names
  BY Locates
<1>1. Others(c) /\ SelfOK /\ (self'[c] = Idle \/ self'[c].at \in Places)
  BY <1>0, GoesTo, EndsNow DEF RemoveRecord, Places
<1>2. RunTypeOK'
  BY <1>0, <1>1 DEF RemoveRecord, RunTypeOK, SelfOK, Frees, disk, kept
<1>3. Effect(c)
  BY <1>0, <1>1, GoesTo DEF RemoveRecord, Effect, DirStep, VmStep, Frees, disk, kept, Located,
     RunAt, Runs, MayRemove
<1>4. Accounts(c) /\ Leaves(c)
  BY <1>0, <1>1, GoesTo, EndsNow DEF RemoveRecord, Accounts, Leaves, disk, kept, Own, Located,
     Guards, Deletes, Runs, Recorded, Running, Told, BeforeSave, Turns, Promotes, Ending, Unlocked
<1>5. Own(c)'
  <2>1. CASE self'[c] = Idle
    BY <2>1, IdleIsOwn
  <2>2. CASE self'[c] # Idle
    <3>a. /\ self'[c].cmd = self[c].cmd /\ self'[c].at = "turning" /\ self'[c].has = self[c].has
          /\ self'[c].todo = self[c].todo
      BY <1>0, GoesTo DEF RemoveRecord, Places
    <3>b. ~Pruning(c)' /\ ~Runs(c)'
      BY <1>0, <3>a DEF RemoveRecord, Pruning, Runs, Located, Turns
    <3>1. Placed(c)'
      BY <1>0, <3>a, <3>b, <2>2 DEF RemoveRecord, kept, Own, Placed, Fits, Located, BeforeSave,
         Turns, Promotes, Ending
    <3>c. TodoTrue(c)'
      <4>1. \A e \in self'[c].todo : e[1] \in Names /\ dir[e[1]] \in {e[2], Absent}
        BY <1>0, <3>a DEF Own, TodoTrue, Located
      <4>2. \A n \in Names : dir'[n] \in {dir[n], Absent}
        BY <1>0 DEF RemoveRecord, RunTypeOK
      <4> QED BY <3>b, <4>1, <4>2 DEF TodoTrue
    <3>2. Guards(c)' /\ Deletes(c)' /\ Copies(c)'
      BY <1>0, <1>1, <1>2, <2>2, GoesTo, EndsNow DEF RemoveRecord, Own, disk, kept, Guards,
         Deletes, Copies, Runs, Located, Recorded, BeforeSave, Turns, Promotes, Ending, Places
    <3> QED BY <3>1, <3>c, <3>2 DEF Own
  <2> QED BY <2>1, <2>2
<1> QED BY <1>2, <1>3, <1>4, <1>5 DEF Good

LEMMA TurnedDoes ==
  ASSUME Steady, RInv, NEW c \in Clients, Turned(c)
  PROVE  Good(c)
<1>0. RunTypeOK /\ Own(c) /\ Located(c) /\ c # Absent /\ Image \notin Names
  BY Locates
<1>1. Others(c) /\ SelfOK /\ (self'[c] = Idle \/ self'[c].at \in Places)
  BY <1>0, GoesTo, EndsNow DEF Turned, Places
<1>2. RunTypeOK'
  BY <1>0, <1>1 DEF Turned, RunTypeOK, SelfOK, Frees, disk, kept
<1>3. Effect(c)
  BY <1>0, <1>1, GoesTo DEF Turned, Effect, DirStep, VmStep, Frees, disk, kept, Located, RunAt,
     Runs, MayRemove
<1>4. Accounts(c) /\ Leaves(c)
  BY <1>0, <1>1, GoesTo, EndsNow DEF Turned, Accounts, Leaves, disk, kept, Own, Located, Guards,
     Deletes, Runs, Recorded, Running, Told, BeforeSave, Turns, Promotes, Ending, Unlocked
<1>5. Own(c)'
  <2>1. CASE self'[c] = Idle
    BY <2>1, IdleIsOwn
  <2>2. CASE self'[c] # Idle
    <3>1. Placed(c)' /\ TodoTrue(c)'
      BY <1>0, <1>1, <1>2, <2>2, GoesTo, EndsNow DEF Turned, Own, disk, kept, Placed, TodoTrue,
         Fits, Runs, Pruning, Located, Recorded, Running, BeforeSave, Turns, Promotes, Ending,
         Unlocked, Places
    <3>2. Guards(c)' /\ Deletes(c)' /\ Copies(c)'
      BY <1>0, <1>1, <1>2, <2>2, GoesTo, EndsNow DEF Turned, Own, disk, kept, Guards, Deletes,
         Copies, Runs, Located, Recorded, BeforeSave, Turns, Promotes, Ending, Places
    <3> QED BY <3>1, <3>2 DEF Own
  <2> QED BY <2>1, <2>2
<1> QED BY <1>2, <1>3, <1>4, <1>5 DEF Good

LEMMA PromoteLocksDoes ==
  ASSUME Steady, RInv, NEW c \in Clients, PromoteLocks(c)
  PROVE  Good(c)
<1>0. RunTypeOK /\ Own(c) /\ Located(c) /\ c # Absent /\ Image \notin Names
  BY Locates
<1>1. Others(c) /\ SelfOK /\ (self'[c] = Idle \/ self'[c].at \in Places)
  BY <1>0, GoesTo, EndsNow DEF PromoteLocks, Places
<1>2. RunTypeOK'
  BY <1>0, <1>1 DEF PromoteLocks, RunTypeOK, SelfOK, Frees, disk, kept
<1>3. Effect(c)
  BY <1>0, <1>1, GoesTo DEF PromoteLocks, Effect, DirStep, VmStep, Frees, disk, kept, Located,
     RunAt, Runs, MayRemove
<1>4. Accounts(c) /\ Leaves(c)
  BY <1>0, <1>1, GoesTo, EndsNow DEF PromoteLocks, Accounts, Leaves, disk, kept, Own, Located,
     Guards, Deletes, Runs, Recorded, Running, Told, BeforeSave, Turns, Promotes, Ending, Unlocked
<1>5. Own(c)'
  <2>1. CASE self'[c] = Idle
    BY <2>1, IdleIsOwn
  <2>2. CASE self'[c] # Idle
    <3>1. Placed(c)' /\ TodoTrue(c)'
      BY <1>0, <1>1, <1>2, <2>2, GoesTo, EndsNow DEF PromoteLocks, Own, disk, kept, Placed,
         TodoTrue, Fits, Runs, Pruning, Located, Recorded, Running, BeforeSave, Turns, Promotes,
         Ending, Unlocked, Places
    <3>2. Guards(c)' /\ Deletes(c)' /\ Copies(c)'
      BY <1>0, <1>1, <1>2, <2>2, GoesTo, EndsNow DEF PromoteLocks, Own, disk, kept, Guards,
         Deletes, Copies, Runs, Located, Recorded, BeforeSave, Turns, Promotes, Ending, Places
    <3> QED BY <3>1, <3>2 DEF Own
  <2> QED BY <2>1, <2>2
<1> QED BY <1>2, <1>3, <1>4, <1>5 DEF Good

LEMMA HaltDoes ==
  ASSUME Steady, RInv, NEW c \in Clients, Halt(c)
  PROVE  Good(c)
<1>0. RunTypeOK /\ Own(c) /\ Located(c) /\ c # Absent /\ Image \notin Names
  BY Locates
<1>1. Others(c) /\ SelfOK /\ (self'[c] = Idle \/ self'[c].at \in Places)
  BY <1>0, GoesTo, EndsNow DEF Halt, PromoteFails, Places
<1>2. RunTypeOK'
  BY <1>0, <1>1 DEF Halt, Stopped, StopFails, PromoteFails, RunTypeOK, SelfOK, Frees, disk
<1>3. Effect(c)
  BY <1>0, <1>1, GoesTo DEF Halt, Stopped, StopFails, PromoteFails, Effect, DirStep, VmStep,
     Frees, disk, kept, Located, RunAt, Runs, MayRemove
<1>4. Accounts(c) /\ Leaves(c)
  BY <1>0, <1>1, GoesTo, EndsNow DEF Halt, Stopped, StopFails, PromoteFails, Accounts, Leaves,
     disk, kept, Own, Located, Guards, Deletes, Runs, Recorded, Running, Told, BeforeSave, Turns,
     Promotes, Ending, Unlocked
<1>5. Own(c)'
  <2>1. CASE self'[c] = Idle
    BY <2>1, IdleIsOwn
  <2>2. CASE self'[c] # Idle
    <3>1. Placed(c)' /\ TodoTrue(c)'
      BY <1>0, <1>1, <1>2, <2>2, GoesTo, EndsNow DEF Halt, Stopped, StopFails, PromoteFails, Own,
         disk, kept, Placed, TodoTrue, Fits, Runs, Pruning, Located, Recorded, Running,
         BeforeSave, Turns, Promotes, Ending, Unlocked, Places
    <3>2. Guards(c)' /\ Deletes(c)' /\ Copies(c)'
      BY <1>0, <1>1, <1>2, <2>2, GoesTo, EndsNow DEF Halt, Stopped, StopFails, PromoteFails, Own,
         disk, kept, Guards, Deletes, Copies, Runs, Located, Recorded, BeforeSave, Turns,
         Promotes, Ending, Places
    <3> QED BY <3>1, <3>2 DEF Own
  <2> QED BY <2>1, <2>2
<1> QED BY <1>2, <1>3, <1>4, <1>5 DEF Good

LEMMA ClearImageDoes ==
  ASSUME Steady, RInv, NEW c \in Clients, ClearImage(c)
  PROVE  Good(c)
<1>0. RunTypeOK /\ Own(c) /\ Located(c) /\ c # Absent /\ Image \notin Names
  BY Locates
<1>1. Others(c) /\ SelfOK /\ (self'[c] = Idle \/ self'[c].at \in Places)
  BY <1>0, GoesTo, EndsNow DEF ClearImage, Places
<1>2. RunTypeOK'
  BY <1>0, <1>1 DEF ClearImage, Deleted, DeleteFails, RunTypeOK, SelfOK, Frees, disk
<1>3. Effect(c)
  BY <1>0, <1>1, GoesTo DEF ClearImage, Deleted, DeleteFails, Effect, DirStep, VmStep, Frees,
     disk, kept, Located, RunAt, Runs, MayRemove, RunTypeOK
<1>4. Accounts(c) /\ Leaves(c)
  BY <1>0, <1>1, GoesTo, EndsNow DEF ClearImage, Deleted, DeleteFails, Accounts, Leaves, disk,
     kept, Own, Located, Guards, Deletes, Runs, Recorded, Running, Told, BeforeSave, Turns,
     Promotes, Ending, Unlocked, RunTypeOK
<1>5. Own(c)'
  <2>1. CASE self'[c] = Idle
    BY <2>1, IdleIsOwn
  <2>2. CASE self'[c] # Idle
    <3>1. Placed(c)' /\ TodoTrue(c)'
      BY <1>0, <1>1, <1>2, <2>2, GoesTo, EndsNow DEF ClearImage, Deleted, DeleteFails, Own, disk,
         kept, Placed, TodoTrue, Fits, Runs, Pruning, Located, Recorded, Running, BeforeSave,
         Turns, Promotes, Ending, Unlocked, Places
    <3>a. self'[c].cmd = self[c].cmd /\ self'[c].at = "copying" /\ self'[c].name = self[c].name
      BY <1>0, GoesTo DEF ClearImage, Places
    <3>b. vm'[self[c].name] = vm[self[c].name]
      BY <1>0 DEF ClearImage, Deleted, DeleteFails, Located, Promotes, RunTypeOK
    <3>2. Guards(c)' /\ Deletes(c)' /\ Copies(c)'
      BY <1>0, <3>a, <3>b DEF ClearImage, Own, Guards, Deletes, Copies, Runs
    <3> QED BY <3>1, <3>2 DEF Own
  <2> QED BY <2>1, <2>2
<1> QED BY <1>2, <1>3, <1>4, <1>5 DEF Good

LEMMA CopyVmDoes ==
  ASSUME Steady, RInv, NEW c \in Clients, CopyVm(c)
  PROVE  Good(c)
<1>0. RunTypeOK /\ Own(c) /\ Located(c) /\ c # Absent /\ Image \notin Names
  BY Locates
<1>1. Others(c) /\ SelfOK /\ (self'[c] = Idle \/ self'[c].at \in Places)
  BY <1>0, GoesTo, EndsNow DEF CopyVm, PromoteFails, Places
<1>s. "half" \notin Trouble /\ self[c].name \in Names
  BY <1>0, Steady DEF Steady, CopyVm, Located, Promotes
<1>v. \/ /\ vm[self[c].name] # Absent
         /\ vm' = [vm EXCEPT ![Image] = vm[self[c].name]] /\ UNCHANGED lock /\ Goes(c, "replacing")
      \/ /\ vm' = vm \/ vm' = [vm EXCEPT ![Image] = vm[self[c].name]]
         /\ Ends(c) /\ Frees(c)
  BY <1>s DEF CopyVm, Cloned, CloneFails, PromoteFails
<1>2. RunTypeOK'
  BY <1>0, <1>1, <1>s, <1>v DEF CopyVm, RunTypeOK, SelfOK, Frees
<1>3. Effect(c)
  BY <1>0, <1>1, GoesTo DEF CopyVm, PromoteFails, Cloned, CloneFails, Steady, Effect, DirStep,
     VmStep, Frees, disk, kept, Located, RunAt, Runs, MayRemove, RunTypeOK
<1>4. Accounts(c) /\ Leaves(c)
  BY <1>0, <1>1, GoesTo, EndsNow DEF CopyVm, PromoteFails, Cloned, CloneFails, Steady, Accounts,
     Leaves, disk, kept, Own, Located, Guards, Deletes, Runs, Recorded, Running, Told, BeforeSave,
     Turns, Promotes, Ending, Unlocked, RunTypeOK
<1>5. Own(c)'
  <2>1. CASE self'[c] = Idle
    BY <2>1, IdleIsOwn
  <2>2. CASE self'[c] # Idle
    <3>1. Placed(c)' /\ TodoTrue(c)'
      BY <1>0, <1>1, <1>2, <2>2, GoesTo, EndsNow DEF CopyVm, PromoteFails, Cloned, CloneFails,
         Steady, Own, disk, kept, Placed, TodoTrue, Fits, Runs, Pruning, Located, Recorded,
         Running, BeforeSave, Turns, Promotes, Ending, Unlocked, Places
    <3>2. Guards(c)' /\ Deletes(c)' /\ Copies(c)'
      BY <1>0, <1>1, <1>2, <2>2, GoesTo, EndsNow DEF CopyVm, PromoteFails, Cloned, CloneFails,
         Steady, Own, disk, kept, Guards, Deletes, Copies, Runs, Located, Recorded, BeforeSave,
         Turns, Promotes, Ending, RunTypeOK, Places
    <3> QED BY <3>1, <3>2 DEF Own
  <2> QED BY <2>1, <2>2
<1> QED BY <1>2, <1>3, <1>4, <1>5 DEF Good

LEMMA PromoteKeepsDoes ==
  ASSUME Steady, RInv, NEW c \in Clients, PromoteKeeps(c)
  PROVE  Good(c)
<1>0. RunTypeOK /\ Own(c) /\ Located(c) /\ c # Absent /\ Image \notin Names
  BY Locates
<1>1. Others(c) /\ SelfOK /\ (self'[c] = Idle \/ self'[c].at \in Places)
  BY <1>0, GoesTo, EndsNow DEF PromoteKeeps, Places
<1>2. RunTypeOK'
  BY <1>0, <1>1 DEF PromoteKeeps, RunTypeOK, SelfOK, Frees, disk, kept
<1>3. Effect(c)
  BY <1>0, <1>1, GoesTo DEF PromoteKeeps, Effect, DirStep, VmStep, Frees, disk, kept, Located,
     RunAt, Runs, MayRemove
<1>4. Accounts(c) /\ Leaves(c)
  BY <1>0, <1>1, GoesTo, EndsNow DEF PromoteKeeps, Accounts, Leaves, disk, kept, Own, Located,
     Guards, Deletes, Runs, Recorded, Running, Told, BeforeSave, Turns, Promotes, Ending, Unlocked
<1>5. Own(c)'
  <2>1. CASE self'[c] = Idle
    BY <2>1, IdleIsOwn
  <2>2. CASE self'[c] # Idle
    <3>1. Placed(c)' /\ TodoTrue(c)'
      BY <1>0, <1>1, <1>2, <2>2, GoesTo, EndsNow DEF PromoteKeeps, Own, disk, kept, Placed,
         TodoTrue, Fits, Runs, Pruning, Located, Recorded, Running, BeforeSave, Turns, Promotes,
         Ending, Unlocked, Places
    <3>2. Guards(c)' /\ Deletes(c)' /\ Copies(c)'
      BY <1>0, <1>1, <1>2, <2>2, GoesTo, EndsNow DEF PromoteKeeps, Own, disk, kept, Guards,
         Deletes, Copies, Runs, Located, Recorded, BeforeSave, Turns, Promotes, Ending, Places
    <3> QED BY <3>1, <3>2 DEF Own
  <2> QED BY <2>1, <2>2
<1> QED BY <1>2, <1>3, <1>4, <1>5 DEF Good

LEMMA PromoteReplacesDoes ==
  ASSUME Steady, RInv, NEW c \in Clients, PromoteReplaces(c)
  PROVE  Good(c)
<1>0. RunTypeOK /\ Own(c) /\ Located(c) /\ c # Absent /\ Image \notin Names
  BY Locates
<1>1. Others(c) /\ SelfOK /\ (self'[c] = Idle \/ self'[c].at \in Places)
  BY <1>0, GoesTo, EndsNow DEF PromoteReplaces, PromoteFails, Places
<1>2. RunTypeOK'
  BY <1>0, <1>1 DEF PromoteReplaces, PromoteFails, Deleted, DeleteFails, RunTypeOK, SelfOK, Frees,
     disk
<1>n. self[c].name \in Names /\ self[c].name # Image /\ MayRemove(c, self[c].name) /\ lock = c
  BY <1>0 DEF PromoteReplaces, Located, Promotes, MayRemove
<1>3. Effect(c)
  <2>1. DirStep(c)
    BY <1>0, <1>n DEF PromoteReplaces, DirStep, RunTypeOK
  <2>2. VmStep(c)
    BY <1>0, <1>n DEF PromoteReplaces, VmStep, Deleted, DeleteFails, RunTypeOK
  <2>3. lock' \in {lock, Absent} /\ up' = up /\ excused' = excused
    BY <1>0 DEF PromoteReplaces, PromoteFails, Frees
  <2> QED BY <1>1, <1>n, <2>1, <2>2, <2>3 DEF Effect
<1>4. Accounts(c) /\ Leaves(c)
  BY <1>0, <1>1, GoesTo, EndsNow DEF PromoteReplaces, PromoteFails, Deleted, DeleteFails,
     Accounts, Leaves, disk, kept, Own, Located, Guards, Deletes, Runs, Recorded, Running, Told,
     BeforeSave, Turns, Promotes, Ending, Unlocked, RunTypeOK
<1>5. Own(c)'
  <2>1. CASE self'[c] = Idle
    BY <2>1, IdleIsOwn
  <2>2. CASE self'[c] # Idle
    <3>1. Placed(c)' /\ TodoTrue(c)'
      BY <1>0, <1>1, <1>2, <2>2, GoesTo, EndsNow DEF PromoteReplaces, PromoteFails, Deleted,
         DeleteFails, Own, disk, kept, Placed, TodoTrue, Fits, Runs, Pruning, Located, Recorded,
         Running, BeforeSave, Turns, Promotes, Ending, Unlocked, Places
    <3>2. Guards(c)' /\ Deletes(c)' /\ Copies(c)'
      BY <1>0, <1>1, <1>2, <2>2, GoesTo, EndsNow DEF PromoteReplaces, PromoteFails, Deleted,
         DeleteFails, Own, disk, kept, Guards, Deletes, Copies, Runs, Located, Recorded,
         BeforeSave, Turns, Promotes, Ending, Places
    <3> QED BY <3>1, <3>2 DEF Own
  <2> QED BY <2>1, <2>2
<1> QED BY <1>2, <1>3, <1>4, <1>5 DEF Good

LEMMA WriteDoes ==
  ASSUME Steady, RInv, NEW c \in Clients, Write(c)
  PROVE  Good(c)
<1>0. RunTypeOK /\ Own(c) /\ Located(c) /\ c # Absent /\ Image \notin Names
  BY Locates
<1>1. Others(c) /\ SelfOK /\ (self'[c] = Idle \/ self'[c].at \in Places)
  BY <1>0, GoesTo, EndsNow DEF Write, Places
<1>2. RunTypeOK'
  BY <1>0, <1>1 DEF Write, RunTypeOK, SelfOK, Frees, disk, kept
<1>3. Effect(c)
  BY <1>0, <1>1, GoesTo DEF Write, Effect, DirStep, VmStep, Frees, disk, kept, Located, RunAt,
     Runs, MayRemove
<1>4. Accounts(c) /\ Leaves(c)
  BY <1>0, <1>1, GoesTo, EndsNow DEF Write, Accounts, Leaves, disk, kept, Own, Located, Guards,
     Deletes, Runs, Recorded, Running, Told, BeforeSave, Turns, Promotes, Ending, Unlocked
<1>5. Own(c)'
  <2>1. CASE self'[c] = Idle
    BY <2>1, IdleIsOwn
  <2>2. CASE self'[c] # Idle
    <3>1. Placed(c)' /\ TodoTrue(c)'
      BY <1>0, <1>1, <1>2, <2>2, GoesTo, EndsNow DEF Write, Own, disk, kept, Placed, TodoTrue,
         Fits, Runs, Pruning, Located, Recorded, Running, BeforeSave, Turns, Promotes, Ending,
         Unlocked
    <3>2. Guards(c)' /\ Deletes(c)' /\ Copies(c)'
      BY <1>0, <1>1, <1>2, <2>2, GoesTo, EndsNow DEF Write, Own, disk, kept, Guards, Deletes,
         Copies, Runs, Located, Recorded, BeforeSave, Turns, Promotes, Ending
    <3> QED BY <3>1, <3>2 DEF Own
  <2> QED BY <2>1, <2>2
<1> QED BY <1>2, <1>3, <1>4, <1>5 DEF Good

LEMMA CrashDoes ==
  ASSUME Steady, RInv, NEW c \in Clients, Crash(c)
  PROVE  Good(c)
<1>0. RunTypeOK /\ Own(c) /\ Located(c) /\ c # Absent /\ Image \notin Names
  BY Locates
<1>1. Others(c) /\ SelfOK /\ (self'[c] = Idle \/ self'[c].at \in Places)
  BY <1>0, GoesTo, EndsNow DEF Crash, Places
<1>2. RunTypeOK'
  BY <1>0, <1>1 DEF Crash, RunTypeOK, SelfOK, Frees, disk, kept
<1>3. Effect(c)
  BY <1>0, <1>1, GoesTo DEF Crash, Effect, DirStep, VmStep, Frees, disk, kept, Located, RunAt,
     Runs, MayRemove
<1>4. Accounts(c) /\ Leaves(c)
  BY <1>0 DEF Crash, Accounts, Leaves, Own, Placed, Runs, Running, Recorded, Told, kept
<1>5. Own(c)'
  <2>1. CASE self'[c] = Idle
    BY <2>1, IdleIsOwn
  <2>2. CASE self'[c] # Idle
    <3>1. Placed(c)' /\ TodoTrue(c)'
      BY <1>0, <1>1, <1>2, <2>2, GoesTo, EndsNow DEF Crash, Own, disk, kept, Placed, TodoTrue,
         Fits, Runs, Pruning, Located, Recorded, Running, BeforeSave, Turns, Promotes, Ending,
         Unlocked
    <3>2. Guards(c)' /\ Deletes(c)' /\ Copies(c)'
      BY <1>0, <1>1, <1>2, <2>2, GoesTo, EndsNow DEF Crash, Own, disk, kept, Guards, Deletes,
         Copies, Runs, Located, Recorded, BeforeSave, Turns, Promotes, Ending
    <3> QED BY <3>1, <3>2 DEF Own
  <2> QED BY <2>1, <2>2
<1> QED BY <1>2, <1>3, <1>4, <1>5 DEF Good

LEMMA ReachDoes ==
  ASSUME Steady, RInv, NEW c \in Clients, Reach(c)
  PROVE  Good(c)
<1>0. RunTypeOK /\ Own(c) /\ Located(c) /\ c # Absent /\ Image \notin Names
  BY Locates
<1>1. /\ Others(c) /\ SelfOK /\ self'[c].cmd = self[c].cmd /\ self'[c].name = self[c].name
      /\ self'[c].todo = self[c].todo /\ self'[c].view = self[c].view
      /\ \/ Running(self[c].name) /\ self'[c].at = "rendering" /\ self'[c].has = 0
         \/ self'[c].at = "dropping" /\ self'[c].has = self[c].has
  <2>1. CASE Goes(c, "dropping")
    BY <1>0, <2>1, GoesTo DEF Places
  <2>2. CASE Running(self[c].name) /\ self' = [self EXCEPT ![c].at = "rendering", ![c].has = 0]
    <3> DEFINE s == [self[c] EXCEPT !.at = "rendering", !.has = 0]
    <3>1. self[c] \in Client /\ self' = [self EXCEPT ![c] = s]
      BY <1>0, <2>2 DEF RunTypeOK
    <3>0. 0 \in Numbers
      BY DEF Numbers
    <3>2. /\ s \in Client /\ s.at = "rendering" /\ s.has = 0 /\ s.cmd = self[c].cmd
          /\ s.name = self[c].name /\ s.todo = self[c].todo /\ s.view = self[c].view
      BY <3>0, <3>1 DEF Client, Places
    <3> HIDE DEF s
    <3> QED BY <1>0, <2>2, <3>1, <3>2, Becomes
  <2> QED BY <2>1, <2>2 DEF Reach
<1>2. RunTypeOK'
  BY <1>0, <1>1 DEF Reach, RunTypeOK, SelfOK, Frees, disk, kept
<1>3. Effect(c)
  BY <1>0, <1>1 DEF Reach, Effect, DirStep, VmStep, Frees, disk, kept, Located, RunAt, Runs
<1>4. Accounts(c) /\ Leaves(c)
  BY <1>0, <1>1 DEF Reach, Accounts, Leaves, disk, kept, Own, Located, Placed, Guards, Deletes,
     Runs, Recorded, Running, Told, BeforeSave, Turns, Promotes, Ending
<1>5. Placed(c)' /\ TodoTrue(c)'
  BY <1>0, <1>1, <1>2 DEF Reach, Own, disk, kept, Placed, TodoTrue, Fits, Runs, Pruning, Located,
     Recorded, Running, BeforeSave, Turns, Promotes, Ending, Unlocked
<1>6. Guards(c)' /\ Deletes(c)' /\ Copies(c)'
  BY <1>0, <1>1, <1>2 DEF Reach, Own, disk, kept, Placed, Guards, Deletes, Copies, Runs, Located,
     Recorded, BeforeSave, Turns, Promotes, Ending
<1> QED BY <1>2, <1>3, <1>4, <1>5, <1>6 DEF Good, Own

LEMMA CloneGoldenDoes ==
  ASSUME Steady, RInv, NEW c \in Clients, CloneGolden(c)
  PROVE  Good(c)
<1>0. RunTypeOK /\ Own(c) /\ Located(c) /\ c # Absent /\ Image \notin Names
  BY Locates
<1>1. /\ Others(c) /\ SelfOK /\ self'[c].cmd = self[c].cmd /\ self'[c].name = self[c].name
      /\ self'[c].todo = self[c].todo /\ self'[c].view = self[c].view
      /\ \/ /\ self'[c].at = "starting" /\ self'[c].has = made + 1 /\ vm[self[c].name] = Absent
            /\ vm' = [vm EXCEPT ![self[c].name] = made + 1] /\ made' = made + 1
         \/ self'[c].at = "dropping" /\ self'[c].has = self[c].has /\ UNCHANGED <<vm, made>>
      /\ made + 1 \in Vms
  <2>0. made \in Nat /\ made + 1 \in Vms /\ made + 1 \in Numbers
    BY <1>0 DEF CloneGolden, RunTypeOK, Numbers, Vms
  <2>1. CASE Goes(c, "dropping") /\ UNCHANGED <<vm, made>>
    BY <1>0, <2>0, <2>1, GoesTo DEF Places
  <2>2. CASE /\ vm[self[c].name] = Absent /\ vm' = [vm EXCEPT ![self[c].name] = made + 1] /\ made' = made + 1
             /\ self' = [self EXCEPT ![c].at = "starting", ![c].has = made + 1]
    <3> DEFINE s == [self[c] EXCEPT !.at = "starting", !.has = made + 1]
    <3>1. self[c] \in Client /\ self' = [self EXCEPT ![c] = s]
      BY <1>0, <2>2 DEF RunTypeOK
    <3>2. /\ s \in Client /\ s.at = "starting" /\ s.has = made + 1 /\ s.cmd = self[c].cmd
          /\ s.name = self[c].name /\ s.todo = self[c].todo /\ s.view = self[c].view
      BY <2>0, <3>1 DEF Client, Places
    <3> HIDE DEF s
    <3> QED BY <1>0, <2>0, <2>2, <3>1, <3>2, Becomes
  <2>3. ASSUME NEW n, CloneFails(n, n) PROVE UNCHANGED vm
    BY <2>3 DEF Steady, CloneFails, Cloned
  <2> QED BY <2>1, <2>2, <2>3 DEF CloneGolden, Steady
<1>2. RunTypeOK'
  BY <1>0, <1>1 DEF CloneGolden, RunTypeOK, SelfOK, Frees, disk, Numbers
<1>3. Effect(c)
  BY <1>0, <1>1 DEF CloneGolden, Effect, DirStep, VmStep, Frees, disk, kept, Located, RunAt, Runs,
     RunTypeOK
<1>b. self[c].at = "cloning" /\ self[c].has = 0 /\ UNCHANGED <<dir, lock, up, excused>> /\ Runs(c)
      /\ self[c].name \in Names /\ ~Recorded(self[c].name)
  BY <1>0 DEF CloneGolden, disk, Own, Guards, Located, BeforeSave
<1>4. Accounts(c) /\ Leaves(c)
  <2>1. \A n \in Names : Recorded(n) => Recorded(n)'
    BY <1>b DEF Recorded
  <2>2. \A n \in Names : vm'[n] = vm[n] \/ (self'[c].has # 0 /\ self'[c].name = n)
    BY <1>0, <1>1, <1>b DEF RunTypeOK, Numbers
  <2> QED BY <1>1, <1>b, <2>1, <2>2 DEF Accounts, Leaves, Runs
<1>5. Placed(c)' /\ TodoTrue(c)'
  BY <1>0, <1>1, <1>2 DEF CloneGolden, Own, disk, kept, Placed, TodoTrue, Fits, Runs, Pruning,
     Located, Recorded, Running, BeforeSave, Turns, Promotes, Ending, Unlocked
<1>6. Guards(c)' /\ Deletes(c)' /\ Copies(c)'
  <2>1. ~Recorded(self[c].name)'
    BY <1>1, <1>b DEF Recorded
  <2>2. self'[c].has # 0 => vm'[self'[c].name] = self'[c].has /\ self'[c].at = "starting"
    BY <1>0, <1>1, <1>b DEF RunTypeOK
  <2>3. self'[c].at = "starting" => self'[c].has # 0
    BY <1>0, <1>1 DEF RunTypeOK, Numbers
  <2> QED BY <1>1, <1>b, <2>1, <2>2, <2>3 DEF Guards, Deletes, Copies, Ending
<1> QED BY <1>2, <1>3, <1>4, <1>5, <1>6 DEF Good, Own

LEMMA ClaimDoes ==
  ASSUME Steady, RInv, NEW c \in Clients, Claim(c)
  PROVE  Good(c)
<1>0. RunTypeOK /\ Own(c) /\ Located(c) /\ c # Absent /\ Image \notin Names
  BY Locates
<1>1. /\ Others(c) /\ SelfOK
      /\ \/ /\ self'[c].cmd = self[c].cmd /\ self'[c].name = self[c].name /\ self'[c].has = self[c].has
            /\ self'[c].at = "reaping" /\ self'[c].todo = Dead /\ lock = Absent /\ lock' = c
         \/ self'[c] = Idle /\ UNCHANGED lock
  <2>1. CASE Ends(c) /\ UNCHANGED lock
    BY <1>0, <2>1, EndsNow
  <2>2. CASE lock = Absent /\ lock' = c /\ self' = [self EXCEPT ![c].at = "reaping", ![c].todo = Dead]
    <3>1. Dead \in SUBSET (Names \X Numbers)
      BY <1>0, Listings
    <3>2. self[c] \in Client /\ self \in [Clients -> Client]
      BY <1>0 DEF RunTypeOK
    <3> QED BY <2>2, <3>1, <3>2 DEF Client, Others, SelfOK, Places
  <2> QED BY <2>1, <2>2 DEF Claim
<1>d. \A e \in Dead : dir[e[1]] = e[2]
  BY <1>0, Listings
<1>2. RunTypeOK'
  BY <1>0, <1>1 DEF Claim, RunTypeOK, SelfOK, Frees, disk, kept
<1>3. Effect(c)
  BY <1>0, <1>1 DEF Claim, Effect, DirStep, VmStep, Frees, disk, kept, Located, RunAt, Runs
<1>4. Accounts(c) /\ Leaves(c)
  BY <1>0, <1>1 DEF Claim, Accounts, Leaves, disk, kept, Own, Located, Placed, Guards, Deletes,
     Runs, Recorded, Running, Told, BeforeSave, Turns, Promotes, Ending
<1>5. Placed(c)' /\ TodoTrue(c)'
  <2>1. CASE self'[c] = Idle
    BY <2>1, IdleIsOwn DEF Own
  <2>2. CASE self'[c] # Idle
    <3>1. Placed(c)'
      BY <1>0, <1>1, <2>2 DEF Claim, Own, Placed, Fits, Runs, Located, BeforeSave
    <3>2. ~Pruning(c)' /\ dir' = dir /\ self'[c].todo = Dead
      BY <1>0, <1>1, <2>2 DEF Claim, Located, Runs, Pruning
    <3> QED BY <1>d, <3>1, <3>2 DEF TodoTrue
  <2> QED BY <2>1, <2>2
<1>6. Guards(c)' /\ Deletes(c)' /\ Copies(c)'
  BY <1>0, <1>1, <1>2 DEF Claim, Own, disk, kept, Placed, Guards, Deletes, Copies, Runs, Located,
     Recorded, BeforeSave, Turns, Promotes, Ending, Idle
<1> QED BY <1>2, <1>3, <1>4, <1>5, <1>6 DEF Good, Own

LEMMA ReapOneDoes ==
  ASSUME Steady, RInv, NEW c \in Clients, ReapOne(c)
  PROVE  Good(c)
<1>0. RunTypeOK /\ Own(c) /\ Located(c) /\ c # Absent /\ Image \notin Names
  BY Locates
<1>r. PICK e \in self[c].todo :
        /\ IF e[2] = 0 THEN UNCHANGED <<vm, up, excused>> ELSE Discard(e[1])
        /\ dir' = [dir EXCEPT ![e[1]] = Absent]
        /\ self' = [self EXCEPT ![c].todo = @ \ {e}]
  BY DEF ReapOne
<1>e. e[1] \in Names /\ dir[e[1]] \in {e[2], Absent}
  BY <1>0 DEF Located, Own, TodoTrue
<1>1. /\ Others(c) /\ SelfOK /\ self'[c].todo = self[c].todo \ {e}
      /\ self'[c].cmd = self[c].cmd /\ self'[c].name = self[c].name /\ self'[c].has = self[c].has
      /\ self'[c].at = self[c].at
  BY <1>0, <1>r DEF RunTypeOK, Client, Others, SelfOK
<1>u. /\ self[c].at = "reaping" /\ UNCHANGED <<lock, made, file>>
      /\ up' \subseteq up /\ excused \subseteq excused'
      /\ \/ vm' = vm /\ (dir[e[1]] \in {0, Absent} \/ vm[e[1]] \in excused')
         \/ vm' = [vm EXCEPT ![e[1]] = Absent]
  BY <1>e, <1>r DEF ReapOne, Discard, Stopped, StopFails, Deleted, DeleteFails
<1>2. RunTypeOK'
  BY <1>0, <1>1, <1>e, <1>r, <1>u DEF RunTypeOK, SelfOK
<1>3. Effect(c)
  BY <1>0, <1>1, <1>e, <1>r, <1>u DEF Effect, DirStep, VmStep, MayRemove, RunTypeOK
<1>4. Accounts(c) /\ Leaves(c)
  <2>1. \A n \in Names : Recorded(n) => Recorded(n)' \/ Told(n)
    <3> SUFFICES ASSUME NEW n \in Names, Recorded(n) PROVE Recorded(n)' \/ Told(n)
      OBVIOUS
    <3>1. CASE n = e[1]
      BY <1>0, <1>e, <1>u, <3>1 DEF Recorded, Told, RunTypeOK
    <3>2. CASE n # e[1]
      BY <1>0, <1>e, <1>r, <3>2 DEF Recorded, RunTypeOK
    <3> QED BY <3>1, <3>2
  <2>2. \A n \in Names : vm'[n] \in {vm[n], Absent}
    BY <1>0, <1>e, <1>u DEF RunTypeOK
  <2> QED BY <1>1, <2>1, <2>2 DEF Accounts, Leaves, Runs
<1>5. Placed(c)' /\ TodoTrue(c)'
  <2>1. Placed(c)'
    BY <1>0, <1>1, <1>u DEF Own, Placed, Fits, Runs, Pruning
  <2>2. ASSUME NEW f \in self'[c].todo
        PROVE  dir'[f[1]] \in {f[2], Absent} /\ (Pruning(c)' => ~Running(f[1])')
    <3>1. f \in self[c].todo /\ f[1] \in Names
      BY <1>0, <1>1, <2>2 DEF Located
    <3> QED BY <1>0, <1>1, <1>e, <1>r, <1>u, <3>1 DEF Own, TodoTrue, Pruning, Running, Recorded,
               RunTypeOK
  <2> QED BY <2>1, <2>2 DEF TodoTrue
<1>6. Guards(c)' /\ Deletes(c)' /\ Copies(c)'
  BY <1>0, <1>1, <1>e, <1>r, <1>u DEF Own, Guards, Deletes, Copies, Runs, Recorded
<1> QED BY <1>2, <1>3, <1>4, <1>5, <1>6 DEF Good, Own

LEMMA TurnDoes ==
  ASSUME Steady, RInv, NEW c \in Clients, Turn(c)
  PROVE  Good(c)
<1>0. RunTypeOK /\ Own(c) /\ Located(c) /\ c # Absent /\ Image \notin Names
  BY Locates
<1>r. PICK e \in self[c].todo :
        self' = [self EXCEPT ![c].at = IF e[2] = 0 THEN "removing" ELSE "stopping",
                             ![c].name = e[1], ![c].todo = @ \ {e}]
  BY DEF Turn
<1>e. e[1] \in Names /\ dir[e[1]] \in {e[2], Absent}
  BY <1>0 DEF Located, Own, TodoTrue
<1>1. /\ Others(c) /\ SelfOK /\ self'[c].todo = self[c].todo \ {e} /\ self'[c].name = e[1]
      /\ self'[c].cmd = self[c].cmd /\ self'[c].has = self[c].has
      /\ self'[c].at = IF e[2] = 0 THEN "removing" ELSE "stopping"
  BY <1>0, <1>e, <1>r DEF RunTypeOK, Client
<1>2. RunTypeOK'
  BY <1>0, <1>1 DEF Turn, RunTypeOK, SelfOK, Frees, disk, kept
<1>3. Effect(c)
  BY <1>0, <1>1 DEF Turn, Effect, DirStep, VmStep, Frees, disk, kept, Located, RunAt, Runs
<1>4. Accounts(c) /\ Leaves(c)
  BY <1>0, <1>1 DEF Turn, Accounts, Leaves, disk, kept, Own, Located, Placed, Guards, Deletes,
     Runs, Recorded, Running, Told, BeforeSave, Turns, Promotes, Ending
<1>5. Placed(c)' /\ TodoTrue(c)'
  BY <1>0, <1>1, <1>e DEF Turn, Own, disk, kept, Placed, TodoTrue, Fits, Runs, Pruning, Located,
     BeforeSave, Turns
<1>6. Guards(c)' /\ Deletes(c)' /\ Copies(c)'
  BY <1>0, <1>1, <1>e DEF Turn, Own, disk, kept, Guards, Deletes, Copies, Runs, Located, Recorded,
     Turns
<1> QED BY <1>2, <1>3, <1>4, <1>5, <1>6 DEF Good, Own

LEMMA RenderDoes ==
  ASSUME Steady, RInv, NEW c \in Clients, Render(c)
  PROVE  Good(c)
<1>0. RunTypeOK /\ Own(c) /\ Located(c) /\ c # Absent /\ Image \notin Names
  BY Locates
<1>1. /\ Others(c) /\ SelfOK
      /\ \/ self'[c] = Idle /\ file = Absent
         \/ /\ self'[c].cmd = self[c].cmd /\ self'[c].name = self[c].name /\ self'[c].has = self[c].has
            /\ self'[c].at = "writing" /\ self'[c].todo = self[c].todo
            /\ \A n \in Names : Running(n) => <<n, dir[n]>> \in self'[c].view
      /\ \A d \in Clients : self[d].at # "writing"
  <2>0. \A d \in Clients : self[d].at # "writing"
    BY Steady DEF Render, Steady
  <2>1. CASE Ends(c) /\ file = Absent
    BY <1>0, <2>0, <2>1, EndsNow
  <2>2. ASSUME NEW seen \in SUBSET (Names \X Numbers),
               self' = [self EXCEPT ![c].at = "writing", ![c].view = seen]
        PROVE  /\ Others(c) /\ SelfOK /\ self'[c].view = seen
               /\ self'[c].cmd = self[c].cmd /\ self'[c].name = self[c].name /\ self'[c].has = self[c].has
               /\ self'[c].at = "writing" /\ self'[c].todo = self[c].todo
    <3> DEFINE s == [self[c] EXCEPT !.at = "writing", !.view = seen]
    <3>1. self[c] \in Client /\ self' = [self EXCEPT ![c] = s]
      BY <1>0, <2>2 DEF RunTypeOK
    <3>2. /\ s \in Client /\ s.at = "writing" /\ s.view = seen /\ s.cmd = self[c].cmd
          /\ s.name = self[c].name /\ s.todo = self[c].todo /\ s.has = self[c].has
      BY <3>1 DEF Client, Places
    <3> HIDE DEF s
    <3> QED BY <1>0, <3>1, <3>2, Becomes
  <2>3. \A n \in Names : Running(n) => dir[n] \in Numbers
    BY <1>0 DEF RunTypeOK, Running, Recorded
  <2> DEFINE seen == {<<n, dir[n]>> : n \in {m \in Names : Running(m)}}
  <2>4. \A e \in seen : e \in Names \X Numbers
    BY <2>3
  <2>5. \A n \in Names : Running(n) => <<n, dir[n]>> \in seen
    OBVIOUS
  <2>6. (Ends(c) /\ file = Absent) \/ self' = [self EXCEPT ![c].at = "writing", ![c].view = seen]
    BY DEF Render
  <2> HIDE DEF seen
  <2>7. CASE self' = [self EXCEPT ![c].at = "writing", ![c].view = seen]
    <3>1. seen \in SUBSET (Names \X Numbers)
      BY <2>4
    <3>2. /\ Others(c) /\ SelfOK /\ self'[c].view = seen
          /\ self'[c].cmd = self[c].cmd /\ self'[c].name = self[c].name /\ self'[c].has = self[c].has
          /\ self'[c].at = "writing" /\ self'[c].todo = self[c].todo
      BY <2>2, <2>7, <3>1
    <3> QED BY <2>0, <2>5, <3>2
  <2> QED BY <2>1, <2>6, <2>7
<1>2. RunTypeOK'
  BY <1>0, <1>1 DEF Render, RunTypeOK, SelfOK, Frees, disk, kept
<1>3. Effect(c)
  BY <1>0, <1>1 DEF Render, Effect, DirStep, VmStep, Frees, disk, kept, Located, RunAt, Runs
<1>4. Accounts(c) /\ Leaves(c)
  BY <1>0, <1>1 DEF Render, Accounts, Leaves, disk, kept, Own, Located, Placed, Guards, Deletes,
     Runs, Recorded, Running, Told, BeforeSave, Turns, Promotes, Ending
<1>5. Own(c)'
  <2>1. CASE self'[c] = Idle
    BY <2>1, IdleIsOwn
  <2>2. CASE self'[c] # Idle
    <3>1. Placed(c)'
      BY <1>0, <1>1, <2>2 DEF Render, disk, Own, Placed, Fits, Runs, Pruning, Located, BeforeSave,
         Turns, Promotes, Ending, Unlocked
    <3>2. TodoTrue(c)' /\ Guards(c)' /\ Deletes(c)' /\ Copies(c)'
      BY <1>0, <1>1, <2>2 DEF Render, disk, kept, Located, TodoTrue, Guards, Deletes, Copies,
         Ending, BeforeSave
    <3> QED BY <3>1, <3>2 DEF Own
  <2> QED BY <2>1, <2>2
<1> QED BY <1>2, <1>3, <1>4, <1>5 DEF Good

LEMMA ChooseNameDoes ==
  ASSUME Steady, RInv, NEW c \in Clients, ChooseName(c)
  PROVE  Good(c)
<1>0. RunTypeOK /\ Own(c) /\ Located(c) /\ c # Absent /\ Image \notin Names
  BY Locates
<1>r. PICK n \in Names :
        /\ dir[n] = Absent
        /\ self' = [self EXCEPT ![c].cmd = "run", ![c].at = "claiming", ![c].name = n]
  BY DEF ChooseName
<1>1. /\ Others(c) /\ SelfOK /\ self'[c].cmd = "run" /\ self'[c].at = "claiming" /\ self'[c].name = n
      /\ self'[c].has = 0 /\ self'[c].todo = {} /\ self[c] = Idle
  <2> DEFINE s == [Idle EXCEPT !.cmd = "run", !.at = "claiming", !.name = n]
  <2>1. self[c] = Idle
    BY <1>0 DEF ChooseName, Located
  <2>2. self' = [self EXCEPT ![c] = s]
    BY <1>0, <1>r, <2>1 DEF RunTypeOK
  <2>3. s \in Client /\ s.cmd = "run" /\ s.at = "claiming" /\ s.name = n /\ s.has = 0 /\ s.todo = {}
    BY <1>0, IdleSays DEF Located, Client, Places, Cmds
  <2> HIDE DEF s
  <2> QED BY <1>0, <2>1, <2>2, <2>3, Becomes
<1>d. dir[n] = Absent
  BY <1>r
<1>2. RunTypeOK'
  BY <1>0, <1>1 DEF ChooseName, RunTypeOK, SelfOK, Frees, disk, kept
<1>3. Effect(c)
  BY <1>0, <1>1 DEF ChooseName, Effect, DirStep, VmStep, Frees, disk, kept, Located, RunAt, Runs
<1>4. Accounts(c) /\ Leaves(c)
  BY <1>1, FromIdle DEF ChooseName, disk, kept
<1>5. Placed(c)' /\ TodoTrue(c)'
  BY <1>0, <1>1 DEF Placed, TodoTrue, Fits, Runs, Pruning, BeforeSave, Turns, Unlocked
<1>6. Guards(c)' /\ Deletes(c)' /\ Copies(c)'
  BY <1>0, <1>1, <1>d DEF ChooseName, disk, Guards, Deletes, Copies, Recorded
<1> QED BY <1>2, <1>3, <1>4, <1>5, <1>6 DEF Good, Own

LEMMA DestroyOneDoes ==
  ASSUME Steady, RInv, NEW c \in Clients, DestroyOne(c)
  PROVE  Good(c)
<1>0. RunTypeOK /\ Own(c) /\ Located(c) /\ c # Absent /\ Image \notin Names
  BY Locates
<1>r. PICK n \in Names : /\ Begins(c, "destroy", "turning", Absent, {<<n, dir[n]>>})
                           /\ {<<n, dir[n]>>} \in SUBSET (Names \X Numbers)
  <2>1. PICK n \in Names : Recorded(n) /\ Begins(c, "destroy", "turning", Absent, {<<n, dir[n]>>})
    BY DEF DestroyOne
  <2>2. dir[n] \in Numbers
    BY <1>0, <2>1 DEF RunTypeOK, Recorded
  <2>3. \A m \in Numbers : {<<n, m>>} \in SUBSET (Names \X Numbers)
    OBVIOUS
  <2> QED BY <2>1, <2>2, <2>3
<1>1. /\ Others(c) /\ SelfOK /\ self[c] = Idle
      /\ self'[c].cmd = "destroy" /\ self'[c].at = "turning" /\ self'[c].name = Absent
      /\ self'[c].todo = {<<n, dir[n]>>} /\ self'[c].has = 0 /\ self'[c].view = self[c].view
  <2>1. Listing \in SUBSET (Names \X Numbers) /\ Dead \in SUBSET (Names \X Numbers)
    BY <1>0, Listings
  <2>2. Begins(c, "destroy", "turning", Absent, {<<n, dir[n]>>})
    BY <1>r
  <2>3. "destroy" \in Cmds /\ "turning" \in Places /\ {<<n, dir[n]>>} \in SUBSET (Names \X Numbers)
    BY <1>r DEF Cmds, Places
  <2>4. /\ Others(c) /\ SelfOK /\ self[c].at = "idle"
        /\ self'[c].cmd = "destroy" /\ self'[c].at = "turning" /\ self'[c].name = Absent /\ self'[c].todo = {<<n, dir[n]>>}
        /\ self'[c].has = self[c].has /\ self'[c].view = self[c].view
    BY <1>0, <2>2, <2>3, BeginsAs
  <2>5. self[c] = Idle /\ self[c].has = 0
    BY <1>0, <2>4 DEF Located
  <2> QED BY <2>4, <2>5
<1>d. (\A e \in Listing : dir[e[1]] = e[2]) /\ \A e \in Dead : dir[e[1]] = e[2] /\ ~Running(e[1])
  BY <1>0, Listings
<1>2. RunTypeOK'
  BY <1>0, <1>1 DEF DestroyOne, RunTypeOK, SelfOK, Frees, disk, kept
<1>3. Effect(c)
  BY <1>0, <1>1 DEF DestroyOne, Effect, DirStep, VmStep, Frees, disk, kept, Located, RunAt, Runs
<1>4. Accounts(c) /\ Leaves(c)
  BY <1>1, FromIdle DEF DestroyOne, disk, kept
<1>5. Placed(c)' /\ TodoTrue(c)'
  BY <1>0, <1>1, <1>r, <1>d DEF DestroyOne, disk, kept, Placed, TodoTrue, Fits, Runs, Pruning,
     Recorded, Running, BeforeSave, Turns, Promotes
<1>6. Guards(c)' /\ Deletes(c)' /\ Copies(c)'
  BY <1>0, <1>1, <1>d DEF Guards, Deletes, Copies, Runs
<1> QED BY <1>2, <1>3, <1>4, <1>5, <1>6 DEF Good, Own

LEMMA DestroyAllDoes ==
  ASSUME Steady, RInv, NEW c \in Clients, DestroyAll(c)
  PROVE  Good(c)
<1>0. RunTypeOK /\ Own(c) /\ Located(c) /\ c # Absent /\ Image \notin Names
  BY Locates

<1>1. /\ Others(c) /\ SelfOK /\ self[c] = Idle
      /\ self'[c].cmd = "destroy --all" /\ self'[c].at = "turning" /\ self'[c].name = Absent
      /\ self'[c].todo = Listing /\ self'[c].has = 0 /\ self'[c].view = self[c].view
  <2>1. Listing \in SUBSET (Names \X Numbers) /\ Dead \in SUBSET (Names \X Numbers)
    BY <1>0, Listings
  <2>2. Begins(c, "destroy --all", "turning", Absent, Listing)
    BY DEF DestroyAll
  <2>3. "destroy --all" \in Cmds /\ "turning" \in Places /\ Listing \in SUBSET (Names \X Numbers)
    BY <2>1 DEF Cmds, Places
  <2>4. /\ Others(c) /\ SelfOK /\ self[c].at = "idle"
        /\ self'[c].cmd = "destroy --all" /\ self'[c].at = "turning" /\ self'[c].name = Absent /\ self'[c].todo = Listing
        /\ self'[c].has = self[c].has /\ self'[c].view = self[c].view
    BY <1>0, <2>2, <2>3, BeginsAs
  <2>5. self[c] = Idle /\ self[c].has = 0
    BY <1>0, <2>4 DEF Located
  <2> QED BY <2>4, <2>5
<1>d. (\A e \in Listing : dir[e[1]] = e[2]) /\ \A e \in Dead : dir[e[1]] = e[2] /\ ~Running(e[1])
  BY <1>0, Listings
<1>2. RunTypeOK'
  BY <1>0, <1>1 DEF DestroyAll, RunTypeOK, SelfOK, Frees, disk, kept
<1>3. Effect(c)
  BY <1>0, <1>1 DEF DestroyAll, Effect, DirStep, VmStep, Frees, disk, kept, Located, RunAt, Runs
<1>4. Accounts(c) /\ Leaves(c)
  BY <1>1, FromIdle DEF DestroyAll, disk, kept
<1>5. Placed(c)' /\ TodoTrue(c)'
  BY <1>0, <1>1, <1>d DEF DestroyAll, disk, kept, Placed, TodoTrue, Fits, Runs, Pruning, Recorded,
     Running, BeforeSave, Turns, Promotes
<1>6. Guards(c)' /\ Deletes(c)' /\ Copies(c)'
  BY <1>0, <1>1, <1>d DEF Guards, Deletes, Copies, Runs
<1> QED BY <1>2, <1>3, <1>4, <1>5, <1>6 DEF Good, Own

LEMMA PruneDoes ==
  ASSUME Steady, RInv, NEW c \in Clients, Prune(c)
  PROVE  Good(c)
<1>0. RunTypeOK /\ Own(c) /\ Located(c) /\ c # Absent /\ Image \notin Names
  BY Locates

<1>1. /\ Others(c) /\ SelfOK /\ self[c] = Idle
      /\ self'[c].cmd = "ls --prune" /\ self'[c].at = "reaping" /\ self'[c].name = Absent
      /\ self'[c].todo = Dead /\ self'[c].has = 0 /\ self'[c].view = self[c].view
  <2>1. Listing \in SUBSET (Names \X Numbers) /\ Dead \in SUBSET (Names \X Numbers)
    BY <1>0, Listings
  <2>2. Begins(c, "ls --prune", "reaping", Absent, Dead)
    BY DEF Prune
  <2>3. "ls --prune" \in Cmds /\ "reaping" \in Places /\ Dead \in SUBSET (Names \X Numbers)
    BY <2>1 DEF Cmds, Places
  <2>4. /\ Others(c) /\ SelfOK /\ self[c].at = "idle"
        /\ self'[c].cmd = "ls --prune" /\ self'[c].at = "reaping" /\ self'[c].name = Absent /\ self'[c].todo = Dead
        /\ self'[c].has = self[c].has /\ self'[c].view = self[c].view
    BY <1>0, <2>2, <2>3, BeginsAs
  <2>5. self[c] = Idle /\ self[c].has = 0
    BY <1>0, <2>4 DEF Located
  <2> QED BY <2>4, <2>5
<1>d. (\A e \in Listing : dir[e[1]] = e[2]) /\ \A e \in Dead : dir[e[1]] = e[2] /\ ~Running(e[1])
  BY <1>0, Listings
<1>2. RunTypeOK'
  BY <1>0, <1>1 DEF Prune, RunTypeOK, SelfOK, Frees, disk, kept
<1>3. Effect(c)
  BY <1>0, <1>1 DEF Prune, Effect, DirStep, VmStep, Frees, disk, kept, Located, RunAt, Runs
<1>4. Accounts(c) /\ Leaves(c)
  BY <1>1, FromIdle DEF Prune, disk, kept
<1>5. Placed(c)' /\ TodoTrue(c)'
  BY <1>0, <1>1, <1>d DEF Prune, disk, kept, Placed, TodoTrue, Fits, Runs, Pruning, Recorded,
     Running, BeforeSave, Turns, Promotes
<1>6. Guards(c)' /\ Deletes(c)' /\ Copies(c)'
  BY <1>0, <1>1, <1>d DEF Guards, Deletes, Copies, Runs
<1> QED BY <1>2, <1>3, <1>4, <1>5, <1>6 DEF Good, Own

LEMMA SshConfigDoes ==
  ASSUME Steady, RInv, NEW c \in Clients, SshConfig(c)
  PROVE  Good(c)
<1>0. RunTypeOK /\ Own(c) /\ Located(c) /\ c # Absent /\ Image \notin Names
  BY Locates

<1>1. /\ Others(c) /\ SelfOK /\ self[c] = Idle
      /\ self'[c].cmd = "ssh-config --write" /\ self'[c].at = "rendering" /\ self'[c].name = Absent
      /\ self'[c].todo = {} /\ self'[c].has = 0 /\ self'[c].view = self[c].view
  <2>1. Listing \in SUBSET (Names \X Numbers) /\ Dead \in SUBSET (Names \X Numbers)
    BY <1>0, Listings
  <2>2. Begins(c, "ssh-config --write", "rendering", Absent, {})
    BY DEF SshConfig
  <2>3. "ssh-config --write" \in Cmds /\ "rendering" \in Places /\ {} \in SUBSET (Names \X Numbers)
    BY <2>1 DEF Cmds, Places
  <2>4. /\ Others(c) /\ SelfOK /\ self[c].at = "idle"
        /\ self'[c].cmd = "ssh-config --write" /\ self'[c].at = "rendering" /\ self'[c].name = Absent /\ self'[c].todo = {}
        /\ self'[c].has = self[c].has /\ self'[c].view = self[c].view
    BY <1>0, <2>2, <2>3, BeginsAs
  <2>5. self[c] = Idle /\ self[c].has = 0
    BY <1>0, <2>4 DEF Located
  <2> QED BY <2>4, <2>5
<1>d. (\A e \in Listing : dir[e[1]] = e[2]) /\ \A e \in Dead : dir[e[1]] = e[2] /\ ~Running(e[1])
  BY <1>0, Listings
<1>2. RunTypeOK'
  BY <1>0, <1>1 DEF SshConfig, RunTypeOK, SelfOK, Frees, disk, kept
<1>3. Effect(c)
  BY <1>0, <1>1 DEF SshConfig, Effect, DirStep, VmStep, Frees, disk, kept, Located, RunAt, Runs
<1>4. Accounts(c) /\ Leaves(c)
  BY <1>1, FromIdle DEF SshConfig, disk, kept
<1>5. Placed(c)' /\ TodoTrue(c)'
  BY <1>0, <1>1, <1>d DEF SshConfig, disk, kept, Placed, TodoTrue, Fits, Runs, Pruning, Recorded,
     Running, BeforeSave, Turns, Promotes, Ending, Unlocked
<1>6. Guards(c)' /\ Deletes(c)' /\ Copies(c)'
  BY <1>0, <1>1, <1>d DEF Guards, Deletes, Copies, Runs
<1> QED BY <1>2, <1>3, <1>4, <1>5, <1>6 DEF Good, Own

LEMMA PromotePreparesDoes ==
  ASSUME Steady, RInv, NEW c \in Clients, PromotePrepares(c)
  PROVE  Good(c)
<1>0. RunTypeOK /\ Own(c) /\ Located(c) /\ c # Absent /\ Image \notin Names
  BY Locates

<1>1. /\ Others(c) /\ SelfOK /\ self[c] = Idle
      /\ self'[c].cmd \in {"promote", "promote --force"} /\ self'[c].at = "locking" /\ self'[c].name \in Names
      /\ self'[c].todo = {} /\ self'[c].has = 0 /\ self'[c].view = self[c].view
  <2>1. Listing \in SUBSET (Names \X Numbers) /\ Dead \in SUBSET (Names \X Numbers)
    BY <1>0, Listings
  <2>2. PICK n \in Names, how \in {"promote", "promote --force"} : Begins(c, how, "locking", n, {})
    BY DEF PromotePrepares
  <2>3. how \in Cmds /\ "locking" \in Places
    BY DEF Cmds, Places
  <2>4. /\ Others(c) /\ SelfOK /\ self[c].at = "idle"
        /\ self'[c].cmd = how /\ self'[c].at = "locking" /\ self'[c].name = n /\ self'[c].todo = {}
        /\ self'[c].has = self[c].has /\ self'[c].view = self[c].view
    BY <1>0, <2>2, <2>3, BeginsAs
  <2>5. self[c] = Idle /\ self[c].has = 0
    BY <1>0, <2>4 DEF Located
  <2> QED BY <2>4, <2>5
<1>d. (\A e \in Listing : dir[e[1]] = e[2]) /\ \A e \in Dead : dir[e[1]] = e[2] /\ ~Running(e[1])
  BY <1>0, Listings
<1>2. RunTypeOK'
  BY <1>0, <1>1 DEF PromotePrepares, RunTypeOK, SelfOK, Frees, disk, kept
<1>3. Effect(c)
  BY <1>0, <1>1 DEF PromotePrepares, Effect, DirStep, VmStep, Frees, disk, kept, Located, RunAt,
     Runs
<1>4. Accounts(c) /\ Leaves(c)
  BY <1>1, FromIdle DEF PromotePrepares, disk, kept
<1>5. Placed(c)' /\ TodoTrue(c)'
  BY <1>0, <1>1, <1>d DEF PromotePrepares, disk, kept, Placed, TodoTrue, Fits, Runs, Pruning,
     Recorded, Running, BeforeSave, Turns, Promotes, Unlocked
<1>6. Guards(c)' /\ Deletes(c)' /\ Copies(c)'
  BY <1>0, <1>1, <1>d DEF Guards, Deletes, Copies, Runs
<1> QED BY <1>2, <1>3, <1>4, <1>5, <1>6 DEF Good, Own

LEMMA StepDoes ==
  ASSUME Steady, RInv, NEW c \in Clients, Step(c)
  PROVE  Good(c)
<1>1. ASSUME Run(c) PROVE Good(c)
  BY <1>1, ChooseNameDoes, ClaimDoes, ReapOneDoes, ReapedDoes, MakeDirDoes, CloneGoldenDoes,
     StartVmDoes, FindDoes, SaveRecordDoes, ReachDoes, DropDoes DEF Run
<1>2. ASSUME Destroy(c) PROVE Good(c)
  BY <1>2, DestroyOneDoes, DestroyAllDoes, TurnDoes, StopVmDoes, DeleteVmDoes, RemoveRecordDoes,
     TurnedDoes DEF Destroy
<1>3. ASSUME Promote(c) PROVE Good(c)
  BY <1>3, PromotePreparesDoes, PromoteLocksDoes, HaltDoes, ClearImageDoes, CopyVmDoes,
     PromoteKeepsDoes, PromoteReplacesDoes DEF Promote
<1> QED BY <1>1, <1>2, <1>3, PruneDoes, SshConfigDoes, RenderDoes, WriteDoes, CrashDoes DEF Step

\* Only a refresh writes the file
LEMMA FileStep ==
  ASSUME NEW c \in Clients, Step(c)
  PROVE  Write(c) \/ file' = file
BY DEF Step, Run, Destroy, Promote, ChooseName, Claim, ReapOne, Reaped, MakeDir, CloneGolden,
   StartVm, Find, SaveRecord, Reach, Drop, DestroyOne, DestroyAll, Turn, StopVm, DeleteVm,
   RemoveRecord, Turned, PromotePrepares, PromoteLocks, Halt, ClearImage, CopyVm, PromoteKeeps,
   PromoteReplaces, Prune, SshConfig, Render, Crash

-----------------------------------------------------------------------------
(* The other clients                                                       *)

LEMMA OthersKeep ==
  ASSUME RInv, NEW c \in Clients, Effect(c), NEW d \in Clients \ {c}
  PROVE  Own(d)'
<1>0. /\ RunTypeOK /\ Own(d) /\ Located(d) /\ d # Absent /\ Own(c) /\ Located(c) /\ c # Absent
      /\ Apart(c, d) /\ Apart(d, c) /\ self'[d] = self[d] /\ c # d
  <2>1. Apart(c, d) /\ Apart(d, c) /\ self'[d] = self[d]
    BY DEF RInv, Effect, Others
  <2> QED BY <2>1, Locates
<1>1. lock = d => lock' = d
  BY <1>0 DEF Effect
<1>2. Placed(d)'
  BY <1>0, <1>1 DEF Own, Placed, Runs, Pruning
<1>3. TodoTrue(d)'
  <2> SUFFICES ASSUME NEW e \in self[d].todo
               PROVE  dir'[e[1]] \in {e[2], Absent} /\ (Pruning(d) => ~Running(e[1])')
    BY <1>0 DEF TodoTrue, Pruning
  <2>1. e[1] \in Names /\ dir[e[1]] \in {e[2], Absent} /\ (Pruning(d) => ~Running(e[1]))
    BY <1>0 DEF Own, TodoTrue, Located
  <2>2. CASE Pruning(d)
    <3>1. ~InHand(c, e[1])
      BY <1>0, <2>2 DEF Apart
    <3>2. dir'[e[1]] \in {dir[e[1]], Absent}
      BY <2>1, <3>1 DEF Effect, DirStep, RunAt, Runs, InHand, Busy
    <3>3. vm'[e[1]] \in {vm[e[1]], Absent} /\ (e[1] \in up' => e[1] \in up)
      BY <2>1, <3>1 DEF Effect, VmStep, RunAt, Runs, InHand, Busy
    <3> QED BY <2>1, <2>2, <3>2, <3>3 DEF Running, Recorded
  <2>3. CASE ~Pruning(d)
    <3>1. lock = d
      BY <1>0, <2>3 DEF Own, Placed, Located, Turns
    <3>2. dir'[e[1]] \in {dir[e[1]], Absent}
      BY <1>0, <2>1, <3>1 DEF Effect, DirStep, RunAt, Located
    <3> QED BY <2>1, <2>3, <3>2
  <2> QED BY <2>2, <2>3
<1>4. Guards(d)'
  <2> SUFFICES ASSUME Runs(d) PROVE Guards(d)'
    BY <1>0 DEF Guards, Runs
  <2> DEFINE n == self[d].name
  <2>1. n \in Names /\ ~(Runs(c) /\ self[c].name = n)
    BY <1>0 DEF Located, Apart
  <2>2. (~Recorded(n) => ~(dir'[n] \notin {Absent, 0})) /\ vm'[n] \in {vm[n], Absent}
    BY <2>1 DEF Effect, DirStep, VmStep, RunAt, Recorded
  <2> QED BY <1>0, <2>1, <2>2 DEF Own, Guards, Recorded
<1>5. Deletes(d)'
  <2> SUFFICES ASSUME self[d].at = "removing" PROVE Deletes(d)'
    BY <1>0 DEF Deletes
  <2> DEFINE n == self[d].name
  <2>1. n \in Names /\ lock = d /\ (vm[n] = Absent \/ ~Recorded(n))
    BY <1>0 DEF Located, Own, Deletes
  <2>2. ~Recorded(n) => dir'[n] \in {Absent, 0}
    BY <1>0, <2>1 DEF Effect, DirStep, Recorded
  <2>3. vm[n] = Absent => vm'[n] = Absent \/ ~Recorded(n)
    BY <1>0, <2>1 DEF Effect, VmStep, RunAt, Own, Guards, BeforeSave
  <2> QED BY <1>0, <2>1, <2>2, <2>3 DEF Deletes, Recorded
<1>6. Copies(d)'
  <2> SUFFICES ASSUME self[d].at \in {"clearing", "copying", "replacing"} PROVE Copies(d)'
    BY <1>0 DEF Copies
  <2> DEFINE n == self[d].name
  <2>1. n \in Names /\ lock = d /\ PromotesIt(d, n) /\ vm[n] # Absent
    BY <1>0 DEF Located, Own, Copies, PromotesIt, Promotes
  <2>2. ~InHand(c, n) /\ ~MayRemove(c, n)
    BY <1>0, <2>1 DEF Apart, MayRemove, Located, PromotesIt
  <2>3. vm'[n] = vm[n]
    BY <2>1, <2>2 DEF Effect, VmStep
  <2>4. vm'[Image] = vm[Image]
    BY <1>0, <2>1 DEF Effect, VmStep, Located
  <2> QED BY <1>0, <2>1, <2>3, <2>4 DEF Own, Copies
<1> QED BY <1>2, <1>3, <1>4, <1>5, <1>6 DEF Own

\* What runs and is recorded after a step was so before, or has just been recorded
LEMMA NewRunning ==
  ASSUME RInv, NEW c \in Clients, Effect(c), NEW n \in Names, Running(n)'
  PROVE  (Running(n) /\ dir'[n] = dir[n]) \/ (RunAt(c, n, "saving") /\ RunAt(c, n, "reaching")')
<1>0. Own(c)
  BY DEF RInv
<1>1. ASSUME dir'[n] = dir[n]
      PROVE  Running(n)
  <2>1. Recorded(n)
    BY <1>1 DEF Running, Recorded
  <2>2. ~RunAt(c, n, "cloning") /\ ~RunAt(c, n, "starting")
    BY <1>0, <2>1 DEF Own, Guards, RunAt, BeforeSave
  <2>3. n \in up /\ (vm'[n] \in {vm[n], Absent})
    BY <2>2 DEF Effect, VmStep, Running
  <2> QED BY <1>1, <2>1, <2>3 DEF Running, Recorded
<1> QED BY <1>1 DEF Effect, DirStep, Running, Recorded

-----------------------------------------------------------------------------
(* Names in common                                                         *)

LEMMA QuietGoes ==
  ASSUME RInv, NEW c \in Clients
  PROVE  /\ Ends(c) => Quiet(c)
         /\ \A to \in Places : Goes(c, to) =>
              /\ Runs(c)' = Runs(c) /\ self'[c].name = self[c].name /\ self'[c].at = to
              /\ self'[c].cmd = self[c].cmd /\ self'[c].todo = self[c].todo
BY Locates, GoesTo, EndsNow, IdleSays DEF Quiet, Runs, Pruning, Promotes

LEMMA QuietRun ==
  ASSUME Steady, RInv, NEW c \in Clients,
         Claim(c) \/ ReapOne(c) \/ Reaped(c) \/ MakeDir(c) \/ CloneGolden(c) \/ StartVm(c) \/ Find(c)
           \/ SaveRecord(c) \/ Reach(c) \/ Drop(c)
  PROVE  Quiet(c)
<1>0. RunTypeOK /\ Located(c) /\ self \in [Clients -> Client] /\ self[c] \in Client
  BY Locates DEF RunTypeOK
<1>1. CASE Claim(c)
  <2>1. CASE self' = [self EXCEPT ![c].at = "reaping", ![c].todo = Dead]
    <3>1. self'[c].cmd = self[c].cmd /\ self'[c].name = self[c].name /\ self'[c].at = "reaping"
      BY <1>0, <2>1 DEF Client
    <3> QED BY <1>0, <1>1, <3>1 DEF Claim, Quiet, Runs, Pruning, Busy, Promotes, Located
  <2> QED BY <1>1, <2>1, QuietGoes DEF Claim
<1>2. CASE ReapOne(c)
  <2>1. /\ self'[c].cmd = self[c].cmd /\ self'[c].name = self[c].name /\ self'[c].at = self[c].at
        /\ self'[c].todo \subseteq self[c].todo
    BY <1>0, <1>2 DEF ReapOne, Client
  <2> QED BY <1>2, <2>1 DEF ReapOne, Quiet, Runs, Pruning
<1>3. CASE Reaped(c)
  BY <1>0, <1>3, QuietGoes DEF Reaped, Quiet, Runs, Pruning, Busy, Promotes, Places
<1>4. CASE MakeDir(c) \/ StartVm(c) \/ Find(c) \/ SaveRecord(c) \/ Drop(c)
  BY <1>0, <1>4, QuietGoes DEF MakeDir, StartVm, Find, SaveRecord, Drop, Quiet, Runs, Pruning,
     Busy, Promotes, Places
<1>5. CASE CloneGolden(c)
  <2>1. CASE self' = [self EXCEPT ![c].at = "starting", ![c].has = made + 1]
    <3>1. self'[c].cmd = self[c].cmd /\ self'[c].name = self[c].name /\ self'[c].at = "starting"
      BY <1>0, <2>1 DEF Client
    <3> QED BY <1>5, <3>1 DEF CloneGolden, Quiet, Runs, Pruning, Busy, Promotes
  <2>2. CASE Goes(c, "dropping")
    BY <1>5, <2>2, QuietGoes DEF CloneGolden, Quiet, Runs, Pruning, Busy, Promotes, Places
  <2> QED BY <1>5, <2>1, <2>2 DEF CloneGolden
<1>6. CASE Reach(c)
  <2>1. CASE self' = [self EXCEPT ![c].at = "rendering", ![c].has = 0]
    <3>1. self'[c].cmd = self[c].cmd /\ self'[c].name = self[c].name /\ self'[c].at = "rendering"
      BY <1>0, <2>1 DEF Client
    <3> QED BY <1>6, <3>1 DEF Reach, Quiet, Runs, Pruning, Busy, Promotes
  <2>2. CASE Goes(c, "dropping")
    BY <1>6, <2>2, QuietGoes DEF Reach, Quiet, Runs, Pruning, Busy, Promotes, Places
  <2> QED BY <1>6, <2>1, <2>2 DEF Reach
<1> QED BY <1>1, <1>2, <1>3, <1>4, <1>5, <1>6

LEMMA QuietOthers ==
  ASSUME Steady, RInv, NEW c \in Clients,
         Destroy(c) \/ (Promote(c) /\ ~PromotePrepares(c)) \/ SshConfig(c) \/ Write(c) \/ Crash(c)
  PROVE  Quiet(c)
<1>0. RunTypeOK /\ Located(c) /\ self \in [Clients -> Client] /\ self[c] \in Client
  BY Locates DEF RunTypeOK
<1>1. CASE DestroyOne(c) \/ DestroyAll(c) \/ SshConfig(c)
  <2>1. \E what \in {"destroy", "destroy --all", "ssh-config --write"}, where \in {"turning", "rendering"} :
          \E todo : Begins(c, what, where, Absent, todo)
    BY <1>1, Zenon DEF DestroyOne, DestroyAll, SshConfig
  <2>2. PICK what \in {"destroy", "destroy --all", "ssh-config --write"}, where \in {"turning", "rendering"} :
          \E todo : Begins(c, what, where, Absent, todo)
    BY <2>1
  <2>3. PICK todo : Begins(c, what, where, Absent, todo)
    BY <2>2
  <2>4. self'[c].cmd = what /\ self'[c].at = where
    BY <1>0, <2>3 DEF Client, Begins
  <2> QED BY <2>4 DEF Quiet, Runs, Pruning, Promotes
<1>2. CASE Turn(c)
  BY <1>0, <1>2 DEF Turn, Quiet, Runs, Pruning, Promotes, Located, Turns
<1>3. CASE StopVm(c) \/ DeleteVm(c) \/ RemoveRecord(c) \/ Turned(c)
  BY <1>0, <1>3, QuietGoes DEF StopVm, DeleteVm, RemoveRecord, Turned, Quiet, Runs, Pruning,
     Promotes, Places, Located, Turns
<1>4. CASE PromoteLocks(c) \/ Halt(c) \/ ClearImage(c) \/ CopyVm(c) \/ PromoteKeeps(c) \/ PromoteReplaces(c)
  BY <1>0, <1>4, QuietGoes DEF PromoteLocks, Halt, ClearImage, CopyVm, PromoteKeeps,
     PromoteReplaces, PromoteFails, Quiet, Runs, Pruning, Promotes, Places, Located
<1>5. CASE Write(c) \/ Crash(c)
  BY <1>5, QuietGoes DEF Write, Crash
<1> QED BY <1>1, <1>2, <1>3, <1>4, <1>5 DEF Destroy, Promote

LEMMA QuietApart ==
  ASSUME RInv, NEW c \in Clients, Others(c), Quiet(c), NEW d \in Clients \ {c}
  PROVE  Apart(c, d)' /\ Apart(d, c)'
<1>1. Apart(c, d) /\ Apart(d, c) /\ self'[d] = self[d]
  BY DEF RInv, Others
<1>2. \A n \in Names \cup {Absent} : InHand(c, n)' => InHand(c, n)
  BY DEF Quiet, InHand, Runs
<1>3. \A n \in Names \cup {Absent} : PromotesIt(c, n)' => PromotesIt(c, n)
  BY DEF Quiet, PromotesIt
<1> QED BY <1>1, <1>2, <1>3 DEF Apart, Quiet, InHand, PromotesIt, Runs, Pruning

\* The four that come nearer: each has looked first
LEMMA ChooseNameApart ==
  ASSUME Steady, RInv, NEW c \in Clients, ChooseName(c), Good(c), NEW d \in Clients \ {c}
  PROVE  Apart(c, d)' /\ Apart(d, c)'
<1>1. PICK n \in Names :
        /\ dir[n] = Absent /\ \A x \in Clients : ~WorksWith(x, n)
        /\ self' = [self EXCEPT ![c].cmd = "run", ![c].at = "claiming", ![c].name = n]
  BY Steady DEF ChooseName, Steady
<1>2. self'[c].cmd = "run" /\ self'[c].at = "claiming" /\ self'[c].name = n
  BY <1>1, Locates DEF RunTypeOK, Client
<1>3. Apart(d, c) /\ self'[d] = self[d] /\ Located(d)
  BY Locates DEF RInv, Good, Effect, Others
<1>4. (self[d].at # "idle" => self[d].name # n) /\ \A e \in self[d].todo : e[1] # n \/ self[d].at = "idle"
  BY <1>1 DEF WorksWith
<1>5. Apart(c, d)'
  BY <1>2, <1>3, <1>4 DEF Apart, Runs, Pruning, Promotes, Located
<1>6. Apart(d, c)'
  BY <1>2, <1>3, <1>4 DEF Apart, Runs, Pruning, Promotes, PromotesIt, InHand, Located
<1> QED BY <1>5, <1>6

LEMMA PromotePreparesApart ==
  ASSUME Steady, RInv, NEW c \in Clients, PromotePrepares(c), Good(c), NEW d \in Clients \ {c}
  PROVE  Apart(c, d)' /\ Apart(d, c)'
<1>1. PICK n \in Names, how \in {"promote", "promote --force"} :
        /\ Running(n) /\ \A x \in Clients : ~InHand(x, n)
        /\ Begins(c, how, "locking", n, {})
  BY Steady DEF PromotePrepares, Steady
<1>2. self'[c].cmd = how /\ self'[c].at = "locking" /\ self'[c].name = n
  BY <1>1, Locates DEF RunTypeOK, Client, Begins
<1>3. /\ Apart(d, c) /\ self'[d] = self[d] /\ Own(d) /\ self[d].todo \in SUBSET (Names \X Numbers)
  BY Locates DEF RInv, Good, Effect, Others, Located
<1>4. ~InHand(d, n) /\ (Pruning(d) => \A e \in self[d].todo : e[1] # n)
  BY <1>1, <1>3 DEF Own, TodoTrue
<1>5. Apart(c, d)'
  BY <1>2, <1>3, <1>4 DEF Apart, Runs, Pruning, InHand
<1>6. Apart(d, c)'
  BY <1>2, <1>3, <1>4 DEF Apart, Runs, Pruning, PromotesIt, InHand
<1> QED BY <1>5, <1>6

LEMMA PruneApart ==
  ASSUME Steady, RInv, NEW c \in Clients, Prune(c), Good(c), NEW d \in Clients \ {c}
  PROVE  Apart(c, d)' /\ Apart(d, c)'
<1>1. /\ lock = Absent /\ \A x \in Clients, n \in Names : ~InHand(x, n) /\ self[x].at # "locking"
      /\ Begins(c, "ls --prune", "reaping", Absent, Dead)
  BY Steady DEF Prune, Steady
<1>2. self'[c].cmd = "ls --prune" /\ self'[c].at = "reaping" /\ self'[c].name = Absent /\ self'[c].todo = Dead
  <2>1. self \in [Clients -> Client]
    BY Locates DEF RunTypeOK
  <2> QED BY <1>1, <2>1 DEF Client, Begins
<1>3. /\ Apart(d, c) /\ self'[d] = self[d] /\ Own(d) /\ d # Absent
      /\ \A e \in Dead : e[1] \in Names
  BY Locates, Listings DEF RInv, Good, Effect, Others
<1>4. \A n \in Names : ~InHand(d, n) /\ ~PromotesIt(d, n)
  BY <1>1, <1>3 DEF Own, Placed, PromotesIt, Promotes, Unlocked, Ending, Pruning
<1>5. Apart(c, d)'
  BY <1>2, <1>3, <1>4 DEF Apart, Runs, Promotes, InHand, PromotesIt
<1>6. Apart(d, c)'
  BY <1>2, <1>3 DEF Apart, Runs, Promotes, PromotesIt, InHand
<1> QED BY <1>5, <1>6

LEMMA RenderApart ==
  ASSUME Steady, RInv, NEW c \in Clients, Render(c), Good(c), NEW d \in Clients \ {c}
  PROVE  Apart(c, d)' /\ Apart(d, c)'
<1>1. self[c].at = "rendering" /\ \A x \in Clients : self[x].at # "writing"
  BY Steady DEF Render, Steady
<1>2. \/ self'[c] = Idle
      \/ self'[c].cmd = self[c].cmd /\ self'[c].at = "writing" /\ self'[c].name = self[c].name
  <2>1. RunTypeOK /\ self[c] \in Client /\ self \in [Clients -> Client]
    BY Locates DEF RunTypeOK
  <2>2. ASSUME NEW seen, self' = [self EXCEPT ![c].at = "writing", ![c].view = seen]
        PROVE  self'[c].cmd = self[c].cmd /\ self'[c].at = "writing" /\ self'[c].name = self[c].name
    BY <2>1, <2>2 DEF Client
  <2> QED BY <2>1, <2>2, EndsNow DEF Render
<1>3. Apart(c, d) /\ Apart(d, c) /\ self'[d] = self[d]
  BY DEF RInv, Good, Effect, Others
<1>4. CASE self'[c] = Idle
  BY <1>1, <1>3, <1>4, IdleSays DEF Apart, Runs, Promotes, PromotesIt, InHand
<1>5. CASE self'[c].cmd = self[c].cmd /\ self'[c].at = "writing" /\ self'[c].name = self[c].name
  BY <1>1, <1>3, <1>5 DEF Apart, Runs, Pruning, Promotes, PromotesIt, InHand, Busy
<1> QED BY <1>2, <1>4, <1>5

LEMMA StepApart ==
  ASSUME Steady, RInv, NEW c \in Clients, Step(c), Good(c), NEW d \in Clients \ {c}
  PROVE  Apart(c, d)' /\ Apart(d, c)'
<1>1. Others(c)
  BY DEF Good, Effect
<1>2. Quiet(c) \/ ChooseName(c) \/ PromotePrepares(c) \/ Prune(c) \/ Render(c)
  BY QuietRun, QuietOthers DEF Step, Run
<1> QED BY <1>1, <1>2, QuietApart, ChooseNameApart, PromotePreparesApart, PruneApart, RenderApart

-----------------------------------------------------------------------------
(* The properties over one step                                            *)

LEMMA SeesAfter ==
  ASSUME Steady, RInv, NEW c \in Clients, Step(c), Good(c), NEW d \in Clients
  PROVE  Sees(d)'
<1>0. Effect(c) /\ Leaves(c) /\ Others(c)
  BY DEF Good, Effect
<1>1. CASE d # c
  <2> SUFFICES ASSUME self[d].at = "writing", NEW n \in Names, Running(n)', dir'[n] \notin excused'
               PROVE  <<n, dir'[n]>> \in self[d].view \/ \E x \in Clients \ {d} : Runs(x)' /\ self'[x].name = n
    BY <1>0, <1>1 DEF Sees, Others
  <2>1. CASE RunAt(c, n, "reaching")'
    BY <1>1, <2>1 DEF RunAt
  <2>2. CASE Running(n) /\ dir'[n] = dir[n]
    <3>1. dir[n] \notin excused
      BY <1>0, <2>2 DEF Effect
    <3>2. <<n, dir[n]>> \in self[d].view \/ \E x \in Clients \ {d} : Runs(x) /\ self[x].name = n
      BY <2>2, <3>1 DEF RInv, Sees
    <3>3. ASSUME NEW x \in Clients \ {d, c}, Runs(x), self[x].name = n
          PROVE  Runs(x)' /\ self'[x].name = n
      BY <1>0, <3>3 DEF Others, Runs
    <3>4. ASSUME Runs(c), self[c].name = n
          PROVE  Runs(c)' /\ self'[c].name = n
      <4>1. self[c].at # "writing"
        BY <1>1 DEF RInv, Apart
      <4> QED BY <1>0, <3>4, <4>1 DEF Leaves, Write
    <3> QED BY <1>1, <2>2, <3>2, <3>3, <3>4
  <2> QED BY <1>0, <2>1, <2>2, NewRunning
<1>2. CASE d = c
  <2>1. CASE Render(c)
    <3>1. /\ UNCHANGED <<dir, vm, up, excused>> /\ self \in [Clients -> Client] /\ self[c] \in Client /\ RunTypeOK
      BY <2>1, Locates DEF Render, disk, kept, RunTypeOK
    <3>2. CASE Ends(c)
      BY <1>2, <3>1, <3>2, EndsNow, IdleSays DEF Sees
    <3> DEFINE seen == {<<n, dir[n]>> : n \in {m \in Names : Running(m)}}
    <3>3. CASE self' = [self EXCEPT ![c].at = "writing", ![c].view = seen]
      <4>1. \A n \in Names : Running(n) => <<n, dir[n]>> \in seen
        OBVIOUS
      <4> HIDE DEF seen
      <4>2. self'[c].view = seen
        BY <3>1, <3>3 DEF Client
      <4> QED BY <1>2, <3>1, <4>1, <4>2 DEF Sees, Running, Recorded
    <3> QED BY <2>1, <3>2, <3>3 DEF Render
  <2>2. CASE ChooseName(c) \/ Prune(c) \/ PromotePrepares(c)
    <3>1. RunTypeOK /\ self \in [Clients -> Client] /\ self[c] \in Client
      BY Locates DEF RunTypeOK
    <3>2. self'[c].at # "writing"
      <4>1. CASE ChooseName(c)
        BY <3>1, <4>1 DEF ChooseName, Client
      <4>2. ASSUME NEW what, NEW where \in {"reaping", "locking"}, NEW n, NEW todo,
                   Begins(c, what, where, n, todo)
            PROVE  self'[c].at # "writing"
        BY <3>1, <4>2 DEF Begins, Client
      <4> QED BY <2>2, <4>1, <4>2 DEF Prune, PromotePrepares
    <3> QED BY <1>2, <3>2 DEF Sees
  <2>3. CASE Quiet(c)
    BY <1>2, <2>3 DEF Quiet, Sees
  <2> QED BY <2>1, <2>2, <2>3, QuietRun, QuietOthers DEF Step, Run
<1> QED BY <1>1, <1>2

LEMMA NamedAfter ==
  ASSUME RInv, NEW c \in Clients, Good(c)
  PROVE  EveryVmNamed'
<1> SUFFICES ASSUME NEW n \in Names, vm'[n] # Absent, vm'[n] \notin excused', ~Recorded(n)'
             PROVE  \E x \in Clients : self'[x].has # 0 /\ self'[x].name = n
  BY DEF EveryVmNamed
<1>0. Effect(c) /\ Accounts(c)
  BY DEF Good
<1>1. CASE vm'[n] # vm[n]
  BY <1>0, <1>1 DEF Accounts
<1>2. CASE vm'[n] = vm[n]
  <2>1. ~Recorded(n) /\ vm[n] \notin excused /\ vm[n] # Absent
    BY <1>0, <1>2 DEF Effect, Accounts, Told
  <2>2. PICK x \in Clients : self[x].has # 0 /\ self[x].name = n
    BY <2>1 DEF RInv, EveryVmNamed
  <2>3. CASE x # c
    BY <1>0, <2>2, <2>3 DEF Effect, Others
  <2>4. CASE x = c
    BY <1>0, <2>2, <2>4 DEF Accounts, Told
  <2> QED BY <2>3, <2>4
<1> QED BY <1>1, <1>2

LEMMA RecordsAfter ==
  ASSUME RInv, NEW c \in Clients, Good(c)
  PROVE  RecordNamesItsVm'
<1> SUFFICES ASSUME NEW n \in Names, dir'[n] \notin {Absent, 0}, vm'[n] # Absent
             PROVE  vm'[n] = dir'[n]
  BY DEF RecordNamesItsVm, Recorded
<1>0. Effect(c) /\ Own(c)
  BY DEF Good, RInv
<1>1. CASE dir'[n] = dir[n]
  <2>1. Recorded(n) /\ ~RunAt(c, n, "cloning")
    BY <1>0, <1>1 DEF Own, Guards, RunAt, BeforeSave, Recorded
  <2>2. vm'[n] = vm[n]
    BY <1>0, <2>1 DEF Effect, VmStep
  <2> QED BY <1>1, <2>1, <2>2 DEF RInv, RecordNamesItsVm
<1>2. CASE dir'[n] = self[c].has /\ RunAt(c, n, "saving")
  BY <1>0, <1>2 DEF Effect, VmStep, RunAt, Own, Guards
<1> QED BY <1>0, <1>1, <1>2 DEF Effect, DirStep

LEMMA AliasAfter ==
  ASSUME Steady, RInv, NEW c \in Clients, Step(c), Good(c)
  PROVE  AliasStays'
<1> SUFFICES ASSUME file' # Absent, NEW n \in Names, Running(n)', dir'[n] \notin excused'
             PROVE  <<n, dir'[n]>> \in file' \/ \E x \in Clients : Runs(x)' /\ self'[x].name = n /\ self'[x].at # "idle"
  BY DEF AliasStays, Runs
<1>0. Effect(c) /\ Leaves(c) /\ Others(c) /\ Own(c)'
  BY DEF Good, Effect
<1>1. \A x \in Clients : Runs(x) => self[x].at # "idle"
  BY Locates DEF Located, Runs
<1>2. ASSUME NEW x \in Clients, Runs(x)', self'[x].name = n
      PROVE  self'[x].at # "idle"
  BY <1>0, <1>1, <1>2, IdleSays DEF Others, Own, Placed, Runs
<1> SUFFICES <<n, dir'[n]>> \in file' \/ \E x \in Clients : Runs(x)' /\ self'[x].name = n
  BY <1>2
<1>3. CASE RunAt(c, n, "reaching")'
  BY <1>3 DEF RunAt
<1>4. CASE Running(n) /\ dir'[n] = dir[n] /\ Write(c)
  <2>1. <<n, dir[n]>> \in self[c].view \/ \E x \in Clients \ {c} : Runs(x) /\ self[x].name = n
    BY <1>0, <1>4 DEF RInv, Sees, Write, Effect
  <2> QED BY <1>0, <1>4, <2>1 DEF Write, Others, Runs
<1>5. CASE Running(n) /\ dir'[n] = dir[n] /\ file' = file /\ ~Write(c)
  <2>1. <<n, dir[n]>> \in file \/ \E x \in Clients : Runs(x) /\ self[x].name = n
    BY <1>0, <1>5 DEF RInv, AliasStays, Effect, Runs
  <2>2. ASSUME NEW x \in Clients, Runs(x), self[x].name = n
        PROVE  Runs(x)' /\ self'[x].name = n
    <3>1. CASE x # c
      BY <1>0, <2>2, <3>1 DEF Others, Runs
    <3>2. CASE x = c
      BY <1>0, <1>5, <2>2, <3>2 DEF Leaves
    <3> QED BY <3>1, <3>2
  <2> QED BY <1>5, <2>1, <2>2
<1> QED BY <1>0, <1>3, <1>4, <1>5, NewRunning, FileStep

LEMMA StepKeeps ==
  ASSUME Steady, RInv, NEW c \in Clients, Step(c)
  PROVE  RInv'
<1>1. Good(c) /\ RunTypeOK' /\ Own(c)' /\ Effect(c)
  BY StepDoes DEF Good
<1>2. \A d \in Clients : Own(d)' /\ Sees(d)'
  BY <1>1, OthersKeep, SeesAfter
<1>3. \A d \in Clients : \A e \in Clients \ {d} : Apart(d, e)'
  <2> SUFFICES ASSUME NEW d \in Clients, NEW e \in Clients \ {d} PROVE Apart(d, e)'
    OBVIOUS
  <2>1. CASE d # c /\ e # c
    <3>1. Apart(d, e) /\ self'[d] = self[d] /\ self'[e] = self[e]
      BY <1>1, <2>1 DEF RInv, Effect, Others
    <3> QED BY <3>1 DEF Apart, Runs, Pruning, InHand, PromotesIt
  <2> QED BY <1>1, <2>1, StepApart
<1>4. EveryVmNamed' /\ RecordNamesItsVm' /\ AliasStays'
  BY <1>1, NamedAfter, RecordsAfter, AliasAfter
<1> QED BY <1>1, <1>2, <1>3, <1>4 DEF RInv

\* A guest that stops changes nothing that is written down
LEMMA StopsKeep ==
  ASSUME RInv, UNCHANGED <<dir, lock, vm, made, file, self, excused>>, up' \subseteq up
  PROVE  RInv'
<1>1. RunTypeOK'
  BY DEF RInv, RunTypeOK
<1>2. \A n \in Names : (Running(n)' => Running(n)) /\ Recorded(n)' = Recorded(n)
  BY DEF Running, Recorded
<1>3. ASSUME NEW c \in Clients PROVE Own(c)' /\ Sees(c)'
  <2>1. Own(c) /\ Sees(c) /\ Located(c)
    BY Locates DEF RInv
  <2>2. Placed(c)'
    BY <2>1 DEF Own, Placed, Runs, Pruning
  <2>3. TodoTrue(c)'
    BY <1>2, <2>1 DEF Own, TodoTrue, Located, Pruning
  <2>4. Guards(c)' /\ Deletes(c)' /\ Copies(c)'
    BY <2>1 DEF Own, Guards, Deletes, Copies, Runs, Recorded
  <2>5. Sees(c)'
    BY <1>2, <2>1 DEF Sees, Runs
  <2> QED BY <2>2, <2>3, <2>4, <2>5 DEF Own
<1>4. \A c \in Clients : \A d \in Clients \ {c} : Apart(c, d)'
  BY DEF RInv, Apart, Runs, Pruning, InHand, PromotesIt
<1>5. EveryVmNamed' /\ RecordNamesItsVm' /\ AliasStays'
  BY <1>2 DEF RInv, EveryVmNamed, RecordNamesItsVm, AliasStays, Recorded
<1> QED BY <1>1, <1>3, <1>4, <1>5 DEF RInv

LEMMA Starts == Init => RInv
<1> SUFFICES ASSUME Init PROVE RInv
  OBVIOUS
<1>1. RunTypeOK
  <2>1. Idle \in Client
    BY DEF Client, Idle, Numbers, Cmds, Places
  <2> QED BY <2>1 DEF Init, RunTypeOK, Numbers
<1>2. \A c \in Clients : self[c] = Idle /\ self[c].at = "idle" /\ self[c].cmd = "none" /\ self[c].todo = {} /\ self[c].has = 0
  BY IdleSays DEF Init
<1>3. \A c \in Clients : Own(c) /\ Sees(c)
  BY <1>2 DEF Own, Placed, TodoTrue, Guards, Deletes, Copies, Sees, Fits, Runs, Unlocked, Promotes
<1>4. \A c \in Clients : \A d \in Clients \ {c} : Apart(c, d)
  BY <1>2 DEF Apart, Runs, Pruning, Promotes
<1>5. EveryVmNamed /\ RecordNamesItsVm /\ AliasStays
  BY DEF Init, EveryVmNamed, RecordNamesItsVm, AliasStays, Recorded, Running
<1> QED BY <1>1, <1>3, <1>4, <1>5 DEF RInv

LEMMA Steps ==
  ASSUME Steady
  PROVE  RInv /\ [Next]_vars => RInv'
<1> SUFFICES ASSUME RInv, [Next]_vars PROVE RInv'
  OBVIOUS
<1>1. ASSUME NEW c \in Clients, Step(c) PROVE RInv'
  BY <1>1, StepKeeps
<1>2. CASE GuestStops \/ UNCHANGED vars
  BY <1>2, StopsKeep DEF GuestStops, vars, disk, kept
<1> QED BY <1>1, <1>2 DEF Next, Step

-----------------------------------------------------------------------------
(* The theorems                                                            *)

\* Whatever fails, and whoever is killed: the inductive invariant, which says of every
\* client what it may rely on at the place where it is.
THEOREM RunsKeepStep ==
  ASSUME Steady
  PROVE  Spec => []RInv
<1>1. RInv /\ [Next]_vars => RInv'
  BY Steps
<1> QED BY <1>1, Starts, PTL DEF Spec

\* No VM of lume's is lost: a record or a guard has its name, or somebody was told
\* (run.rs:377-381, 404-407).
THEOREM NoVmIsLost ==
  ASSUME Steady
  PROVE  Spec => []EveryVmNamed
<1>1. RInv => EveryVmNamed
  BY DEF RInv
<1> QED BY <1>1, RunsKeepStep, PTL

\* What is stopped, deleted and cloned by name is the record's own VM.
THEOREM RecordsNameTheirVms ==
  ASSUME Steady
  PROVE  Spec => []RecordNamesItsVm
<1>1. RInv => RecordNamesItsVm
  BY DEF RInv
<1> QED BY <1>1, RunsKeepStep, PTL

\* A VM that runs keeps its alias, whichever refresh comes last (sshconfig.rs:160-163).
THEOREM AliasesStay ==
  ASSUME Steady
  PROVE  Spec => []AliasStays
<1>1. RInv => AliasStays
  BY DEF RInv
<1> QED BY <1>1, RunsKeepStep, PTL

\* promote gives up the VM it was asked for only for its copy (promote.rs:70-72).
THEOREM PromoteKeepsTheWork ==
  ASSUME Steady
  PROVE  Spec => WorkKept
<1> DEFINE Kept == \A n \in Names : Promoting(n) /\ vm'[n] = Absent => vm'[Image] = vm[n]
<1>1. RInv /\ [Next]_vars => Kept \/ UNCHANGED vars
  <2> SUFFICES ASSUME RInv, NEW c \in Clients, Step(c), NEW n \in Names, Promoting(n), vm'[n] = Absent
               PROVE  vm'[Image] = vm[n]
    <3>1. GuestStops /\ RInv => Kept
      <4>1. ASSUME GuestStops, RInv, NEW n \in Names, Promoting(n) PROVE vm'[n] # Absent
        <5>1. PICK c \in Clients : self[c].at \in {"clearing", "copying", "replacing"} /\ self[c].name = n
          BY <4>1 DEF Promoting
        <5>2. Copies(c) /\ vm' = vm
          BY <4>1 DEF RInv, Own, GuestStops, kept
        <5> QED BY <5>1, <5>2 DEF Copies
      <4> QED BY <4>1
    <3> QED BY <3>1 DEF Next, Step
  <2>1. Good(c) /\ Effect(c) /\ Own(c)
    BY StepDoes DEF Good, RInv
  <2>2. PICK d \in Clients : self[d].at \in {"clearing", "copying", "replacing"} /\ self[d].name = n
    BY DEF Promoting
  <2>3. CASE d # c
    <3>1. Copies(d)' /\ self'[d] = self[d]
      BY <2>1, <2>3, OthersKeep DEF Own, Effect, Others
    <3> QED BY <2>2, <3>1 DEF Copies
  <2>4. CASE d = c
    <3>1. vm[n] # Absent
      BY <2>1, <2>2, <2>4 DEF Own, Copies
    <3>2. MayRemove(c, n)
      BY <2>1, <2>2, <2>4, <3>1 DEF Effect, VmStep
    <3>3. self[c].at = "replacing"
      BY <2>2, <2>4, <3>2 DEF MayRemove
    <3> QED BY <2>1, <2>2, <2>4, <3>3 DEF Own, Copies, Effect, VmStep
  <2> QED BY <2>3, <2>4
<1>2. RInv /\ [Next]_vars => [Kept]_vars
  BY <1>1
<1> QED BY <1>2, RunsKeepStep, PTL DEF Spec, WorkKept
=============================================================================
