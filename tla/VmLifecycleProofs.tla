------------------------- MODULE VmLifecycleProofs -------------------------
(***************************************************************************)
(* Proofs about VmLifecycle, for any number of clients, names and PIDs and *)
(* for every choice of Commands, Given and Faults.                         *)
(***************************************************************************)
EXTENDS VmLifecycle, TLAPS

USE StoreAssumption, CommandAssumption

-----------------------------------------------------------------------------
(* Type correctness.                                                       *)

LEMMA InitType == Init => TypeOK
BY DEF Init, StoreInit, TypeOK, ClientTypeOK, StoreTypeOK, InPlace, HasVm, RunLocations,
       DestroyLocations, PromoteLocations, StopLocations, StartLocations, NoListing, NoIdent,
       NoProcess, Ident, Process, AllCommands

\* What a step of the process table and what an end of a command keep
LEMMA StartType ==
  ASSUME StoreTypeOK, NEW p \in Pids, NEW n \in Names \cup {Foreign}, Start(p, n)
  PROVE  /\ table' \in [Pids -> Process]
         /\ births' \in 0 .. MaxBirths
BY DEF Start, StoreTypeOK, Process

LEMMA RemoveType ==
  ASSUME StoreTypeOK, NEW n \in Names, Remove(n)
  PROVE  /\ dirs' \subseteq Names
         /\ disks' \subseteq dirs'
         /\ record' \in [Names -> Ident]
         /\ table' \in [Pids -> Process]
         /\ births' \in 0 .. MaxBirths
BY DEF Remove, Unlinked, StoreTypeOK, Process, Ident, NoIdent

\* A client that has come to the end of its command holds nothing
LEMMA DoneType ==
  ASSUME TypeOK, NEW c \in Clients, Done(c)
  PROVE  ClientTypeOK' /\ lock' \in Clients \cup {NoOne}
BY DEF Done, Goto, Unlock, TypeOK, ClientTypeOK, StoreTypeOK, InPlace, HasVm,
       RunLocations, DestroyLocations, PromoteLocations, StopLocations, StartLocations,
       AllCommands, Ident, NoIdent, NoListing

LEMMA TypeRun ==
  ASSUME TypeOK, NEW c \in Clients, RunStep(c)
  PROVE  TypeOK'
<1> USE DEF TypeOK, ClientTypeOK, StoreTypeOK, InPlace, HasVm, RunLocations, DestroyLocations, PromoteLocations,
            AllCommands, StopLocations, StartLocations,
            Ident, Process, NoIdent, NoProcess, NoListing, Goto, Done, Unlock, TryLock,
            storeVars, clientVars, vars
<1>1. CASE RunLocks(c) BY <1>1 DEF RunLocks, Stale
<1>2. CASE LockBusy(c) BY <1>2 DEF LockBusy, LockedOut
<1>3. CASE ReapOne(c) BY <1>3 DEF ReapOne, Remove, Unlinked
<1>4. CASE MakeDir(c) BY <1>4 DEF MakeDir
<1>5. CASE CreateOverlay(c) BY <1>5 DEF CreateOverlay, Unlinked
<1>6. CASE \E p \in Pids : Spawn(c, p) BY <1>6 DEF Spawn, Start, Exists
<1>7. CASE \E p \in Pids : SpawnUnread(c, p) BY <1>7 DEF SpawnUnread, Start, Exists
<1>8. CASE ReadStartTime(c) BY <1>8 DEF ReadStartTime, Exists
<1>9. CASE SaveRecord(c) BY <1>9 DEF SaveRecord, Save
<1>10. CASE Reachable(c) BY <1>10 DEF Reachable
<1>11. CASE RunFails(c) BY <1>11 DEF RunFails
<1>12. CASE GuardDrop(c) BY <1>12 DEF GuardDrop
<1> QED BY <1>1, <1>2, <1>3, <1>4, <1>5, <1>6, <1>7, <1>8, <1>9, <1>10, <1>11, <1>12
        DEF RunStep

LEMMA EndType ==
  ASSUME StoreTypeOK, NEW p \in Pids, table' = [table EXCEPT ![p] = NoProcess]
  PROVE  table' \in [Pids -> Process]
<1>1. NoProcess \in Process
  BY DEF NoProcess, Process
<1>2. table \in [Pids -> Process]
  BY DEF StoreTypeOK
<1> QED BY <1>1, <1>2

LEMMA TypeKill ==
  ASSUME TypeOK, NEW c \in Clients, Kill(c)
  PROVE  TypeOK'
<1>1. owned[c].pid \in Pids
  BY DEF Kill, Alive, TypeOK, ClientTypeOK, Ident
<1>2. table' \in [Pids -> Process]
  BY <1>1, EndType DEF Kill, TypeOK, StoreTypeOK
<1>3. StoreTypeOK'
  BY <1>2 DEF Kill, TypeOK, StoreTypeOK
<1>4. ClientTypeOK'
  BY DEF Kill, Goto, TypeOK, ClientTypeOK, InPlace, HasVm, RunLocations,
         DestroyLocations, PromoteLocations, StopLocations, StartLocations, AllCommands
<1> QED BY <1>3, <1>4 DEF TypeOK

\* A destroy goes on to the next VM of its listing
LEMMA MovesOnType ==
  ASSUME TypeOK, NEW c \in Clients, job[c] = "destroy", DestroyMovesOn(c)
  PROVE  ClientTypeOK' /\ lock' \in Clients \cup {NoOne}
BY DEF DestroyMovesOn, Goto, TypeOK, ClientTypeOK, StoreTypeOK, InPlace, HasVm,
       RunLocations, DestroyLocations, PromoteLocations, StopLocations, StartLocations,
       AllCommands

LEMMA TypeGiveUp ==
  ASSUME TypeOK, NEW c \in Clients, GiveUp(c)
  PROVE  TypeOK'
<1>1. CASE job[c] = "run" /\ Done(c)
  BY <1>1, DoneType DEF GiveUp, TypeOK, StoreTypeOK
<1>2. CASE job[c] = "destroy" /\ DestroyMovesOn(c)
  BY <1>2, MovesOnType DEF GiveUp, TypeOK, StoreTypeOK
<1>3. CASE /\ job[c] = "promote"
           /\ Goto(c, "stopped")
           /\ UNCHANGED <<lock, job, name, owned, todo, listed>>
  BY <1>3 DEF GiveUp, Goto, TypeOK, ClientTypeOK, StoreTypeOK, InPlace, HasVm,
       RunLocations, DestroyLocations, PromoteLocations, StopLocations, StartLocations,
       AllCommands
<1> QED BY <1>1, <1>2, <1>3 DEF GiveUp

LEMMA TypeRemoveStopped ==
  ASSUME TypeOK, NEW c \in Clients, RemoveStopped(c)
  PROVE  TypeOK'
<1>1. name[c] \in Names /\ StoreTypeOK /\ Remove(name[c])
  BY DEF RemoveStopped, TypeOK, ClientTypeOK, HasVm, StopLocations
<1>2. CASE job[c] = "destroy"
  BY <1>1, <1>2, RemoveType, MovesOnType DEF RemoveStopped, TypeOK, StoreTypeOK
<1>3. CASE job[c] # "destroy"
  BY <1>1, <1>3, RemoveType, DoneType DEF RemoveStopped, TypeOK, StoreTypeOK
<1> QED BY <1>2, <1>3

LEMMA TypeStop ==
  ASSUME TypeOK, NEW c \in Clients, StopStep(c)
  PROVE  TypeOK'
<1>1. CASE Gone(c)
  BY <1>1 DEF Gone, Goto, TypeOK, ClientTypeOK, StoreTypeOK, InPlace, HasVm, storeVars,
       RunLocations, DestroyLocations, PromoteLocations, StopLocations, StartLocations,
       AllCommands
<1> QED BY <1>1, TypeKill, TypeGiveUp, TypeRemoveStopped DEF StopStep

LEMMA TypeDestroy ==
  ASSUME TypeOK, NEW c \in Clients, DestroyStep(c)
  PROVE  TypeOK'
<1> USE DEF TypeOK, ClientTypeOK, StoreTypeOK, InPlace, HasVm, RunLocations, DestroyLocations,
            PromoteLocations, AllCommands, StopLocations, StartLocations,
            Ident, Process, NoIdent, NoProcess, NoListing, Goto, Done, Unlock,
            DestroyMovesOn, DestroyTurnsTo, storeVars, clientVars, vars
<1>1. CASE \E n \in Names : DestroyDead(c, n) BY <1>1 DEF DestroyDead
<1>2. CASE \E n \in Names : DestroyForced(c, n) BY <1>2 DEF DestroyForced
<1>3. CASE \E n \in Names : DestroyGraceful(c, n) BY <1>3 DEF DestroyGraceful
<1>4. CASE GracefulExit(c) BY <1>4 DEF GracefulExit
<1>5. CASE GracefulFails(c) BY <1>5 DEF GracefulFails
<1>6. CASE DestroyDone(c) BY <1>6 DEF DestroyDone
<1> QED BY <1>1, <1>2, <1>3, <1>4, <1>5, <1>6 DEF DestroyStep

LEMMA TypePromote ==
  ASSUME TypeOK, NEW c \in Clients, PromoteStep(c)
  PROVE  TypeOK'
<1> USE DEF TypeOK, ClientTypeOK, StoreTypeOK, InPlace, HasVm, RunLocations, DestroyLocations,
            PromoteLocations, AllCommands, StopLocations, StartLocations,
            Ident, Process, NoIdent, NoProcess, NoListing, Goto, Done, Unlock,
            TryLock, storeVars, clientVars, vars
<1>1. CASE PromoteLocks(c) BY <1>1 DEF PromoteLocks
<1>2. CASE GuestGone(c) BY <1>2 DEF GuestGone
<1>3. CASE Convert(c) BY <1>3 DEF Convert
<1>4. CASE PromoteFails(c) BY <1>4 DEF PromoteFails
<1>5. CASE PromoteKeeps(c) BY <1>5 DEF PromoteKeeps
<1>6. CASE PromoteReplaces(c) BY <1>6 DEF PromoteReplaces
<1> QED BY <1>1, <1>2, <1>3, <1>4, <1>5, <1>6 DEF PromoteStep

LEMMA TypeIssue ==
  ASSUME TypeOK, NEW c \in Clients, Issue(c)
  PROVE  TypeOK'
<1> USE DEF TypeOK, ClientTypeOK, StoreTypeOK, InPlace, HasVm, RunLocations, DestroyLocations,
            PromoteLocations, AllCommands, StopLocations, StartLocations,
            Ident, Process, NoIdent, NoProcess, NoListing, Goto, TryLock, Begin,
            DestroyLocks, storeVars, clientVars, vars
<1>1. CASE \E n \in Names : ChooseName(c, n) BY <1>1 DEF ChooseName
<1>2. CASE \E n \in Names : DestroyOne(c, n) BY <1>2 DEF DestroyOne
<1>3. CASE DestroyAll(c) BY <1>3 DEF DestroyAll
<1>4. CASE \E n \in Names : PromotePrepares(c, n) BY <1>4 DEF PromotePrepares
<1>5. CASE PruneLists(c) BY <1>5 DEF PruneLists, Stale
<1> QED BY <1>1, <1>2, <1>3, <1>4, <1>5 DEF Issue

LEMMA TypeRemoveFails ==
  ASSUME TypeOK, NEW c \in Clients, NEW n \in Names, RemoveFails(c, n)
  PROVE  TypeOK'
<1>1. ClientTypeOK' /\ lock' \in Clients \cup {NoOne}
  BY DoneType DEF RemoveFails
<1>2. table' \in [Pids -> Process]
  BY DEF RemoveFails, Unlinked, TypeOK, StoreTypeOK, Process
<1>3. record' \in [Names -> Ident]
  <2>1. NoIdent \in Ident
    BY DEF NoIdent, Ident
  <2> QED BY <2>1 DEF RemoveFails, TypeOK, StoreTypeOK
<1> QED BY <1>1, <1>2, <1>3 DEF RemoveFails, TypeOK, StoreTypeOK

LEMMA TypeHost ==
  ASSUME TypeOK,
         \/ \E c \in Clients : Crash(c) \/ PruneDone(c)
         \/ \E c \in Clients, n \in Names : RemoveFails(c, n)
         \/ \E p \in Pids : Exit(p) \/ Stranger(p)
  PROVE  TypeOK'
<1> USE DEF TypeOK, ClientTypeOK, StoreTypeOK, InPlace, HasVm, RunLocations, DestroyLocations,
            PromoteLocations, AllCommands, StopLocations, StartLocations,
            Ident, Process, NoIdent, NoProcess, NoListing, Goto, Done, Unlock,
            storeVars, clientVars, vars
<1>1. CASE \E c \in Clients : Crash(c) BY <1>1 DEF Crash
<1>2. CASE \E c \in Clients : PruneDone(c) BY <1>2 DEF PruneDone
<1>3. CASE \E p \in Pids : Exit(p) BY <1>3 DEF Exit, Exists
<1>4. CASE \E p \in Pids : Stranger(p) BY <1>4 DEF Stranger, Start
<1>5. CASE \E c \in Clients, n \in Names : RemoveFails(c, n) BY <1>5, TypeRemoveFails
<1> QED BY <1>1, <1>2, <1>3, <1>4, <1>5

LEMMA TypeStep == TypeOK /\ [Next]_vars => TypeOK'
<1> SUFFICES ASSUME TypeOK, [Next]_vars PROVE TypeOK'
  OBVIOUS
<1>1. CASE UNCHANGED vars
  BY <1>1 DEF TypeOK, ClientTypeOK, StoreTypeOK, InPlace, HasVm, vars, storeVars, clientVars
<1>2. CASE Next
  BY <1>2, TypeRun, TypeStop, TypeDestroy, TypePromote, TypeIssue, TypeHost DEF Next, Step
<1> QED BY <1>1, <1>2

\* Every reachable state has the types TypeOK lists: whatever happens, each
\* client is at a place of the command it runs, and an idle one holds neither
\* the lock nor a process.
THEOREM TypeCorrect == Spec => []TypeOK
BY InitType, TypeStep, PTL DEF Spec
-----------------------------------------------------------------------------
(* What a step may do to the process table and the records.                *)

Same(p) == table'[p].born = table[p].born /\ table'[p].vm = table[p].vm

\* PIDs are freed, or given to processes younger than any before
Ages ==
  /\ births \in Nat /\ births' \in Nat /\ births <= births'
  /\ \A p \in Pids :
       \/ Same(p)
       \/ table'[p].born = 0
       \/ births < table'[p].born /\ table'[p].born <= births'

\* No process starts and no record is written
Calm ==
  /\ births \in Nat /\ births' = births
  /\ \A p \in Pids : Same(p) \/ table'[p].born = 0
  /\ \A n \in Names : record'[n] \in {record[n], NoIdent}

\* A step of client c leaves the other clients alone and takes only the free
\* lock or gives back its own
Frame(c) ==
  /\ \A d \in Clients \ {c} :
       /\ at'[d] = at[d] /\ job'[d] = job[d] /\ name'[d] = name[d]
       /\ owned'[d] = owned[d] /\ listed'[d] = listed[d]
  /\ lock' = lock \/ (lock = NoOne /\ lock' = c) \/ (lock = c /\ lock' = NoOne)

\* Knows and Running in the next state, of a value of this state
RunningAfter(i) == i.pid # NoPid /\ i.born # 0 /\ table'[i.pid].born = i.born
KnowsAfter(i, n) == i.born <= births' /\ (RunningAfter(i) => table'[i.pid].vm = n)

LEMMA CalmAges == Calm => Ages
BY DEF Calm, Ages

\* Removing the disk of a VM is calm
LEMMA RemoveCalm ==
  ASSUME TypeOK, NEW n \in Names, Remove(n)
  PROVE  Calm
BY DEF Remove, Unlinked, Calm, Same, TypeOK, StoreTypeOK, Process

LEMMA StillCalm ==
  ASSUME TypeOK, UNCHANGED <<record, table, births>>
  PROVE  Calm
BY DEF Calm, Same, TypeOK, StoreTypeOK

LEMMA EndCalm ==
  ASSUME TypeOK, NEW p \in Pids, table' = [table EXCEPT ![p] = NoProcess],
         UNCHANGED <<record, births>>
  PROVE  Calm
BY DEF Calm, Same, NoProcess, TypeOK, StoreTypeOK

LEMMA RemoveFailsCalm ==
  ASSUME TypeOK, NEW c \in Clients, NEW n \in Names, RemoveFails(c, n)
  PROVE  Calm
BY DEF RemoveFails, Unlinked, Calm, Same, TypeOK, StoreTypeOK, Process

LEMMA StartAges ==
  ASSUME TypeOK, NEW p \in Pids, NEW n, Start(p, n)
  PROVE  /\ Ages
         /\ \A q \in Pids : q # p => Same(q)
BY DEF Start, Ages, Same, TypeOK, StoreTypeOK

\* What was true of a VM's process stays true, and a process that has ended
\* does not come back, whoever has its PID now
LEMMA Persist ==
  ASSUME TypeOK, Ages
  PROVE  \A i \in Ident :
           /\ \A n : Knows(i, n) => KnowsAfter(i, n)
           /\ i.born <= births /\ ~Running(i) => ~RunningAfter(i)
<1> SUFFICES ASSUME NEW i \in Ident
             PROVE  /\ \A n : Knows(i, n) => KnowsAfter(i, n)
                    /\ i.born <= births /\ ~Running(i) => ~RunningAfter(i)
  OBVIOUS
<1>1. i.born \in Nat /\ (i.pid # NoPid => i.pid \in Pids)
  BY DEF Ident
<1>2. i.pid \in Pids => table[i.pid].born \in Nat /\ table'[i.pid].born = table'[i.pid].born
  BY DEF TypeOK, StoreTypeOK, Process
<1> QED BY <1>1, <1>2 DEF Ages, Same, Knows, KnowsAfter, Running, RunningAfter

LEMMA DoneFrame ==
  ASSUME TypeOK, NEW c \in Clients, Done(c)
  PROVE  Frame(c)
BY DEF Done, Goto, Unlock, Frame, TypeOK, ClientTypeOK, StoreTypeOK

\* The steps of a client's command: calm, but for the start of a QEMU and the
\* record of it
LEMMA MovesRun ==
  ASSUME TypeOK, NEW c \in Clients, RunStep(c)
  PROVE  /\ Frame(c)
         /\ Calm \/ SaveRecord(c) \/ \E p \in Pids : Spawn(c, p) \/ SpawnUnread(c, p)
<1>1. CASE RunLocks(c)
  BY <1>1, StillCalm DEF RunLocks, TryLock, Frame, Goto, storeVars, TypeOK, ClientTypeOK, StoreTypeOK
<1>2. CASE LockBusy(c)
  BY <1>2, DoneFrame, StillCalm DEF LockBusy, Frame, Goto, storeVars, TypeOK, ClientTypeOK, StoreTypeOK
<1>3. CASE ReapOne(c)
  <2>1. \E n \in Names : Remove(n)
    BY <1>3 DEF ReapOne, TypeOK, ClientTypeOK
  <2>2. Frame(c)
    BY <1>3 DEF ReapOne, Frame
  <2> QED BY <2>1, <2>2, RemoveCalm
<1>4. CASE MakeDir(c)
  BY <1>4, StillCalm DEF MakeDir, Frame, Goto, storeVars, TypeOK, ClientTypeOK, StoreTypeOK
<1>5. CASE CreateOverlay(c)
  <2>1. Frame(c)
    BY <1>5 DEF CreateOverlay, Frame, Goto, TypeOK, ClientTypeOK
  <2>2. Calm
    BY <1>5 DEF CreateOverlay, Unlinked, Calm, Same, TypeOK, StoreTypeOK, Process
  <2> QED BY <2>1, <2>2
<1>6. CASE \E p \in Pids : Spawn(c, p)
  BY <1>6 DEF Spawn, Start, Frame, Goto, TypeOK, ClientTypeOK
<1>7. CASE \E p \in Pids : SpawnUnread(c, p)
  BY <1>7 DEF SpawnUnread, Start, Frame, Goto, TypeOK, ClientTypeOK
<1>8. CASE ReadStartTime(c)
  BY <1>8, StillCalm DEF ReadStartTime, Frame, Goto, storeVars, TypeOK, ClientTypeOK, StoreTypeOK
<1>9. CASE SaveRecord(c)
  BY <1>9 DEF SaveRecord, Save, Unlock, Frame, Goto, TypeOK, ClientTypeOK
<1>10. CASE Reachable(c)
  BY <1>10, DoneFrame, StillCalm DEF Reachable, Frame, Goto, storeVars, TypeOK, ClientTypeOK, StoreTypeOK
<1>11. CASE RunFails(c)
  BY <1>11, StillCalm DEF RunFails, Frame, Goto, storeVars, TypeOK, ClientTypeOK, StoreTypeOK
<1>12. CASE GuardDrop(c)
  BY <1>12, StillCalm DEF GuardDrop, Frame, Goto, storeVars, TypeOK, ClientTypeOK, StoreTypeOK
<1> QED BY <1>1, <1>2, <1>3, <1>4, <1>5, <1>6, <1>7, <1>8, <1>9, <1>10, <1>11, <1>12
        DEF RunStep

LEMMA MovesStop ==
  ASSUME TypeOK, NEW c \in Clients, StopStep(c)
  PROVE  Frame(c) /\ Calm
<1>1. CASE Gone(c)
  BY <1>1, StillCalm DEF Gone, Frame, Goto, storeVars, TypeOK, ClientTypeOK, StoreTypeOK
<1>2. CASE Kill(c)
  <2>1. owned[c].pid \in Pids
    BY <1>2 DEF Kill, Alive, TypeOK, ClientTypeOK, Ident
  <2>2. Calm
    BY <1>2, <2>1, EndCalm, StillCalm DEF Kill
  <2>3. Frame(c)
    BY <1>2 DEF Kill, Frame, Goto, TypeOK, ClientTypeOK
  <2> QED BY <2>2, <2>3
<1>3. CASE GiveUp(c)
  BY <1>3, StillCalm, DoneFrame DEF GiveUp, DestroyMovesOn, Goto, Frame, TypeOK, ClientTypeOK
<1>4. CASE RemoveStopped(c)
  <2>1. name[c] \in Names /\ Remove(name[c])
    BY <1>4 DEF RemoveStopped, TypeOK, ClientTypeOK, HasVm, StopLocations
  <2>2. Frame(c)
    BY <1>4, DoneFrame DEF RemoveStopped, DestroyMovesOn, Goto, Frame, TypeOK, ClientTypeOK
  <2> QED BY <2>1, <2>2, RemoveCalm
<1> QED BY <1>1, <1>2, <1>3, <1>4 DEF StopStep

LEMMA MovesDestroy ==
  ASSUME TypeOK, NEW c \in Clients, DestroyStep(c)
  PROVE  Frame(c) /\ Calm
<1>1. CASE \E n \in Names : DestroyDead(c, n)
  BY <1>1, StillCalm DEF DestroyDead, DestroyTurnsTo, Frame, Goto, storeVars, TypeOK, ClientTypeOK, StoreTypeOK
<1>2. CASE \E n \in Names : DestroyForced(c, n)
  BY <1>2, StillCalm DEF DestroyForced, DestroyTurnsTo, Frame, Goto, storeVars, TypeOK, ClientTypeOK, StoreTypeOK
<1>3. CASE \E n \in Names : DestroyGraceful(c, n)
  BY <1>3, StillCalm DEF DestroyGraceful, DestroyTurnsTo, Frame, Goto, storeVars, TypeOK, ClientTypeOK, StoreTypeOK
<1>4. CASE GracefulExit(c)
  BY <1>4, StillCalm DEF GracefulExit, Frame, Goto, storeVars, TypeOK, ClientTypeOK, StoreTypeOK
<1>5. CASE GracefulFails(c)
  BY <1>5, StillCalm DEF GracefulFails, DestroyMovesOn, Frame, Goto, storeVars, TypeOK, ClientTypeOK, StoreTypeOK
<1>6. CASE DestroyDone(c)
  BY <1>6, DoneFrame, StillCalm DEF DestroyDone, Frame, Goto, storeVars, TypeOK, ClientTypeOK, StoreTypeOK
<1> QED BY <1>1, <1>2, <1>3, <1>4, <1>5, <1>6 DEF DestroyStep

LEMMA MovesPromote ==
  ASSUME TypeOK, NEW c \in Clients, PromoteStep(c)
  PROVE  Frame(c) /\ Calm
<1>1. CASE PromoteLocks(c)
  BY <1>1, StillCalm DEF PromoteLocks, TryLock, Frame, Goto, storeVars, TypeOK, ClientTypeOK, StoreTypeOK
<1>2. CASE GuestGone(c)
  BY <1>2, StillCalm DEF GuestGone, Frame, Goto, storeVars, TypeOK, ClientTypeOK, StoreTypeOK
<1>3. CASE Convert(c)
  BY <1>3, StillCalm DEF Convert, Frame, Goto, storeVars, TypeOK, ClientTypeOK, StoreTypeOK
<1>4. CASE PromoteFails(c)
  BY <1>4, DoneFrame, StillCalm DEF PromoteFails, Frame, Goto, storeVars, TypeOK, ClientTypeOK, StoreTypeOK
<1>5. CASE PromoteKeeps(c)
  BY <1>5, DoneFrame, StillCalm DEF PromoteKeeps, Frame, Goto, storeVars, TypeOK, ClientTypeOK, StoreTypeOK
<1>6. CASE PromoteReplaces(c)
  BY <1>6, StillCalm DEF PromoteReplaces, Frame, Goto, storeVars, TypeOK, ClientTypeOK, StoreTypeOK
<1> QED BY <1>1, <1>2, <1>3, <1>4, <1>5, <1>6 DEF PromoteStep

LEMMA MovesIssue ==
  ASSUME TypeOK, NEW c \in Clients, Issue(c)
  PROVE  Frame(c) /\ Calm
<1>1. CASE \E n \in Names : ChooseName(c, n)
  BY <1>1, StillCalm DEF ChooseName, Begin, Frame, Goto, storeVars, TypeOK, ClientTypeOK, StoreTypeOK
<1>2. ASSUME NEW ns, DestroyLocks(c, ns)
      PROVE  Frame(c) /\ Calm
  BY <1>2, StillCalm DEF DestroyLocks, Begin, TryLock, Frame, Goto, TypeOK, ClientTypeOK
<1>3. CASE \E n \in Names : PromotePrepares(c, n)
  BY <1>3, StillCalm DEF PromotePrepares, Begin, Frame, Goto, storeVars, TypeOK, ClientTypeOK
<1>4. CASE PruneLists(c)
  BY <1>4, StillCalm DEF PruneLists, Begin, Frame, Goto, storeVars, TypeOK, ClientTypeOK
<1> QED BY <1>1, <1>2, <1>3, <1>4 DEF Issue, DestroyOne, DestroyAll

-----------------------------------------------------------------------------
(* The invariant of the client that takes the step.                        *)

LEMMA InitInv == Init => IInv
<1> SUFFICES ASSUME Init PROVE IInv
  OBVIOUS
<1>1. TypeOK
  BY InitType
<1>2. StoreInv
  BY DEF Init, StoreInit, StoreInv, Knows, Running, NoIdent, NoProcess
<1>3. \A c \in Clients : ClientInv(c)
  BY DEF Init, StoreInit, ClientInv, LockInv, InLock, SpawnInv, KnowsInv, ListedInv, Knows,
         Running, NoIdent, NoListing, StartLocations
<1> QED BY <1>1, <1>2, <1>3 DEF IInv

\* Who has finished claims nothing
LEMMA DoneOwn ==
  ASSUME TypeOK, TypeOK', NEW c \in Clients, Done(c)
  PROVE  ClientInv(c)'
<1>1. births' \in Nat /\ births' >= 0
  BY DEF TypeOK, StoreTypeOK
<1>2. at'[c] = "idle" /\ job'[c] = "none" /\ owned'[c] = NoIdent /\ listed'[c] = NoListing
  BY DEF Done, Goto, TypeOK, ClientTypeOK
<1> QED BY <1>1, <1>2 DEF ClientInv, LockInv, InLock, SpawnInv, KnowsInv, ListedInv, Knows,
         Running, NoIdent, NoListing, StartLocations

\* Who keeps what it holds still knows what it knew
LEMMA KeepsKnows ==
  ASSUME TypeOK, Ages, NEW c \in Clients, KnowsInv(c),
         owned'[c] = owned[c], name'[c] = name[c], listed'[c] = listed[c]
  PROVE  KnowsInv(c)'
<1>1. owned[c] \in Ident /\ \A n \in Names : listed[c][n] \in Ident
  BY DEF TypeOK, ClientTypeOK
<1>2. KnowsAfter(owned[c], name[c]) /\ \A n \in Names : KnowsAfter(listed[c][n], n)
  BY <1>1, Persist DEF KnowsInv
<1> QED BY <1>2 DEF KnowsInv, Knows, Running, KnowsAfter, RunningAfter

LEMMA OwnRun ==
  ASSUME IInv, TypeOK', NEW c \in Clients, RunStep(c), Ages
  PROVE  ClientInv(c)'
<1> USE DEF LockInv, InLock, SpawnInv, ListedInv, ClientInv, Goto, StartLocations, RunLocations,
            StopLocations, DestroyLocations, PromoteLocations, InPlace
<1>0. /\ TypeOK /\ ClientInv(c) /\ InPlace(c)
      /\ at \in [Clients -> RunLocations \cup DestroyLocations \cup PromoteLocations \cup {"idle"}]
      /\ owned \in [Clients -> Ident]
  BY DEF IInv, TypeOK, ClientTypeOK
<1>1. CASE RunLocks(c)
  BY <1>0, <1>1, KeepsKnows DEF RunLocks, TryLock
<1>2. CASE LockBusy(c)
  BY <1>0, <1>2, DoneOwn DEF LockBusy
<1>3. CASE ReapOne(c)
  BY <1>0, <1>3, KeepsKnows DEF ReapOne
<1>4. CASE MakeDir(c)
  BY <1>0, <1>4, KeepsKnows DEF MakeDir
<1>5. CASE CreateOverlay(c)
  BY <1>0, <1>5, KeepsKnows DEF CreateOverlay
<1>6. CASE \E p \in Pids : Spawn(c, p)
  <2> PICK p \in Pids : Spawn(c, p)
    BY <1>6
  <2>1. /\ at'[c] = "spawned" /\ job'[c] = job[c] /\ lock' = lock
        /\ owned'[c] = [pid |-> p, born |-> 0]
        /\ name'[c] = name[c] /\ listed'[c] = listed[c]
    BY <1>0 DEF Spawn
  <2>2. table'[p].vm = name[c]
    BY DEF Spawn, Start, IInv, TypeOK, StoreTypeOK
  <2>3. \A n \in Names : Knows(listed[c][n], n)'
    <3>1. \A n \in Names : KnowsAfter(listed[c][n], n)
      BY <1>0, Persist DEF TypeOK, ClientTypeOK, KnowsInv
    <3> QED BY <2>1, <3>1 DEF Knows, Running, KnowsAfter, RunningAfter
  <2>4. KnowsInv(c)'
    BY <2>1, <2>3 DEF KnowsInv, Knows, Running, Ages
  <2>5. LockInv(c)'
    BY <1>0, <2>1 DEF Spawn
  <2>6. SpawnInv(c)'
    BY <2>1, <2>2
  <2>7. ListedInv(c)'
    BY <1>0, <2>1 DEF Spawn
  <2> QED BY <2>4, <2>5, <2>6, <2>7
<1>7. CASE \E p \in Pids : SpawnUnread(c, p)
  BY <1>0, <1>7, KeepsKnows DEF SpawnUnread
<1>8. CASE ReadStartTime(c)
  <2>1. /\ at'[c] = "timed" /\ job'[c] = job[c] /\ lock' = lock
        /\ owned'[c] = [pid |-> owned[c].pid, born |-> table[owned[c].pid].born]
        /\ name'[c] = name[c] /\ listed'[c] = listed[c] /\ table' = table /\ births' = births
    BY <1>0, <1>8 DEF ReadStartTime, storeVars
  <2>2. /\ owned[c].pid \in Pids
        /\ table[owned[c].pid].born <= births /\ table[owned[c].pid].vm = name[c]
    BY <1>0, <1>8 DEF ReadStartTime, IInv, StoreInv, TypeOK, ClientTypeOK, HasVm
  <2>3. Knows(owned[c], name[c])'
    BY <2>1, <2>2 DEF Knows, Running
  <2>4. \A n \in Names : Knows(listed[c][n], n)'
    BY <1>0, <2>1 DEF KnowsInv, Knows, Running
  <2>5. KnowsInv(c)'
    BY <2>3, <2>4 DEF KnowsInv
  <2>6. at[c] = "spawned" /\ job[c] = "run" /\ lock = c
    BY <1>0, <1>8 DEF ReadStartTime
  <2> QED BY <2>1, <2>5, <2>6
<1>9. CASE SaveRecord(c)
  BY <1>0, <1>9, KeepsKnows DEF SaveRecord
<1>10. CASE Reachable(c)
  BY <1>0, <1>10, DoneOwn DEF Reachable
<1>11. CASE RunFails(c)
  BY <1>0, <1>11, KeepsKnows DEF RunFails
<1>12. CASE GuardDrop(c)
  BY <1>0, <1>12, KeepsKnows DEF GuardDrop
<1> QED BY <1>1, <1>2, <1>3, <1>4, <1>5, <1>6, <1>7, <1>8, <1>9, <1>10, <1>11, <1>12
        DEF RunStep

LEMMA OwnStop ==
  ASSUME IInv, TypeOK', NEW c \in Clients, StopStep(c), Ages, Calm
  PROVE  ClientInv(c)'
<1> USE DEF LockInv, InLock, SpawnInv, ListedInv, ClientInv, Goto, StartLocations, RunLocations,
            StopLocations, DestroyLocations, PromoteLocations, InPlace
<1>0. /\ TypeOK /\ ClientInv(c) /\ InPlace(c)
      /\ at \in [Clients -> RunLocations \cup DestroyLocations \cup PromoteLocations \cup {"idle"}]
      /\ owned \in [Clients -> Ident]
  BY DEF IInv, TypeOK, ClientTypeOK
<1>1. CASE Gone(c)
  <2>1. ~Running(owned[c])
    BY <1>1 DEF Gone, Alive, Running
  <2>2. ~Running(owned[c])'
    BY <1>1, <2>1 DEF Gone, storeVars, Running
  <2>3. KnowsInv(c)'
    BY <1>0, <1>1, KeepsKnows DEF Gone
  <2> QED BY <1>0, <1>1, <2>2, <2>3 DEF Gone, storeVars
<1>2. CASE Kill(c)
  BY <1>0, <1>2, KeepsKnows DEF Kill
<1>3. CASE GiveUp(c)
  <2>1. CASE Done(c)
    BY <1>0, <2>1, DoneOwn
  <2>2. CASE job[c] = "destroy" /\ DestroyMovesOn(c)
    BY <1>0, <1>3, <2>2, KeepsKnows DEF GiveUp, DestroyMovesOn
  <2>3. CASE /\ job[c] = "promote"
             /\ Goto(c, "stopped")
             /\ UNCHANGED <<lock, job, name, owned, todo, listed>>
    BY <1>0, <1>3, <2>3, KeepsKnows DEF GiveUp
  <2> QED BY <1>3, <2>1, <2>2, <2>3 DEF GiveUp
<1>4. CASE RemoveStopped(c)
  <2>1. CASE job[c] # "destroy"
    BY <1>0, <1>4, <2>1, DoneOwn DEF RemoveStopped
  <2>2. CASE job[c] = "destroy"
    <3>1. /\ job'[c] = "destroy" /\ at'[c] = "destroying" /\ lock' = lock /\ lock = c
          /\ listed'[c] = listed[c]
      BY <1>0, <1>4, <2>2 DEF RemoveStopped, DestroyMovesOn
    <3>2. KnowsInv(c)'
      BY <1>0, <1>4, <2>2, KeepsKnows DEF RemoveStopped, DestroyMovesOn
    <3>3. \A n \in Names : record'[n] \in {listed[c][n], NoIdent}
      BY <1>0, <2>2 DEF Calm
    <3> QED BY <3>1, <3>2, <3>3
  <2> QED BY <2>1, <2>2
<1> QED BY <1>1, <1>2, <1>3, <1>4 DEF StopStep

\* What destroy picks from its listing is known of the VM it picks
LEMMA TurnsToKnows ==
  ASSUME IInv, NEW c \in Clients, NEW n \in Names, NEW l, DestroyTurnsTo(c, n, l)
  PROVE  KnowsInv(c)'
<1>1. /\ owned'[c] = listed[c][n] /\ name'[c] = n /\ listed'[c] = listed[c]
      /\ table' = table /\ births' = births
  BY DEF DestroyTurnsTo, IInv, TypeOK, ClientTypeOK, storeVars
<1>2. \A m \in Names : Knows(listed[c][m], m)
  BY DEF IInv, ClientInv, KnowsInv
<1> QED BY <1>1, <1>2 DEF KnowsInv, Knows, Running

LEMMA OwnDestroy ==
  ASSUME IInv, TypeOK', NEW c \in Clients, DestroyStep(c), Ages
  PROVE  ClientInv(c)'
<1> USE DEF LockInv, InLock, SpawnInv, ListedInv, ClientInv, Goto, StartLocations, RunLocations,
            StopLocations, DestroyLocations, PromoteLocations, InPlace
<1>0. /\ TypeOK /\ ClientInv(c) /\ InPlace(c)
      /\ at \in [Clients -> RunLocations \cup DestroyLocations \cup PromoteLocations \cup {"idle"}]
      /\ owned \in [Clients -> Ident]
  BY DEF IInv, TypeOK, ClientTypeOK
<1>a. ASSUME NEW n \in Names, NEW l \in {"stopped", "stopping", "graceful"},
             DestroyTurnsTo(c, n, l), l = "stopped" <=> ~Running(listed[c][n])
      PROVE  ClientInv(c)'
  <2>1. /\ job[c] = "destroy" /\ job'[c] = job[c] /\ at'[c] = l /\ lock' = lock /\ name'[c] = n
        /\ owned'[c] = listed[c][n] /\ listed'[c] = listed[c] /\ record' = record /\ table' = table
    BY <1>0, <1>a DEF DestroyTurnsTo, TypeOK, ClientTypeOK, storeVars
  <2>2. KnowsInv(c)'
    BY <1>a, TurnsToKnows
  <2>3. l = "stopped" => ~Running(owned[c])'
    BY <1>a, <2>1 DEF Running
  <2>4. l # "stopped" => listed[c][n].born # 0
    BY <1>a DEF Running
  <2> QED BY <1>0, <2>1, <2>2, <2>3, <2>4
<1>1. CASE \E n \in Names : DestroyDead(c, n)
  BY <1>1, <1>a DEF DestroyDead
<1>2. CASE \E n \in Names : DestroyForced(c, n)
  BY <1>2, <1>a DEF DestroyForced
<1>3. CASE \E n \in Names : DestroyGraceful(c, n)
  BY <1>3, <1>a DEF DestroyGraceful
<1>4. CASE GracefulExit(c)
  <2>1. ~Running(owned[c])'
    BY <1>4 DEF GracefulExit, storeVars, Running
  <2>2. KnowsInv(c)'
    BY <1>0, <1>4, KeepsKnows DEF GracefulExit
  <2> QED BY <1>0, <1>4, <2>1, <2>2 DEF GracefulExit, storeVars
<1>5. CASE GracefulFails(c)
  BY <1>0, <1>5, KeepsKnows DEF GracefulFails, DestroyMovesOn
<1>6. CASE DestroyDone(c)
  BY <1>0, <1>6, DoneOwn DEF DestroyDone
<1> QED BY <1>1, <1>2, <1>3, <1>4, <1>5, <1>6 DEF DestroyStep

LEMMA OwnPromote ==
  ASSUME IInv, TypeOK', NEW c \in Clients, PromoteStep(c), Ages
  PROVE  ClientInv(c)'
<1> USE DEF LockInv, InLock, SpawnInv, ListedInv, ClientInv, Goto, StartLocations, RunLocations,
            StopLocations, DestroyLocations, PromoteLocations, InPlace
<1>0. /\ TypeOK /\ ClientInv(c) /\ InPlace(c)
      /\ at \in [Clients -> RunLocations \cup DestroyLocations \cup PromoteLocations \cup {"idle"}]
      /\ owned \in [Clients -> Ident]
  BY DEF IInv, TypeOK, ClientTypeOK
<1>1. CASE PromoteLocks(c)
  BY <1>0, <1>1, KeepsKnows DEF PromoteLocks, TryLock
<1>2. CASE GuestGone(c)
  BY <1>0, <1>2, KeepsKnows DEF GuestGone
<1>3. CASE Convert(c)
  BY <1>0, <1>3, KeepsKnows DEF Convert
<1>4. CASE PromoteFails(c)
  BY <1>0, <1>4, DoneOwn DEF PromoteFails
<1>5. CASE PromoteKeeps(c)
  BY <1>0, <1>5, DoneOwn DEF PromoteKeeps
<1>6. CASE PromoteReplaces(c)
  BY <1>0, <1>6, KeepsKnows DEF PromoteReplaces
<1> QED BY <1>1, <1>2, <1>3, <1>4, <1>5, <1>6 DEF PromoteStep

LEMMA OwnIssue ==
  ASSUME IInv, TypeOK', NEW c \in Clients, Issue(c), Ages
  PROVE  ClientInv(c)'
<1> USE DEF LockInv, InLock, SpawnInv, ListedInv, ClientInv, Goto, StartLocations, RunLocations,
            StopLocations, DestroyLocations, PromoteLocations, InPlace
<1>0. /\ TypeOK /\ ClientInv(c) /\ InPlace(c)
      /\ at \in [Clients -> RunLocations \cup DestroyLocations \cup PromoteLocations \cup {"idle"}]
      /\ owned \in [Clients -> Ident]
  BY DEF IInv, TypeOK, ClientTypeOK
<1>a. births \in Nat /\ births' = births
  BY DEF Issue, ChooseName, DestroyOne, DestroyAll, DestroyLocks, PromotePrepares, PruneLists,
         storeVars, IInv, TypeOK, StoreTypeOK
<1>b. at[c] = "idle" => \A n : Knows(owned[c], n)
  BY <1>a DEF IInv, TypeOK, ClientTypeOK, Knows, Running, NoIdent
<1>1. ASSUME NEW n \in Names, ChooseName(c, n)
      PROVE  ClientInv(c)'
  <2>1. /\ at'[c] = "named" /\ job'[c] = "run" /\ owned'[c] = owned[c] /\ listed'[c] = listed[c]
        /\ name'[c] = n /\ table' = table /\ births' = births /\ at[c] = "idle"
    BY <1>0, <1>1 DEF ChooseName, Begin, storeVars, TypeOK, ClientTypeOK
  <2>2. KnowsInv(c)'
    BY <1>0, <1>b, <2>1 DEF KnowsInv, Knows, Running
  <2> QED BY <2>1, <2>2
<1>2. ASSUME NEW ns, DestroyLocks(c, ns)
      PROVE  ClientInv(c)'
  <2>1. /\ at'[c] = "destroying" /\ job'[c] = "destroy" /\ owned'[c] = owned[c]
        /\ listed'[c] = record /\ record' = record /\ name'[c] = NoName /\ lock' = c
        /\ table' = table /\ births' = births /\ at[c] = "idle"
    BY <1>0, <1>2 DEF DestroyLocks, Begin, TryLock, TypeOK, ClientTypeOK
  <2>2. \A n \in Names : Knows(record[n], n)
    BY DEF IInv, StoreInv
  <2>3. KnowsInv(c)'
    BY <1>b, <2>1, <2>2 DEF KnowsInv, Knows, Running
  <2> QED BY <2>1, <2>3
<1>3. ASSUME NEW n \in Names, PromotePrepares(c, n)
      PROVE  ClientInv(c)'
  <2>1. /\ at'[c] = "prepared" /\ job'[c] = "promote" /\ owned'[c] = record[n]
        /\ listed'[c] = listed[c] /\ name'[c] = n /\ table' = table /\ births' = births
    BY <1>0, <1>3 DEF PromotePrepares, Begin, storeVars, TypeOK, ClientTypeOK
  <2>2. Knows(record[n], n)
    BY DEF IInv, StoreInv
  <2>3. KnowsInv(c)'
    BY <1>0, <2>1, <2>2 DEF KnowsInv, Knows, Running
  <2> QED BY <2>1, <2>3
<1>4. CASE PruneLists(c)
  <2>1. /\ at'[c] = "reaping" /\ job'[c] = "prune" /\ owned'[c] = owned[c] /\ listed'[c] = listed[c]
        /\ name'[c] = NoName /\ table' = table /\ births' = births /\ at[c] = "idle"
    BY <1>0, <1>4 DEF PruneLists, Begin, storeVars, TypeOK, ClientTypeOK
  <2>2. KnowsInv(c)'
    BY <1>0, <1>b, <2>1 DEF KnowsInv, Knows, Running
  <2> QED BY <2>1, <2>2
<1> QED BY <1>1, <1>2, <1>3, <1>4 DEF Issue, DestroyOne, DestroyAll

-----------------------------------------------------------------------------
(* The invariant of the other clients, and of the store.                   *)

\* Only the start of a QEMU and the writing of a record could disturb another
\* client, and they are steps under the lock
LEMMA OthersKeep ==
  ASSUME IInv, NEW c \in Clients, NEW d \in Clients \ {c}, Frame(c), Ages,
         Calm \/ InLock(c)
  PROVE  ClientInv(d)'
<1>0. /\ at'[d] = at[d] /\ job'[d] = job[d] /\ name'[d] = name[d]
      /\ owned'[d] = owned[d] /\ listed'[d] = listed[d]
  BY DEF Frame
<1>1. TypeOK /\ ClientInv(d) /\ LockInv(c) /\ NoOne \notin Clients
  BY DEF IInv, ClientInv
<1>2. LockInv(d)'
  BY <1>0, <1>1 DEF ClientInv, LockInv, InLock, Frame
<1>3. KnowsInv(d)'
  BY <1>0, <1>1, KeepsKnows DEF ClientInv
<1>4. CASE Calm
  <2>1. SpawnInv(d)'
    <3>1. at[d] = "spawned" => owned[d].pid \in Pids
      BY <1>1 DEF TypeOK, ClientTypeOK, HasVm
    <3> QED BY <1>0, <1>1, <1>4, <3>1 DEF ClientInv, SpawnInv, Exists, Calm, Same
  <2>2. ListedInv(d)'
    <3>1. owned[d] \in Ident /\ owned[d].born <= births
      BY <1>1 DEF TypeOK, ClientTypeOK, ClientInv, KnowsInv, Knows
    <3>2. ~Running(owned[d]) => ~RunningAfter(owned[d])
      BY <1>1, <3>1, Persist
    <3>3. \A n \in Names : record'[n] \in {record[n], NoIdent}
      BY <1>4 DEF Calm
    <3> QED BY <1>0, <1>1, <3>2, <3>3 DEF ClientInv, ListedInv, Running, RunningAfter
  <2> QED BY <1>2, <1>3, <2>1, <2>2 DEF ClientInv
<1>5. CASE InLock(c)
  <2>1. ~InLock(d)
    BY <1>1, <1>5 DEF ClientInv, LockInv
  <2> QED BY <1>0, <1>2, <1>3, <2>1 DEF ClientInv, SpawnInv, ListedInv, InLock, StartLocations
<1> QED BY <1>4, <1>5

LEMMA StoreKeeps ==
  ASSUME IInv, Ages, \A n \in Names : record'[n] \in {record[n], NoIdent}
  PROVE  StoreInv'
<1>1. \A p \in Pids : table'[p].born <= births'
  BY DEF IInv, StoreInv, TypeOK, StoreTypeOK, Process, Ages, Same
<1>2. ASSUME NEW n \in Names
      PROVE  Knows(record[n], n)'
  <2>1. record[n] \in Ident /\ Knows(record[n], n)
    BY DEF IInv, StoreInv, TypeOK, StoreTypeOK
  <2>2. KnowsAfter(record[n], n)
    BY <2>1, Persist DEF IInv
  <2>3. KnowsAfter(NoIdent, n)
    BY DEF KnowsAfter, RunningAfter, NoIdent, Ages
  <2> QED BY <2>2, <2>3 DEF Knows, Running, KnowsAfter, RunningAfter
<1> QED BY <1>1, <1>2 DEF StoreInv

LEMMA HostKeeps ==
  ASSUME IInv, Ages, UNCHANGED <<lock, record, clientVars>>, NEW d \in Clients,
         at[d] = "spawned" => Same(owned[d].pid) \/ table'[owned[d].pid].born = 0
  PROVE  ClientInv(d)'
<1>1. TypeOK /\ ClientInv(d)
  BY DEF IInv
<1>2. KnowsInv(d)'
  BY <1>1, KeepsKnows DEF ClientInv, clientVars
<1>3. ~Running(owned[d]) => ~RunningAfter(owned[d])
  BY <1>1, Persist DEF TypeOK, ClientTypeOK, ClientInv, KnowsInv, Knows
<1>4. LockInv(d)' /\ SpawnInv(d)'
  BY <1>1 DEF ClientInv, LockInv, InLock, SpawnInv, Exists, Same, clientVars
<1>5. ListedInv(d)'
  BY <1>1, <1>3 DEF ClientInv, ListedInv, Running, RunningAfter, clientVars
<1> QED BY <1>2, <1>4, <1>5 DEF ClientInv

LEMMA RunInv ==
  ASSUME IInv, TypeOK', NEW c \in Clients, RunStep(c)
  PROVE  IInv'
<1>1. TypeOK /\ ClientInv(c) /\ Frame(c)
  BY MovesRun DEF IInv
<1>2. CASE Calm
  <2>1. \A d \in Clients \ {c} : ClientInv(d)'
    BY <1>1, <1>2, CalmAges, OthersKeep
  <2>2. ClientInv(c)' /\ StoreInv'
    BY <1>2, CalmAges, OwnRun, StoreKeeps DEF Calm
  <2> QED BY <2>1, <2>2 DEF IInv
<1>3. CASE SaveRecord(c)
  <2>1. /\ at[c] = "timed" /\ name[c] \in Names /\ Knows(owned[c], name[c])
        /\ record' = [record EXCEPT ![name[c]] = owned[c]] /\ table' = table /\ births' = births
    BY <1>1, <1>3 DEF SaveRecord, Save, TypeOK, ClientTypeOK, InPlace, HasVm, DestroyLocations,
         PromoteLocations, StopLocations, ClientInv, KnowsInv
  <2>2. Ages /\ InLock(c)
    BY <1>1, <2>1 DEF Ages, Same, TypeOK, StoreTypeOK, InLock, StartLocations
  <2>3. \A d \in Clients : ClientInv(d)'
    BY <1>1, <2>2, OthersKeep, OwnRun
  <2>4. StoreInv'
    BY <2>1 DEF IInv, StoreInv, TypeOK, StoreTypeOK, Knows, Running
  <2> QED BY <2>3, <2>4 DEF IInv
<1>4. ASSUME NEW p \in Pids, Spawn(c, p) \/ SpawnUnread(c, p)
      PROVE  IInv'
  <2>1. InLock(c) /\ record' = record /\ Start(p, name[c])
    BY <1>4 DEF Spawn, SpawnUnread, InLock, StartLocations
  <2>2. Ages
    BY <1>1, <2>1, StartAges
  <2>3. \A d \in Clients : ClientInv(d)'
    BY <1>1, <2>1, <2>2, OthersKeep, OwnRun
  <2>4. StoreInv'
    BY <2>1, <2>2, StoreKeeps
  <2> QED BY <2>3, <2>4 DEF IInv
<1> QED BY <1>1, <1>2, <1>3, <1>4, MovesRun

LEMMA CalmInv ==
  ASSUME IInv, TypeOK', NEW c \in Clients, Frame(c), Calm, ClientInv(c)'
  PROVE  IInv'
<1>1. Ages
  BY CalmAges
<1>2. \A d \in Clients \ {c} : ClientInv(d)'
  BY <1>1, OthersKeep
<1>3. StoreInv'
  BY <1>1, StoreKeeps DEF Calm
<1> QED BY <1>2, <1>3 DEF IInv

LEMMA StepInv == IInv /\ [Next]_vars => IInv'
<1> SUFFICES ASSUME IInv, [Next]_vars PROVE IInv'
  OBVIOUS
<1>1. TypeOK /\ TypeOK'
  BY TypeStep DEF IInv
<1>2. ASSUME NEW c \in Clients, Issue(c) PROVE IInv'
  BY <1>1, <1>2, MovesIssue, OwnIssue, CalmAges, CalmInv
<1>3. ASSUME NEW c \in Clients, RunStep(c) PROVE IInv'
  BY <1>1, <1>3, RunInv
<1>4. ASSUME NEW c \in Clients, StopStep(c) PROVE IInv'
  BY <1>1, <1>4, MovesStop, OwnStop, CalmAges, CalmInv
<1>5. ASSUME NEW c \in Clients, DestroyStep(c) PROVE IInv'
  BY <1>1, <1>5, MovesDestroy, OwnDestroy, CalmAges, CalmInv
<1>6. ASSUME NEW c \in Clients, PromoteStep(c) PROVE IInv'
  BY <1>1, <1>6, MovesPromote, OwnPromote, CalmAges, CalmInv
<1>7. ASSUME NEW c \in Clients, PruneDone(c) \/ Crash(c) PROVE IInv'
  <2>1. Done(c) /\ UNCHANGED <<record, table, births>>
    BY <1>7 DEF PruneDone, Crash
  <2> QED BY <1>1, <2>1, DoneFrame, DoneOwn, StillCalm, CalmInv
<1>8. ASSUME NEW p \in Pids, Exit(p) PROVE IInv'
  <2>1. Calm /\ UNCHANGED <<lock, record, clientVars>>
    BY <1>1, <1>8, EndCalm DEF Exit
  <2>2. \A d \in Clients : at[d] = "spawned" => owned[d].pid \in Pids
    BY <1>1 DEF TypeOK, ClientTypeOK, HasVm
  <2>3. \A d \in Clients : ClientInv(d)'
    BY <2>1, <2>2, CalmAges, HostKeeps DEF Calm
  <2>4. StoreInv'
    BY <2>1, CalmAges, StoreKeeps DEF Calm
  <2> QED BY <1>1, <2>3, <2>4 DEF IInv
<1>9. ASSUME NEW p \in Pids, Stranger(p) PROVE IInv'
  <2>1. /\ Start(p, Foreign) /\ UNCHANGED <<lock, record, clientVars>>
        /\ \A d \in Clients : at[d] = "spawned" => owned[d].pid # p
    BY <1>9 DEF Stranger
  <2>2. Ages /\ \A q \in Pids : q # p => Same(q)
    BY <1>1, <2>1, StartAges
  <2>3. \A d \in Clients : at[d] = "spawned" => owned[d].pid \in Pids
    BY <1>1 DEF TypeOK, ClientTypeOK, HasVm
  <2>4. \A d \in Clients : ClientInv(d)'
    BY <2>1, <2>2, <2>3, HostKeeps
  <2>5. StoreInv'
    BY <2>1, <2>2, StoreKeeps
  <2> QED BY <1>1, <2>4, <2>5 DEF IInv
<1>10. ASSUME NEW c \in Clients, NEW n \in Names, RemoveFails(c, n) PROVE IInv'
  <2>1. Done(c)
    BY <1>10 DEF RemoveFails
  <2> QED BY <1>1, <1>10, <2>1, RemoveFailsCalm, DoneFrame, DoneOwn, CalmInv
<1>11. CASE UNCHANGED vars
  <2>1. Calm /\ UNCHANGED <<lock, record, clientVars>>
    BY <1>1, <1>11, StillCalm DEF vars, storeVars
  <2>2. \A d \in Clients : ClientInv(d)'
    BY <1>11, <2>1, CalmAges, HostKeeps DEF Same, vars, storeVars
  <2>3. StoreInv'
    BY <2>1, CalmAges, StoreKeeps DEF Calm
  <2> QED BY <1>1, <2>2, <2>3 DEF IInv
<1> QED BY <1>2, <1>3, <1>4, <1>5, <1>6, <1>7, <1>8, <1>9, <1>10, <1>11
        DEF Next, Step

-----------------------------------------------------------------------------
(* The results.                                                            *)

THEOREM Invariant == Spec => []IInv
BY InitInv, StepInv, PTL DEF Spec

\* However often PIDs are handed out again, and whatever crashes: a record that
\* passes for live names a process of its own VM.
THEOREM TrueRecords == Spec => []RecordsAreTrue
<1>1. IInv => RecordsAreTrue
  BY DEF IInv, StoreInv, Knows, RecordsAreTrue
<1> QED BY <1>1, Invariant, PTL

\* No destroy removes a VM whose recorded process still runs.
THEOREM DestroyedStopped == Spec => []DestroyedMeansStopped
<1>1. IInv => DestroyedMeansStopped
  <2> SUFFICES ASSUME IInv, NEW c \in Clients, job[c] = "destroy", at[c] = "stopped"
               PROVE  ~Running(record[name[c]])
    BY DEF DestroyedMeansStopped
  <2>1. name[c] \in Names
    BY DEF IInv, TypeOK, ClientTypeOK, HasVm, StopLocations
  <2> QED BY <2>1 DEF IInv, ClientInv, ListedInv, StopLocations, Running, NoIdent
<1> QED BY <1>1, Invariant, PTL

\* destroy signals no process but its VM's.
THEOREM DestroySignals == Spec => DestroySignalsOnlyItsVm
<1>1. ASSUME IInv, [Next]_vars, NEW c \in Clients, job[c] = "destroy", Signals(c)
      PROVE  HitsOwnVm(c)
  <2>0. TypeOK /\ InPlace(c) /\ at[c] \in DestroyLocations
    BY <1>1 DEF IInv, TypeOK, ClientTypeOK, InPlace
  <2>1. ASSUME NEW d \in Clients, d # c,
               Issue(d) \/ Step(d) \/ Crash(d) \/ \E n \in Names : RemoveFails(d, n)
        PROVE  FALSE
    <3>1. Frame(d)
      BY <2>0, <2>1, MovesIssue, MovesRun, MovesStop, MovesDestroy, MovesPromote, DoneFrame
         DEF Step, PruneDone, Crash, RemoveFails
    <3> QED BY <1>1, <2>1, <3>1 DEF Frame, Signals
  <2>2. ASSUME Issue(c) \/ RunStep(c) \/ PromoteStep(c)
        PROVE  FALSE
    BY <2>0, <2>2 DEF Issue, ChooseName, DestroyOne, DestroyAll, DestroyLocks, PromotePrepares,
       PruneLists, Begin, RunStep, RunLocks, LockBusy, ReapOne, MakeDir, CreateOverlay, Spawn,
       SpawnUnread, ReadStartTime, SaveRecord, Reachable, RunFails, GuardDrop, PromoteStep,
       PromoteLocks, GuestGone, Convert, PromoteFails, PromoteKeeps, PromoteReplaces,
       DestroyLocations, StopLocations, InPlace
  <2>3. ASSUME PruneDone(c) \/ Crash(c) \/ \E n \in Names : RemoveFails(c, n)
        PROVE  FALSE
    BY <1>1, <2>0, <2>3 DEF PruneDone, Crash, RemoveFails, Done, Goto, Signals, TypeOK, ClientTypeOK
  <2>4. CASE StopStep(c)
    <3>1. Kill(c)
      BY <1>1, <2>0, <2>4 DEF StopStep, Gone, GiveUp, RemoveStopped, DestroyMovesOn, Done, Goto,
         Signals, TypeOK, ClientTypeOK
    <3>2. owned'[c] = owned[c] /\ name'[c] = name[c] /\ owned[c].born # 0 /\ Alive(owned[c])
      BY <1>1, <3>1 DEF Kill, IInv, ClientInv, ListedInv
    <3>3. Knows(owned[c], name[c])
      BY <1>1 DEF IInv, ClientInv, KnowsInv
    <3> QED BY <3>2, <3>3 DEF HitsOwnVm, Alive, Knows
  <2>5. CASE DestroyStep(c)
    <3>1. PICK n \in Names : DestroyForced(c, n)
      BY <1>1, <2>0, <2>5 DEF DestroyStep, DestroyDead, DestroyGraceful, DestroyTurnsTo,
         GracefulExit, GracefulFails, DestroyMovesOn, DestroyDone, Done, Goto, Signals,
         TypeOK, ClientTypeOK
    <3>2. owned'[c] = listed[c][n] /\ name'[c] = n /\ Running(listed[c][n])
      BY <2>0, <3>1 DEF DestroyForced, DestroyTurnsTo, TypeOK, ClientTypeOK
    <3>3. Knows(listed[c][n], n)
      BY <1>1 DEF IInv, ClientInv, KnowsInv
    <3> QED BY <3>2, <3>3 DEF HitsOwnVm, Knows
  <2>6. CASE UNCHANGED vars \/ \E p \in Pids : Exit(p) \/ Stranger(p)
    BY <1>1, <2>6 DEF Signals, Exit, Stranger, vars, clientVars
  <2> QED BY <1>1, <2>1, <2>2, <2>3, <2>4, <2>5, <2>6 DEF Next, Step
<1>2. IInv /\ [Next]_vars =>
        [\A c \in Clients : job[c] = "destroy" /\ Signals(c) => HitsOwnVm(c)]_vars
  BY <1>1
<1> QED BY <1>2, Invariant, PTL DEF Spec, DestroySignalsOnlyItsVm
=============================================================================
