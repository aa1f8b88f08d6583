------------------------------- MODULE Naming -------------------------------
(***************************************************************************)
(* Which VM a typed word means (state.rs).  A command asks it for what was *)
(* typed (main.rs), and the code that acts asks it once more for the name  *)
(* it was given (exec.rs, gui.rs, destroy.rs), while other sessions start  *)
(* and destroy VMs.                                                        *)
(***************************************************************************)
EXTENDS Naturals

CONSTANTS
  Sessions,
  VmNames,    \* the names VMs can have
  Generated,  \* those `run` makes up; the others are typed after --name
  Images,
  Typed,      \* what is typed for a VM, or is the first word of a command
  Begins,     \* the names that begin with a word
  MaxStarts   \* bound on the VMs ever started

NamingAssumption ==
  /\ Generated \subseteq VmNames /\ VmNames \cup Images \subseteq Typed
  /\ Begins \in [Typed -> SUBSET VmNames] /\ \A n \in VmNames : n \in Begins[n]
  /\ MaxStarts \in Nat

VARIABLES
  started,  \* how many VMs were ever started
  vm,       \* what the directory of each name says; "none" and "gone" have none
  session   \* each command

namingVars == <<started, vm, session>>

NoVm(was) == [state |-> was, image |-> "", id |-> 0]
Resting == [at |-> "idle", name |-> "", id |-> 0, got |-> 0]

-----------------------------------------------------------------------------
(* Store                                                                   *)

\* unreadable: a directory without a record that can be read
Known == {n \in VmNames : vm[n].state \notin {"none", "gone"}}
FromImage(w) == {n \in Known : vm[n].state # "unreadable" /\ vm[n].image = w}
Running == {n \in VmNames : vm[n].state = "running"}

\* find: the names a word fits, in the first of three ways in which any does
Fitting(w) ==
  IF w \in Known THEN {w}
  ELSE IF FromImage(w) # {} THEN FromImage(w)
  ELSE Known \cap Begins[w]

\* mutant: none that fits is the one VM that runs, as where the name is left out
ResolvesElseSole(w, n) == Fitting(w) = {n} \/ (Fitting(w) = {} /\ Running = {n})

\* resolve: several that fit are an error, and so is none
Resolves(w, n) == Fitting(w) = {n}

\* resolve_or_sole: the VM of some word, or the one that runs if none is typed
ResolvesOrSole(n) == Running = {n} \/ \E w \in Typed : Resolves(w, n)

\* split_leading_vm: the first word is the VM if other words follow and it fits one;
\* a line it fits none of is for the one VM that runs
SplitsOff(n) ==
  \E w \in Typed, alone \in BOOLEAN :
    IF alone \/ Fitting(w) = {} THEN Running = {n} ELSE Resolves(w, n)

-----------------------------------------------------------------------------
(* run                                                                     *)

\* The dead and the unreadable go first
Reaped == [n \in VmNames |-> IF n \in Known \ Running THEN NoVm("gone") ELSE vm[n]]

\* Under the lock.  A name that is made up was never another VM's.  A run that is
\* killed leaves a directory without a record; one with --rm goes on to use its VM
Start(s) ==
  /\ session[s].at = "idle" /\ started < MaxStarts
  /\ \E n \in VmNames \ Known, i \in Images, state \in {"running", "unreadable"} :
       /\ n \in Generated => vm[n].state = "none"
       /\ vm' = [Reaped EXCEPT ![n] = [state |-> state, image |-> i, id |-> started + 1]]
       /\ \/ UNCHANGED session
          \/ /\ state = "running"
             /\ session' = [session EXCEPT ![s] =
                              [at |-> "using", name |-> n, id |-> started + 1, got |-> 0]]
  /\ started' = started + 1

\* destroy_one, of a VM that has a record
Removes(n) ==
  /\ vm[n].state # "unreadable"
  /\ vm' = [vm EXCEPT ![n] = NoVm("gone")]

\* Removal: by its name, once its command is done, has failed or was interrupted
Remove(s) ==
  /\ session[s].at = "removing"
  /\ \/ \E n \in VmNames : /\ Resolves(session[s].name, n) /\ Removes(n)
                           /\ session' = [session EXCEPT ![s].at = "idle", ![s].got = vm[n].id]
     \/ /\ \A n \in VmNames : Resolves(session[s].name, n) => vm[n].state = "unreadable"
        /\ session' = [session EXCEPT ![s] = Resting] /\ UNCHANGED vm
  /\ UNCHANGED started

-----------------------------------------------------------------------------
(* The commands that act on a VM there is                                  *)

\* main: the VM a word means, or the one there is if nothing, or a command, was typed
Pick(s) ==
  /\ session[s].at = "idle"
  /\ \E n \in {m \in VmNames : ResolvesOrSole(m) \/ SplitsOff(m)} :
       session' = [session EXCEPT ![s] =
                     [at |-> "picked", name |-> n, id |-> vm[n].id, got |-> 0]]
  /\ UNCHANGED <<started, vm>>

\* prepare, running: the name is resolved and its record read again; the VM has to run.
\* After a run, Removal comes next, whatever became of the command
Act(s) ==
  /\ session[s].at \in {"picked", "using"}
  /\ LET next == IF session[s].at = "using" THEN "removing" ELSE "idle" IN
     \/ \E n \in Running : Resolves(session[s].name, n)
                           /\ session' = [session EXCEPT ![s].at = next, ![s].got = vm[n].id]
     \/ /\ \A n \in Running : ~Resolves(session[s].name, n)
        /\ session' = [session EXCEPT ![s].at = next]
  /\ UNCHANGED <<started, vm>>

Destroy ==
  /\ \E n \in {m \in VmNames : \E w \in Typed : Resolves(w, m)} : Removes(n)
  /\ UNCHANGED <<started, session>>

DestroyAll ==
  /\ Known # {} /\ vm' = [n \in VmNames |-> IF n \in Known THEN NoVm("gone") ELSE vm[n]]
  /\ UNCHANGED <<started, session>>

Dies(n) ==
  /\ n \in Running /\ vm' = [vm EXCEPT ![n].state = "dead"]
  /\ UNCHANGED <<started, session>>

-----------------------------------------------------------------------------
Init ==
  /\ started = 0 /\ vm = [n \in VmNames |-> NoVm("none")]
  /\ session = [s \in Sessions |-> Resting]

Next ==
  \/ \E s \in Sessions : Start(s) \/ Remove(s) \/ Pick(s) \/ Act(s)
  \/ Destroy
  \/ DestroyAll
  \/ \E n \in VmNames : Dies(n)

Spec == Init /\ [][Next]_namingVars

-----------------------------------------------------------------------------
\* What a command acted on, or --rm destroyed, is the VM it picked or started, and
\* never another one that its name came to mean since.
ActsOnItsPick == \A s \in Sessions : session[s].got \in {0, session[s].id}

\* docs/spec/running-a-command.md: "With `--rm` the VM is destroyed once the command is
\* done": the VM that `run --rm` destroys is the one it started.
RemovesItsOwn ==
  [][\A s \in Sessions : session[s].at = "removing" /\ session'[s].at = "idle"
                          => session'[s].got \in {0, session[s].id}]_namingVars
=============================================================================
