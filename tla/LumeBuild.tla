----------------------------- MODULE LumeBuild -----------------------------
(***************************************************************************)
(* Building a macOS image (build_lume and finish_lume in                   *)
(* commands/build.rs).  The image is a VM that lume keeps, and lume has    *)
(* neither rename nor transaction: the new VM takes the golden image's     *)
(* place in a series of calls, each of which may fail or be cut short.     *)
(***************************************************************************)
EXTENDS Naturals

CONSTANTS
  Builds,
  Absent,     \* no VM of that name
  Unfit,      \* a VM nobody should run: not provisioned, or half a clone
  Old,        \* an image from before
  Trouble     \* a subset of AllTrouble

\* fail: a call fails; half: a call that fails may leave half its work; crash:
\* vitro is killed between two calls; together: two builds run at once
AllTrouble == {"fail", "half", "crash", "together"}

ASSUME ImagesDiffer ==
  /\ Absent \notin Builds /\ Unfit \notin Builds /\ Old \notin Builds
  /\ Absent # Unfit /\ Absent # Old /\ Unfit # Old
  /\ Trouble \subseteq AllTrouble

\* <image>, <image>-previous and <image>-building
Names == {"golden", "previous", "staging"}
Images == Builds \cup {Absent, Unfit, Old}

VARIABLES
  vm,         \* what lume keeps under each name
  running,    \* whether lume runs the staging VM
  at,         \* where each build is
  hadOne,     \* had_one: lume knew a golden image when the build asked
  late        \* the build's deadline has passed, or Ctrl-C was pressed

vars == <<vm, running, at, hadOne, late>>

\* Calls whose deadline is lume_cleanup_deadline's, which Ctrl-C does not touch
Recovery == {"restoring", "returning", "returned", "stopping", "discarding"}

Working == Recovery \cup {"clearing", "creating", "starting", "provisioning", "shutting", "asking",
                          "dropping", "saving", "removing", "publishing", "forgetting", "ending"}
Replacing == {"dropping", "saving", "removing", "restoring", "returning", "returned", "forgetting"}
Over == {"done", "failed", "killed"}

-----------------------------------------------------------------------------
(* A call to lume                                                          *)

\* Deadline::remaining fails: the call is not made
Expired(b) == late[b] /\ at[b] \notin Recovery

\* A call to make name n mean `image` was made or could have been: it is refused
\* or not made; or it fails, because lume does or because the deadline passes
\* under it, and leaves nothing changed, all of it done, or half of it
Fails(b, possible, n, image) ==
  \/ /\ ~possible \/ Expired(b)
     /\ UNCHANGED <<vm, late>>
  \/ /\ possible /\ ~Expired(b) /\ "fail" \in Trouble
     /\ \E left \in {vm[n], image} \cup (IF "half" \in Trouble THEN {Unfit} ELSE {}) :
          vm' = [vm EXCEPT ![n] = left]
     /\ late' \in {late, [late EXCEPT ![b] = TRUE]}

Works(b, possible, n, image) ==
  /\ possible /\ ~Expired(b)
  /\ vm' = [vm EXCEPT ![n] = image]
  /\ UNCHANGED late

\* The build goes on at `works` when the call does, and at `fails` otherwise
Call(b, possible, n, image, works, fails) ==
  /\ \/ Works(b, possible, n, image) /\ at' = [at EXCEPT ![b] = works]
     \/ Fails(b, possible, n, image) /\ at' = [at EXCEPT ![b] = fails]
  /\ UNCHANGED <<running, hadOne>>

\* lume does not delete a VM that runs, nor clone over one that exists
Delete(b, n, works, fails) ==
  Call(b, vm[n] # Absent /\ ~(n = "staging" /\ running), n, Absent, works, fails)
Clone(b, from, to, works, fails) ==
  Call(b, vm[from] # Absent /\ vm[to] = Absent, to, vm[from], works, fails)

-----------------------------------------------------------------------------
(* The build: at[b] is the call it is about to make                        *)

\* The restore image is there, or the build fails with nothing to clean up
Begin(b) ==
  /\ at[b] = "not"
  /\ "together" \in Trouble \/ \A c \in Builds : at[c] \notin Working
  /\ at' \in {[at EXCEPT ![b] = "clearing"], [at EXCEPT ![b] = "failed"]}
  /\ UNCHANGED <<vm, running, hadOne, late>>

ClearStaging(b) == at[b] = "clearing" /\ Delete(b, "staging", "creating", "creating")

Create(b) ==
  at[b] = "creating" /\ Call(b, vm["staging"] = Absent, "staging", Unfit, "starting", "stopping")

StartStaging(b) ==
  /\ at[b] = "starting"
  /\ \/ /\ ~Expired(b) /\ vm["staging"] # Absent /\ ~running
        /\ running' = TRUE
        /\ at' = [at EXCEPT ![b] = "provisioning"]
        /\ UNCHANGED late
     \/ /\ Fails(b, vm["staging"] # Absent /\ ~running, "staging", vm["staging"])
        /\ running' \in {running, vm["staging"] # Absent}
        /\ at' = [at EXCEPT ![b] = "stopping"]
  /\ UNCHANGED <<vm, hadOne>>

\* wait_until_ready_before, install_key and the provision script
Provision(b) ==
  at[b] = "provisioning" /\ Call(b, running, "staging", b, "shutting", "stopping")

\* stop_until interrupts the process before it looks at the deadline
StopStaging(b, works, fails) ==
  /\ \/ ~Expired(b) /\ running' = FALSE /\ at' = [at EXCEPT ![b] = works] /\ UNCHANGED late
     \/ /\ Expired(b) \/ ~running \/ "fail" \in Trouble
        /\ running' \in {running, FALSE}
        /\ at' = [at EXCEPT ![b] = fails]
        /\ late' \in {late, [late EXCEPT ![b] = "fail" \in Trouble \/ @]}
  /\ UNCHANGED <<vm, hadOne>>

ShutDown(b) == at[b] = "shutting" /\ StopStaging(b, "asking", "stopping")

\* get_until, with a look at the deadline before and after: any other failure
\* to ask passes for there being none
Ask(b) ==
  /\ at[b] = "asking"
  /\ \/ /\ ~late[b]
        /\ \/ hadOne' = [hadOne EXCEPT ![b] = vm["golden"] # Absent]
           \/ "fail" \in Trouble /\ hadOne' = [hadOne EXCEPT ![b] = FALSE]
        /\ at' = [at EXCEPT ![b] = IF hadOne'[b] THEN "dropping" ELSE "publishing"]
        /\ UNCHANGED late
     \/ /\ late[b] \/ "fail" \in Trouble
        /\ at' = [at EXCEPT ![b] = "stopping"]
        /\ late' = [late EXCEPT ![b] = TRUE]
        /\ UNCHANGED hadOne
  /\ UNCHANGED <<vm, running>>

DropPrevious(b) == at[b] = "dropping" /\ Delete(b, "previous", "saving", "saving")

\* mutant: a backup that could not be made does not stop the build
SaveOrNot(b) == at[b] = "saving" /\ Clone(b, "golden", "previous", "removing", "removing")
SaveGolden(b) == at[b] = "saving" /\ Clone(b, "golden", "previous", "removing", "stopping")
RemoveGolden(b) == at[b] = "removing" /\ Delete(b, "golden", "publishing", "restoring")

\* A failure restores the image there was
Publish(b) ==
  /\ at[b] = "publishing"
  /\ Clone(b, "staging", "golden", IF hadOne[b] THEN "forgetting" ELSE "ending",
                                  IF hadOne[b] THEN "restoring" ELSE "stopping")

ForgetPrevious(b) == at[b] = "forgetting" /\ Delete(b, "previous", "ending", "ending")
DropStaging(b) == at[b] = "ending" /\ Delete(b, "staging", "done", "stopping")

RestoreDrops(b) == at[b] = "restoring" /\ Delete(b, "golden", "returning", "returning")

\* mutant: the backup goes whether it was cloned or not
RestoreAndForget(b) == at[b] = "returning" /\ Clone(b, "previous", "golden", "returned", "returned")

\* "backup kept" when it fails
RestoreClones(b) == at[b] = "returning" /\ Clone(b, "previous", "golden", "returned", "stopping")
RestoreForgets(b) == at[b] = "returned" /\ Delete(b, "previous", "stopping", "stopping")

FailStops(b) == at[b] = "stopping" /\ StopStaging(b, "discarding", "discarding")

\* --keep-failed leaves the staging VM
FailKeeps(b) ==
  /\ at[b] = "discarding"
  /\ at' = [at EXCEPT ![b] = "failed"]
  /\ UNCHANGED <<vm, running, hadOne, late>>
FailDeletes(b) == at[b] = "discarding" /\ Delete(b, "staging", "failed", "failed")

Crash(b) ==
  /\ "crash" \in Trouble /\ at[b] \in Working
  /\ at' = [at EXCEPT ![b] = "killed"]
  /\ UNCHANGED <<vm, running, hadOne, late>>

GuestStops ==
  /\ running
  /\ running' = FALSE
  /\ UNCHANGED <<vm, at, hadOne, late>>

-----------------------------------------------------------------------------
Init ==
  /\ vm \in {[n \in Names |-> Absent], [n \in Names |-> IF n = "golden" THEN Old ELSE Absent]}
  /\ running = FALSE
  /\ at = [b \in Builds |-> "not"]
  /\ hadOne = [b \in Builds |-> FALSE]
  /\ late = [b \in Builds |-> FALSE]

Build(b) ==
  \/ Begin(b) \/ ClearStaging(b) \/ Create(b) \/ StartStaging(b) \/ Provision(b) \/ ShutDown(b)
  \/ Ask(b) \/ DropPrevious(b) \/ SaveGolden(b) \/ RemoveGolden(b) \/ Publish(b)
  \/ ForgetPrevious(b) \/ DropStaging(b)
  \/ RestoreDrops(b) \/ RestoreClones(b) \/ RestoreForgets(b)
  \/ FailStops(b) \/ FailKeeps(b) \/ FailDeletes(b) \/ Crash(b)

Next == GuestStops \/ \E b \in Builds : Build(b)

Spec == Init /\ [][Next]_vars

-----------------------------------------------------------------------------
(* Properties                                                              *)

\* Values in their sets; only a build that found a golden image moves one aside
\* or puts one back.
BuildTypeOK ==
  /\ vm \in [Names -> Images]
  /\ running \in BOOLEAN
  /\ at \in [Builds -> Working \cup Over \cup {"not"}]
  /\ hadOne \in [Builds -> BOOLEAN]
  /\ late \in [Builds -> BOOLEAN]
  /\ \A b \in Builds : at[b] \in Replacing => hadOne[b]

\* Once there is a working image there always is one, under its own name or the
\* backup's, whatever call fails, whenever the deadline passes or Ctrl-C comes,
\* and wherever a build is killed, also over several builds (build.rs:503-505).
Fit == {n \in {"golden", "previous"} : vm[n] \notin {Absent, Unfit}}
WorkingKept == [][Fit # {} => Fit' # {}]_vars

\* The image that stops being the golden one is not the last of its kind: a copy
\* is under the backup's name, or it is the build's own and still in staging.
GoldenCopied ==
  [][ vm["golden"] \notin {Absent, Unfit, vm'["golden"]} =>
        vm["golden"] \in {vm'["previous"], vm'["staging"]} ]_vars

\* What makes them so, when builds run one at a time and no call leaves half its
\* work.  From provisioning to publishing the staging VM is the build's image; a
\* backup is dropped only with a golden image there, and from the moment the
\* golden image goes until there is one again the backup is there.
Provisioned == {"shutting", "asking", "dropping", "saving", "removing", "publishing"}
Backed(b) ==
  /\ at[b] \in Provisioned => vm["staging"] = b
  /\ at[b] \in {"dropping", "saving", "removing", "returned", "forgetting"} => vm["golden"] # Absent
  /\ at[b] \in {"removing", "restoring", "returning"} => vm["previous"] # Absent
  /\ at[b] = "publishing" /\ hadOne[b] => vm["previous"] # Absent /\ vm["golden"] = Absent
  /\ at[b] = "removing" => vm["previous"] = vm["golden"]
  /\ at[b] = "restoring" => vm["golden"] \in {Absent, vm["previous"], vm["staging"]}
BuildInv ==
  /\ BuildTypeOK
  /\ \A b, c \in Builds : at[b] \in Working /\ at[c] \in Working => b = c
  /\ vm["golden"] # Unfit /\ vm["previous"] # Unfit
  /\ \A b \in Builds : Backed(b)
=============================================================================
