----------------------------- MODULE BuildProofs -----------------------------
(***************************************************************************)
(* Proofs about the builds, for any number of them and any seconds.        *)
(*                                                                         *)
(* With lume, the golden image is never lost, as long as the builds come   *)
(* one after the other and a call that fails does all of its work or none. *)
(*                                                                         *)
(* With QEMU the images are whole and kept, whatever fails or is killed,   *)
(* as long as QEMU ends no guest on its own and no two builds begin in one *)
(* second.  The argument: builds have seconds of their own (Apart), hence  *)
(* directories and images of their own, so that what a build does to its   *)
(* directory is seen by nobody else; and on its way to the image the disk  *)
(* is whole from the moment its QEMU is known to have gone (Sound).        *)
(***************************************************************************)
EXTENDS Build, TLAPS

-----------------------------------------------------------------------------
(* The golden image of lume                                                *)

\* One build at a time, and no half done work
Orderly == "half" \notin Trouble /\ "together" \notin Trouble

\* The state the program starts in satisfies the invariant.
LEMMA InitInv == ASSUME Init PROVE BuildInv
BY ImagesDiffer DEF Init, BuildInv, BuildTypeOK, Names, Images, Working, Recovery, Over, Replacing,
  Provisioned, Backed

\* A step of the build at work concerns the invariant of that build alone.
LEMMA OneMoves ==
  ASSUME BuildInv, NEW b \in Builds, at[b] \in Working, NEW to \in Working \cup Over,
         at' = [at EXCEPT ![b] = to],
         vm' \in [Names -> Images], vm'["golden"] # Unfit, vm'["previous"] # Unfit,
         running' \in BOOLEAN, late' \in [Builds -> BOOLEAN],
         hadOne' \in [Builds -> BOOLEAN], \A c \in Builds \ {b} : hadOne'[c] = hadOne[c],
         to \in Replacing => hadOne'[b], Backed(b)'
  PROVE  BuildInv'
<1>1. at' \in [Builds -> Working \cup Over \cup {"not"}]
  BY DEF BuildInv, BuildTypeOK
<1>2. at'[b] = to /\ \A c \in Builds \ {b} : at'[c] = at[c] /\ at[c] \notin Working
  BY DEF BuildInv, BuildTypeOK
<1>3. BuildTypeOK'
  BY <1>1, <1>2 DEF BuildInv, BuildTypeOK
<1>4. \A c, d \in Builds : at'[c] \in Working /\ at'[d] \in Working => c = d
  BY <1>2
<1>5. ASSUME NEW c \in Builds PROVE Backed(c)'
  <2>1. CASE c # b
    BY <1>2, <2>1 DEF Backed, Working, Recovery, Provisioned
  <2> QED BY <2>1
<1> QED BY <1>3, <1>4, <1>5 DEF BuildInv

\* A call to lume moves the build that makes it, and either leaves the VMs as
\* they were or gives one of them the image it was to have.
LEMMA CallKeeps ==
  ASSUME Orderly, BuildInv, NEW b \in Builds, at[b] \in Working,
         NEW possible \in BOOLEAN, NEW n \in Names, NEW put \in Images,
         NEW works \in Working \cup Over, NEW fails \in Working \cup Over,
         Call(b, possible, n, put, works, fails),
         put = Unfit => n = "staging",
         \A to \in {works, fails} :
           /\ to \in Replacing => hadOne[b]
           /\ /\ hadOne' = hadOne /\ at' = [at EXCEPT ![b] = to]
              /\ (possible /\ vm' = [vm EXCEPT ![n] = put]) \/ (to = fails /\ vm' = vm)
              => Backed(b)'
  PROVE  BuildInv'
<1>1. /\ vm \in [Names -> Images] /\ running \in BOOLEAN
      /\ hadOne \in [Builds -> BOOLEAN] /\ late \in [Builds -> BOOLEAN]
      /\ vm["golden"] # Unfit /\ vm["previous"] # Unfit
  BY DEF BuildInv, BuildTypeOK
<1>2. /\ \/ /\ possible
            /\ vm' = [vm EXCEPT ![n] = put]
            /\ at' = [at EXCEPT ![b] = works]
         \/ /\ vm' = vm \/ (possible /\ vm' = [vm EXCEPT ![n] = put])
            /\ at' = [at EXCEPT ![b] = fails]
      /\ late' \in {late, [late EXCEPT ![b] = TRUE]}
      /\ UNCHANGED <<running, hadOne>>
  <2>1. CASE Works(b, possible, n, put) /\ at' = [at EXCEPT ![b] = works]
    BY <2>1 DEF Call, Works
  <2>2. CASE Fails(b, possible, n, put) /\ at' = [at EXCEPT ![b] = fails]
    <3>1. CASE ~possible \/ Expired(b)
      BY <2>2, <3>1 DEF Call, Fails
    <3>2. CASE possible /\ ~Expired(b)
      <4>1. PICK left \in {vm[n], put} : vm' = [vm EXCEPT ![n] = left]
        BY <2>2, <3>2 DEF Fails, Orderly
      <4>2. left = vm[n] => vm' = vm
        BY <1>1, <4>1
      <4> QED BY <2>2, <3>2, <4>1, <4>2 DEF Call, Fails
    <3> QED BY <3>1, <3>2
  <2> QED BY <2>1, <2>2 DEF Call
<1>3. PICK to \in {works, fails} :
        at' = [at EXCEPT ![b] = to] /\ (vm' = vm \/ vm' = [vm EXCEPT ![n] = put])
  BY <1>2
<1>4. vm' \in [Names -> Images] /\ vm'["golden"] # Unfit /\ vm'["previous"] # Unfit
  BY <1>1, <1>3 DEF Names
<1>5. Backed(b)'
  BY <1>2
<1>6. late' \in [Builds -> BOOLEAN]
  BY <1>1, <1>2
<1> QED BY <1>1, <1>2, <1>3, <1>4, <1>5, <1>6, OneMoves

\* A deletion, as a call.
LEMMA DeleteKeeps ==
  ASSUME Orderly, BuildInv, NEW b \in Builds, at[b] \in Working, NEW n \in Names,
         NEW works \in Working \cup Over, NEW fails \in Working \cup Over,
         Delete(b, n, works, fails),
         \A to \in {works, fails} :
           /\ to \in Replacing => hadOne[b]
           /\ /\ hadOne' = hadOne /\ at' = [at EXCEPT ![b] = to]
              /\ vm' = [vm EXCEPT ![n] = Absent] \/ (to = fails /\ vm' = vm)
              => Backed(b)'
  PROVE  BuildInv'
<1> DEFINE possible == vm[n] # Absent /\ ~(n = "staging" /\ running)
<1>1. possible \in BOOLEAN /\ Call(b, possible, n, Absent, works, fails)
  BY DEF Delete
<1>2. Absent \in Images /\ Absent # Unfit
  BY ImagesDiffer DEF Images
<1> HIDE DEF possible
<1> QED BY <1>1, <1>2, CallKeeps

\* A clone, as a call.
LEMMA CloneKeeps ==
  ASSUME Orderly, BuildInv, NEW b \in Builds, at[b] \in Working, NEW from \in Names, NEW onto \in Names,
         NEW works \in Working \cup Over, NEW fails \in Working \cup Over,
         Clone(b, from, onto, works, fails),
         vm[from] # Unfit,
         \A to \in {works, fails} :
           /\ to \in Replacing => hadOne[b]
           /\ /\ hadOne' = hadOne /\ at' = [at EXCEPT ![b] = to]
              /\ \/ vm[from] # Absent /\ vm[onto] = Absent /\ vm' = [vm EXCEPT ![onto] = vm[from]]
                 \/ to = fails /\ vm' = vm
              => Backed(b)'
  PROVE  BuildInv'
<1> DEFINE possible == vm[from] # Absent /\ vm[onto] = Absent
<1>1. possible \in BOOLEAN /\ Call(b, possible, onto, vm[from], works, fails)
  BY DEF Clone
<1>2. vm[from] \in Images
  BY DEF BuildInv, BuildTypeOK
<1>3. \A to \in {works, fails} :
        /\ to \in Replacing => hadOne[b]
        /\ /\ hadOne' = hadOne /\ at' = [at EXCEPT ![b] = to]
           /\ (possible /\ vm' = [vm EXCEPT ![onto] = vm[from]]) \/ (to = fails /\ vm' = vm)
           => Backed(b)'
  OBVIOUS
<1> HIDE DEF possible
<1> QED BY <1>1, <1>2, <1>3, CallKeeps

-----------------------------------------------------------------------------
(* The calls of a build                                                    *)

\* What an earlier build left under the working name goes.
LEMMA ClearStagingKeeps == ASSUME Orderly, BuildInv, NEW b \in Builds, ClearStaging(b) PROVE BuildInv'
<1>1. /\ at[b] = "clearing" /\ vm \in [Names -> Images] /\ hadOne \in [Builds -> BOOLEAN]
      /\ at \in [Builds -> Working \cup Over \cup {"not"}]
      /\ Backed(b) /\ (at[b] \in Replacing => hadOne[b])
  BY DEF ClearStaging, BuildInv, BuildTypeOK
<1>2. Delete(b, "staging", "creating", "creating")
  BY DEF ClearStaging
<1>3. \A to \in {"creating"} :
        /\ to \in Replacing => hadOne[b]
        /\ /\ hadOne' = hadOne /\ at' = [at EXCEPT ![b] = to]
           /\ vm' = [vm EXCEPT !["staging"] = Absent] \/ (to = "creating" /\ vm' = vm)
           => Backed(b)'
  BY <1>1, ImagesDiffer DEF Backed, Names, Provisioned, Replacing
<1>4. at[b] \in Working /\ "staging" \in Names
  BY <1>1 DEF Working, Recovery, Names
<1>5. "creating" \in Working \cup Over
  BY DEF Working, Recovery, Over
<1> QED BY <1>2, <1>3, <1>4, <1>5, DeleteKeeps

\* Installing makes a VM nobody should run, under the working name.
LEMMA CreateKeeps == ASSUME Orderly, BuildInv, NEW b \in Builds, Create(b) PROVE BuildInv'
<1> DEFINE possible == vm["staging"] = Absent
<1>1. /\ at[b] = "creating" /\ vm \in [Names -> Images] /\ hadOne \in [Builds -> BOOLEAN]
      /\ at \in [Builds -> Working \cup Over \cup {"not"}]
      /\ Backed(b) /\ (at[b] \in Replacing => hadOne[b])
  BY DEF Create, BuildInv, BuildTypeOK
<1>2. Call(b, possible, "staging", Unfit, "starting", "stopping")
  BY DEF Create
<1>3. \A to \in {"starting", "stopping"} :
        /\ to \in Replacing => hadOne[b]
        /\ /\ hadOne' = hadOne /\ at' = [at EXCEPT ![b] = to]
           /\ (possible /\ vm' = [vm EXCEPT !["staging"] = Unfit]) \/ (to = "stopping" /\ vm' = vm)
           => Backed(b)'
  BY <1>1, ImagesDiffer DEF Backed, Names, Provisioned, Replacing
<1>4. at[b] \in Working /\ "staging" \in Names
  BY <1>1 DEF Working, Recovery, Names
<1>5. "starting" \in Working \cup Over /\ "stopping" \in Working \cup Over
  BY DEF Working, Recovery, Over
<1>6. possible \in BOOLEAN /\ Unfit \in Images
  BY DEF Images
<1> HIDE DEF possible
<1> QED BY <1>2, <1>3, <1>4, <1>5, <1>6, CallKeeps

\* Provisioning makes the staging VM the build's image.
LEMMA ProvisionKeeps == ASSUME Orderly, BuildInv, NEW b \in Builds, Provision(b) PROVE BuildInv'
<1> DEFINE possible == running
<1>1. /\ at[b] = "provisioning" /\ vm \in [Names -> Images] /\ hadOne \in [Builds -> BOOLEAN]
      /\ at \in [Builds -> Working \cup Over \cup {"not"}]
      /\ Backed(b) /\ (at[b] \in Replacing => hadOne[b])
  BY DEF Provision, BuildInv, BuildTypeOK
<1>2. Call(b, possible, "staging", b, "shutting", "stopping")
  BY DEF Provision
<1>3. \A to \in {"shutting", "stopping"} :
        /\ to \in Replacing => hadOne[b]
        /\ /\ hadOne' = hadOne /\ at' = [at EXCEPT ![b] = to]
           /\ (possible /\ vm' = [vm EXCEPT !["staging"] = b]) \/ (to = "stopping" /\ vm' = vm)
           => Backed(b)'
  BY <1>1, ImagesDiffer DEF Backed, Names, Provisioned, Replacing
<1>4. at[b] \in Working /\ "staging" \in Names
  BY <1>1 DEF Working, Recovery, Names
<1>5. "shutting" \in Working \cup Over /\ "stopping" \in Working \cup Over
  BY DEF Working, Recovery, Over
<1>6. possible \in BOOLEAN /\ b \in Images
  BY DEF Images, BuildInv, BuildTypeOK
<1> HIDE DEF possible
<1> QED BY <1>2, <1>3, <1>4, <1>5, <1>6, CallKeeps

\* The old backup goes while there is a golden image.
LEMMA DropPreviousKeeps == ASSUME Orderly, BuildInv, NEW b \in Builds, DropPrevious(b) PROVE BuildInv'
<1>1. /\ at[b] = "dropping" /\ vm \in [Names -> Images] /\ hadOne \in [Builds -> BOOLEAN]
      /\ at \in [Builds -> Working \cup Over \cup {"not"}]
      /\ Backed(b) /\ (at[b] \in Replacing => hadOne[b])
  BY DEF DropPrevious, BuildInv, BuildTypeOK
<1>2. Delete(b, "previous", "saving", "saving")
  BY DEF DropPrevious
<1>3. \A to \in {"saving"} :
        /\ to \in Replacing => hadOne[b]
        /\ /\ hadOne' = hadOne /\ at' = [at EXCEPT ![b] = to]
           /\ vm' = [vm EXCEPT !["previous"] = Absent] \/ (to = "saving" /\ vm' = vm)
           => Backed(b)'
  BY <1>1, ImagesDiffer DEF Backed, Names, Provisioned, Replacing
<1>4. at[b] \in Working /\ "previous" \in Names
  BY <1>1 DEF Working, Recovery, Names
<1>5. "saving" \in Working \cup Over
  BY DEF Working, Recovery, Over
<1> QED BY <1>2, <1>3, <1>4, <1>5, DeleteKeeps

\* The golden image gets a backup.
LEMMA SaveGoldenKeeps == ASSUME Orderly, BuildInv, NEW b \in Builds, SaveGolden(b) PROVE BuildInv'
<1>1. /\ at[b] = "saving" /\ vm \in [Names -> Images] /\ hadOne \in [Builds -> BOOLEAN]
      /\ at \in [Builds -> Working \cup Over \cup {"not"}]
      /\ Backed(b) /\ (at[b] \in Replacing => hadOne[b])
  BY DEF SaveGolden, BuildInv, BuildTypeOK
<1>2. Clone(b, "golden", "previous", "removing", "stopping")
  BY DEF SaveGolden
<1>3. \A to \in {"removing", "stopping"} :
        /\ to \in Replacing => hadOne[b]
        /\ /\ hadOne' = hadOne /\ at' = [at EXCEPT ![b] = to]
           /\ \/ vm["golden"] # Absent /\ vm["previous"] = Absent /\ vm' = [vm EXCEPT !["previous"] = vm["golden"]]
              \/ to = ("stopping") /\ vm' = vm
           => Backed(b)'
  BY <1>1, ImagesDiffer DEF Backed, Names, Provisioned, Replacing
<1>4. at[b] \in Working /\ "golden" \in Names /\ "previous" \in Names
  BY <1>1 DEF Working, Recovery, Names
<1>5. "removing" \in Working \cup Over /\ "stopping" \in Working \cup Over
  BY DEF Working, Recovery, Over
<1>6. vm["golden"] # Unfit
  BY <1>1, ImagesDiffer DEF BuildInv
<1> QED BY <1>2, <1>3, <1>4, <1>5, <1>6, CloneKeeps

\* The golden image goes while there is a backup of it.
LEMMA RemoveGoldenKeeps == ASSUME Orderly, BuildInv, NEW b \in Builds, RemoveGolden(b) PROVE BuildInv'
<1>1. /\ at[b] = "removing" /\ vm \in [Names -> Images] /\ hadOne \in [Builds -> BOOLEAN]
      /\ at \in [Builds -> Working \cup Over \cup {"not"}]
      /\ Backed(b) /\ (at[b] \in Replacing => hadOne[b])
  BY DEF RemoveGolden, BuildInv, BuildTypeOK
<1>2. Delete(b, "golden", "publishing", "restoring")
  BY DEF RemoveGolden
<1>3. \A to \in {"publishing", "restoring"} :
        /\ to \in Replacing => hadOne[b]
        /\ /\ hadOne' = hadOne /\ at' = [at EXCEPT ![b] = to]
           /\ vm' = [vm EXCEPT !["golden"] = Absent] \/ (to = "restoring" /\ vm' = vm)
           => Backed(b)'
  BY <1>1, ImagesDiffer DEF Backed, Names, Provisioned, Replacing
<1>4. at[b] \in Working /\ "golden" \in Names
  BY <1>1 DEF Working, Recovery, Names
<1>5. "publishing" \in Working \cup Over /\ "restoring" \in Working \cup Over
  BY DEF Working, Recovery, Over
<1> QED BY <1>2, <1>3, <1>4, <1>5, DeleteKeeps

\* The staging VM becomes the golden image.
LEMMA PublishKeeps == ASSUME Orderly, BuildInv, NEW b \in Builds, Publish(b) PROVE BuildInv'
<1>1. /\ at[b] = "publishing" /\ vm \in [Names -> Images] /\ hadOne \in [Builds -> BOOLEAN]
      /\ at \in [Builds -> Working \cup Over \cup {"not"}]
      /\ Backed(b) /\ (at[b] \in Replacing => hadOne[b])
  BY DEF Publish, BuildInv, BuildTypeOK
<1>2. Clone(b, "staging", "golden", IF hadOne[b] THEN "forgetting" ELSE "ending",
            IF hadOne[b] THEN "restoring" ELSE "stopping")
  BY DEF Publish
<1>3. \A to \in {IF hadOne[b] THEN "forgetting" ELSE "ending", IF hadOne[b] THEN "restoring" ELSE "stopping"} :
        /\ to \in Replacing => hadOne[b]
        /\ /\ hadOne' = hadOne /\ at' = [at EXCEPT ![b] = to]
           /\ \/ vm["staging"] # Absent /\ vm["golden"] = Absent /\ vm' = [vm EXCEPT !["golden"] = vm["staging"]]
              \/ to = (IF hadOne[b] THEN "restoring" ELSE "stopping") /\ vm' = vm
           => Backed(b)'
  BY <1>1, ImagesDiffer DEF Backed, Names, Provisioned, Replacing
<1>4. at[b] \in Working /\ "staging" \in Names /\ "golden" \in Names
  BY <1>1 DEF Working, Recovery, Names
<1>5. (IF hadOne[b] THEN "forgetting" ELSE "ending") \in Working \cup Over /\ (IF hadOne[b] THEN "restoring" ELSE "stopping") \in Working \cup Over
  BY DEF Working, Recovery, Over
<1>6. vm["staging"] # Unfit
  BY <1>1, ImagesDiffer DEF BuildInv, Backed, Provisioned
<1> QED BY <1>2, <1>3, <1>4, <1>5, <1>6, CloneKeeps

\* The backup goes once the new image is there.
LEMMA ForgetPreviousKeeps == ASSUME Orderly, BuildInv, NEW b \in Builds, ForgetPrevious(b) PROVE BuildInv'
<1>1. /\ at[b] = "forgetting" /\ vm \in [Names -> Images] /\ hadOne \in [Builds -> BOOLEAN]
      /\ at \in [Builds -> Working \cup Over \cup {"not"}]
      /\ Backed(b) /\ (at[b] \in Replacing => hadOne[b])
  BY DEF ForgetPrevious, BuildInv, BuildTypeOK
<1>2. Delete(b, "previous", "ending", "ending")
  BY DEF ForgetPrevious
<1>3. \A to \in {"ending"} :
        /\ to \in Replacing => hadOne[b]
        /\ /\ hadOne' = hadOne /\ at' = [at EXCEPT ![b] = to]
           /\ vm' = [vm EXCEPT !["previous"] = Absent] \/ (to = "ending" /\ vm' = vm)
           => Backed(b)'
  BY <1>1, ImagesDiffer DEF Backed, Names, Provisioned, Replacing
<1>4. at[b] \in Working /\ "previous" \in Names
  BY <1>1 DEF Working, Recovery, Names
<1>5. "ending" \in Working \cup Over
  BY DEF Working, Recovery, Over
<1> QED BY <1>2, <1>3, <1>4, <1>5, DeleteKeeps

\* The working name is given up.
LEMMA DropStagingKeeps == ASSUME Orderly, BuildInv, NEW b \in Builds, DropStaging(b) PROVE BuildInv'
<1>1. /\ at[b] = "ending" /\ vm \in [Names -> Images] /\ hadOne \in [Builds -> BOOLEAN]
      /\ at \in [Builds -> Working \cup Over \cup {"not"}]
      /\ Backed(b) /\ (at[b] \in Replacing => hadOne[b])
  BY DEF DropStaging, BuildInv, BuildTypeOK
<1>2. Delete(b, "staging", "done", "stopping")
  BY DEF DropStaging
<1>3. \A to \in {"done", "stopping"} :
        /\ to \in Replacing => hadOne[b]
        /\ /\ hadOne' = hadOne /\ at' = [at EXCEPT ![b] = to]
           /\ vm' = [vm EXCEPT !["staging"] = Absent] \/ (to = "stopping" /\ vm' = vm)
           => Backed(b)'
  BY <1>1, ImagesDiffer DEF Backed, Names, Provisioned, Replacing
<1>4. at[b] \in Working /\ "staging" \in Names
  BY <1>1 DEF Working, Recovery, Names
<1>5. "done" \in Working \cup Over /\ "stopping" \in Working \cup Over
  BY DEF Working, Recovery, Over
<1> QED BY <1>2, <1>3, <1>4, <1>5, DeleteKeeps

\* What was published goes, while the backup is there.
LEMMA RestoreDropsKeeps == ASSUME Orderly, BuildInv, NEW b \in Builds, RestoreDrops(b) PROVE BuildInv'
<1>1. /\ at[b] = "restoring" /\ vm \in [Names -> Images] /\ hadOne \in [Builds -> BOOLEAN]
      /\ at \in [Builds -> Working \cup Over \cup {"not"}]
      /\ Backed(b) /\ (at[b] \in Replacing => hadOne[b])
  BY DEF RestoreDrops, BuildInv, BuildTypeOK
<1>2. Delete(b, "golden", "returning", "returning")
  BY DEF RestoreDrops
<1>3. \A to \in {"returning"} :
        /\ to \in Replacing => hadOne[b]
        /\ /\ hadOne' = hadOne /\ at' = [at EXCEPT ![b] = to]
           /\ vm' = [vm EXCEPT !["golden"] = Absent] \/ (to = "returning" /\ vm' = vm)
           => Backed(b)'
  BY <1>1, ImagesDiffer DEF Backed, Names, Provisioned, Replacing
<1>4. at[b] \in Working /\ "golden" \in Names
  BY <1>1 DEF Working, Recovery, Names
<1>5. "returning" \in Working \cup Over
  BY DEF Working, Recovery, Over
<1> QED BY <1>2, <1>3, <1>4, <1>5, DeleteKeeps

\* The backup becomes the golden image again.
LEMMA RestoreClonesKeeps == ASSUME Orderly, BuildInv, NEW b \in Builds, RestoreClones(b) PROVE BuildInv'
<1>1. /\ at[b] = "returning" /\ vm \in [Names -> Images] /\ hadOne \in [Builds -> BOOLEAN]
      /\ at \in [Builds -> Working \cup Over \cup {"not"}]
      /\ Backed(b) /\ (at[b] \in Replacing => hadOne[b])
  BY DEF RestoreClones, BuildInv, BuildTypeOK
<1>2. Clone(b, "previous", "golden", "returned", "stopping")
  BY DEF RestoreClones
<1>3. \A to \in {"returned", "stopping"} :
        /\ to \in Replacing => hadOne[b]
        /\ /\ hadOne' = hadOne /\ at' = [at EXCEPT ![b] = to]
           /\ \/ vm["previous"] # Absent /\ vm["golden"] = Absent /\ vm' = [vm EXCEPT !["golden"] = vm["previous"]]
              \/ to = ("stopping") /\ vm' = vm
           => Backed(b)'
  BY <1>1, ImagesDiffer DEF Backed, Names, Provisioned, Replacing
<1>4. at[b] \in Working /\ "previous" \in Names /\ "golden" \in Names
  BY <1>1 DEF Working, Recovery, Names
<1>5. "returned" \in Working \cup Over /\ "stopping" \in Working \cup Over
  BY DEF Working, Recovery, Over
<1>6. vm["previous"] # Unfit
  BY <1>1, ImagesDiffer DEF BuildInv
<1> QED BY <1>2, <1>3, <1>4, <1>5, <1>6, CloneKeeps

\* The backup goes once the golden image is back.
LEMMA RestoreForgetsKeeps == ASSUME Orderly, BuildInv, NEW b \in Builds, RestoreForgets(b) PROVE BuildInv'
<1>1. /\ at[b] = "returned" /\ vm \in [Names -> Images] /\ hadOne \in [Builds -> BOOLEAN]
      /\ at \in [Builds -> Working \cup Over \cup {"not"}]
      /\ Backed(b) /\ (at[b] \in Replacing => hadOne[b])
  BY DEF RestoreForgets, BuildInv, BuildTypeOK
<1>2. Delete(b, "previous", "stopping", "stopping")
  BY DEF RestoreForgets
<1>3. \A to \in {"stopping"} :
        /\ to \in Replacing => hadOne[b]
        /\ /\ hadOne' = hadOne /\ at' = [at EXCEPT ![b] = to]
           /\ vm' = [vm EXCEPT !["previous"] = Absent] \/ (to = "stopping" /\ vm' = vm)
           => Backed(b)'
  BY <1>1, ImagesDiffer DEF Backed, Names, Provisioned, Replacing
<1>4. at[b] \in Working /\ "previous" \in Names
  BY <1>1 DEF Working, Recovery, Names
<1>5. "stopping" \in Working \cup Over
  BY DEF Working, Recovery, Over
<1> QED BY <1>2, <1>3, <1>4, <1>5, DeleteKeeps

\* The VM of a build that failed goes.
LEMMA FailDeletesKeeps == ASSUME Orderly, BuildInv, NEW b \in Builds, FailDeletes(b) PROVE BuildInv'
<1>1. /\ at[b] = "discarding" /\ vm \in [Names -> Images] /\ hadOne \in [Builds -> BOOLEAN]
      /\ at \in [Builds -> Working \cup Over \cup {"not"}]
      /\ Backed(b) /\ (at[b] \in Replacing => hadOne[b])
  BY DEF FailDeletes, BuildInv, BuildTypeOK
<1>2. Delete(b, "staging", "failed", "failed")
  BY DEF FailDeletes
<1>3. \A to \in {"failed"} :
        /\ to \in Replacing => hadOne[b]
        /\ /\ hadOne' = hadOne /\ at' = [at EXCEPT ![b] = to]
           /\ vm' = [vm EXCEPT !["staging"] = Absent] \/ (to = "failed" /\ vm' = vm)
           => Backed(b)'
  BY <1>1, ImagesDiffer DEF Backed, Names, Provisioned, Replacing
<1>4. at[b] \in Working /\ "staging" \in Names
  BY <1>1 DEF Working, Recovery, Names
<1>5. "failed" \in Working \cup Over
  BY DEF Working, Recovery, Over
<1> QED BY <1>2, <1>3, <1>4, <1>5, DeleteKeeps

-----------------------------------------------------------------------------
(* The steps that are no calls, or do not change what lume keeps           *)

\* A build begins when no other is at work.
LEMMA BeginKeeps == ASSUME Orderly, BuildInv, NEW b \in Builds, Begin(b) PROVE BuildInv'
<1>1. PICK to \in {"clearing", "failed"} : at' = [at EXCEPT ![b] = to]
  BY DEF Begin
<1>2. at' \in [Builds -> Working \cup Over \cup {"not"}]
  BY <1>1 DEF BuildInv, BuildTypeOK, Working, Over
<1>3. at'[b] = to /\ \A c \in Builds \ {b} : at'[c] = at[c] /\ at[c] \notin Working
  BY <1>1 DEF Begin, Orderly, BuildInv, BuildTypeOK
<1>4. BuildTypeOK'
  BY <1>2, <1>3 DEF BuildInv, BuildTypeOK, Begin, Replacing
<1>5. ASSUME NEW c \in Builds PROVE Backed(c)'
  BY <1>3 DEF Backed, Working, Recovery, Provisioned
<1>6. \A c, d \in Builds : at'[c] \in Working /\ at'[d] \in Working => c = d
  BY <1>3
<1> QED BY <1>4, <1>5, <1>6 DEF BuildInv, Begin

\* A step that leaves lume's VMs alone and takes the build to a place where
\* nothing is asked of them.
LEMMA QuietMove ==
  ASSUME BuildInv, NEW b \in Builds, at[b] \in Working, NEW to \in Working \cup Over,
         at' = [at EXCEPT ![b] = to], vm' = vm, hadOne' = hadOne,
         running' \in BOOLEAN, late' \in [Builds -> BOOLEAN],
         to \notin Replacing \cup Provisioned
  PROVE  BuildInv'
<1>1. at'[b] = to
  BY DEF BuildInv, BuildTypeOK
<1>2. Backed(b)'
  BY <1>1 DEF Backed, Replacing, Provisioned
<1>3. /\ vm' \in [Names -> Images] /\ vm'["golden"] # Unfit /\ vm'["previous"] # Unfit
      /\ hadOne' \in [Builds -> BOOLEAN]
  BY DEF BuildInv, BuildTypeOK
<1> QED BY <1>2, <1>3, OneMoves

LEMMA StartStagingKeeps == ASSUME Orderly, BuildInv, NEW b \in Builds, StartStaging(b) PROVE BuildInv'
<1>1. PICK to \in {"provisioning", "stopping"} : at' = [at EXCEPT ![b] = to]
  BY DEF StartStaging
<1>2. running' \in BOOLEAN
  BY DEF StartStaging, BuildInv, BuildTypeOK
<1>3. late' \in [Builds -> BOOLEAN]
  BY DEF StartStaging, Fails, BuildInv, BuildTypeOK
<1>4. at[b] = "starting" /\ vm' = vm /\ hadOne' = hadOne
  BY DEF StartStaging
<1> QED BY <1>1, <1>2, <1>3, <1>4, QuietMove DEF Working, Recovery, Replacing, Provisioned

\* What stopping the staging VM changes.
LEMMA StopChanges ==
  ASSUME BuildInv, NEW b \in Builds, NEW works, NEW fails, StopStaging(b, works, fails)
  PROVE  /\ \E to \in {works, fails} : at' = [at EXCEPT ![b] = to]
         /\ running' \in BOOLEAN /\ late' \in [Builds -> BOOLEAN]
         /\ vm' = vm /\ hadOne' = hadOne
<1>1. late' \in [Builds -> BOOLEAN]
  BY DEF StopStaging, BuildInv, BuildTypeOK
<1> QED BY <1>1 DEF StopStaging, BuildInv, BuildTypeOK

LEMMA ShutDownKeeps == ASSUME Orderly, BuildInv, NEW b \in Builds, ShutDown(b) PROVE BuildInv'
<1>1. at[b] = "shutting" /\ StopStaging(b, "asking", "stopping")
  BY DEF ShutDown
<1>2. /\ running' \in BOOLEAN /\ late' \in [Builds -> BOOLEAN]
      /\ vm' = vm /\ hadOne' = hadOne
  BY <1>1, StopChanges
<1>3. PICK to \in {"asking", "stopping"} : at' = [at EXCEPT ![b] = to]
  BY <1>1, StopChanges
<1>4. /\ at'[b] = to /\ vm' \in [Names -> Images] /\ vm'["golden"] # Unfit /\ vm'["previous"] # Unfit
      /\ hadOne' \in [Builds -> BOOLEAN] /\ Backed(b)
  BY <1>2, <1>3 DEF BuildInv, BuildTypeOK
<1>5. Backed(b)'
  BY <1>1, <1>2, <1>4 DEF Backed, Provisioned
<1> QED BY <1>1, <1>2, <1>3, <1>4, <1>5, OneMoves DEF Working, Recovery, Replacing

\* Asking finds a golden image, or goes on as if there were none.
LEMMA AskKeeps == ASSUME Orderly, BuildInv, NEW b \in Builds, Ask(b) PROVE BuildInv'
<1>1. /\ at[b] = "asking" /\ at[b] \in Working /\ vm' = vm /\ running' = running
      /\ vm["golden"] # Unfit /\ vm["staging"] = b
  BY DEF Ask, Working, BuildInv, Backed, Provisioned
<1>2. PICK to \in {"dropping", "publishing", "stopping"} :
        /\ at' = [at EXCEPT ![b] = to]
        /\ \E had \in BOOLEAN :
             /\ hadOne' = [hadOne EXCEPT ![b] = had] \/ (hadOne' = hadOne /\ to = "stopping")
             /\ to = "dropping" => had /\ vm["golden"] # Absent
             /\ to = "publishing" => ~had
  <2>1. CASE late[b] \/ "fail" \in Trouble
    BY <2>1, <1>1 DEF Ask, BuildInv, BuildTypeOK
  <2>2. CASE ~late[b]
    BY <2>2, <1>1 DEF Ask, BuildInv, BuildTypeOK
  <2> QED BY <2>1, <2>2
<1>3. late' \in [Builds -> BOOLEAN] /\ hadOne' \in [Builds -> BOOLEAN]
  BY <1>2 DEF Ask, BuildInv, BuildTypeOK
<1>4. /\ \A c \in Builds \ {b} : hadOne'[c] = hadOne[c]
      /\ to = "dropping" => hadOne'[b]
      /\ to = "publishing" => ~hadOne'[b]
  BY <1>2 DEF BuildInv, BuildTypeOK
<1>5. at'[b] = to
  BY <1>2 DEF BuildInv, BuildTypeOK
<1>6. Backed(b)'
  BY <1>1, <1>2, <1>4, <1>5 DEF Backed, Provisioned
<1> QED BY <1>1, <1>2, <1>3, <1>4, <1>6, OneMoves
        DEF Working, Recovery, Replacing, BuildInv, BuildTypeOK

LEMMA FailStopsKeeps == ASSUME Orderly, BuildInv, NEW b \in Builds, FailStops(b) PROVE BuildInv'
<1>1. at[b] = "stopping" /\ StopStaging(b, "discarding", "discarding")
  BY DEF FailStops
<1>2. /\ running' \in BOOLEAN /\ late' \in [Builds -> BOOLEAN]
      /\ vm' = vm /\ hadOne' = hadOne /\ at' = [at EXCEPT ![b] = "discarding"]
  BY <1>1, StopChanges
<1> QED BY <1>1, <1>2, QuietMove DEF Working, Recovery, Replacing, Provisioned

\* A build that is over, kept or killed, is asked nothing.
LEMMA EndKeeps ==
  ASSUME BuildInv, NEW b \in Builds, FailKeeps(b) \/ Crash(b)
  PROVE  BuildInv'
<1>1. PICK to \in {"failed", "killed"} : at' = [at EXCEPT ![b] = to]
  BY DEF FailKeeps, Crash
<1>2. at[b] \in Working
  BY DEF FailKeeps, Crash, Working, Recovery
<1>3. /\ vm' = vm /\ hadOne' = hadOne
      /\ running' \in BOOLEAN /\ late' \in [Builds -> BOOLEAN]
  BY DEF FailKeeps, Crash, BuildInv, BuildTypeOK
<1> QED BY <1>1, <1>2, <1>3, QuietMove DEF Over, Replacing, Provisioned

LEMMA StillKeeps ==
  ASSUME BuildInv, vm' = vm, at' = at, hadOne' = hadOne, late' = late, running' \in BOOLEAN
  PROVE  BuildInv'
BY DEF BuildInv, BuildTypeOK, Backed

-----------------------------------------------------------------------------
\* Every step keeps the invariant.
LEMMA StepInv == ASSUME Orderly, BuildInv, [Next]_vars PROVE BuildInv'
<1>1. CASE UNCHANGED vars
  BY <1>1, StillKeeps DEF vars, BuildInv, BuildTypeOK
<1>2. CASE GuestStops
  BY <1>2, StillKeeps DEF GuestStops
<1>3. ASSUME NEW b \in Builds, Build(b) PROVE BuildInv'
  BY <1>3, BeginKeeps, ClearStagingKeeps, CreateKeeps, StartStagingKeeps, ProvisionKeeps,
     ShutDownKeeps, AskKeeps, DropPreviousKeeps, SaveGoldenKeeps, RemoveGoldenKeeps, PublishKeeps,
     ForgetPreviousKeeps, DropStagingKeeps, RestoreDropsKeeps, RestoreClonesKeeps,
     RestoreForgetsKeeps, FailStopsKeeps, FailDeletesKeeps, EndKeeps DEF Build
<1> QED BY <1>1, <1>2, <1>3 DEF Next

\* The invariant holds throughout: builds keep a backup whenever there is no
\* golden image that was there before.
THEOREM BuildInvariant == Orderly => (Spec => []BuildInv)
<1> SUFFICES ASSUME Orderly PROVE Spec => []BuildInv
  OBVIOUS
<1>1. Init => BuildInv
  BY InitInv
<1>2. BuildInv /\ [Next]_vars => BuildInv'
  BY StepInv
<1> QED BY <1>1, <1>2, PTL DEF Spec

-----------------------------------------------------------------------------
(* No image is lost                                                        *)

\* A call leaves the VMs alone, or gives the image to the name it is about.
LEMMA CallChanges ==
  ASSUME Orderly, BuildInv, NEW b, NEW possible \in BOOLEAN, NEW n \in Names, NEW put,
         NEW works, NEW fails, Call(b, possible, n, put, works, fails)
  PROVE  vm' = vm \/ (possible /\ vm' = [vm EXCEPT ![n] = put])
<1>1. CASE Works(b, possible, n, put)
  BY <1>1 DEF Works
<1>2. CASE Fails(b, possible, n, put)
  <2>1. CASE possible /\ ~Expired(b)
    <3>1. PICK left \in {vm[n], put} : vm' = [vm EXCEPT ![n] = left]
      BY <1>2, <2>1 DEF Fails, Orderly
    <3>2. left = vm[n] => vm' = vm
      BY <3>1 DEF BuildInv, BuildTypeOK
    <3> QED BY <2>1, <3>1, <3>2
  <2> QED BY <1>2, <2>1 DEF Fails
<1> QED BY <1>1, <1>2 DEF Call

LEMMA DeleteChanges ==
  ASSUME Orderly, BuildInv, NEW b, NEW n \in Names, NEW works, NEW fails, Delete(b, n, works, fails)
  PROVE  vm' = vm \/ vm' = [vm EXCEPT ![n] = Absent]
<1> DEFINE possible == vm[n] # Absent /\ ~(n = "staging" /\ running)
<1>1. possible \in BOOLEAN /\ Call(b, possible, n, Absent, works, fails)
  BY DEF Delete
<1> HIDE DEF possible
<1> QED BY <1>1, CallChanges

LEMMA CloneChanges ==
  ASSUME Orderly, BuildInv, NEW b, NEW from \in Names, NEW onto \in Names, NEW works, NEW fails,
         Clone(b, from, onto, works, fails)
  PROVE  \/ vm' = vm
         \/ vm[from] # Absent /\ vm[onto] = Absent /\ vm' = [vm EXCEPT ![onto] = vm[from]]
<1> DEFINE possible == vm[from] # Absent /\ vm[onto] = Absent
<1>1. possible \in BOOLEAN /\ Call(b, possible, onto, vm[from], works, fails)
  BY DEF Clone
<1>2. vm' = vm \/ (possible /\ vm' = [vm EXCEPT ![onto] = vm[from]])
  <2> HIDE DEF possible
  <2> QED BY <1>1, CallChanges
<1> QED BY <1>2

\* The step of a build loses no image.
LEMMA NothingLost ==
  ASSUME Orderly, BuildInv, NEW b \in Builds, Build(b)
  PROVE  /\ vm["golden"] # Absent \/ vm["previous"] # Absent
              => vm'["golden"] # Absent \/ vm'["previous"] # Absent
         /\ vm["golden"] \notin {Absent, vm'["golden"]} => vm["golden"] \in {vm'["previous"], vm'["staging"]}
<1>1. /\ vm \in [Names -> Images] /\ Backed(b)
      /\ "golden" \in Names /\ "previous" \in Names /\ "staging" \in Names
  BY DEF BuildInv, BuildTypeOK, Names
<1>2. CASE ClearStaging(b)
  <2>1. vm' = vm \/ vm' = [vm EXCEPT !["staging"] = Absent]
    BY <1>1, <1>2, DeleteChanges DEF ClearStaging
  <2> QED BY <1>1, <1>2, <2>1 DEF ClearStaging, Backed
<1>3. CASE Create(b)
  <2> DEFINE possible == vm["staging"] = Absent
  <2>1. possible \in BOOLEAN /\ \E w, f : Call(b, possible, "staging", Unfit, w, f)
    BY <1>3 DEF Create, BuildInv, BuildTypeOK
  <2>2. vm' = vm \/ vm' = [vm EXCEPT !["staging"] = Unfit]
    <3> HIDE DEF possible
    <3> QED BY <1>1, <2>1, CallChanges
  <2> QED BY <1>1, <2>2
<1>4. CASE Provision(b)
  <2> DEFINE possible == running
  <2>1. possible \in BOOLEAN /\ \E w, f : Call(b, possible, "staging", b, w, f)
    BY <1>4 DEF Provision, BuildInv, BuildTypeOK
  <2>2. vm' = vm \/ vm' = [vm EXCEPT !["staging"] = b]
    <3> HIDE DEF possible
    <3> QED BY <1>1, <2>1, CallChanges
  <2> QED BY <1>1, <2>2
<1>5. CASE DropPrevious(b)
  <2>1. vm' = vm \/ vm' = [vm EXCEPT !["previous"] = Absent]
    BY <1>1, <1>5, DeleteChanges DEF DropPrevious
  <2> QED BY <1>1, <1>5, <2>1 DEF DropPrevious, Backed
<1>6. CASE SaveGolden(b)
  <2>1. \/ vm' = vm
        \/ vm["golden"] # Absent /\ vm["previous"] = Absent /\ vm' = [vm EXCEPT !["previous"] = vm["golden"]]
    BY <1>1, <1>6, CloneChanges DEF SaveGolden
  <2> QED BY <1>1, <2>1
<1>7. CASE RemoveGolden(b)
  <2>1. vm' = vm \/ vm' = [vm EXCEPT !["golden"] = Absent]
    BY <1>1, <1>7, DeleteChanges DEF RemoveGolden
  <2> QED BY <1>1, <1>7, <2>1 DEF RemoveGolden, Backed
<1>8. CASE Publish(b)
  <2>1. \/ vm' = vm
        \/ vm["staging"] # Absent /\ vm["golden"] = Absent /\ vm' = [vm EXCEPT !["golden"] = vm["staging"]]
    BY <1>1, <1>8, CloneChanges DEF Publish
  <2> QED BY <1>1, <2>1
<1>9. CASE ForgetPrevious(b)
  <2>1. vm' = vm \/ vm' = [vm EXCEPT !["previous"] = Absent]
    BY <1>1, <1>9, DeleteChanges DEF ForgetPrevious
  <2> QED BY <1>1, <1>9, <2>1 DEF ForgetPrevious, Backed
<1>10. CASE DropStaging(b)
  <2>1. vm' = vm \/ vm' = [vm EXCEPT !["staging"] = Absent]
    BY <1>1, <1>10, DeleteChanges DEF DropStaging
  <2> QED BY <1>1, <1>10, <2>1 DEF DropStaging, Backed
<1>11. CASE RestoreDrops(b)
  <2>1. vm' = vm \/ vm' = [vm EXCEPT !["golden"] = Absent]
    BY <1>1, <1>11, DeleteChanges DEF RestoreDrops
  <2> QED BY <1>1, <1>11, <2>1 DEF RestoreDrops, Backed
<1>12. CASE RestoreClones(b)
  <2>1. \/ vm' = vm
        \/ vm["previous"] # Absent /\ vm["golden"] = Absent /\ vm' = [vm EXCEPT !["golden"] = vm["previous"]]
    BY <1>1, <1>12, CloneChanges DEF RestoreClones
  <2> QED BY <1>1, <2>1
<1>13. CASE RestoreForgets(b)
  <2>1. vm' = vm \/ vm' = [vm EXCEPT !["previous"] = Absent]
    BY <1>1, <1>13, DeleteChanges DEF RestoreForgets
  <2> QED BY <1>1, <1>13, <2>1 DEF RestoreForgets, Backed
<1>14. CASE FailDeletes(b)
  <2>1. vm' = vm \/ vm' = [vm EXCEPT !["staging"] = Absent]
    BY <1>1, <1>14, DeleteChanges DEF FailDeletes
  <2> QED BY <1>1, <1>14, <2>1 DEF FailDeletes, Backed
<1>15. CASE \/ Begin(b) \/ StartStaging(b) \/ ShutDown(b) \/ Ask(b) \/ FailStops(b) \/ FailKeeps(b)
          \/ Crash(b)
  <2>1. vm' = vm
    BY <1>15 DEF Begin, StartStaging, ShutDown, Ask, FailStops, FailKeeps, Crash, StopStaging
  <2> QED BY <2>1
<1> QED BY <1>2, <1>3, <1>4, <1>5, <1>6, <1>7, <1>8, <1>9, <1>10, <1>11, <1>12, <1>13, <1>14, <1>15 DEF Build

\* An image to run is one that is there, as long as no name is given to one that
\* is not fit.
LEMMA FitIsThere ==
  ASSUME vm["golden"] # Unfit, vm["previous"] # Unfit
  PROVE  Fit # {} <=> vm["golden"] # Absent \/ vm["previous"] # Absent
BY DEF Fit

\* Once there is a working image there always is one, for any number of builds.
THEOREM ImageKept == Orderly => (Spec => WorkingKept)
<1> SUFFICES ASSUME Orderly PROVE Spec => WorkingKept
  OBVIOUS
<1>1. BuildInv /\ BuildInv' /\ [Next]_vars => [Fit # {} => Fit' # {}]_vars
  <2> SUFFICES ASSUME BuildInv, BuildInv', Next, Fit # {} PROVE Fit' # {}
    BY DEF vars, Fit
  <2>1. vm["golden"] # Absent \/ vm["previous"] # Absent
    BY FitIsThere DEF BuildInv
  <2>2. vm'["golden"] # Absent \/ vm'["previous"] # Absent
    <3>1. CASE GuestStops
      BY <2>1, <3>1 DEF GuestStops
    <3>2. ASSUME NEW b \in Builds, Build(b)
          PROVE  vm'["golden"] # Absent \/ vm'["previous"] # Absent
      BY <2>1, <3>2, NothingLost
    <3> QED BY <3>1, <3>2 DEF Next
  <2>3. vm'["golden"] # Unfit /\ vm'["previous"] # Unfit
    BY DEF BuildInv
  <2> QED BY <2>2, <2>3 DEF Fit
<1>2. Spec => []BuildInv
  BY BuildInvariant
<1>3. Spec => [][Next]_vars
  BY PTL DEF Spec
<1> QED BY <1>1, <1>2, <1>3, PTL DEF WorkingKept

\* The golden image is replaced only with a copy of it elsewhere.
THEOREM GoldenHasCopy == Orderly => (Spec => GoldenCopied)
<1> DEFINE Copied == vm["golden"] \notin {Absent, Unfit, vm'["golden"]} =>
                       vm["golden"] \in {vm'["previous"], vm'["staging"]}
<1> SUFFICES ASSUME Orderly PROVE Spec => GoldenCopied
  OBVIOUS
<1>1. BuildInv /\ [Next]_vars => [Copied]_vars
  <2> SUFFICES ASSUME BuildInv, Next PROVE Copied
    OBVIOUS
  <2>1. CASE GuestStops
    BY <2>1 DEF GuestStops
  <2>2. ASSUME NEW b \in Builds, Build(b) PROVE Copied
    BY <2>2, NothingLost
  <2> QED BY <2>1, <2>2 DEF Next
<1>2. Spec => []BuildInv
  BY BuildInvariant
<1>3. Spec => [][Next]_vars
  BY PTL DEF Spec
<1> QED BY <1>1, <1>2, <1>3, PTL DEF GoldenCopied

-----------------------------------------------------------------------------
(* The images of QEMU                                                      *)

Calm == BuildAssumption /\ Mishaps \cap {"die", "twins"} = {}

Steps == Underway \cup {"not", "done", "failed", "killed"}
Before == {"resolving", "fetching", "copying", "seeding", "booting"}
Off == {"gone", "another"}

QemuBuildTypeOK ==
  /\ now \in Seconds
  /\ step \in [QemuBuilds -> Steps]
  /\ stamp \in [QemuBuilds -> Seconds]
  /\ dir \in [Seconds -> Disks \cup {"empty", NoFile}]
  /\ qemu \in [QemuBuilds -> Off \cup {"none", "on", "told", "unnamed"}]
  /\ owned \subseteq QemuBuilds
  /\ part \in [QemuBuilds -> Disks \cup {NoFile}]
  /\ image \in [Seconds -> DatedImages]

Began(b) == step[b] # "not"

Apart ==
  /\ \A b, c \in QemuBuilds : b # c /\ Began(b) /\ Began(c) => stamp[b] # stamp[c]
  /\ \A s \in Seconds : dir[s] # NoFile => \E b \in QemuBuilds : Began(b) /\ stamp[b] = s

\* An image is whole, and of the build of its second, which got that far
Published ==
  \A s \in Seconds : image[s] # NoFile =>
    \E b \in QemuBuilds :
      /\ image[s] = [of |-> b, disk |-> "whole"] /\ stamp[b] = s
      /\ step[b] \in {"committed", "done", "killed"}

\* The QEMU of a build, and who is to end it
Guarded(b) ==
  /\ step[b] \in Before \cup {"not"} => qemu[b] = "none"
  /\ step[b] \in {"waking", "waiting", "provisioning", "quieting", "shutting", "asking"} =>
       qemu[b] \in Off \cup {"on"}
  /\ step[b] \in {"installing", "converting", "checking", "committed"} => qemu[b] \in Off
  /\ qemu[b] = "told" => step[b] \in {"done", "failed"}
  /\ qemu[b] = "on" => b \in owned \/ step[b] = "killed"
  /\ step[b] \in {"done", "failed"} => qemu[b] # "on"

\* The guest is all it should be, or was when it shut down
Finished(b) ==
  \/ step[b] \in {"quieting", "shutting", "asking"}
  \/ step[b] = "provisioning" /\ b \notin Scripted

Sound(b) ==
  /\ Finished(b) => Here(b) = IF qemu[b] = "on" THEN "ready" ELSE "whole"
  /\ step[b] \in {"installing", "converting"} => Here(b) = "whole"
  /\ step[b] = "checking" => part[b] = "whole"

Tidy(b) ==
  /\ step[b] \notin {"converting", "checking", "killed"} => part[b] = NoFile
  /\ step[b] \in {"committed", "done"} => image[stamp[b]] # NoFile
  /\ step[b] = "done" => Here(b) = NoFile
  /\ step[b] = "failed" => Here(b) = NoFile \/ b \in Keepers

Own(b) == Guarded(b) /\ Sound(b) /\ Tidy(b)

BInv == QemuBuildTypeOK /\ Apart /\ Published /\ \A b \in QemuBuilds : Own(b)

-----------------------------------------------------------------------------
LEMMA QemuBuildInit ==
  ASSUME Calm, QemuInit
  PROVE  BInv
<1>1. QemuBuildTypeOK
  BY DEF Calm, BuildAssumption, QemuInit, QemuBuildTypeOK, Seconds, Steps, DatedImages
<1>2. Apart /\ Published
  BY DEF QemuInit, Apart, Published, Began
<1>3. \A b \in QemuBuilds : Own(b)
  BY DEF QemuInit, Own, Guarded, Sound, Finished, Tidy, Before
<1> QED BY <1>1, <1>2, <1>3 DEF BInv

\* A step of b is about b, its directory and its image
Mine(b) ==
  /\ \A c \in QemuBuilds \ {b} :
       /\ step'[c] = step[c] /\ stamp'[c] = stamp[c] /\ qemu'[c] = qemu[c]
       /\ part'[c] = part[c] /\ (c \in owned' <=> c \in owned)
  /\ \A s \in Seconds : s # stamp'[b] => dir'[s] = dir[s] /\ image'[s] = image[s]

\* b has begun, in a second of its own
Placed(b) == Began(b)' /\ \A c \in QemuBuilds \ {b} : Began(c) => stamp[c] # stamp'[b]

LEMMA OthersAreLeft ==
  ASSUME Calm, BInv, NEW b \in QemuBuilds, Mine(b), Placed(b)
  PROVE  \A c \in QemuBuilds \ {b} : Own(c)'
<1> SUFFICES ASSUME NEW c \in QemuBuilds \ {b} PROVE Own(c)'
  OBVIOUS
<1>1. /\ step'[c] = step[c] /\ stamp'[c] = stamp[c] /\ qemu'[c] = qemu[c]
      /\ part'[c] = part[c] /\ (c \in owned' <=> c \in owned)
  BY DEF Mine
<1>2. Own(c) /\ stamp[c] \in Seconds
  BY DEF BInv, QemuBuildTypeOK
<1>3. Began(c) => Here(c)' = Here(c) /\ image'[stamp[c]] = image[stamp[c]]
  BY <1>1, <1>2 DEF Mine, Placed, Here
<1>4. Guarded(c)'
  BY <1>1, <1>2 DEF Own, Guarded
<1>5. Sound(c)'
  BY <1>1, <1>2, <1>3 DEF Own, Sound, Finished, Began
<1>6. Tidy(c)'
  BY <1>1, <1>2, <1>3 DEF Own, Tidy, Began
<1> QED BY <1>4, <1>5, <1>6 DEF Own

LEMMA StayApart ==
  ASSUME Calm, BInv, NEW b \in QemuBuilds, Mine(b), Placed(b), stamp'[b] \in Seconds,
         Began(b) => stamp'[b] = stamp[b]
  PROVE  Apart'
<1>1. \A c \in QemuBuilds \ {b} : step'[c] = step[c] /\ stamp'[c] = stamp[c]
  BY DEF Mine
<1>2. \A c, d \in QemuBuilds : c # d /\ Began(c)' /\ Began(d)' => stamp'[c] # stamp'[d]
  BY <1>1 DEF BInv, Apart, Placed, Began
<1>3. \A s \in Seconds : dir'[s] # NoFile => \E c \in QemuBuilds : Began(c)' /\ stamp'[c] = s
  <2> SUFFICES ASSUME NEW s \in Seconds, dir'[s] # NoFile, s # stamp'[b]
               PROVE  \E c \in QemuBuilds : Began(c)' /\ stamp'[c] = s
    BY DEF Placed
  <2>1. PICK c \in QemuBuilds : Began(c) /\ stamp[c] = s
    BY DEF Mine, BInv, Apart
  <2> QED BY <1>1, <2>1 DEF Began
<1> QED BY <1>2, <1>3 DEF Apart

\* All steps but Rename leave the images, and those whose builds got that far stay there
LEMMA StayPublished ==
  ASSUME Calm, BInv, NEW b \in QemuBuilds, Mine(b), image' = image,
         step[b] \in {"committed", "done", "killed"} =>
           step'[b] \in {"committed", "done", "killed"} /\ stamp'[b] = stamp[b]
  PROVE  Published'
<1> SUFFICES ASSUME NEW s \in Seconds, image[s] # NoFile
             PROVE  \E c \in QemuBuilds :
                      /\ image[s] = [of |-> c, disk |-> "whole"] /\ stamp'[c] = s
                      /\ step'[c] \in {"committed", "done", "killed"}
  BY DEF Published
<1>1. PICK c \in QemuBuilds :
        /\ image[s] = [of |-> c, disk |-> "whole"] /\ stamp[c] = s
        /\ step[c] \in {"committed", "done", "killed"}
  BY DEF BInv, Published
<1> QED BY <1>1 DEF Mine

\* What a step of b has to show
LEMMA OneStep ==
  ASSUME Calm, BInv, NEW b \in QemuBuilds, QemuBuildTypeOK', Mine(b), Placed(b),
         Began(b) => stamp'[b] = stamp[b], image' = image,
         step[b] \in {"committed", "done", "killed"} => step'[b] \in {"committed", "done", "killed"},
         Own(b)'
  PROVE  BInv'
<1>1. stamp'[b] \in Seconds
  BY DEF QemuBuildTypeOK
<1>2. Apart' /\ \A c \in QemuBuilds \ {b} : Own(c)'
  BY <1>1, StayApart, OthersAreLeft
<1>3. Published'
  BY StayPublished DEF Began
<1> QED BY <1>2, <1>3 DEF BInv

-----------------------------------------------------------------------------
LEMMA TypeSteps ==
  ASSUME Calm, QemuBuildTypeOK, NEW b \in QemuBuilds, Work(b) \/ World(b)
  PROVE  QemuBuildTypeOK'
<1> USE DEF QemuBuildTypeOK, Steps, Underway, Off, Goes, Fail, Disk, Here
<1>0. "fresh" \in Disks /\ "used" \in Disks /\ "ready" \in Disks /\ "whole" \in Disks /\ "broken" \in Disks
  BY DEF Disks
<1>1. CASE BeginImage(b)
  BY <1>1 DEF BeginImage
<1>2. CASE Resolve(b) \/ ResolveMedia(b) \/ WriteSeed(b) \/ Wake(b) \/ Quiesce(b)
  BY <1>2 DEF Resolve, ResolveMedia, WriteSeed, Wake, Quiesce
<1>3. CASE MakeDisk(b)
  BY <1>0, <1>3 DEF MakeDisk
<1>4. CASE Boot(b)
  BY <1>0, <1>4 DEF Boot
<1>5. CASE Reached(b) \/ RunScript(b)
  BY <1>0, <1>5 DEF Reached, RunScript
<1>6. CASE PowerButton(b) \/ AskToShutDown(b)
  BY <1>6 DEF PowerButton, AskToShutDown, GoneOr
<1>7. CASE Convert(b) \/ InstallFails(b)
  BY <1>0, <1>7 DEF Convert, InstallFails
<1>8. CASE Converted(b)
  BY <1>8 DEF Converted
<1>9. CASE Rename(b)
  <2>1. part[b] \in Disks /\ stamp[b] \in Seconds
    BY <1>9 DEF Rename
  <2>2. [of |-> b, disk |-> part[b]] \in DatedImages
    BY <2>1 DEF DatedImages
  <2> QED BY <1>9, <2>2 DEF Rename
<1>10. CASE Drop(b)
  BY <1>10 DEF Drop
<1>11. CASE Kill(b)
  BY <1>11 DEF Kill
<1>12. CASE PowersOff(b) \/ Dies(b) \/ PidTaken(b)
  BY <1>0, <1>12 DEF PowersOff, Dies, PidTaken
<1> QED BY <1>1, <1>2, <1>3, <1>4, <1>5, <1>6, <1>7, <1>8, <1>9, <1>10, <1>11, <1>12
        DEF Work, World

\* Every step but the first keeps to the second the build began in
LEMMA Places ==
  ASSUME Calm, BInv, NEW b \in QemuBuilds, Began(b), step'[b] # "not", stamp'[b] = stamp[b]
  PROVE  Placed(b)
BY DEF Placed, Began, BInv, Apart

LEMMA Changes ==
  ASSUME Calm, BInv, NEW b \in QemuBuilds, stamp' = stamp, image' = image,
         NEW s, step' = [step EXCEPT ![b] = s],
         NEW q, qemu' = [qemu EXCEPT ![b] = q],
         NEW r, part' = [part EXCEPT ![b] = r],
         NEW d, dir' = [dir EXCEPT ![stamp[b]] = d],
         \A c \in QemuBuilds \ {b} : c \in owned' <=> c \in owned
  PROVE  /\ Mine(b)
         /\ step'[b] = s /\ qemu'[b] = q /\ part'[b] = r /\ Here(b)' = d
BY DEF Mine, BInv, QemuBuildTypeOK, Here

\* The same, where less changes
LEMMA StepChanges ==
  ASSUME Calm, BInv, NEW b \in QemuBuilds, UNCHANGED <<stamp, image, qemu, part, dir>>,
         NEW s, step' = [step EXCEPT ![b] = s],
         \A c \in QemuBuilds \ {b} : c \in owned' <=> c \in owned
  PROVE  /\ Mine(b)
         /\ step'[b] = s /\ qemu'[b] = qemu[b] /\ part'[b] = part[b] /\ Here(b)' = Here(b)
BY DEF Mine, BInv, QemuBuildTypeOK, Here

LEMMA DiskChanges ==
  ASSUME Calm, BInv, NEW b \in QemuBuilds, UNCHANGED <<stamp, image, qemu, part, owned>>,
         NEW s, step' = [step EXCEPT ![b] = s],
         NEW d, dir' = [dir EXCEPT ![stamp[b]] = d]
  PROVE  /\ Mine(b)
         /\ step'[b] = s /\ qemu'[b] = qemu[b] /\ part'[b] = part[b] /\ Here(b)' = d
BY DEF Mine, BInv, QemuBuildTypeOK, Here

-----------------------------------------------------------------------------
(* Each step.                                                              *)

LEMMA BeginQemuKeeps ==
  ASSUME Calm, BInv, QemuBuildTypeOK', NEW b \in QemuBuilds, BeginImage(b)
  PROVE  BInv'
<1>1. QemuBuildTypeOK /\ Own(b) /\ step[b] = "not" /\ "twins" \notin Mishaps /\ now \in Seconds
  BY DEF BInv, BeginImage, Calm, QemuBuildTypeOK
<1>2. /\ stamp'[b] = now /\ step'[b] \in {"resolving", "failed"} /\ image' = image
      /\ qemu' = qemu /\ part' = part /\ owned' = owned
      /\ \A c \in QemuBuilds \ {b} : step'[c] = step[c] /\ stamp'[c] = stamp[c]
      /\ \A s \in Seconds : s # now => dir'[s] = dir[s]
  BY <1>1 DEF BeginImage, Goes, QemuBuildTypeOK
<1>3. \A c \in QemuBuilds : Began(c) => stamp[c] # now
  BY <1>1 DEF BeginImage, Began
<1>4. Mine(b) /\ Placed(b)
  BY <1>1, <1>2, <1>3 DEF Mine, Placed, Began
<1>5. dir[now] = NoFile
  BY <1>1, <1>3 DEF BInv, Apart
<1>6. step'[b] = "failed" => Here(b)' = NoFile
  BY <1>1, <1>2, <1>5 DEF BeginImage, Goes, Here, QemuBuildTypeOK
<1>7. Own(b)'
  BY <1>1, <1>2, <1>6 DEF Own, Guarded, Sound, Finished, Tidy, Before, Off
<1> QED BY <1>1, <1>2, <1>4, <1>7, OneStep DEF Began

\* The steps of a build that only say where it is
LEMMA PlainKeeps ==
  ASSUME Calm, BInv, QemuBuildTypeOK', NEW b \in QemuBuilds,
         Resolve(b) \/ ResolveMedia(b) \/ WriteSeed(b) \/ Wake(b) \/ Quiesce(b) \/ Kill(b)
  PROVE  BInv'
<1>1. Own(b) /\ Began(b)
  BY DEF BInv, Resolve, ResolveMedia, WriteSeed, Wake, Quiesce, Kill, Began, Underway
<1>2. PICK s : step' = [step EXCEPT ![b] = s]
  BY DEF Resolve, ResolveMedia, WriteSeed, Wake, Quiesce, Kill, Goes, Fail
<1>3. UNCHANGED <<stamp, image, qemu, part, dir, owned>>
  BY DEF Resolve, ResolveMedia, WriteSeed, Wake, Quiesce, Kill
<1>4. /\ Mine(b)
      /\ step'[b] = s /\ qemu'[b] = qemu[b] /\ part'[b] = part[b] /\ Here(b)' = Here(b)
  BY <1>2, <1>3, StepChanges
<1>5. \/ step[b] \in {"resolving", "fetching", "seeding"} /\ s \in {"fetching", "copying", "booting", "dropping"}
      \/ step[b] = "waking" /\ s \in {"waiting", "dropping"}
      \/ step[b] = "quieting" /\ s = "shutting"
      \/ step[b] \in Underway /\ s = "killed"
  BY <1>4 DEF Resolve, ResolveMedia, WriteSeed, Wake, Quiesce, Kill, Goes, Fail, BInv, QemuBuildTypeOK
<1>6. Guarded(b)'
  BY <1>1, <1>3, <1>4, <1>5 DEF Own, Guarded, Before, Off, Underway
<1>7. Sound(b)'
  BY <1>1, <1>3, <1>4, <1>5 DEF Own, Sound, Finished
<1>8. Tidy(b)'
  BY <1>1, <1>3, <1>4, <1>5 DEF Own, Tidy
<1>9. Placed(b)
  BY <1>1, <1>3, <1>4, <1>5, Places
<1> QED BY <1>1, <1>3, <1>4, <1>5, <1>6, <1>7, <1>8, <1>9, OneStep DEF Own, Underway

LEMMA DiskKeeps ==
  ASSUME Calm, BInv, QemuBuildTypeOK', NEW b \in QemuBuilds, MakeDisk(b) \/ Reached(b) \/ RunScript(b)
  PROVE  BInv'
<1>1. Own(b) /\ Began(b) /\ QemuBuildTypeOK
  BY DEF BInv, MakeDisk, Reached, RunScript, Began
<1>2. UNCHANGED <<stamp, image, qemu, part, owned>>
  BY DEF MakeDisk, Reached, RunScript
<1>3. /\ \E s : step' = [step EXCEPT ![b] = s]
      /\ dir' = dir \/ \E d : dir' = [dir EXCEPT ![stamp[b]] = d]
  BY DEF MakeDisk, Reached, RunScript, Goes, Fail, Disk
<1>4. Mine(b) /\ qemu'[b] = qemu[b] /\ part'[b] = part[b]
  BY <1>2, <1>3, StepChanges, DiskChanges
<1>5. \/ step[b] = "copying" /\ step'[b] \in {"seeding", "dropping"}
      \/ step[b] = "waiting" /\ step'[b] = "dropping"
      \/ step[b] = "provisioning" /\ step'[b] = "dropping"
      \/ /\ step[b] = "waiting" /\ step'[b] = "provisioning" /\ qemu[b] = "on"
         /\ Here(b)' = IF b \in Scripted THEN "used" ELSE "ready"
      \/ /\ step[b] = "provisioning" /\ step'[b] \in {"asking", "quieting"}
         /\ \/ b \in Scripted /\ qemu[b] = "on" /\ Here(b)' = "ready"
            \/ b \notin Scripted /\ Here(b)' = Here(b)
  BY <1>1, <1>2 DEF MakeDisk, Reached, RunScript, Goes, Fail, Disk, Here, QemuBuildTypeOK
<1>6. Guarded(b)'
  BY <1>1, <1>2, <1>4, <1>5 DEF Own, Guarded, Before, Off
<1>7. Sound(b)'
  BY <1>1, <1>4, <1>5 DEF Own, Sound, Finished
<1>8. Tidy(b)'
  BY <1>1, <1>4, <1>5 DEF Own, Tidy
<1>9. Placed(b)
  BY <1>1, <1>2, <1>5, Places
<1> QED BY <1>1, <1>2, <1>4, <1>5, <1>6, <1>7, <1>8, <1>9, OneStep DEF Own

LEMMA BootKeeps ==
  ASSUME Calm, BInv, QemuBuildTypeOK', NEW b \in QemuBuilds, Boot(b)
  PROVE  BInv'
<1>1. Own(b) /\ Began(b) /\ QemuBuildTypeOK /\ step[b] = "booting"
  BY DEF BInv, Boot, Began
<1>2. UNCHANGED <<stamp, image, part>>
  BY DEF Boot
<1>3. /\ \A c \in QemuBuilds \ {b} : step'[c] = step[c] /\ qemu'[c] = qemu[c] /\ (c \in owned' <=> c \in owned)
      /\ \A s \in Seconds : s # stamp[b] => dir'[s] = dir[s]
  BY <1>1 DEF Boot, Goes, Fail, Disk, QemuBuildTypeOK
<1>4. Mine(b)
  BY <1>2, <1>3 DEF Mine
<1>5. \/ step'[b] \in {"waking", "waiting"} /\ qemu'[b] = "on" /\ b \in owned'
      \/ step'[b] = "dropping" /\ qemu'[b] = "unnamed"
      \/ step'[b] = "dropping" /\ qemu'[b] = qemu[b]
  BY <1>1 DEF Boot, Goes, Fail, QemuBuildTypeOK
<1>6. Own(b)'
  BY <1>1, <1>2, <1>5 DEF Own, Guarded, Sound, Finished, Tidy, Before, Off
<1>7. Placed(b)
  BY <1>1, <1>2, <1>5, Places
<1> QED BY <1>1, <1>2, <1>4, <1>5, <1>6, <1>7, OneStep

LEMMA OffKeeps ==
  ASSUME Calm, BInv, QemuBuildTypeOK', NEW b \in QemuBuilds, PowerButton(b) \/ AskToShutDown(b)
  PROVE  BInv'
<1>1. Own(b) /\ Began(b) /\ QemuBuildTypeOK /\ step[b] \in {"shutting", "asking"}
  BY DEF BInv, PowerButton, AskToShutDown, Began
<1>2. UNCHANGED <<stamp, image, qemu, part, dir>>
  BY DEF PowerButton, AskToShutDown
<1>3. \E s : step' = [step EXCEPT ![b] = s]
  BY DEF PowerButton, AskToShutDown, GoneOr, Goes, Fail
<1>4. \A c \in QemuBuilds \ {b} : c \in owned' <=> c \in owned
  BY DEF PowerButton, AskToShutDown, GoneOr
<1>5. Mine(b) /\ qemu'[b] = qemu[b] /\ part'[b] = part[b] /\ Here(b)' = Here(b)
  BY <1>2, <1>3, <1>4, StepChanges
<1>6. \/ step'[b] = "installing" /\ qemu[b] = "gone"
      \/ step'[b] \in {"asking", "dropping"} /\ owned' = owned
  BY <1>1 DEF PowerButton, AskToShutDown, GoneOr, Goes, Fail, QemuBuildTypeOK
<1>7. Own(b)'
  BY <1>1, <1>2, <1>5, <1>6 DEF Own, Guarded, Sound, Finished, Tidy, Before, Off
<1>8. Placed(b)
  BY <1>1, <1>2, <1>6, Places
<1> QED BY <1>1, <1>2, <1>5, <1>6, <1>7, <1>8, OneStep

LEMMA ConvertKeeps ==
  ASSUME Calm, BInv, QemuBuildTypeOK', NEW b \in QemuBuilds, Convert(b) \/ Converted(b) \/ InstallFails(b)
  PROVE  BInv'
<1>1. Own(b) /\ Began(b) /\ QemuBuildTypeOK /\ step[b] \in {"installing", "converting", "checking"}
  BY DEF BInv, Convert, Converted, InstallFails, Began
<1>2. UNCHANGED <<stamp, image, qemu, dir, owned>>
  BY DEF Convert, Converted, InstallFails
<1>3. /\ \A c \in QemuBuilds \ {b} : step'[c] = step[c] /\ part'[c] = part[c]
      /\ \/ step'[b] = "converting" /\ step[b] = "installing"
         \/ step'[b] = "checking" /\ step[b] = "converting" /\ part'[b] = Here(b)
         \/ step'[b] = "dropping" /\ part'[b] = NoFile
  BY <1>1 DEF Convert, Converted, InstallFails, Goes, Fail, Own, Tidy, QemuBuildTypeOK
<1>4. Mine(b) /\ qemu'[b] = qemu[b] /\ Here(b)' = Here(b)
  BY <1>2, <1>3 DEF Mine, Here
<1>5. Own(b)'
  BY <1>1, <1>2, <1>3, <1>4 DEF Own, Guarded, Sound, Finished, Tidy, Before, Off
<1>6. Placed(b)
  BY <1>1, <1>2, <1>3, Places
<1> QED BY <1>1, <1>2, <1>3, <1>4, <1>5, <1>6, OneStep

LEMMA RenameKeeps ==
  ASSUME Calm, BInv, QemuBuildTypeOK', NEW b \in QemuBuilds, Rename(b)
  PROVE  BInv' /\ image[stamp[b]] = NoFile
<1>1. Own(b) /\ Began(b) /\ QemuBuildTypeOK /\ step[b] = "checking" /\ stamp[b] \in Seconds
  BY DEF BInv, Rename, Began, QemuBuildTypeOK
<1>2. UNCHANGED <<stamp, qemu, dir, owned>>
  BY DEF Rename
<1>3. /\ \A c \in QemuBuilds \ {b} : step'[c] = step[c] /\ part'[c] = part[c]
      /\ \A s \in Seconds \ {stamp[b]} : image'[s] = image[s]
      /\ step'[b] = "committed" /\ part'[b] = NoFile
      /\ image'[stamp[b]] = [of |-> b, disk |-> part[b]]
  BY <1>1 DEF Rename, Goes, QemuBuildTypeOK
<1>4. Mine(b) /\ qemu'[b] = qemu[b] /\ Here(b)' = Here(b)
  BY <1>2, <1>3 DEF Mine, Here
<1>5. [of |-> b, disk |-> part[b]] # NoFile /\ part[b] = "whole"
  BY <1>1 DEF Calm, BuildAssumption, Own, Sound, Rename, QemuBuildTypeOK
<1>6. Own(b)'
  BY <1>1, <1>2, <1>3, <1>4, <1>5 DEF Own, Guarded, Sound, Finished, Tidy, Before, Off
<1>7. Placed(b)
  BY <1>1, <1>2, <1>3, Places
<1>8. Apart' /\ \A c \in QemuBuilds \ {b} : Own(c)'
  BY <1>1, <1>2, <1>4, <1>7, StayApart, OthersAreLeft
<1>9. Published'
  <2> SUFFICES ASSUME NEW s \in Seconds \ {stamp[b]}, image'[s] # NoFile
               PROVE  \E c \in QemuBuilds :
                        /\ image'[s] = [of |-> c, disk |-> "whole"] /\ stamp'[c] = s
                        /\ step'[c] \in {"committed", "done", "killed"}
    BY <1>2, <1>3, <1>5 DEF Published
  <2>1. PICK c \in QemuBuilds :
          /\ image[s] = [of |-> c, disk |-> "whole"] /\ stamp[c] = s
          /\ step[c] \in {"committed", "done", "killed"}
    BY <1>3 DEF BInv, Published
  <2> QED BY <1>1, <1>2, <1>3, <2>1
<1>10. image[stamp[b]] = NoFile
  <2> SUFFICES ASSUME image[stamp[b]] # NoFile PROVE FALSE
    OBVIOUS
  <2>1. PICK c \in QemuBuilds : stamp[c] = stamp[b] /\ step[c] \in {"committed", "done", "killed"}
    BY <1>1 DEF BInv, Published
  <2> QED BY <1>1, <2>1 DEF BInv, Apart, Began
<1> QED BY <1>6, <1>8, <1>9, <1>10 DEF BInv

LEMMA DropKeeps ==
  ASSUME Calm, BInv, QemuBuildTypeOK', NEW b \in QemuBuilds, Drop(b)
  PROVE  BInv'
<1>1. Own(b) /\ Began(b) /\ QemuBuildTypeOK /\ step[b] \in {"committed", "dropping"}
  BY DEF BInv, Drop, Began
<1>2. UNCHANGED <<stamp, image, part>>
  BY DEF Drop
<1>3. /\ \A c \in QemuBuilds \ {b} : step'[c] = step[c] /\ qemu'[c] = qemu[c] /\ (c \in owned' <=> c \in owned)
      /\ \A s \in Seconds : s # stamp[b] => dir'[s] = dir[s]
  BY <1>1 DEF Drop, Goes, Disk, QemuBuildTypeOK
<1>4. Mine(b)
  BY <1>2, <1>3 DEF Mine
<1>5. /\ step'[b] = IF step[b] = "committed" THEN "done" ELSE "failed"
      /\ Here(b)' = IF step[b] = "dropping" /\ b \in Keepers THEN Here(b) ELSE NoFile
      /\ qemu'[b] = IF b \in owned /\ qemu[b] = "on" THEN "told"
                    ELSE IF b \in owned /\ qemu[b] = "another" THEN "gone" ELSE qemu[b]
  BY <1>1, <1>2 DEF Drop, Goes, Disk, Here, QemuBuildTypeOK
<1>6. qemu'[b] # "on"
  BY <1>1, <1>5 DEF Own, Guarded
<1>7. Own(b)'
  BY <1>1, <1>2, <1>5, <1>6 DEF Own, Guarded, Sound, Finished, Tidy, Before, Off
<1>8. Placed(b)
  BY <1>1, <1>2, <1>5, Places
<1> QED BY <1>1, <1>2, <1>4, <1>5, <1>7, <1>8, OneStep

LEMMA WorldKeeps ==
  ASSUME Calm, BInv, QemuBuildTypeOK', NEW b \in QemuBuilds, World(b)
  PROVE  BInv'
<1>1. Own(b) /\ QemuBuildTypeOK /\ "die" \notin Mishaps
  BY DEF BInv, Calm
<1>2. UNCHANGED <<stamp, image, part, step, owned>> /\ Began(b)
  BY <1>1 DEF World, PowersOff, Dies, PidTaken, Own, Guarded, Began, Running
<1>3. /\ \A c \in QemuBuilds \ {b} : qemu'[c] = qemu[c]
      /\ \A s \in Seconds : s # stamp[b] => dir'[s] = dir[s]
  BY <1>1 DEF World, PowersOff, Dies, PidTaken, Disk, QemuBuildTypeOK
<1>4. Mine(b)
  BY <1>2, <1>3 DEF Mine
<1>5. \/ /\ qemu[b] \in Running /\ qemu'[b] = "gone"
         /\ Here(b)' = IF Here(b) = NoFile THEN NoFile
                       ELSE IF Here(b) = "ready" THEN "whole" ELSE "broken"
      \/ /\ qemu[b] = "told" /\ qemu'[b] = "gone"
         /\ Here(b)' = IF Here(b) = NoFile THEN NoFile ELSE "broken"
      \/ qemu[b] = "gone" /\ qemu'[b] = "another" /\ Here(b)' = Here(b)
  BY <1>1, <1>2 DEF World, PowersOff, Dies, PidTaken, Disk, Here, QemuBuildTypeOK
<1>6. "ready" # NoFile
  BY DEF Calm, BuildAssumption, Disks
<1>7. Guarded(b)'
  BY <1>1, <1>2, <1>5 DEF Own, Guarded, Running, Before, Off
<1>8. Sound(b)'
  BY <1>1, <1>2, <1>5, <1>6 DEF Own, Guarded, Sound, Finished, Running, Off
<1>9. Tidy(b)'
  BY <1>1, <1>2, <1>5 DEF Own, Tidy
<1>10. Placed(b)
  BY <1>2, Places DEF Began
<1> QED BY <1>2, <1>4, <1>7, <1>8, <1>9, <1>10, OneStep DEF Own

LEMMA StepKeeps ==
  ASSUME Calm, BInv, [QemuNext]_state
  PROVE  BInv' /\ \A s \in Seconds : image[s] # NoFile => image'[s] = image[s]
<1>1. ASSUME NEW b \in QemuBuilds, Work(b) \/ World(b)
      PROVE  BInv' /\ \A s \in Seconds : image[s] # NoFile => image'[s] = image[s]
  <2>1. QemuBuildTypeOK'
    BY <1>1, TypeSteps DEF BInv
  <2>2. CASE Rename(b)
    BY <2>1, <2>2, RenameKeeps DEF Rename, BInv, QemuBuildTypeOK
  <2>3. CASE ~Rename(b)
    <3>1. image' = image
      BY <1>1, <2>3 DEF Work, World, BeginImage, Resolve, ResolveMedia, MakeDisk, WriteSeed, Boot, Wake,
         Reached, RunScript, Quiesce, PowerButton, AskToShutDown, Convert, Converted, InstallFails,
         Drop, Kill, PowersOff, Dies, PidTaken
    <3> QED BY <1>1, <2>1, <2>3, <3>1, BeginQemuKeeps, PlainKeeps, DiskKeeps, BootKeeps, OffKeeps,
            ConvertKeeps, DropKeeps, WorldKeeps DEF Work
  <2> QED BY <2>2, <2>3
<1>2. CASE UNCHANGED state \/ Tick
  <2>1. UNCHANGED <<step, stamp, dir, qemu, owned, part, image>> /\ now' \in Seconds
    BY <1>2 DEF state, Tick, BInv, QemuBuildTypeOK, Seconds, Calm, BuildAssumption
  <2>2. QemuBuildTypeOK' /\ Apart' /\ Published'
    BY <2>1 DEF BInv, QemuBuildTypeOK, Apart, Began, Published
  <2>3. \A b \in QemuBuilds : Own(b)'
    BY <2>1 DEF BInv, Own, Guarded, Sound, Finished, Tidy, Here
  <2> QED BY <2>1, <2>2, <2>3 DEF BInv
<1> QED BY <1>1, <1>2 DEF QemuNext

-----------------------------------------------------------------------------
(* The results.                                                            *)

THEOREM QemuBuildInvariant ==
  ASSUME Calm
  PROVE  QemuSpec => []BInv
<1>1. BInv /\ [QemuNext]_state => BInv'
  BY StepKeeps
<1> QED BY <1>1, QemuBuildInit, PTL DEF QemuSpec

\* Whatever fails, and wherever vitro is killed, an image under a dated name was
\* made of a guest that was finished and had shut down, for any number of builds.
THEOREM ImagesAreWhole ==
  ASSUME Calm
  PROVE  QemuSpec => []ImagesWhole
<1>1. BInv => ImagesWhole
  <2> SUFFICES ASSUME BInv, NEW s \in Seconds, image[s] # NoFile
               PROVE  image[s].disk = "whole"
    BY DEF ImagesWhole
  <2>1. PICK b \in QemuBuilds : image[s] = [of |-> b, disk |-> "whole"]
    BY DEF BInv, Published
  <2> QED BY <2>1
<1> QED BY <1>1, QemuBuildInvariant, PTL

\* A build that is done has left its image and nothing else, and one that failed
\* has left nothing but, with --keep-failed, its directory.
THEOREM BuildsTidy ==
  ASSUME Calm
  PROVE  QemuSpec => []BuildTidies
<1>1. BInv => BuildTidies
  <2> SUFFICES ASSUME BInv, NEW b \in QemuBuilds
               PROVE  /\ step[b] = "done" => image[stamp[b]] # NoFile /\ Here(b) = NoFile
                      /\ step[b] = "failed" => image[stamp[b]] = NoFile /\ (Here(b) = NoFile \/ b \in Keepers)
                      /\ step[b] \in {"done", "failed"} => part[b] = NoFile /\ qemu[b] # "on"
    BY DEF BuildTidies
  <2>1. Own(b) /\ stamp[b] \in Seconds
    BY DEF BInv, QemuBuildTypeOK
  <2>2. ASSUME step[b] = "failed", image[stamp[b]] # NoFile
        PROVE  FALSE
    <3>1. PICK c \in QemuBuilds : stamp[c] = stamp[b] /\ step[c] \in {"committed", "done", "killed"}
      BY <2>1, <2>2 DEF BInv, Published
    <3> QED BY <2>2, <3>1 DEF BInv, Apart, Began
  <2> QED BY <2>1, <2>2 DEF Own, Guarded, Tidy
<1> QED BY <1>1, QemuBuildInvariant, PTL

\* No build writes to an image there is: a VM that runs on it keeps its disk.
THEOREM ImagesAreKept ==
  ASSUME Calm
  PROVE  QemuSpec => ImagesStay
<1>1. BInv /\ [QemuNext]_state => [\A s \in Seconds : image[s] # NoFile => image'[s] = image[s]]_state
  BY StepKeeps
<1> QED BY <1>1, QemuBuildInvariant, PTL DEF QemuSpec, ImagesStay

-----------------------------------------------------------------------------
(* The builds and the download                                             *)

\* What is checked of vitro build is what is proved of its download and of each of the
\* two builds: the image's kind decides which it is, and the steps of one leave the
\* state of the others alone (build.rs:204).
THEOREM BuildIsEither == BuildSpec => Spec /\ QemuSpec /\ FetchSpec
<1>1. BuildInit => Init /\ QemuInit /\ FetchInit
  BY DEF BuildInit
<1>2. [BuildNext]_everything => [Next]_vars /\ [QemuNext]_state /\ [FetchNext]_media
  BY DEF BuildNext, everything
<1> QED BY <1>1, <1>2, PTL DEF BuildSpec, Spec, QemuSpec, FetchSpec
=============================================================================
