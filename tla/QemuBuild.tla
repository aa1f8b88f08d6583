------------------------------ MODULE QemuBuild ------------------------------
(***************************************************************************)
(* Building an image from a cloud image or from Windows media (build in    *)
(* commands/build.rs with golden.rs): a QEMU guest installs itself on a    *)
(* disk in the build's own directory, is shut down, and its disk is        *)
(* flattened into a dated image.  Directory and image are both named after *)
(* the second the build began in.                                          *)
(***************************************************************************)
EXTENDS Naturals

CONSTANTS
  QemuBuilds,     \* vitro processes, each building the same image once
  Scripted,   \* those whose image has a provision script
  Windows,    \* those of an unattended Windows installation
  Keepers,    \* those given --keep-failed
  LastSecond, \* bound on the clock
  NoFile,     \* no directory, disk, file or image
  Mishaps     \* a subset of AllMishaps

\* crash: vitro is killed; die: QEMU ends without the guest having shut down;
\* reuse: the PID of a QEMU that has ended goes to another process; unread: the
\* pidfile of a QEMU that runs cannot be read; twins: two builds begin in one second
AllMishaps == {"crash", "die", "reuse", "unread", "twins"}

\* A disk nobody booted; one with a guest on it; one with a guest that is all it
\* should become; the same shut down; and one that was cut off or is half written
Disks == {"fresh", "used", "ready", "whole", "broken"}
DatedImages == [of : QemuBuilds, disk : Disks] \cup {NoFile}

BuildAssumption ==
  /\ Scripted \subseteq QemuBuilds /\ Windows \subseteq QemuBuilds /\ Keepers \subseteq QemuBuilds
  /\ LastSecond \in Nat
  /\ Mishaps \subseteq AllMishaps
  /\ NoFile \notin {"empty"} \cup Disks \cup [of : QemuBuilds, disk : Disks]

Seconds == 0..LastSecond

VARIABLES
  now,        \* OffsetDateTime::now_utc, in seconds
  step,       \* where each build is
  stamp,      \* the second each began in
  dir,        \* <key>-<stamp>: absent, empty, or with a disk in it
  qemu,       \* each build's QEMU: none, on, told to end, gone, its PID another's; or
              \* on with a PID nobody knows, which spawn's error says
  owned,      \* the builds whose guard owns their QEMU
  part,       \* .<key>-<stamp>.qcow2.<pid>.tmp, one for each vitro process
  image       \* <key>-<stamp>.qcow2, and whose it is

state == <<now, step, stamp, dir, qemu, owned, part, image>>

Running == {"on", "told", "unnamed"}
Underway == {"resolving", "fetching", "copying", "seeding", "booting", "waking", "waiting",
             "provisioning", "quieting", "shutting", "asking", "installing",
             "converting", "checking", "committed", "dropping"}

Here(b) == dir[stamp[b]]
Disk(b, d) == dir' = [dir EXCEPT ![stamp[b]] = d]
Goes(b, to) == step' = [step EXCEPT ![b] = to]

\* The error unwinds through the guard
Fail(b) == Goes(b, "dropping")

-----------------------------------------------------------------------------
(* Before the guest                                                        *)

\* mutant: images are not dated
BeginUndated(b) ==
  /\ step[b] = "not"
  /\ \A c \in QemuBuilds : step[c] \notin Underway
  /\ Goes(b, "resolving")
  /\ dir' = [dir EXCEPT ![0] = "empty"]
  /\ UNCHANGED <<now, stamp, qemu, owned, part, image>>

\* A configuration error or a script that cannot run in the guest ends it here;
\* create_dir_all does not mind a directory that is there
BeginImage(b) ==
  /\ step[b] = "not"
  /\ "twins" \in Mishaps \/ \A c \in QemuBuilds : step[c] # "not" => stamp[c] # now
  /\ stamp' = [stamp EXCEPT ![b] = now]
  /\ \/ Goes(b, "resolving") /\ dir' = [dir EXCEPT ![now] = IF @ = NoFile THEN "empty" ELSE @]
     \/ Goes(b, "failed") /\ UNCHANGED dir
  /\ UNCHANGED <<now, qemu, owned, part, image>>

\* The host, its architecture and the tools are there, or one of them is not
Resolve(b) ==
  /\ step[b] = "resolving"
  /\ Goes(b, "fetching") \/ Fail(b)
  /\ UNCHANGED <<now, stamp, dir, qemu, owned, part, image>>

\* resolve_media: a path, a download or what was put in the media directory
ResolveMedia(b) ==
  /\ step[b] = "fetching"
  /\ Goes(b, "copying") \/ Fail(b)
  /\ UNCHANGED <<now, stamp, dir, qemu, owned, part, image>>

\* A copy of the cloud image, grown, or a blank disk
MakeDisk(b) ==
  /\ step[b] = "copying"
  /\ \/ Here(b) # NoFile /\ Goes(b, "seeding") /\ Disk(b, "fresh")
     \/ Here(b) # NoFile /\ Fail(b) /\ Disk(b, "broken")
     \/ Fail(b) /\ UNCHANGED dir
  /\ UNCHANGED <<now, stamp, qemu, owned, part, image>>

\* The answer file or the cloud-init seed, the key and the drivers
WriteSeed(b) ==
  /\ step[b] = "seeding"
  /\ \/ Here(b) # NoFile /\ Goes(b, "booting")
     \/ Fail(b)
  /\ UNCHANGED <<now, stamp, dir, qemu, owned, part, image>>

\* QEMU locks the disk it opens
Boot(b) ==
  /\ step[b] = "booting"
  /\ \/ /\ Here(b) \in Disks
        /\ \A c \in QemuBuilds : qemu[c] \in Running => stamp[c] # stamp[b]
        /\ Disk(b, "used")
        /\ \/ /\ Goes(b, IF b \in Windows THEN "waking" ELSE "waiting") /\ owned' = owned \cup {b}
              /\ qemu' = [qemu EXCEPT ![b] = "on"]
           \/ /\ "unread" \in Mishaps /\ Fail(b) /\ UNCHANGED owned
              /\ qemu' = [qemu EXCEPT ![b] = "unnamed"]
     \/ Fail(b) /\ UNCHANGED <<dir, qemu, owned>>
  /\ UNCHANGED <<now, stamp, part, image>>

-----------------------------------------------------------------------------
(* With the guest                                                          *)

\* wake_the_installer: a key that cannot be sent does not matter, no monitor or
\* Ctrl-C does
Wake(b) ==
  /\ step[b] = "waking"
  /\ Goes(b, "waiting") \/ Fail(b)
  /\ UNCHANGED <<now, stamp, dir, qemu, owned, part, image>>

\* The wait for SSH.  An image without a script is what it should be once the guest
\* answers
Reached(b) ==
  /\ step[b] = "waiting"
  /\ \/ /\ qemu[b] = "on" /\ Goes(b, "provisioning")
        /\ Disk(b, IF b \in Scripted THEN "used" ELSE "ready")
     \/ Fail(b) /\ UNCHANGED dir
  /\ UNCHANGED <<now, stamp, qemu, owned, part, image>>

\* The script has to exit with 0
RunScript(b) ==
  /\ step[b] = "provisioning"
  /\ LET next == IF b \in Windows THEN "asking" ELSE "quieting" IN
     \/ b \in Scripted /\ qemu[b] = "on" /\ Disk(b, "ready") /\ Goes(b, next)
     \/ b \in Scripted /\ Fail(b) /\ UNCHANGED dir
     \/ b \notin Scripted /\ Goes(b, next) /\ UNCHANGED dir
  /\ UNCHANGED <<now, stamp, qemu, owned, part, image>>

\* quiesce_cloud_init does not mind if it fails, nor if there is no guest left
Quiesce(b) ==
  /\ step[b] = "quieting"
  /\ Goes(b, "shutting")
  /\ UNCHANGED <<now, stamp, dir, qemu, owned, part, image>>

\* process::wait_for_exit by the PID alone: it is nobody's, or the time is up
GoneOr(b, otherwise) ==
  \/ qemu[b] = "gone" /\ Goes(b, "installing") /\ owned' = owned \ {b}
  \/ qemu[b] # "gone" /\ otherwise /\ UNCHANGED owned

\* The power button, which Windows does not hear, and a minute
PowerButton(b) ==
  /\ step[b] = "shutting"
  /\ GoneOr(b, Goes(b, "asking"))
  /\ UNCHANGED <<now, stamp, dir, qemu, part, image>>

\* mutant: the wait's answer is not looked at
AskAnyhow(b) ==
  /\ step[b] = "asking"
  /\ Goes(b, "installing") /\ owned' = owned \ {b}
  /\ UNCHANGED <<now, stamp, dir, qemu, part, image>>

\* A command over SSH, and three minutes: then the disk is not kept
AskToShutDown(b) ==
  /\ step[b] = "asking"
  /\ GoneOr(b, Fail(b))
  /\ UNCHANGED <<now, stamp, dir, qemu, part, image>>

-----------------------------------------------------------------------------
(* The image                                                               *)

\* dated_path and signals::check, then qemu-img convert begins
Convert(b) ==
  /\ step[b] = "installing"
  /\ \/ Here(b) \in Disks /\ Goes(b, "converting") /\ part' = [part EXCEPT ![b] = "broken"]
     \/ Fail(b) /\ UNCHANGED part
  /\ UNCHANGED <<now, stamp, dir, qemu, owned, image>>

\* install removes its own file when it fails
InstallFails(b) ==
  /\ step[b] \in {"converting", "checking"}
  /\ Fail(b)
  /\ part' = [part EXCEPT ![b] = NoFile]
  /\ UNCHANGED <<now, stamp, dir, qemu, owned, image>>

Converted(b) ==
  /\ step[b] = "converting"
  /\ Here(b) \in Disks
  /\ part' = [part EXCEPT ![b] = Here(b)]
  /\ Goes(b, "checking")
  /\ UNCHANGED <<now, stamp, dir, qemu, owned, image>>

\* qemu-img check, rename, and the guard is told
Rename(b) ==
  /\ step[b] = "checking"
  /\ part[b] # NoFile
  /\ image' = [image EXCEPT ![stamp[b]] = [of |-> b, disk |-> part[b]]]
  /\ part' = [part EXCEPT ![b] = NoFile]
  /\ Goes(b, "committed")
  /\ UNCHANGED <<now, stamp, dir, qemu, owned>>

\* mutant: --keep-failed leaves the guest alone, too
DropKeepsAll(b) ==
  /\ step[b] \in {"committed", "dropping"}
  /\ LET kept == step[b] = "dropping" /\ b \in Keepers IN
     /\ qemu' = [qemu EXCEPT ![b] = IF b \in owned /\ ~kept /\ @ = "on" THEN "told" ELSE @]
     /\ Disk(b, IF kept THEN Here(b) ELSE NoFile)
  /\ owned' = owned \ {b}
  /\ Goes(b, IF step[b] = "committed" THEN "done" ELSE "failed")
  /\ UNCHANGED <<now, stamp, part, image>>

\* BuildGuard::drop: SIGTERM to the PID, whoever has it by now, and the directory
Drop(b) ==
  /\ step[b] \in {"committed", "dropping"}
  /\ qemu' = [qemu EXCEPT ![b] = IF b \in owned /\ @ = "on" THEN "told"
                                 ELSE IF b \in owned /\ @ = "another" THEN "gone" ELSE @]
  /\ Disk(b, IF step[b] = "dropping" /\ b \in Keepers THEN Here(b) ELSE NoFile)
  /\ owned' = owned \ {b}
  /\ Goes(b, IF step[b] = "committed" THEN "done" ELSE "failed")
  /\ UNCHANGED <<now, stamp, part, image>>

-----------------------------------------------------------------------------
(* The host and the guest                                                  *)

\* The guest shuts down: it was asked to, or does so by itself
PowersOff(b) ==
  /\ qemu[b] \in Running
  /\ qemu' = [qemu EXCEPT ![b] = "gone"]
  /\ IF Here(b) = NoFile THEN UNCHANGED dir
     ELSE Disk(b, IF Here(b) = "ready" THEN "whole" ELSE "broken")
  /\ UNCHANGED <<now, step, stamp, owned, part, image>>

\* SIGTERM ends QEMU at once; so does the host, when memory runs out
Dies(b) ==
  /\ qemu[b] \in IF "die" \in Mishaps THEN Running ELSE {"told"}
  /\ qemu' = [qemu EXCEPT ![b] = "gone"]
  /\ IF Here(b) = NoFile THEN UNCHANGED dir ELSE Disk(b, "broken")
  /\ UNCHANGED <<now, step, stamp, owned, part, image>>

PidTaken(b) ==
  /\ "reuse" \in Mishaps /\ qemu[b] = "gone"
  /\ qemu' = [qemu EXCEPT ![b] = "another"]
  /\ UNCHANGED <<now, step, stamp, dir, owned, part, image>>

Kill(b) ==
  /\ "crash" \in Mishaps /\ step[b] \in Underway
  /\ Goes(b, "killed")
  /\ UNCHANGED <<now, stamp, dir, qemu, owned, part, image>>

Tick ==
  /\ now < LastSecond
  /\ now' = now + 1
  /\ UNCHANGED <<step, stamp, dir, qemu, owned, part, image>>

-----------------------------------------------------------------------------
QemuInit ==
  /\ now = 0
  /\ step = [b \in QemuBuilds |-> "not"]
  /\ stamp = [b \in QemuBuilds |-> 0]
  /\ dir = [s \in Seconds |-> NoFile]
  /\ qemu = [b \in QemuBuilds |-> "none"]
  /\ owned = {}
  /\ part = [b \in QemuBuilds |-> NoFile]
  /\ image = [s \in Seconds |-> NoFile]

Work(b) ==
  \/ BeginImage(b) \/ Resolve(b) \/ ResolveMedia(b) \/ MakeDisk(b) \/ WriteSeed(b) \/ Boot(b)
  \/ Wake(b) \/ Reached(b) \/ RunScript(b) \/ Quiesce(b) \/ PowerButton(b) \/ AskToShutDown(b)
  \/ Convert(b) \/ Converted(b) \/ InstallFails(b) \/ Rename(b) \/ Drop(b) \/ Kill(b)

World(b) == PowersOff(b) \/ Dies(b) \/ PidTaken(b)

QemuNext == Tick \/ \E b \in QemuBuilds : Work(b) \/ World(b)

QemuSpec == QemuInit /\ [][QemuNext]_state

-----------------------------------------------------------------------------
(* Properties                                                              *)

\* What `run` finds under a dated name was made of a guest that its script went
\* through and that shut down, whole, whatever failed and wherever vitro was
\* killed (golden.rs:66-70, 135-139; build.rs:948-950).
ImagesWhole == \A s \in Seconds : image[s] # NoFile => image[s].disk = "whole"

\* Rebuilding cannot pull the disk out from under a VM already running on the old
\* image (golden.rs:173-177): what has a dated name keeps it, and is not written to.
ImagesStay == [][\A s \in Seconds : image[s] # NoFile => image'[s] = image[s]]_state

\* A build that reports success leaves its image and nothing else; one that fails
\* leaves neither an image nor a part of one nor a guest nobody told to end, unless its
\* PID could not be read (qemu.rs:421-424), and its directory only with --keep-failed
\* (build.rs:1010-1024, golden.rs:153-157).
BuildTidies ==
  \A b \in QemuBuilds :
    /\ step[b] = "done" => image[stamp[b]] # NoFile /\ Here(b) = NoFile
    /\ step[b] = "failed" => image[stamp[b]] = NoFile /\ (Here(b) = NoFile \/ b \in Keepers)
    /\ step[b] \in {"done", "failed"} => part[b] = NoFile /\ qemu[b] # "on"
=============================================================================
