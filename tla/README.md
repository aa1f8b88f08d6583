# vitro in TLA+

vitro starts and throws away virtual machines. Its state is a directory that
several `vitro` processes share, the host's process table, VMs that lume keeps,
images and keys on the host, and whatever is inside each guest. This project
models that state and the commands that change it, checks the models with TLC on
small instances, and proves the central safety properties with TLAPS for every
size.

## 1. The system

| Part | State it keeps | Operations | What makes it correct | Modules |
| --- | --- | --- | --- | --- |
| Record store and state lock (`state.rs`) | one directory per VM, `vm.json` in it, `vitro.lock` | list, load, save, remove, lock, resolve | a record that passes for live names the VM's own process; no directory is taken from the command that works in it; a word means one VM | `Store`, `VmRegistry`, `Naming` |
| `run` (`commands/run.rs`, `qemu.rs`, `image.rs`) | a guard that owns the directory and the process until the guest answers | reap, make, overlay, spawn, save, wait, tear down | no QEMU is left that nothing names; a failure leaves nothing behind | `VmLifecycle` |
| `destroy` (`commands/destroy.rs`) | the listing it works through | one, all, forced, graceful | signals only its VM; forgets no VM that runs; ends | `VmLifecycle`, `LumeRun` |
| `promote` (`commands/promote.rs`, `golden.rs`) | the loaded record, the image being written | shut down, convert, keep or remove | the disk stays until it is converted; signals only its VM | `VmLifecycle`, `LumeRun` |
| `ls --prune` (`main.rs`) | a listing | reap | takes nothing that is in use | `VmLifecycle`, `LumeRun` |
| Processes (`process.rs`, `signals.rs`) | none of its own | liveness, terminate, kill, wait | a start time tells a reused PID from the old process | `Store`, `VmLifecycle` |
| `run_lume`, `lume.rs` | VMs that lume keeps, a claimed directory | clone, run, find the process, save, stop, delete | vitro's records and lume's list agree | `LumeRun` |
| `build` (`commands/build.rs`) | a build directory, a staging VM, the golden image | install, provision, publish, restore | what is published is whole; a working image is never lost | `QemuBuild`, `LumeBuild`, `Build` |
| Detached jobs (`jobs.rs`, `commands/jobs.rs`) | `log`, `pid`, `exit` files in the guest | start, poll, attach, list | output is shown once and whole; a finished job is never called lost | `GuestJobs` |
| Downloads (`media.rs`) | `.part` file and cache | fetch, resume, verify | the cache holds only whole files | `MediaFetch`, `Build` |
| SSH (`ssh.rs`, `commands/wait.rs`) | none on disk | wait, restart, run | each wait ends, and says what it saw; a word arrives as it was given | `Readiness`, `GuestShell` |
| Screen and input (`qmp.rs`, `vnc.rs`, `pointer.rs`, `commands/gui.rs`) | buttons and keys held in the guest | press, release, drag, screenshot | nothing stays pressed; a picture is of one screen | `GuestInput` |
| `ssh_config` (`commands/sshconfig.rs`) | a generated file, a line in the user's own | write, refresh, include | it matches the running VMs; the user's file stays the user's | `LumeRun`, `HostSetup` |
| `exec`, `script`, `sync`, `test` | files sent to the guest | pack, send, run, report | what runs is what was sent; exit codes tell the truth | `GuestFiles`, `Archive`, `ProjectTest` |
| `setup`, `keygen` | key pair, configuration | generate, replace, ask | an image opens with the key there is | `HostSetup` |
| Configuration, tools, `doctor` | none | resolve, find, report | doctor is right about `run` and `build` | `Doctor` |
| ISO and FAT images, units, key names, `inspect`, `status` | none | encode, parse, report | bytes without steps: left out | - |

The parts meet in these places. *The lock*: `run`, `destroy` and `promote` take
it without waiting and fail when it is held; `ls --prune` and the guard of a
failing `run` do not take it; `run_lume` holds it twice, with minutes in between.
*The directory*: a directory without a readable record is debris to `reap_dead`
and work in progress to the `run` that made it; only the lock tells the two apart.
*The process table*: it is the host's, PIDs come back, and vitro tells processes
apart by PID and start time. *lume*: it knows VMs by name alone, and vitro's
record and lume's list are two truths. *Names*: a command resolves the word it was
given, and the code it calls resolves the answer again.

Hard to test, and so what the properties are for: two commands interleaved at
any file operation; a listing that has aged; a PID that has come back; a crash
between two steps that belong together; a process that does not die; a call that
fails after it did its work; a connection that breaks inside a command; two
readers of one text. `PROJECT.json` lists them under `hazards`, each at its line.

## 2. Modules

`Store.tla` - the state directory and the process table. `dirs`, `disks` and
`record` are the directories under `vms/`, the overlays in them and the readable
`vm.json` files; `table` maps each PID to the process behind it, with its start
time (`born`), whose VM it is, and whether its overlay is still where it opened
it; `births` is the clock start times are read from. `Running` is
`VmRecord::liveness`. The operators are the calls of `state.rs`.

`VmLifecycle.tla` - the commands. Each element of `Clients` is a vitro process
that runs at most one command at a time; `at` says where in it, and the
locations are the points of the code where another process can get in between.
`owned` is the process the guard of a `run` owns, or the one the record that
`destroy` or `promote` loaded names; `todo` is what is left of a listing;
`listed` are the records `destroy` read.

| Code | Actions |
| --- | --- |
| `run`, run.rs:55-161 | `ChooseName`, `RunLocks`, `ReapOne`, `MakeDir`, `CreateOverlay`, `Spawn`, `SpawnUnread`, `ReadStartTime`, `SaveRecord`, `Reachable`, `RunFails` |
| `VmGuard::drop`, run.rs:567-593 | `GuardDrop`, then as `stop_and_wait`, `RemoveStopped` |
| `stop_and_wait`, process.rs:196-212 | `Gone`, `Kill`, `GiveUp` |
| `destroy_one`, `destroy_all`, destroy.rs:45-127 | `DestroyOne`, `DestroyAll`, `DestroyDead`, `DestroyForced`, `DestroyGraceful`, `GracefulExit`, `GracefulFails`, `RemoveStopped`, `DestroyDone` |
| `promote`, promote.rs:35-100 | `PromotePrepares`, `PromoteLocks`, `GuestGone`, `Convert`, `PromoteFails`, `PromoteKeeps`, `PromoteReplaces` |
| `ls --prune`, main.rs:67-76 | `PruneLists`, `ReapOne`, `PruneDone` |
| the host | `Crash`, `Exit`, `Stranger`, `RemoveFails` |

`VmRegistry.tla` - what the directory promises of one name, without commands,
locks or PIDs: free, claimed, up, down, and the steps between them.

`GuestJobs.tla` - detached jobs. The other half of vitro's shared state is in the
guest: a directory per job with `log`, `pid` and `exit`, written by the job's own
shell while polls read it. A poll is four steps because it is four shell
commands (`looking`, `reading` or `asking`, `tailing`); what it found is in
`status` and `chunk` until attach has it.

| Code | Actions |
| --- | --- |
| `exec --detach`, jobs.rs:73-92, commands/jobs.rs:25-51 | `MakeDir`, `Fork`, `WritePid`, `Started`, `StartFails` |
| the job's shell, jobs.rs:78-81 | `Output`, `Ends`, `OpenExit`, `WriteExit` |
| a poll, jobs.rs:130-184 | `Connect`, `LookInside`, `ReadExit`, `KillZero`, `ReadLog`, `Cut` |
| `attach`, commands/jobs.rs:57-108 | `AttachBegins`, `Receive`, `ReceiveUnknown`, `Missed`, `Interrupted` |
| `jobs`, commands/jobs.rs:111-123 | `ListBegins`, `ReceiveList`, `ListFails` |
| the guest | `GoDown`, `ComeUp`, `Killed`, `PidTaken`, `PidFree` |

`LumeBuild.tla` - building a macOS image. lume keeps VMs by name and can clone and
delete them; the new image takes the golden one's place in up to five such
calls. `vm` is what lume keeps under the golden name, the backup's and the
staging VM's: an image is the build that made it, or nothing, or `Unfit`. `at[b]`
is the call build b is about to make, and each action is one call: it works, is
refused or not made, or fails having done all or none of its work (with `half` in
`Trouble`, half of it).

| Code | Actions |
| --- | --- |
| `build_lume`, build.rs:315-412 | `Begin`, `ClearStaging`, `Create`, `FailStops`, `FailKeeps`, `FailDeletes` |
| `finish_lume`, build.rs:448-513 | `StartStaging`, `Provision`, `ShutDown`, `Ask`, `DropPrevious`, `SaveGolden` |
| publishing, build.rs:515-519, 539-543 | `RemoveGolden`, `Publish`, `ForgetPrevious`, `DropStaging` |
| recovery, build.rs:521-536 | `RestoreDrops`, `RestoreClones`, `RestoreForgets` |
| `Deadline`, process.rs:16-84 | `late`, `Expired`, `Fails` |

`MediaFetch.tla` - downloads. The ranges of a file are claimed by several streams
from one counter and land in any order in `<name>.part`, which is then renamed.
Names and files are apart (`out` and `part` are names, `file` is what is in each
inode), since a fetch writes on into the inode it opened whatever happens to the
name. `Verified` are the fetches that were given a sha256.

| Code | Actions |
| --- | --- |
| `fetch_until`, media.rs:54-117 | `BeginFetch`, `Look`, `AskLength`, `CreatePartial`, `Join`, `Sync`, `Check`, `MoveIntoPlace`, `FetchFails` |
| `fetch_ranges`, media.rs:125-252 | `Claim`, `Land`, `Lose`, `Interrupted` |
| the server, the host | `Change`, `FetchKilled` |

The versions that the server may serve have lengths of their own (`Length`). A cached file
is used without a checksum when it has the length the server says (`AskLength`, media.rs:72);
one that has not is downloaded over, whoever checked it. A range past the end of what is
served now is not answered, and one of a longer version makes the file grow (`WriteAt`).

`Readiness.tla` - waiting for a guest. One command waits (`cmd`, `at`) while the guest
boots, goes down, lets the key in, shows a desktop or dies. Time is the clock of
the command (`spent`, with `used` for an earlier wait under the same ceiling), and
passes in rounds: a look, a probe and a pause, of at most `Slow` together. `other`
and `died` remember when the guest last did something else than refuse the key, and
when its process ended; the code has no such variables, the properties need them.

| Code | Actions |
| --- | --- |
| `wait_until_reachable_inner`, ssh.rs:397-472 | `Look`, `ProbeSucceeds`, `ProbeRefused`, `ProbeUnanswered` |
| `wait_until_ready_before`, lume.rs:356-376, then run.rs:258-261 | `Address`, `SecondWait` |
| `restart`, wait.rs:54-114 | `Mark`, `Request`, `Watch`, `Read` |
| `wait_for_desktop`, wait.rs:132-160 | `Desktop` |
| the guest | `GoesDown`, `ComesUp`, `KeyArrives`, `LogsIn`, `Dies` |

`run` of a QEMU guest waits as `wait` does, and is not a command of its own here.

`Remote.tla` - `Readiness` and `GuestJobs` together: what vitro does over ssh for
as long as it takes is a wait or the following of a job.

`LumeRun.tla` - macOS guests. `dir` are the directories under `vms/`, each with the
VM its record names, `vm` is what lume keeps under each name, `up` the VMs it
runs, and `file` the aliases in the generated ssh_config; a VM is the number of
the clone it was made as, which neither vitro nor lume has, and by which the
properties tell VMs of one name apart. `self[c]` is the command of a client, where
it is, the VM its guard owns (`has`) and what is left of its listing (`todo`).

| Code | Actions |
| --- | --- |
| `run_lume`, run.rs:168-261 | `ChooseName`, `Claim`, `ReapOne`, `Reaped`, `MakeDir`, `CloneGolden`, `StartVm`, `Find`, `SaveRecord`, `Reach`, `Drop` |
| `destroy`, destroy.rs:45-151 | `DestroyOne`, `DestroyAll`, `Turn`, `StopVm`, `DeleteVm`, `RemoveRecord`, `Turned` |
| `promote_lume`, promote.rs:107-155 | `PromotePrepares`, `PromoteLocks`, `Halt`, `ClearImage`, `CopyVm`, `PromoteKeeps`, `PromoteReplaces`, `PromoteFails` |
| prune and the refresh, main.rs:67-76, 235-243, sshconfig.rs:42-104, 161-176 | `Prune`, `SshConfig`, `Render`, `Write` |
| lume and the host | `GuestStops`, `Crash`; calls as `Stopped`, `StopFails`, `Deleted`, `DeleteFails`, `Cloned`, `CloneFails` |

`QemuBuild.tla` - building an image under QEMU. `stamp` is the second a build began
in, after which its directory (`dir`) and its image are named; `qemu` is what became
of its QEMU, `owned` says whose guard has it, `part` is the file being converted.
A disk is `fresh`, `used`, `ready` (all it should become), `whole` (the same, shut
down) or `broken`.

| Code | Actions |
| --- | --- |
| `build`, build.rs:197-307 | `BeginImage`, `Resolve`, `ResolveMedia`, `MakeDisk`, `WriteSeed`, `Boot`, `Wake`, `Reached`, `RunScript` |
| shutdown and install, golden.rs:48-168 | `Quiesce`, `PowerButton`, `AskToShutDown`, `Convert`, `Converted`, `InstallFails`, `Rename` |
| `BuildGuard::drop`, build.rs:1010-1025 | `Drop` |
| the guest, the host | `PowersOff`, `Dies`, `PidTaken`, `Kill`, `Tick` |

`Build.tla` - `vitro build`: it downloads the media (`MediaFetch`), and the kind of the
image decides which of `LumeBuild` and `QemuBuild` it is then. The three share no file; a
behaviour is of one of them, its `scene`.

`GuestInput.tla` - keys, buttons and pictures. `down` and `button` are the guest's;
`hand[h]` is a command with the events it has still to send. Over QMP each event is a
connection of its own, whose failure is its own; over VNC a failure ends the
session, and its later events fail with it. `Begin`, `Press`, `Done`, `Broken`,
`Acted`, `Release` are a command with the pointer or the keyboard (qmp.rs:148-290,
vnc.rs:216-307, pointer.rs:66-80); `Connect`, `Ask`, `Rectangle`, `Updated`, `Shown` and
`Resize` a screenshot (vnc.rs:137-214, 311-418, gui.rs:26-130). A session asks for a
picture of the size it was last told; the server answers rectangle by rectangle, each
either a part of the picture, drawn at the size the screen has at that moment, or the word
of a new size, which begins the picture anew. The screen may change between any two.

`GuestFiles.tla` - what `exec`, `run` and `test` put into a guest before a command
runs there: an archive that always has the same name, and a script under one of its own.
`Pack`, `Open`, `Filled`, `SendFails`, `Unpack`, `UnpackFails` (sync.rs:161-227),
`CopyScript`, `RunIt`, `PreludeFails`, `Exits`, `CutOff` (script.rs:56-165, exec.rs:23-81).
`PreludeFails` is a `--cwd` that leads nowhere: the line is `cd '<cwd>' && sh -c ...`
(ssh.rs:249-251, 267-271), so neither the script nor the `rm` behind it is run.

`Archive.tla` - the walk over a project's tree that decides what is sent (sync.rs:18-155):
`ReadDir` is one directory, with `stays_inside` and `unfollowable_link`; links lead anywhere,
also round in a circle and out of it. What an ignore file names is a path: a file ignored by one
is sent when a link leads to it by another. The tree is any that `Holder`, the directory each
entry is in, makes of the constants; what is above an entry (`Above`) is a closure and not a
walk upwards.

`Naming.tla` - which VM a word means (state.rs:203-346). `Fitting` is `find`,
`Resolves`, `ResolvesOrSole` and `SplitsOff` its three callers. A command picks
(`Pick`, main.rs:175-201) and acts later (`Act`, exec.rs:116-141), where the name it
picked is resolved once more; `Removal` of `run --rm` does the same (`Remove`,
run.rs:300-325), while others `Start`, `Destroy`, `DestroyAll` and reap.

`GuestShell.tla` - the line ssh carries for a command and what the guest's shell
makes of it. What vitro writes is `ComposePosix`, `ComposeRaw`, `LaunchCommand`
(ssh.rs:227-298, gui.rs:390-438); the readers, `ShellReads` and `Statements`, are
external and written from what a POSIX shell and PowerShell do with quotes, blanks,
`$`, `=`, `&&` and `;`. `Reads` is what one symbol does to a reading, `After` what a text
does.

`ProjectTest.tla` - `vitro test` (test.rs:12-141) up to the code the process exits
with (main.rs:16-37) and the two signals that can come (signals.rs:15-69).

`HostSetup.tla` - the files made or added to once: the two halves of the key
(keygen.rs:26-100), the configuration (setup.rs:93-143) and the line in the user's
`~/.ssh/config` (setup.rs:145-174, sshconfig.rs:111-156), by sessions of `keygen`,
`setup` and `build` in the steps between which another session or the user acts. `Existing`
is what `unwrap_or_default` makes of the user's file. Of the configuration, and of the
user's file where nothing is `odd`, no property is stated: what can go wrong with them does.

`Doctor.tla` - what doctor says of an image (doctor.rs:94-523) beside what `run` and
`build` then find (run.rs:55-84, build.rs:197-313, 546-651), for every section of the
configuration that resolves (config.rs:262-501) and none at all (`Empty`), and every host that
lacks up to `MaxLacks` of `Things`. `Worst` is the worst level of all checks: what is `Missed`
fails, as do an accelerator QEMU has not, firmware and media; a QEMU that would not say, an
image still to be built, a configuration without images and an ssh_config that
`~/.ssh/config` does not include are warnings.

`Commands.tla` - the parts that share no state with one another, side by side: a
behaviour is of one of them, its `scene`, and the variables of the others are off. Its
constants are all of theirs: names, trees, symbols and words are any that meet
`PartsAssumption`.

`MCVmLifecycle.tla` is `VmLifecycle` for TLC, with the refinement mapping to
`VmRegistry`: a name is free when it has no directory, claimed when its directory
has no record, up or down as its recorded process runs or not. `MCLumeRun.tla` adds
the symmetry of clients and of names to `LumeRun`, `MCMediaFetch.tla` gives the versions
on the server their lengths, also for `MCBuild.tla`, and `MCNaming.tla` says which names
begin with which words. `MCCommands.tla` gives `Commands` its names, tree and words.

`VmLifecycleProofs`, `OrderlyProofs`, `LumeRunProofs`, `BuildProofs` (of `LumeBuild`,
`QemuBuild` and `Build`), `MediaFetchProofs`, `RemoteProofs` (of `GuestJobs`, `Readiness`
and `Remote`), `CommandsProofs` and `SendingProofs` (both of `Commands` and the modules in
it; the latter of `Archive` and `GuestShell`) hold the theorems (section 5).

## 3. Abstractions

* A directory listing (`Store::list`) is one step. Removing a directory is one
  step when it succeeds, and leaves any part of it when it fails.
* Start times are unique. The host's have a resolution of a second; two
  processes with one PID in one second are not modelled.
* `unique_name` draws 24 random bits and is taken never to hit a name that a
  command still works with (`InHand`). Names typed with `--name` have no such
  guarantee: they are the constant `Given`.
* Between QEMU's start and the reading of its start time no other process gets
  its PID (`Stranger`): a PID does not come round within microseconds, and
  process.rs:193-195 relies on it.
* The last probe of `destroy` and its SIGTERM are one step, as are a poll that
  finds the process alive and SIGKILL.
* Ports, images, the guest's operating system and everything printed are left
  out. A wait ends when what it waits for happens, and may end by its timeout or
  by Ctrl-C at any time before, unless the code rules it out.
* A guest that goes down keeps what was written to its files; a power cut that
  loses the end of a log is not modelled. Output is counted in pieces.
* A command that leaves a process writing in the background (`linger` in `Trouble`)
  gets its exit code before its log is whole, and `ExitMeansWhole` fails; what
  jobs.rs:78-80 promises is about the output of the command itself, and the run
  checks that.
* ssh returns within a round. It has a ConnectTimeout and nothing beyond: a guest
  that freezes in the middle of a session can hold it, and then no timeout of the
  waits is looked at. `OnTime` and `WaitEnds` say nothing of that.
* `vitro jobs` asks about one job: its lines are independent of each other.
* lume's calls are single steps. One that fails has done all of its work or none, since a
  deadline can pass as it ends (process.rs:65); the clone of a `run` that fails leaves a VM,
  whole or half, only with `half` in `Trouble`. lume keeps what it keeps: it loses no VM by
  itself.
* A screen is its size; keys are names; a picture has `Parts`, each the size it was
  drawn at. Which keysym a name has and which pixel a coordinate is are data; messages of
  the server that are skipped (colour maps, bell, clipboard) change nothing. A server
  answers a request for the whole screen with all of it: with `partial` in `Mishaps` it
  may send less, and `PictureWhole` fails, since `capture_once` takes the first update for
  the picture and leaves the rest of it black.
* An archive is the number of the project's state it was made of. Its format, and
  what `tar` does with modes and owners, are left out.
* A text is a sequence of symbols, of which a shell gives a meaning to some: `'`, `\`,
  blank, `$`, `&&`, `;` and `=`; a symbol may also be a piece of a word (`nohup`), and `N`
  is any letter. `Safe` is what `quote` leaves bare. Quotes beyond ASCII, which PowerShell
  also takes for quotes, are not among them, and the shell is POSIX's: zsh, the shell of
  macOS, makes a path of a word that begins with a bare `=`, which `quote` leaves alone.
* The walk looks at a file once; that `tar` reads it a second time, when it may have changed
  or gone, is left out.
* `vitro launch` is modelled for a POSIX guest, with the `DISPLAY` it sets and the output it
  throws away; Windows' scheduled task is not.
* doctor runs each tool it finds: only QEMU may be found and not start. Any other is taken
  to.
* A key is a number; whether two halves fit is whether the numbers are equal.

## 4. Runs

| Run | Question | Result |
| --- | --- | --- |
| `hostile` | With every fault, every command and typed names: are records true, and does `destroy` touch only its own? | yes: `TypeOK`, `RecordsAreTrue`, `DestroyedMeansStopped`, `DestroySignalsOnlyItsVm` |
| `orderly` | With generated names, no prune, no fault around vitro, but guests that die, timeouts and reused PIDs: is anything stranded or lost, and does every command end? | no and yes: `NoneStranded`, `DiskKept`, `StartingDirStays`, `ImplementsRegistry`, `CommandsFinish` |
| `remote` | While a guest boots, restarts, refuses the key and dies, does each wait end in time and say what is the case? With cut connections, a restart, kills and reused PIDs, does attach show a job's output whole, once, and end? | yes: `RestartMeansRestarted`, `OnTime`, `RefusedThroughout`, `DeathIsNoticed`, `WaitEnds`; `ExitMeansWhole`, `ShownOnce`, `LostMeansOver`, `AttachEnds` |
| `publish` | With calls that fail, deadlines, Ctrl-C and kills: is what a build publishes whole, are images kept, is a working macOS image ever lost, and what is left over? With failing streams and a server that changes, is a broken download ever cached, or a wrong one used after a checksum? | whole, kept, never, and only what was asked for: `ImagesWhole`, `ImagesStay`, `WorkingKept`, `GoldenCopied`, `BuildTidies`; no, and each download ends: `CacheWhole`, `DoneMeansWanted`, `FetchEnds` |
| `lume` | With failing calls and kills: do vitro's records and lume's list agree, is work lost, and does the ssh_config file keep up? | they do, none, and it does: `EveryVmNamed`, `RecordNamesItsVm`, `WorkKept`, `AliasStays` |
| `commands` | Each of the independent parts in its scene | `HandsComeUp`, `PictureWhole`, `RunsWhatWasSent`, `ActsOnItsPick`, `ArrivesAsSent`, `ExitTellsTruth`, `SendsTheProject`, `ImageOpens`, `DoctorIsRight` |
| `prune_unlocked` | Does a directory stay until its record is written, with `ls --prune` about? | no: prune takes no lock |
| `promote_unlocked` | Does the overlay stay while promote converts it? | no: the guard of a `run` still waiting for that guest deletes it, without the lock |
| `lost_late` | Is a job called lost only if it left no exit code? | no: the exit file is looked for before `kill -0`, and not again |
| `shared_part` | Does an interrupted fetch leave nothing that looks like an image, with two at once? | it does leave one: they share the `.part` file |
| `own_config` | Is nothing the user has in `~/.ssh/config` rewritten? | it is: what is not UTF-8 is read as if there were no file, and written over with one line |
| `rm_another` | Does `run --rm` destroy the VM it started? | not always: the name is resolved again, and may by then begin another |

### Bounds

The runs of `VmLifecycle` have two clients, two names and two PIDs: each interference
in the code is between two commands; one name more than a command works on lets it
meet another VM; two PIDs let one be reused while the other lives. `MaxBirths`
bounds the processes ever started, and is the only bound: three for the passing
runs, so that a PID has two owners while a second VM runs; two are enough for
the counterexamples. Symmetry is used where no liveness property is checked. The
restrictions of `orderly` are needed, and the code or the findings say so: a crash
between QEMU's start and its record strands it, an unreadable pidfile strands it
(qemu.rs:421-424), two `run --name X` share a directory, prune takes a directory in
use.

`remote`: a timeout of six ticks, rounds of one or two and a grace of three give a
wait room for a row of refusals, an interruption and another row; two boots after
the first are enough for a restart that fails half way and is followed by
another. One job and one watcher: jobs share nothing but the guest that carries
them, and watchers only read. Two pieces of output let a poll fall between them; one
restart is enough for a poll, a start or a job to be cut by it; `Patience` (120 in
the code) is 2, so that a success can come between two misses.

`publish`: three builds of a macOS image, so that one may be killed, the next fail
on what it left, and a third succeed; with and without a golden image at first.
Two of a QEMU image, one with a provision script, one an unattended Windows with
`--keep-failed`, over three seconds: the second build meets the directory and the
image that the first left. Builds run one at a time: vitro does not make sure of that,
and no document promises it. With `together` in `Trouble` a build publishes another's
unprovisioned VM and `WorkingKept` fails; with `twins` in `Mishaps` two builds
of one second share directory and image and `BuildTidies` fails. Nor does it include
a QEMU that ends by itself (`die`): the disk of a guest whose QEMU was killed under it
passes for one that shut down (golden.rs:66-73), and `ImagesWhole` fails.

In `publish` as well, the downloads: two fetches and two files, the one cached and the one
written, a third only when two write at once (`shared_part`). Two ranges and two streams let
one be in flight while the other is written, lost or not yet claimed. Three versions: the
wanted one, one of the same length with other bytes, and a shorter one; two are enough for a
mixture, and the third for a cached file that has not the length the server says. One of the
fetches has a checksum and one has not, in either order.

`lume`: two clients and two names, and two clones ever made besides the golden image.
`fail` and `crash` are in; what breaks the properties, each found by TLC with that
one value added to `Trouble`, is not:

| `Trouble` | Breaks | Since |
| --- | --- | --- |
| `half` | `EveryVmNamed` | a clone that failed half way is a VM nobody owns (run.rs:206-209) |
| `typed` | `EveryVmNamed`, `RecordNamesItsVm`, `WorkKept` | a `--name` is looked for before the lock is taken (run.rs:186-196) |
| `early` | `WorkKept` | the guard of a `run` that still waits deletes the VM being promoted |
| `prune` | `EveryVmNamed`, `WorkKept` | prune deletes a claimed directory without the lock |
| `overlap` | `AliasStays` | a slower refresh writes an older listing (sshconfig.rs:165) |

`commands`: the bound of each scene is what its hazard takes. Two hands and one key: one
types while the other drags. Two sizes and two changes of the screen, so that one is there
and back, two parts of a picture and two attempts at it. Two hosts and three archives. Two
sessions, three VMs, three names of two images. A project with a directory, a `.git`, three
files and two links that lead anywhere, and ignore files that name a file by its own path,
the same file by the path through a link, and a link. Words of two symbols, one of each kind
that a shell treats in a way of its own, and a longer name; one word alone or two. Codes 0, 2
and 256, of which the last has a low byte of 0. Two keys ever made, with sessions that are
killed anywhere (`torn`) and a user's file that cannot be read (`odd`). Up to two things
missing from a host. Left out, each shown by TLC to break the property: `overlap` in
`FileTrouble` (two syncs into one guest share an archive's name, sync.rs:184:
`RunsWhatWasSent`); `partial` in `Mishaps` (`PictureWhole`); `together` in `SetupTrouble`
(two key files written at once: `ImageOpens`).

`own_config` takes one session of setup; `torn` and `together` in `SetupTrouble` lose the
user's lines as well, when the file is half written or two sessions write it, and `editing`
a configuration that the user writes while setup asks for one.

The runs that state CHECK_DEADLOCK FALSE are those where a command may be the last
one, or where a bound on what is ever made ends the behaviour.

### Fairness

`FairSpec` of `VmLifecycle` asks that a command that has begun goes on (weak fairness of
each client's `Step`), except while its guest has its ssh (`Held`): promote asks the guest to
shut down over an ssh with neither ConnectTimeout nor deadline (golden.rs:59-67), while it
has the lock, and the probes of a waiting `run` have a ConnectTimeout alone. A frozen guest
keeps either for as long as its QEMU runs, and `CommandsFinish` says so: a command is over in
the end, or `Held`. Every other wait has a deadline, and its running out is one of the steps;
no user needs to issue anything, no guest needs to obey, and no process needs to exit by
itself. `ImplementsRegistry` has no fairness: `VmRegistry` promises safety.

`AttachEnds` is under the fairness of the watcher alone: ssh returns, because it answers or
because ConnectTimeout and the broken connection end it, which is an assumption. The job need
not end, nor the guest come back. `WaitEnds` is under weak fairness of the command alone: the
guest need not do anything. Both hold only as far as ssh returns: a guest that freezes inside a
session holds it (ssh.rs:417 sets a ConnectTimeout and nothing else; restart's request,
wait.rs:73-77, not even that). `FetchEnds` (`FairBuildSpec`) is under the fairness of what a
fetch does by itself and of its ranges, each of which arrives or fails: `build_lume` passes a
deadline that sees to it. The QEMU build passes none (build.rs:564); there a server may stall a
fetch for ever.

### Mutants

Every property has a mutant, an operator with a plausible mistake in place of a
definition: PIDs compared without start times, a guard that removes before it stops, a
lock that covers only the claim of the name, a destroy that does not look again, a word
quoted only where it has a space, a release that is left out when the action failed,
an image that is not dated, an exit code cut to its low byte.

### Where code and documents part

The six violation runs are the findings in `PROJECT.json`. Seen besides, each stated
here only:

* `stop_and_wait` sends its first SIGTERM before it compares start times
  (process.rs:202), though process.rs:193 and docs/internals.md:92-94 speak of the
  same process. `destroy` probes first; after promote's conversion the PID can be
  somebody else's. `PromoteSignalsOnlyItsVm` in `VmLifecycle` does not hold.
* The wait of a QEMU build asks one copy of the process table, made before it
  (build.rs:934); ssh.rs:386-388 and run.rs:504-506 say that this is to be
  avoided. `BuildNoticesDeath` in `Readiness` does not hold.
* docs/internals.md: "Keys held with `--with` come up again even when the pointer
  action fails". Over VNC a failed action is a broken session, and the release goes
  the same way; `HandsComeUp` therefore excepts a call that lets go and fails itself.
  A drag that fails half way leaves its button down.
* docs/spec/running-a-command.md promises a command the "same words". A bare first word
  `NAME=value` is an assignment to the guest's shell; `ArrivesAsSent` excepts it.
* A `vitro test` that Ctrl-C ends after some images that passed exits with 0, though
  docs/spec/project-file.md gives 0 to a test all of whose images passed.
* script.rs:5-6 says that a script is removed whatever its exit code. One whose `--cwd` leads
  nowhere is not run and not removed; `RunsWhatWasSent` excepts it.
* doctor.rs:3 says that every check is of something that makes `run` or `build` fail. The
  missing Include makes nothing fail. And doctor.rs:499 calls what it warns of not "broken
  enough to stop `run` or `build`": with an image still to be built, a golden image to download
  or a QEMU that does not start, `run` fails where doctor exits with 0, and so does `build`
  where the public half of the key, the virtio drivers or the choice among several ISOs is what
  is wrong; those doctor does not look for. `DoctorIsRight` says what its levels do mean.
* doctor, of a lume image, does not look for the VM to clone, and does look for scp, the
  firmware and the platform. An image whose `golden` names a file is not answered by
  `vitro build`, which doctor recommends: build writes a dated image.
* `promote --as rust-1.80` writes a file without `.qcow2`, which `run --golden
  rust-1.80` does not find. The choice of the name is not modelled.
* A keygen that is killed between the two halves leaves the private one: keygen then
  says the key exists, doctor is content, and build fails.
* media.rs:72: a fetch without a checksum downloads over a cached file of another length, also
  one that was checked when it came; `DoneMeansWanted` excepts exactly that.
* `exit` is created and then written to (jobs.rs:81): a poll between the two reads no code,
  and attach says so ("unknown").

## 5. Proofs

| Module | Theorems (statement) | Assumed |
| --- | --- | --- |
| `VmLifecycleProofs` | `TypeCorrect` (`TypeOK`), `Invariant`, `TrueRecords` (`RecordsAreTrue`), `DestroyedStopped` (`DestroyedMeansStopped`), `DestroySignals` (`DestroySignalsOnlyItsVm`) | `StoreAssumption`, `CommandAssumption`; any commands, names and faults |
| `OrderlyProofs` | `OrderlyInvariant`, `NobodyStranded` (`NoneStranded`), `DisksKept` (`DiskKept`), `StartingDirsStay` (`StartingDirStays`), `RegistryIsKept` (`ImplementsRegistry`) | `Orderly`: run, destroy and promote, generated names, no fault |
| `LumeRunProofs` | `RunsKeepStep`, `NoVmIsLost` (`EveryVmNamed`), `RecordsNameTheirVms` (`RecordNamesItsVm`), `AliasesStay` (`AliasStays`), `PromoteKeepsTheWork` (`WorkKept`) | `Steady`: none of `half`, `typed`, `early`, `prune`, `overlap` in `Trouble`; vitro may be killed anywhere, and a call may fail, or take time and be overtaken |
| `RemoteProofs` | `OutputIsWhole` (`ExitMeansWhole`), `OutputIsShownOnce` (`ShownOnce`), `LostIsOver` (`LostMeansOver`) | `JobsAssumption`; `OutputIsWhole` also that no child writes on (`linger`) |
| | `WaitsAreOnTime` (`OnTime`), `RestartIsTrue` (`RestartMeansRestarted`), `RefusalIsTrue` (`RefusedThroughout`), `DeathIsReported` (`DeathIsNoticed`) | `WaitAssumption` |
| | `RemoteIsBoth` | the same two |
| `MediaFetchProofs` | `CacheIsWhole` (`CacheWhole`), `DoneIsWanted` (`DoneMeansWanted`) | `Singly`: fetches run one at a time |
| `BuildProofs` | `BuildInvariant`, `ImageKept` (`WorkingKept`), `GoldenHasCopy` (`GoldenCopied`) | `Orderly` of `LumeBuild`: builds one at a time, calls that do all or nothing |
| | `QemuBuildInvariant`, `ImagesAreWhole` (`ImagesWhole`), `BuildsTidy` (`BuildTidies`), `ImagesAreKept` (`ImagesStay`) | `Calm`: no QEMU dies by itself, no two builds in one second |
| | `BuildIsEither` | the constants' assumptions |
| `CommandsProofs` | `WhatGoesDownComesUp` (`HandsComeUp`), `PicturesAreWhole` (`PictureWhole`), `CommandsActOnTheirPick` (`ActsOnItsPick`), `TestExitsTruly` (`ExitTellsTruth`), `DoctorTellsRight` (`DoctorIsRight`) | the constants' assumptions; any `Mishaps` but, for the picture, `partial` |
| | `CommandsRunWhatWasSent` (`RunsWhatWasSent`) | no `overlap` in `FileTrouble` |
| | `ImagesOpen` (`ImageOpens`) | no `together` in `SetupTrouble` |
| `SendingProofs` | `WalkStands`, `SyncSendsTheProject` (`SendsTheProject`), `LinesStand`, `LinesArriveAsSent` (`ArrivesAsSent`) | the constants' assumptions; any tree, links, symbols and words |

Each holds for any number of clients, names, PIDs, jobs, ranges, builds and so on,
and any bound. Safety properties are seldom inductive as they stand; what follows is
why, and what the invariant adds. Each invariant was checked by TLC before it was
proved.

*`VmLifecycleProofs`.* `RecordsAreTrue` is not inductive. A record is true because what was
saved was true, so the invariant has to speak of what each client holds: `IInv` says that
whatever a client owns or has listed, and whatever a record says, is known of its VM (`Knows`):
it is not from the future, and if its process still runs it is that VM's. `Knows` survives every
step because a PID is only ever given to a younger process (`Persist`). Two places need more. A
QEMU just started is known by PID alone, which stays true only while no one else can start one:
`SpawnInv`, which rests on the lock, `LockInv`. And a destroy acts on the listing it made: no
record is written meanwhile, again because of the lock (`ListedInv`).

The proof has a lemma per group of actions for types (`Type...`), for what the
step does to processes, records and other clients (`Moves...`), and for the
client that takes it (`Own...`); the other clients and the store follow from
`OthersKeep` and `StoreKeeps` without looking at the actions again.

*`OrderlyProofs`.* `NoneStranded` speaks of QEMUs, the invariant `OInv` of whoever is
to look after them. Until its record is saved, a run has its name for itself: no other
command works with it or has it in its listing (`EarlyInv`), because names are not
typed and the lock keeps listings out. Afterwards the record is of the process its guard
owns, or gone (`LateInv`). So every process of a VM is named by its record or owned by
the run that started it and still holds the lock (`Tracked`), and whoever removes a
directory does so when none is left: `DeadHasNone` for those who reap under the lock,
`GuestIsOwned` for a guard, whose own process has ended. The three theorems follow from
`OInv` without another induction.

That the commands implement `VmRegistry` is a fact about steps:
each changes what the registry says of at most one name, in a way that `VmRegistry`
allows (`Moves`), or of none (`Holds`). `OInv` gives the one hard case, that a
directory is removed only when nothing of its VM runs (`RemoveMoves`); a process that
starts is in no record yet (`StartHolds`), since start times are not reused.

*`LumeRunProofs`.* None of the four properties is inductive: each speaks of a VM that is
there, `RInv` of who will answer for it when it is not. No two runs have a name in common,
and nobody else works with the name of a run or a promote (`Apart`): names are generated,
and claimed and looked for under the lock. So what a name has no record of yet is its run's
alone, and lume's VM of that name is its guard's or gone (`Guards`). A listing is made under
the lock or, by those who reap, of what is dead, and stays true of what is left of it
(`TodoTrue`). Hence whoever removes a directory has deleted its VM, has said that lume would
not, or finds no record in it (`Deletes`), which is what `EveryVmNamed` lacked. For
`AliasStays` the invariant follows the listing a refresh is about to write: it has every VM
that runs but those whose run has its own refresh ahead of it (`Sees`), which is also why
`overlap` must be left out. `WorkKept` is a step property; what makes it hold is `Copies`:
once the golden image is cleared, the promoted VM stays until its copy has its place.
The proof says what any one step may do to directories, VMs and records (`Effect`,
`Accounts`, `Leaves`), has a lemma per action for that, and gets the other clients'
invariants from it without looking at the actions again.

*`RemoteProofs`, the jobs.* The job's side only goes forward: logs grow, an exit code stays,
a command that is over stays over (`Forward`). That is half of the invariant
(`JobOrder`: the shell writes the exit code last). A watcher's view of something that only
goes forward stays true until it is told (`WatchSees`, `WatchPrints`, `WatchTold`),
whatever the guest does in between; what is shown is `UpTo(offset)`, the log's beginning.

*`RemoteProofs`, the waits.* For any timeout, length of a round, grace and number
of boots, waits are on time (`WaitsAreOnTime`: `OnTime`), a restart is one
(`RestartIsTrue`: `RestartMeansRestarted`), and a refusal and a death are reported
as what they are (`RefusalIsTrue`: `RefusedThroughout`, `DeathIsReported`:
`DeathIsNoticed`), under `WaitAssumption`: the numbers are positive. None of them is
inductive, since they speak of waits that are over. `WaitInv` says what each place
in a wait implies of its clock (`TimeKept`), of the row of refusals (`RefusalKept`),
of the last look at the process (`DeathKept`) and of the marker (`RestartKept`). Steps
that take no time and rounds have lemmas of their own; what a round may do to the
clock is `RoundIsKnown`, cited by each.

Both are of the modules' own specifications. `RemoteIsBoth` carries them to what the run
checks: a behaviour of `Remote` is one of a wait and one of the following of a job.
`BuildIsEither` does the same for `Build`, of the two builds and the download, whose theorems
follow.

*`BuildProofs`, under QEMU.* Builds begin in different seconds and so have directories and
images of their own (`Apart`): a step of one leaves what another's invariant
speaks of (`OthersAreLeft`). For the build itself, `Guarded` follows its QEMU and who
is to end it, `Sound` its disk, which is whole from the moment its QEMU is known to
have gone, `Tidy` what is left over; `Published` is what the images then are.

*`BuildProofs`, under lume,* proves, for any set of builds, that no working image is lost
(`ImageKept`: `WorkingKept`) and that a golden image goes only while there is a copy
(`GoldenHasCopy`: `GoldenCopied`), if builds run one at a time and a call that fails does all of
its work or none (`Orderly`). The second condition matters: deadlines kill lume with SIGKILL,
and if a killed clone leaves half a VM (`half` in `Trouble`) `WorkingKept` fails, since a first
build does not delete it and the next one takes it for the golden image. The invariant,
`BuildInv`, says for each place in the build which of the three names holds what (`Backed`):
between the deletion of the golden image and its successor's arrival, the backup is there. Only
the build at work can break it (`OneMoves`), each call changes one name (`CallKeeps`), and so
each action has a lemma of its own that looks at that name alone.

*`MediaFetchProofs`* proves, for any numbers of fetches, ranges, streams and
versions, that the cache has only whole files (`CacheIsWhole`: `CacheWhole`) and
that a checked fetch leaves what it asked for (`DoneIsWanted`: `DoneMeansWanted`),
if fetches run one at a time (`Singly`); `shared_part` shows that they must. The
invariant, `FetchInv`, says what becomes of each claimed range: it is written, or
in flight, or a failure is noted. `Join` waits for none to be in flight, so no
failure means no hole (`JoinKeeps`), also where the file has grown or what is served has come
to be shorter. `StreamsKeep` has the other half: the file written is never the cached one. A
fetch without a checksum gets as far as writing only where nothing of the length it was told
is cached, so what it takes the place of had another length (`Replaces`). That it does is
what the code means by `reusable`, and no theorem says otherwise.

*`CommandsProofs`* has an inductive invariant for each part of `Commands`, under its `scene`.

* Input (`InputInv`): what a command has still to do is `Balanced`, each press followed by its
  release with no press between, and stays so as it is worked off (`LetsGoOn`). So a
  step leaves down only what the command still holds or what a refused call would have
  let go of (`Accounted`). That holds of any sequence of actions, not only of clicks and drags.
  Of a picture being read (`Steady`): until the server has told of another size, all of it is
  of the size that was asked for, and whether it has is remembered, so that a screen that
  changes and changes back is not taken for one that stayed.
* What is sent (`SentInv`): at most one command is between its archive and its command
  (`InSync`), and from each of those places the archive and the tree are known to be its own.
  Without `overlap` left out that is false, and `RunsWhatWasSent` with it.
* Names (`NamesInv`): a name, once used, means the VM it was picked for or none
  (`NamingOK`), because a generated name is not used twice; it resolves to nothing but
  itself (`ResolvesItself`), because none begins another or is an image's (`NamesApart`,
  an assumption on the names: those of `unique_name` meet it unless an image is itself named
  like a VM).
* The key (`SetupInv`): one session at a time makes one, and a private key about to be
  written over is one the user gave up (`KeyFree`).
* test (`TestsInv`): results are of the images so far. The exit code is the first failure's,
  which there is because the numbers are well-founded (`FirstIsThere`).
* doctor (`DoctorInv`): what it said, and what became of `run`, is what the host as it is gives.
  The rest is the case analysis that `doctor.rs` and `run.rs` make separately: where it says ok a
  run starts (`OkStarts`), where it says FAIL a run fails, but for what lume has no use for
  (`FailFails`), and where it warns of anything but the Include a run fails as well
  (`WarnFails`). The proof does without the build that `DoctorIsRight` allows to fail instead:
  after a FAIL it is the run. That a warning goes away with a build needs of the invariant that
  a build which is done has found its QEMU start (`BuiltWithAll`); what is left to warn of is a
  golden file that the section names.

The proof of the last found the model wrong in form: `CASE`s of `Doctor` and of `GuestShell`
had guards that overlap, where TLA+ leaves the value open and TLC takes the first. They say
now which one it is, as the code's `if`s do.

*`SendingProofs`, the walk.* For any tree of directories, any files and links in it,
wherever they lead, and anything ignored. The one assumption on the tree is that whatever
entries one takes, one of them is in none of the others: so the project's directory is above
every entry (`RootAbove`), and whatever else is above one has something in it that is above it
as well (`OneBelow`). `SendsTheProject` speaks of a walk that is over, `WalkInv` of one that
goes on: of each wanted entry, one with nothing ignored and no `.git` above it, either its own
path was met, or a directory above it is still to be read by its own path (`Ahead`). To read
that directory is to meet the entry or the next directory down (`AheadStep`), since neither
is left out: links are all that is. And no path that is kept leads into `.git`, because
`stays_inside` asks that of a link, and a step into a directory adds only what is not
ignored (`KeptLeads`). When nothing is left to read, nothing is ahead.

*`SendingProofs`, the line.* What the shell makes of a text is computed symbol by symbol, by a
recursive function, and so are the text's quoting and joining. The induction it takes is
not the library's, which needs an operator for a parameter: `Counting` is induction with a set
of numbers in place of it, from the well-foundedness of `<`, and `Growing` says that a set of
texts that has the empty one, and with each text all that are one symbol longer, has all of
them. `AfterBoth` follows: to read one text and another is to read the one and go
on from there. Then what is read of a quoted word is the word, whatever it has in it
(`QuotesKeep`, `SafeRead`), of joined words the words, one at a time (`WordsArrive`), of
`cd`, the variable and `nohup` what they are, and of a line inside a line the line
(`LaunchArrives`); PowerShell doubles quotes, and is a proof of its own
(`RawArrives`). The one word that does not arrive is the bare `NAME=value` in front,
which the proof finds as the hypothesis it cannot do without.
The invariant itself, `ShellInv`, is only that the line is `LineFor` what was asked and that
what ran is what the shell read: all of the work is in the lemmas about the operators.

Only model-checked: `CommandsFinish`, `AttachEnds`, `FetchEnds` and `WaitEnds`, which are
liveness under fairness and out of the prover's reach. Every safety property that a passing
run checks is stated by a theorem.

## 6. Not modelled

* The bytes: images, seeds, answer files, ISO and FAT, the RFB and QMP wire
  formats, the JSON of a record. They are data without steps.
* What is printed (`ls`, `status`, `inspect`), units, key names and keysyms, the
  arguments QEMU is given, and the parser of the command line.
* The operands of `cp` and of `forward`, which are parsed once and passed on to scp
  and ssh, and the choice of promote's destination.
* Which of several images is the newest: golden.rs:178 goes by the stamp in the
  name, so that a name that only looks dated may win.
* Windows guests' job commands. They run in the order of the Unix ones.
* A job that leaves a child writing in the background gets its exit code before
  its log is whole (jobs.rs:78): `linger` in `Trouble`, with which `ExitMeansWhole` fails.
* `BuildGuard::drop` signals a PID without its start time (build.rs:1012): the model
  has the PID taken over (`reuse`), and no property says that the signal is right.
* setup writes an empty ssh_config file where there is one already: aliases of
  running VMs are gone until the next refresh.

## 7. What could come next

`VmLifecycle` with `ls --prune` and typed names, for what is left of `NoneStranded` with
them. Lume's list with VMs that the user makes and deletes by hand, which no document of
vitro's speaks of.
