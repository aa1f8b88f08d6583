----------------------------- MODULE GuestFiles -----------------------------
(***************************************************************************)
(* What exec, run and test put into a guest before a command runs there:   *)
(* the project as one tar archive, always of the same name (sync.rs), and a *)
(* script under a name of its own (script.rs), each sent by scp and then    *)
(* used over ssh, in steps that a broken connection can part.               *)
(***************************************************************************)
EXTENDS Naturals

CONSTANTS
  Hosts,       \* commands, in host sessions
  MaxPacks,    \* bound on the archives ever made
  Absent,      \* no file
  FileTrouble  \* a subset of AllFileTrouble

\* cut: a connection breaks, or scp or tar fails; overlap: a sync begins before
\* another one's command has begun
AllFileTrouble == {"cut", "overlap"}

FilesAssumption == MaxPacks \in Nat /\ FileTrouble \subseteq AllFileTrouble

VARIABLES
  packs,     \* how many archives there were, each a state of the project
  archive,   \* .vitro-sync.tar in the guest: whose, and whether it is "whole"
  tree,      \* the archive the project's directory was unpacked from; 0 none or a torn one
  script,    \* each command's script in the guest
  host       \* each command

filesVars == <<packs, archive, tree, script, host>>

Resting == [at |-> "idle", sync |-> "no", script |-> "no", cwd |-> "no",
            packed |-> 0, told |-> "nothing"]

Moves(h, to) == host' = [host EXCEPT ![h].at = to]
Ends(h, told) == host' = [host EXCEPT ![h].at = "idle", ![h].told = told]

Breaks == "cut" \in FileTrouble

\* Whether it is between its archive and its command
Syncing(h) ==
  /\ host[h].sync = "yes"
  /\ host[h].at \in {"sending", "filling", "unpacking", "copying", "ready"}

-----------------------------------------------------------------------------
\* exec: a script the guest cannot run is refused before anything is sent, and one
\* that it can run gets a name that nothing there has; cwd is --cwd, which may lead nowhere
Begin(h) ==
  /\ host[h].at = "idle"
  /\ \E s, x, cwd \in {"yes", "no"} :
       host' = [host EXCEPT ![h] = [Resting EXCEPT
         !.at = IF s = "yes" THEN "packing" ELSE "copying", !.sync = s, !.script = x,
         !.cwd = cwd]]
  /\ script' = [script EXCEPT ![h] = Absent]
  /\ UNCHANGED <<packs, archive, tree>>

\* archive: what .gitignore keeps, as the project is now
Pack(h) ==
  /\ host[h].at = "packing" /\ packs < MaxPacks
  /\ "overlap" \in FileTrouble \/ \A g \in Hosts \ {h} : ~Syncing(g)
  /\ packs' = packs + 1
  /\ host' = [host EXCEPT ![h].at = "sending", ![h].packed = packs + 1]
  /\ UNCHANGED <<archive, tree, script>>

\* scp opens the file there is, and fills it
Open(h) ==
  /\ host[h].at = "sending"
  /\ archive' = [of |-> host[h].packed, state |-> "part"]
  /\ Moves(h, "filling")
  /\ UNCHANGED <<packs, tree, script>>

Filled(h) ==
  /\ host[h].at = "filling"
  /\ archive' = IF archive # Absent /\ archive.of = host[h].packed
                THEN [archive EXCEPT !.state = "whole"] ELSE archive
  /\ Moves(h, "unpacking")
  /\ UNCHANGED <<packs, tree, script>>

\* A status that is not success ends the command; what was sent stays
SendFails(h) ==
  /\ Breaks /\ host[h].at \in {"sending", "filling"}
  /\ Ends(h, "notsent")
  /\ UNCHANGED <<packs, archive, tree, script>>

\* tar, and rm only after it succeeded
Unpack(h) ==
  /\ host[h].at = "unpacking"
  /\ archive # Absent /\ archive.state = "whole"
  /\ tree' = archive.of /\ archive' = Absent
  /\ Moves(h, "copying")
  /\ UNCHANGED <<packs, script>>

\* Its code is not 0, or ssh's own is 255: the guest may have got to any point
UnpackFails(h) ==
  /\ host[h].at = "unpacking"
  /\ archive = Absent \/ archive.state # "whole" \/ Breaks
  /\ tree' \in {tree} \cup (IF archive = Absent THEN {}
                          ELSE {0} \cup IF archive.state = "whole" THEN {archive.of} ELSE {})
  /\ archive' \in {archive} \cup IF archive # Absent /\ tree' = archive.of THEN {Absent} ELSE {}
  /\ Ends(h, "notsent")
  /\ UNCHANGED <<packs, script>>

\* mutant: the status of scp is not looked at
CopyScriptAnyhow(h) ==
  /\ host[h].at = "copying"
  /\ IF host[h].script = "yes" THEN script' \in {[script EXCEPT ![h] = s] : s \in {"part", "whole"}}
     ELSE UNCHANGED script
  /\ Moves(h, "ready")
  /\ UNCHANGED <<packs, archive, tree>>

CopyScript(h) ==
  /\ host[h].at = "copying"
  /\ \/ host[h].script = "yes" /\ script' = [script EXCEPT ![h] = "whole"] /\ Moves(h, "ready")
     \/ host[h].script = "no" /\ UNCHANGED script /\ Moves(h, "ready")
     \/ /\ host[h].script = "yes" /\ Breaks
        /\ script' = [script EXCEPT ![h] = "part"] /\ Ends(h, "notsent")
  /\ UNCHANGED <<packs, archive, tree>>

\* The connection for the command is made, or is not
RunIt(h) ==
  /\ host[h].at = "ready"
  /\ Moves(h, "running") \/ (Breaks /\ Ends(h, "255"))
  /\ UNCHANGED <<packs, archive, tree, script>>

\* The line begins with a `cd` to that directory (Set-Location, -ErrorAction Stop): when it
\* fails so does the line, with an ordinary code, and neither the script nor rm is run
PreludeFails(h) ==
  /\ host[h].at = "running" /\ host[h].cwd = "yes"
  /\ Ends(h, "prelude")
  /\ UNCHANGED <<packs, archive, tree, script>>

\* rc=$?; rm -f; exit $rc: whatever the script's code
Exits(h) ==
  /\ host[h].at = "running"
  /\ script' = [script EXCEPT ![h] = Absent]
  /\ Ends(h, "code")
  /\ UNCHANGED <<packs, archive, tree>>

\* ssh ends with 255, wherever the guest has got to
CutOff(h) ==
  /\ Breaks /\ host[h].at = "running"
  /\ script' \in {script, [script EXCEPT ![h] = Absent]}
  /\ Ends(h, "255")
  /\ UNCHANGED <<packs, archive, tree>>

Init ==
  /\ packs = 0 /\ archive = Absent /\ tree = 0
  /\ script = [h \in Hosts |-> Absent]
  /\ host = [h \in Hosts |-> Resting]

Next ==
  \E h \in Hosts :
    Begin(h) \/ Pack(h) \/ Open(h) \/ Filled(h) \/ SendFails(h) \/ Unpack(h) \/ UnpackFails(h)
      \/ CopyScript(h) \/ RunIt(h) \/ PreludeFails(h) \/ Exits(h) \/ CutOff(h)

-----------------------------------------------------------------------------
\* A command that was to have the project finds the project as it was when the
\* command was given, not what an earlier sync left (sync.rs:168), and a script
\* runs whole.  Syncs do not overlap: they share the archive's name.  A script is left
\* in the guest only where it was not copied whole, the connection broke, or --cwd led
\* nowhere, of which script.rs:5-6 ("removed whatever its exit code") does not tell.
RunsWhatWasSent ==
  \A h \in Hosts :
    /\ host[h].at = "ready" =>
         /\ host[h].sync = "yes" => tree = host[h].packed
         /\ host[h].script = "yes" => script[h] = "whole"
    /\ host[h].at = "idle" /\ script[h] # Absent => host[h].told \in {"notsent", "255", "prelude"}
=============================================================================
