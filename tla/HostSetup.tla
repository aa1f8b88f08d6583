----------------------------- MODULE HostSetup -----------------------------
(***************************************************************************)
(* The files on the host that vitro makes or adds to once: the key pair    *)
(* (keygen.rs), the configuration and the user's own ~/.ssh/config         *)
(* (setup.rs, sshconfig.rs), by sessions of keygen, setup and build, in    *)
(* the steps between which another session or the user can act.            *)
(***************************************************************************)
EXTENDS Naturals

CONSTANTS
  Sessions,
  MaxKeys,       \* bound on the keys ever made
  SetupTrouble   \* a subset of AllSetupTrouble

\* torn: a session is killed while it writes ~/.ssh/config; together: two are in one
\* window, of ssh-keygen or of the user's ~/.ssh/config; editing: the user writes a
\* configuration while setup asks for one; odd: what they have in ~/.ssh/config is not UTF-8
AllSetupTrouble == {"torn", "together", "editing", "odd"}

SetupAssumption == MaxKeys \in Nat /\ SetupTrouble \subseteq AllSetupTrouble

VARIABLES
  key,       \* the two halves on the disk, as the numbers of the keys they are of; 0 is none
  made,      \* how many keys were ever made
  given,     \* the keys that the user has given up: with --force, or asked by ssh-keygen
  image,     \* the key that the golden image lets in; 0 without an image
  config,    \* config.toml: "none", "starter", or the user's "own"
  wrote,     \* whether the user has written it
  ssh,       \* ~/.ssh/config: what the user has in it, and vitro's Includes
  session

setupVars == <<key, made, given, image, config, wrote, ssh, session>>

Resting == [at |-> "idle", what |-> "none", force |-> FALSE, asks |-> FALSE, key |-> 0,
            text |-> [own |-> FALSE, includes |-> 0]]

Moves(s, to) == session' = [session EXCEPT ![s].at = to]
Ends(s) == session' = [session EXCEPT ![s] = Resting]

\* No other session is in this window
Alone(s, window) ==
  "together" \in SetupTrouble \/ \A t \in Sessions \ {s} : session[t].at \notin window

-----------------------------------------------------------------------------
(* keygen                                                                  *)

Begin(s) ==
  /\ session[s].at = "idle"
  /\ \E what \in {"keygen", "setup"}, flag \in BOOLEAN :
       session' = [session EXCEPT ![s] = [Resting EXCEPT !.at = "looking", !.what = what,
         !.force = (what = "keygen" /\ flag), !.asks = (what = "setup" /\ flag)]]
  /\ UNCHANGED <<key, made, given, image, config, wrote, ssh>>

\* Where it goes with a key: setup has more to do
WithKey(s, state) == IF state.what = "setup" THEN [state EXCEPT !.at = "config"] ELSE Resting

\* A key that is there is left alone
LookForKey(s) ==
  /\ session[s].at = "looking"
  /\ session' = [session EXCEPT ![s] =
       IF key.private = 0 THEN [@ EXCEPT !.at = "generating"]
       ELSE IF @.force THEN [@ EXCEPT !.at = "removing"]
       ELSE WithKey(s, @)]
  /\ UNCHANGED <<key, made, given, image, config, wrote, ssh>>

\* remove_pair, whose two files go one after the other
RemovePrivate(s) ==
  /\ session[s].at = "removing" /\ Moves(s, "removing public")
  /\ given' = given \cup {key.private} /\ key' = [key EXCEPT !.private = 0]
  /\ UNCHANGED <<made, image, config, wrote, ssh>>

RemovePublic(s) ==
  /\ session[s].at = "removing public" /\ Moves(s, "generating")
  /\ key' = [key EXCEPT !.public = 0]
  /\ UNCHANGED <<made, given, image, config, wrote, ssh>>

\* mutant: ssh-keygen is answered for the user
ConfirmForTheUser(s) ==
  /\ session[s].at = "generating" /\ Alone(s, {"saving", "saving public"})
  /\ Moves(s, "saving")
  /\ UNCHANGED <<key, made, given, image, config, wrote, ssh>>

\* ssh-keygen asks before it writes over a private half
Confirm(s) ==
  /\ session[s].at = "generating" /\ Alone(s, {"saving", "saving public"})
  /\ \/ key.private = 0 /\ Moves(s, "saving") /\ UNCHANGED given
     \/ key.private # 0 /\ Moves(s, "saving") /\ given' = given \cup {key.private}
     \/ key.private # 0 /\ Ends(s) /\ UNCHANGED given
  /\ UNCHANGED <<key, made, image, config, wrote, ssh>>

SavePrivate(s) ==
  /\ session[s].at = "saving" /\ made < MaxKeys
  /\ made' = made + 1 /\ key' = [key EXCEPT !.private = made + 1]
  /\ session' = [session EXCEPT ![s].at = "saving public", ![s].key = made + 1]
  /\ UNCHANGED <<given, image, config, wrote, ssh>>

SavePublic(s) ==
  /\ session[s].at = "saving public"
  /\ key' = [key EXCEPT !.public = session[s].key]
  /\ session' = [session EXCEPT ![s] = WithKey(s, @)]
  /\ UNCHANGED <<made, given, image, config, wrote, ssh>>

-----------------------------------------------------------------------------
(* build, as far as it has to do with the key                              *)

\* It gives the guest the public half
BeginBuild(s) ==
  /\ session[s].at = "idle" /\ key.public # 0
  /\ session' = [session EXCEPT ![s] =
                   [Resting EXCEPT !.at = "building", !.what = "build", !.key = key.public]]
  /\ UNCHANGED <<key, made, given, image, config, wrote, ssh>>

\* It has to reach the guest with the private one, or there is no image
EndBuild(s) ==
  /\ session[s].at = "building" /\ Ends(s)
  /\ image' = IF key.private = session[s].key THEN session[s].key ELSE image
  /\ UNCHANGED <<key, made, given, config, wrote, ssh>>

-----------------------------------------------------------------------------
(* setup                                                                   *)

\* A configuration that is there is left alone; without a terminal a starter is only shown
EnsureConfig(s) ==
  /\ session[s].at = "config"
  /\ Moves(s, IF config = "none" /\ session[s].asks THEN "asking for a guest" ELSE "include")
  /\ UNCHANGED <<key, made, given, image, config, wrote, ssh>>

\* The answer: a guest's starter, or none
AnswerStarter(s) ==
  /\ session[s].at = "asking for a guest" /\ Moves(s, "include")
  /\ config' \in {"starter", config}
  /\ UNCHANGED <<key, made, given, image, wrote, ssh>>

\* What is read of ~/.ssh/config: what is not UTF-8 is as good as no file at all
Existing == IF "odd" \in SetupTrouble /\ ssh.own THEN [own |-> FALSE, includes |-> 0] ELSE ssh

EnsureInclude(s) ==
  /\ session[s].at = "include"
  /\ IF Existing.includes > 0 \/ ~session[s].asks THEN Ends(s) ELSE Moves(s, "asking to include")
  /\ UNCHANGED <<key, made, given, image, config, wrote, ssh>>

\* Another session may add it while this one asks
Decline(s) ==
  /\ session[s].at = "asking to include" /\ Ends(s)
  /\ UNCHANGED <<key, made, given, image, config, wrote, ssh>>

\* One line goes in front of what is there, unless it has come to be there
Agree(s) ==
  /\ session[s].at = "asking to include" /\ Alone(s, {"adding", "writing"})
  /\ IF Existing.includes > 0 THEN Ends(s)
     ELSE session' = [session EXCEPT ![s].at = "adding", ![s].text = [Existing EXCEPT !.includes = 1]]
  /\ UNCHANGED <<key, made, given, image, config, wrote, ssh>>

\* fs::write empties the file and fills it
Truncate(s) ==
  /\ session[s].at = "adding" /\ Moves(s, "writing")
  /\ ssh' = [own |-> FALSE, includes |-> 0]
  /\ UNCHANGED <<key, made, given, image, config, wrote>>

Write(s) ==
  /\ session[s].at = "writing" /\ Ends(s)
  /\ ssh' = session[s].text
  /\ UNCHANGED <<key, made, given, image, config, wrote>>

-----------------------------------------------------------------------------
UserWrites ==
  /\ ~wrote
  /\ "editing" \in SetupTrouble \/ \A s \in Sessions : session[s].at # "asking for a guest"
  /\ config' = "own" /\ wrote' = TRUE
  /\ UNCHANGED <<key, made, given, image, ssh, session>>

Killed(s) ==
  /\ session[s].at # "idle" /\ (session[s].at = "writing" => "torn" \in SetupTrouble)
  /\ Ends(s)
  /\ UNCHANGED <<key, made, given, image, config, wrote, ssh>>

Init ==
  /\ key = [private |-> 0, public |-> 0] /\ made = 0 /\ given = {} /\ image = 0
  /\ config = "none" /\ wrote = FALSE /\ ssh = [own |-> TRUE, includes |-> 0]
  /\ session = [s \in Sessions |-> Resting]

Next ==
  \/ \E s \in Sessions :
       \/ Begin(s) \/ LookForKey(s) \/ RemovePrivate(s) \/ RemovePublic(s)
       \/ Confirm(s) \/ SavePrivate(s) \/ SavePublic(s)
       \/ BeginBuild(s) \/ EndBuild(s)
       \/ EnsureConfig(s) \/ AnswerStarter(s)
       \/ EnsureInclude(s) \/ Decline(s) \/ Agree(s) \/ Truncate(s) \/ Write(s)
       \/ Killed(s)
  \/ UserWrites

Spec == Init /\ [][Next]_setupVars

-----------------------------------------------------------------------------
\* A golden image opens with the key on the disk for as long as the user has not given
\* that key up: neither a second keygen or setup nor one that runs into it replaces it.
ImageOpens == image \in {0, key.private} \cup given

\* "Nothing existing is rewritten [...] so the worst case is a line somebody deletes again"
\* (sshconfig.rs:130-131): when no session is just writing ~/.ssh/config, what the user
\* had in it is there.
NothingRewritten == (\A s \in Sessions : session[s].at # "writing") => ssh.own
=============================================================================
