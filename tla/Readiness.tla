----------------------------- MODULE Readiness ------------------------------
(***************************************************************************)
(* Waiting for a guest: run and build after they have started one (ssh.rs, *)
(* lume.rs, commands/run.rs, commands/build.rs), and vitro wait and        *)
(* restart (commands/wait.rs).  Time passes in vitro's rounds, each a look *)
(* at the guest and a pause; the guest changes in between as it likes.     *)
(***************************************************************************)
EXTENDS Integers

CONSTANTS
  Commands,   \* a subset of AllCommands
  Timeout,    \* boot_timeout, build_timeout or --timeout
  Slow,       \* the longest a round takes: a probe and a pause
  Grace,      \* AUTH_REFUSAL_GRACE
  MaxBoots    \* bound: how often the guest starts

AllCommands == {"wait", "restart", "run_lume", "build"}

ASSUME WaitAssumption ==
  /\ Commands \subseteq AllCommands
  /\ Timeout \in Nat \ {0} /\ Slow \in Nat \ {0} /\ Grace \in Nat \ {0}
  /\ MaxBoots \in Nat

Never == -1

VARIABLES
  died,       \* what the command's clock showed when the VM's process ended, or Never
  answer,     \* what the guest says to a probe
  boot,       \* which boot of the guest this is; boot_marker tells them apart
  cmd,
  goal,       \* what it waits for: "ssh", or with --desktop "desktop"
  at,
  used,       \* what run_lume spent before its second wait
  spent,      \* the clock of the wait: started.elapsed()
  refusing,   \* refusing_since, or Never
  other,      \* when the guest last did something else than refuse the key
  before      \* the boot that restart read before it asked

guest == <<died, answer, boot>>
told == <<cmd, goal>>
vars == <<guest, told, at, used, spent, refusing, other, before>>

Ended == {"ready", "dead", "late", "refused", "nobody", "failed"}
Waiting == {"looking", "probing", "addressing", "marking", "requesting", "watching",
            "reading", "desktop"}

\* mutant: each wait has the whole timeout
WholeBudget == Timeout

\* remaining: never zero, so that each wait makes an attempt
Budget == IF Timeout > used + 1 THEN Timeout - used ELSE 1

Alive == died = Never

\* No answer, a refused key, a session, or a session and a desktop
Answers == {"none", "refusal", "ssh", "desktop"}
Reachable == answer \in {"ssh", "desktop"}

-----------------------------------------------------------------------------
(* The guest                                                               *)

GoesDown ==
  /\ answer # "none"
  /\ answer' = "none"
  /\ UNCHANGED <<died, boot, told, at, used, spent, refusing, other, before>>

\* sshd listens before the key is there (AUTH_REFUSAL_GRACE)
ComesUp ==
  /\ Alive /\ answer = "none" /\ boot < MaxBoots
  /\ boot' = boot + 1
  /\ answer' \in {"refusal", "ssh"}
  /\ UNCHANGED <<died, told, at, used, spent, refusing, other, before>>

KeyArrives ==
  /\ answer = "refusal"
  /\ answer' = "ssh"
  /\ UNCHANGED <<died, boot, told, at, used, spent, refusing, other, before>>

LogsIn ==
  /\ answer = "ssh"
  /\ answer' = "desktop"
  /\ UNCHANGED <<died, boot, told, at, used, spent, refusing, other, before>>

Dies ==
  /\ Alive /\ at # "idle"
  /\ died' = used + spent /\ answer' = "none"
  /\ UNCHANGED <<boot, told, at, used, spent, refusing, other, before>>

-----------------------------------------------------------------------------
(* The commands begin                                                      *)

\* wait, and run of a QEMU guest, wait for SSH at once; a build looks at the
\* processes once; run_lume waits for an address first
Begin(c, g) ==
  /\ at = "idle"
  /\ cmd' = c /\ goal' = g
  /\ g = "desktop" => c \in {"wait", "restart"}
  /\ \/ c \in {"wait", "build"} /\ at' = "looking"
     \/ c = "restart" /\ at' = "marking"
     \/ c = "run_lume" /\ at' = "addressing"
  /\ UNCHANGED <<guest, used, spent, refusing, other, before>>

\* Ctrl-C, or an ssh or lume that cannot be run
Fails ==
  /\ at \in Waiting
  /\ at' = "failed"
  /\ UNCHANGED <<guest, told, used, spent, refusing, other, before>>

\* The round has taken a while
Round == spent' \in (spent + 1)..(spent + Slow)

\* What comes after SSH
Onward == IF goal = "desktop" THEN "desktop" ELSE "ready"

-----------------------------------------------------------------------------
(* wait_until_reachable_inner                                              *)

\* mutant: every wait looks at what was there when it began
LookOnce ==
  /\ at = "looking"
  /\ at' = "probing"
  /\ UNCHANGED <<guest, told, used, spent, refusing, other, before>>

\* still_alive; a build asks a snapshot that was taken when the wait began
Look ==
  /\ at = "looking"
  /\ at' = IF Alive \/ cmd = "build" THEN "probing" ELSE "dead"
  /\ UNCHANGED <<guest, told, used, spent, refusing, other, before>>

\* The end of a round that found nothing
LateOr(place) == at' = IF spent' >= Budget THEN "late" ELSE place

ProbeSucceeds ==
  /\ at = "probing" /\ Reachable
  /\ at' = Onward
  /\ Round
  /\ UNCHANGED <<guest, told, used, refusing, other, before>>

\* refuses_the_key: the grace runs from the first refusal in a row
ProbeRefused ==
  /\ at = "probing" /\ answer = "refusal"
  /\ Round
  /\ refusing' = IF refusing = Never THEN spent' ELSE refusing
  /\ IF spent' - refusing' >= Grace THEN at' = "refused" ELSE LateOr("looking")
  /\ UNCHANGED <<guest, told, used, other, before>>

\* mutant: the first refusal is remembered across a restart
ProbeUnansweredRemembers ==
  /\ at = "probing"
  /\ Round
  /\ other' = spent'
  /\ LateOr("looking")
  /\ UNCHANGED <<guest, told, used, refusing, before>>

\* mutant: the clock starts with each attempt
ProbeUnansweredStartsAgain ==
  /\ at = "probing"
  /\ spent' = 0
  /\ refusing' = Never /\ other' = 0
  /\ LateOr("looking")
  /\ UNCHANGED <<guest, told, used, before>>

\* No answer in time, which a guest that lets others in can give as well
ProbeUnanswered ==
  /\ at = "probing"
  /\ Round
  /\ refusing' = Never /\ other' = spent'
  /\ LateOr("looking")
  /\ UNCHANGED <<guest, told, used, before>>

-----------------------------------------------------------------------------
(* wait_until_ready_before: lume's address, under a deadline of its own    *)

\* lume may not yet say "running" in the first round
Address ==
  /\ at = "addressing"
  /\ Round
  /\ \/ Alive /\ answer # "none" /\ spent' <= Timeout /\ at' = "found"
     \/ ~Alive /\ spent' <= Timeout /\ at' = "dead"
     \/ spent' >= Timeout /\ at' = "late"
     \/ (Alive \/ spent = 0) /\ spent' < Timeout /\ at' = "addressing"
  /\ UNCHANGED <<guest, told, used, refusing, other, before>>

\* One ceiling for both waits: the second has what remains
SecondWait ==
  /\ at = "found"
  /\ used' = spent /\ spent' = 0 /\ other' = 0
  /\ at' = "looking"
  /\ UNCHANGED <<guest, told, refusing, before>>

-----------------------------------------------------------------------------
(* restart                                                                 *)

\* The marker of the boot that is about to end, which must not be empty
Mark ==
  /\ at = "marking"
  /\ \/ Reachable /\ before' = boot /\ at' = "requesting"
     \/ at' = "failed" /\ UNCHANGED before
  /\ UNCHANGED <<guest, told, used, spent, refusing, other>>

\* Exit code 0, or 255 for a connection lost before or after the guest heard;
\* the clock starts here
Request ==
  /\ at = "requesting"
  /\ at' \in {"watching"} \cup (IF Reachable THEN {"failed"} ELSE {})
  /\ UNCHANGED <<guest, told, used, spent, refusing, other, before>>

Watch ==
  /\ at = "watching"
  /\ at' = IF Alive THEN "reading" ELSE "dead"
  /\ UNCHANGED <<guest, told, used, spent, refusing, other, before>>

\* mutant: any answer will do
ReadAnything ==
  /\ at = "reading"
  /\ Round
  /\ \/ Reachable /\ at' = Onward
     \/ LateOr("watching")
  /\ UNCHANGED <<guest, told, used, refusing, other, before>>

\* The marker is a different one, or nothing new was read
Read ==
  /\ at = "reading"
  /\ Round
  /\ \/ Reachable /\ boot # before /\ at' = Onward
     \/ LateOr("watching")
  /\ UNCHANGED <<guest, told, used, refusing, other, before>>

-----------------------------------------------------------------------------
(* wait_for_desktop, on the clock of the wait before; it does not ask whether *)
(* the process lives                                                       *)

Desktop ==
  /\ at = "desktop"
  /\ Round
  /\ \/ answer = "desktop" /\ at' = "ready"
     \/ at' = IF spent' >= Timeout THEN "nobody" ELSE "desktop"
  /\ UNCHANGED <<guest, told, used, refusing, other, before>>

-----------------------------------------------------------------------------
Init ==
  /\ died = Never /\ answer \in Answers /\ boot = 0
  /\ cmd = "none" /\ goal = "ssh" /\ at = "idle"
  /\ used = 0 /\ spent = 0 /\ refusing = Never /\ other = 0 /\ before = 0

Guest == GoesDown \/ ComesUp \/ KeyArrives \/ LogsIn \/ Dies

Vitro ==
  \/ Look \/ ProbeSucceeds \/ ProbeRefused \/ ProbeUnanswered
  \/ Address \/ SecondWait
  \/ Mark \/ Request \/ Watch \/ Read
  \/ Desktop

Next == Guest \/ Vitro \/ Fails \/ \E c \in Commands, g \in {"ssh", "desktop"} : Begin(c, g)

Spec == Init /\ [][Next]_vars

\* A command that has begun goes on: ssh returns, by its connect timeout at the
\* latest, and a pause ends.  The guest need not do anything.
FairSpec == Spec /\ WF_vars(Vitro)

-----------------------------------------------------------------------------
(* Properties                                                              *)

\* Values in their sets; only restart reads markers and only run_lume has two
\* waits.
WaitTypeOK ==
  /\ answer \in Answers /\ goal \in {"ssh", "desktop"}
  /\ boot \in 0..MaxBoots /\ before \in 0..MaxBoots
  /\ cmd \in Commands \cup {"none"}
  /\ at \in Ended \cup Waiting \cup {"idle", "found"}
  /\ used \in Nat /\ spent \in Nat /\ other \in Nat
  /\ refusing \in Nat \cup {Never} /\ died \in Nat \cup {Never}
  /\ at = "idle" => cmd = "none"
  /\ at \in {"addressing", "found"} => cmd = "run_lume"
  /\ used # 0 => cmd = "run_lume"

\* restart returns only once the guest has started again since it was asked,
\* although the old session still answers for a while (wait.rs:50-53).
RestartMeansRestarted ==
  cmd = "restart" /\ at \in {"desktop", "ready", "nobody"} => boot > before

\* No wait is longer than its timeout by more than a round for each of its stages:
\* an address and then SSH, SSH or a restart and then the desktop share one
\* timeout (ssh.rs:371-378, run.rs:212).
OnTime == used + spent <= Timeout + 2 * Slow

\* A guest is said to refuse the key only if no probe found anything else for
\* longer than the grace: one that is seen restarting starts anew (ssh.rs:449-452).
RefusedThroughout == at = "refused" => spent - other > Grace

\* A guest that has died is reported as dead, not as late: when the time is up,
\* the process was there two rounds ago (ssh.rs:386-388).  A build's is not looked
\* at again.
Noticed == at = "late" /\ ~Alive => used + spent - died <= 2 * Slow
DeathIsNoticed == cmd # "build" => Noticed

\* Every wait ends.
WaitEnds == at # "idle" ~> at \in Ended

\* What makes them so: where a wait goes on its time is not up, a refusal is later
\* than anything else was seen, and a death no older than the look at the process.
TimeKept ==
  /\ used <= Timeout
  /\ at \in {"idle", "marking", "requesting"} => used = 0 /\ spent = 0
  /\ at \in {"looking", "probing"} => spent < Budget
  /\ at \in {"watching", "reading", "addressing"} => used = 0 /\ spent < Timeout
  /\ at = "found" => used = 0 /\ spent <= Timeout
  /\ at = "desktop" => used = 0 /\ spent < Timeout + Slow
RefusalKept ==
  /\ at \in {"idle", "marking", "requesting", "addressing", "found", "watching", "reading"} =>
       refusing = Never
  /\ other <= spent
  /\ refusing # Never => other < refusing
DeathKept ==
  /\ ~Alive => answer = "none" /\ at # "idle" /\ died <= used + spent
  /\ ~Alive /\ at \in {"probing", "reading"} /\ cmd # "build" => died = used + spent
  /\ ~Alive /\ at = "addressing" => spent - died <= Slow
RestartKept ==
  /\ at \in {"requesting", "watching", "reading"} => before <= boot
  /\ at \in {"looking", "probing"} => cmd # "restart"
  /\ at \in {"marking", "requesting", "watching", "reading"} => cmd = "restart"
  /\ at = "desktop" => cmd \in {"wait", "restart"}
  /\ goal = "desktop" => cmd \in {"wait", "restart"}
WaitInv ==
  /\ WaitTypeOK
  /\ TimeKept /\ RefusalKept /\ DeathKept /\ RestartKept
  /\ RestartMeansRestarted /\ OnTime /\ RefusedThroughout /\ DeathIsNoticed

\* The same of a build.  It does not hold: the wait looks at a snapshot.
BuildNoticesDeath == cmd = "build" => Noticed
=============================================================================
