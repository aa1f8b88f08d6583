----------------------------- MODULE GuestJobs -----------------------------
(***************************************************************************)
(* Detached jobs (jobs.rs, commands/jobs.rs).  A job lives in the guest: a *)
(* shell that writes the command's output to a log and then its exit code  *)
(* to a file, beside a file with its PID.  `vitro attach` and `vitro jobs` *)
(* learn what became of it by running a few shell commands over SSH, one   *)
(* after the other, while the job goes on.                                 *)
(***************************************************************************)
EXTENDS Naturals, Sequences

CONSTANTS
  Jobs,
  Watchers,   \* attach and jobs commands, on any host session
  Pieces,     \* bound: the pieces of output a job writes
  Restarts,   \* bound: how often the guest restarts
  Patience,   \* UNREACHABLE_POLLS
  NoJob,      \* a watcher that follows none
  Trouble     \* what may go wrong, a subset of AllTrouble

\* cut: an SSH connection breaks; killed: somebody kills a job; reuse: the PID
\* of a job that has gone is given to another process; linger: a command
\* leaves a child behind that holds the log open
AllTrouble == {"cut", "killed", "reuse", "linger"}

JobsAssumption ==
  /\ Pieces \in Nat
  /\ Restarts \in Nat
  /\ Patience \in Nat \ {0}
  /\ NoJob \notin Jobs
  /\ Trouble \subseteq AllTrouble

VARIABLES
  up,         \* the guest answers
  restarts,   \* restarts so far
  start,      \* where `exec --detach` is with each job
  dirs,       \* the jobs with a directory
  pids,       \* the jobs whose pid file is written
  proc,       \* each job's shell
  children,   \* the jobs whose command left a child behind
  log,        \* the pieces in each log
  exit,       \* each exit file
  taken,      \* the jobs whose PID is another process's
  stage,         \* where each watcher is
  follows,    \* its job
  listing,    \* whether it is `vitro jobs`, which asks once and reads no log
  offset,     \* attach's offset
  shown,      \* the pieces it has printed
  status,     \* what the poll under way has found
  chunk,      \* how far it read the log
  misses,     \* polls in a row that did not get through
  outcome        \* how the last command ended

life == <<up, restarts>>
guestVars == <<life, start, dirs, pids, proc, children, log, exit, taken>>
asked == <<follows, listing>>
printed == <<offset, shown>>
pollVars == <<status, chunk>>
watchVars == <<stage, asked, printed, pollVars, misses, outcome>>
jobVars == <<guestVars, watchVars>>

-----------------------------------------------------------------------------
(* The job, from `exec --detach` to its exit code.                         *)

Lives(j) == proc[j] \in {"running", "closing", "opened"}

MakeDir(j) ==
  /\ up /\ start[j] = "not"
  /\ start' = [start EXCEPT ![j] = "made"]
  /\ dirs' = dirs \cup {j}
  /\ UNCHANGED <<life, pids, proc, children, log, exit, taken, watchVars>>

\* nohup sh -c job &
Fork(j) ==
  /\ up /\ start[j] = "made"
  /\ start' = [start EXCEPT ![j] = "forked"]
  /\ proc' = [proc EXCEPT ![j] = "running"]
  /\ UNCHANGED <<life, dirs, pids, children, log, exit, taken, watchVars>>

\* mutant: `mkdir && job &` puts the mkdir in the background with the job, and
\* there is nowhere to write the PID yet
WritePidNowhere(j) ==
  /\ up /\ start[j] = "forked"
  /\ start' = [start EXCEPT ![j] = "written"]
  /\ UNCHANGED <<life, dirs, pids, proc, children, log, exit, taken, watchVars>>

WritePid(j) ==
  /\ up /\ start[j] = "forked"
  /\ start' = [start EXCEPT ![j] = "written"]
  /\ pids' = pids \cup {j}
  /\ UNCHANGED <<life, dirs, proc, children, log, exit, taken, watchVars>>

\* The address is printed
Started(j) ==
  /\ start[j] = "written"
  /\ start' = [start EXCEPT ![j] = "started"]
  /\ UNCHANGED <<life, dirs, pids, proc, children, log, exit, taken, watchVars>>

\* "could not start the job": the shell that was to start it stops where it is,
\* which may be after the fork
StartFails(j) ==
  /\ start[j] \in {"made", "forked", "written"}
  /\ ~up \/ "cut" \in Trouble
  /\ start' = [start EXCEPT ![j] = "failed"]
  /\ UNCHANGED <<life, dirs, pids, proc, children, log, exit, taken, watchVars>>

\* mutant: the command is put in the background, and the exit code does not
\* wait for it
OutputInBackground(j) ==
  /\ proc[j] # "none"
  /\ log[j] < Pieces
  /\ log' = [log EXCEPT ![j] = @ + 1]
  /\ UNCHANGED <<life, start, dirs, pids, proc, children, exit, taken, watchVars>>

Output(j) ==
  /\ proc[j] = "running" \/ j \in children
  /\ log[j] < Pieces
  /\ log' = [log EXCEPT ![j] = @ + 1]
  /\ UNCHANGED <<life, start, dirs, pids, proc, children, exit, taken, watchVars>>

\* The command has ended; its shell goes on
Ends(j) ==
  /\ proc[j] = "running"
  /\ proc' = [proc EXCEPT ![j] = "closing"]
  /\ children' \in {children, IF "linger" \in Trouble THEN children \cup {j} ELSE children}
  /\ UNCHANGED <<life, start, dirs, pids, log, exit, taken, watchVars>>

\* echo $? > exit creates the file, then writes the code
OpenExit(j) ==
  /\ proc[j] = "closing"
  /\ proc' = [proc EXCEPT ![j] = "opened"]
  /\ exit' = [exit EXCEPT ![j] = "empty"]
  /\ UNCHANGED <<life, start, dirs, pids, children, log, taken, watchVars>>

WriteExit(j) ==
  /\ proc[j] = "opened"
  /\ proc' = [proc EXCEPT ![j] = "gone"]
  /\ exit' = [exit EXCEPT ![j] = "code"]
  /\ UNCHANGED <<life, start, dirs, pids, children, log, taken, watchVars>>

-----------------------------------------------------------------------------
(* What happens to the guest.                                              *)

\* Its shell alone, or the command with it
Killed(j) ==
  /\ "killed" \in Trouble
  /\ Lives(j)
  /\ proc' = [proc EXCEPT ![j] = "gone"]
  /\ children' \in {children, IF proc[j] = "running" THEN children \cup {j} ELSE children}
  /\ UNCHANGED <<life, start, dirs, pids, log, exit, taken, watchVars>>

PidTaken(j) ==
  /\ "reuse" \in Trouble
  /\ up /\ proc[j] = "gone" /\ j \notin taken
  /\ taken' = taken \cup {j}
  /\ UNCHANGED <<life, start, dirs, pids, proc, children, log, exit, watchVars>>

PidFree(j) ==
  /\ j \in taken
  /\ taken' = taken \ {j}
  /\ UNCHANGED <<life, start, dirs, pids, proc, children, log, exit, watchVars>>

\* Where a watcher's poll is a shell in the guest
InGuest == {"looking", "reading", "asking", "tailing"}

\* Every process of the guest goes, the shells of the polls among them
GoDown ==
  /\ up /\ restarts < Restarts
  /\ up' = FALSE
  /\ restarts' = restarts + 1
  /\ proc' = [j \in Jobs |-> IF Lives(j) THEN "gone" ELSE proc[j]]
  /\ children' = {}
  /\ taken' = {}
  /\ stage' = [w \in Watchers |-> IF stage[w] \in InGuest THEN "cut" ELSE stage[w]]
  /\ UNCHANGED <<start, dirs, pids, log, exit, asked, printed, pollVars, misses, outcome>>

ComeUp ==
  /\ ~up
  /\ up' = TRUE
  /\ UNCHANGED <<restarts, start, dirs, pids, proc, children, log, exit, taken, watchVars>>

-----------------------------------------------------------------------------
(* attach, which polls until the job ends, and jobs, which asks once.  A   *)
(* poll is a shell in the guest that looks for the directory, for the exit *)
(* file and for the process, and reads the log last.                       *)

Begins(w, j, lists) ==
  /\ stage[w] = "idle"
  /\ stage' = [stage EXCEPT ![w] = "polling"]
  /\ follows' = [follows EXCEPT ![w] = j]
  /\ listing' = [listing EXCEPT ![w] = lists]
  /\ offset' = [offset EXCEPT ![w] = 0]
  /\ shown' = [shown EXCEPT ![w] = <<>>]
  /\ misses' = [misses EXCEPT ![w] = 0]
  /\ outcome' = [outcome EXCEPT ![w] = "nothing"]
  /\ UNCHANGED <<guestVars, pollVars>>

\* The job is one whose address was printed, one that `vitro jobs` lists, or a
\* mistake (NoJob)
AttachBegins(w) ==
  \E j \in {NoJob} \cup {i \in Jobs : start[i] = "started"} \cup {i \in dirs : start[i] = "failed"} :
    Begins(w, j, FALSE)

\* One line of the listing, for any job it has
ListBegins(w) == \E j \in dirs : Begins(w, j, TRUE)

Moves(w, from, to) == stage[w] = from /\ stage' = [stage EXCEPT ![w] = to]

\* The command ends and says so
Tells(w, what) ==
  /\ stage' = [stage EXCEPT ![w] = "idle"]
  /\ outcome' = [outcome EXCEPT ![w] = what]

\* Ctrl-C is looked at between two polls
Interrupted(w) ==
  /\ stage[w] = "polling" /\ ~listing[w]
  /\ Tells(w, "interrupted")
  /\ UNCHANGED <<guestVars, asked, printed, pollVars, misses>>

\* [ -d $d ] || exit 3
Connect(w) ==
  /\ stage[w] = "polling" /\ up
  /\ \/ follows[w] \in dirs /\ Moves(w, "polling", "looking") /\ UNCHANGED outcome
     \/ follows[w] \notin dirs /\ Tells(w, "nojob")
  /\ UNCHANGED <<guestVars, asked, printed, pollVars, misses>>

\* [ -f $d/exit ]
LookInside(w) ==
  /\ Moves(w, "looking", IF exit[follows[w]] = "absent" THEN "asking" ELSE "reading")
  /\ UNCHANGED <<guestVars, asked, printed, pollVars, misses, outcome>>

\* cat $d/exit; what parse_status makes of `exit:` alone is None
ReadExit(w) ==
  /\ Moves(w, "reading", "tailing")
  /\ status' = [status EXCEPT ![w] = IF exit[follows[w]] = "code" THEN "exited" ELSE "unknown"]
  /\ UNCHANGED <<guestVars, asked, printed, chunk, misses, outcome>>

\* kill -0 $(cat $d/pid)
KillZero(w) ==
  /\ Moves(w, "asking", "tailing")
  /\ LET j == follows[w] IN
     status' = [status EXCEPT ![w] = IF j \in pids /\ (Lives(j) \/ j \in taken)
                                     THEN "running" ELSE "lost"]
  /\ UNCHANGED <<guestVars, asked, printed, chunk, misses, outcome>>

\* tail -c +offset; what it reads is what the log has now.  The listing has none
ReadLog(w) ==
  /\ Moves(w, "tailing", "answered")
  /\ chunk' = [chunk EXCEPT ![w] = IF listing[w] THEN 0 ELSE log[follows[w]]]
  /\ UNCHANGED <<guestVars, asked, printed, status, misses, outcome>>

\* The pieces the poll brought, in order
Brought(w) == [i \in 1..(chunk[w] - offset[w]) |-> offset[w] + i]

\* mutant: the offset stays where it was
ReceiveWithoutAdvancing(w) ==
  /\ stage[w] = "answered" /\ ~listing[w] /\ status[w] # "unknown"
  /\ misses' = [misses EXCEPT ![w] = 0]
  /\ shown' = [shown EXCEPT ![w] = @ \o Brought(w)]
  /\ \/ status[w] = "running" /\ Moves(w, "answered", "polling") /\ UNCHANGED outcome
     \/ status[w] # "running" /\ Tells(w, status[w])
  /\ UNCHANGED <<guestVars, asked, offset, pollVars>>

\* split_poll has read the status: the output is printed before it is acted on
Receive(w) ==
  /\ stage[w] = "answered" /\ ~listing[w] /\ status[w] # "unknown"
  /\ misses' = [misses EXCEPT ![w] = 0]
  /\ shown' = [shown EXCEPT ![w] = @ \o Brought(w)]
  /\ offset' = [offset EXCEPT ![w] = chunk[w]]
  /\ \/ status[w] = "running" /\ Moves(w, "answered", "polling") /\ UNCHANGED outcome
     \/ status[w] # "running" /\ Tells(w, status[w])
  /\ UNCHANGED <<guestVars, asked, pollVars>>

\* split_poll fails: "a job status vitro does not know", and the output the
\* poll brought is dropped
ReceiveUnknown(w) ==
  /\ stage[w] = "answered" /\ ~listing[w] /\ status[w] = "unknown"
  /\ Tells(w, "unknown")
  /\ UNCHANGED <<guestVars, asked, printed, pollVars, misses>>

\* A line parse_status does not know is left out of the listing
ReceiveList(w) ==
  /\ stage[w] = "answered" /\ listing[w]
  /\ Tells(w, status[w])
  /\ UNCHANGED <<guestVars, asked, printed, pollVars, misses>>

\* ssh exits with 255: the guest does not answer, or the connection broke
\* under the poll
Cut(w) ==
  /\ \/ stage[w] = "polling" /\ ~up
     \/ stage[w] \in InGuest \cup {"polling"} /\ "cut" \in Trouble
  /\ stage' = [stage EXCEPT ![w] = "cut"]
  /\ UNCHANGED <<guestVars, asked, printed, pollVars, misses, outcome>>

\* mutant: a poll that failed is not counted
MissedUncounted(w) ==
  /\ stage[w] = "cut" /\ ~listing[w]
  /\ Moves(w, "cut", "polling")
  /\ UNCHANGED <<guestVars, asked, printed, pollVars, misses, outcome>>

Missed(w) ==
  /\ stage[w] = "cut" /\ ~listing[w]
  /\ misses' = [misses EXCEPT ![w] = @ + 1]
  /\ \/ misses'[w] >= Patience /\ Tells(w, "gaveup")
     \/ misses'[w] < Patience /\ Moves(w, "cut", "polling") /\ UNCHANGED outcome
  /\ UNCHANGED <<guestVars, asked, printed, pollVars>>

ListFails(w) ==
  /\ stage[w] = "cut" /\ listing[w]
  /\ Tells(w, "failed")
  /\ UNCHANGED <<guestVars, asked, printed, pollVars, misses>>

-----------------------------------------------------------------------------
JobsInit ==
  /\ up = TRUE /\ restarts = 0
  /\ start = [j \in Jobs |-> "not"]
  /\ dirs = {} /\ pids = {} /\ children = {} /\ taken = {}
  /\ proc = [j \in Jobs |-> "none"]
  /\ log = [j \in Jobs |-> 0]
  /\ exit = [j \in Jobs |-> "absent"]
  /\ stage = [w \in Watchers |-> "idle"]
  /\ follows = [w \in Watchers |-> NoJob]
  /\ listing = [w \in Watchers |-> FALSE]
  /\ offset = [w \in Watchers |-> 0]
  /\ shown = [w \in Watchers |-> <<>>]
  /\ status = [w \in Watchers |-> "none"]
  /\ chunk = [w \in Watchers |-> 0]
  /\ misses = [w \in Watchers |-> 0]
  /\ outcome = [w \in Watchers |-> "nothing"]

JobNext(j) ==
  \/ MakeDir(j) \/ Fork(j) \/ WritePid(j) \/ Started(j) \/ StartFails(j)
  \/ Output(j) \/ Ends(j) \/ OpenExit(j) \/ WriteExit(j)
  \/ Killed(j) \/ PidTaken(j) \/ PidFree(j)

\* What attach and jobs do of themselves
Poll(w) ==
  \/ Connect(w) \/ LookInside(w) \/ ReadExit(w) \/ KillZero(w) \/ ReadLog(w)
  \/ Receive(w) \/ ReceiveUnknown(w) \/ ReceiveList(w) \/ Missed(w) \/ ListFails(w)

JobsNext ==
  \/ \E j \in Jobs : JobNext(j)
  \/ GoDown \/ ComeUp
  \/ \E w \in Watchers :
       Poll(w) \/ Interrupted(w) \/ Cut(w) \/ AttachBegins(w) \/ ListBegins(w)

JobsSpec == JobsInit /\ [][JobsNext]_jobVars

\* A poll that has begun ends: ssh answers or, with ConnectTimeout and a guest
\* that does not answer, fails.  Nothing is assumed of the job, of the guest
\* (it may stay down) or of the user
Fairness == \A w \in Watchers : WF_jobVars(Poll(w) \/ Cut(w))
FairJobs == JobsSpec /\ Fairness

-----------------------------------------------------------------------------
(* Properties.                                                             *)

\* When attach returns the job's exit code it has printed all of the output
\* there will ever be: the job writes its exit code last, a poll reads the log
\* after the status, and attach prints before it acts on the status.
ExitMeansWhole ==
  \A w \in Watchers : ~listing[w] /\ outcome[w] = "exited" =>
    Len(shown[w]) = log[follows[w]]

\* Whatever polls failed, were cut half way or found nothing new, what attach
\* has printed is the log from its start: no piece twice, none left out.
ShownOnce ==
  \A w \in Watchers : shown[w] = [i \in 1..Len(shown[w]) |-> i]

\* A job that `exec --detach` printed is called lost by attach only when its
\* process has gone: the directory and the pid file are there before the
\* address is.
LostMeansOver ==
  \A w \in Watchers : ~listing[w] /\ outcome[w] = "lost" /\ start[follows[w]] = "started" =>
    ~Lives(follows[w])

\* What jobs.rs and the documentation say of `lost`: the process is gone and
\* left no exit code.  It does not hold: the job may end between the poll's
\* look for the exit file and its kill -0.
LostIsLost ==
  \A w \in Watchers : ~listing[w] /\ outcome[w] = "lost" => exit[follows[w]] # "code"

\* attach comes to an end unless the job, or a process that got its PID, goes on
\* for ever: also when the guest never answers again.
AttachEnds ==
  \A w \in Watchers :
    []<>(IF follows[w] \in Jobs
         THEN stage[w] = "idle" \/ Lives(follows[w]) \/ follows[w] \in taken
         ELSE stage[w] = "idle")
=============================================================================
