---------------------------- MODULE RemoteProofs ----------------------------
(***************************************************************************)
(* What vitro does over ssh, for any timeout, length of a round, grace and *)
(* number of boots, and any number of jobs, watchers, pieces and restarts. *)
(*                                                                         *)
(* What attach prints and says is argued in two halves: the job's side     *)
(* only ever goes forward, whatever happens to the guest (JobStep), and a  *)
(* watcher's view of something that only goes forward stays true until it  *)
(* is told (WatchStep).                                                    *)
(***************************************************************************)
EXTENDS Remote, SequenceTheorems, TLAPS

JobsVars == <<start, dirs, pids, proc, children, log, exit>>

JobTypes ==
  /\ start \in [Jobs -> {"not", "made", "forked", "written", "started", "failed"}]
  /\ dirs \subseteq Jobs /\ pids \subseteq Jobs /\ children \subseteq Jobs
  /\ proc \in [Jobs -> {"none", "running", "closing", "opened", "gone"}]
  /\ log \in [Jobs -> Nat]
  /\ exit \in [Jobs -> {"absent", "empty", "code"}]

\* A command that has ended has left nothing behind that writes on
NothingLingers == "linger" \notin Trouble

\* The job's shell writes the exit code last, and what a killed shell leaves
\* behind goes with an exit file that stays as it is
JobOrder ==
  \A j \in Jobs :
    /\ start[j] \in {"not", "made"} => proc[j] = "none"
    /\ start[j] \in {"forked", "written", "started"} => proc[j] # "none"
    /\ start[j] \in {"written", "started"} => j \in pids
    /\ proc[j] \in {"none", "running", "closing"} => exit[j] = "absent"
    /\ exit[j] = "code" => proc[j] = "gone"
    /\ NothingLingers /\ j \in children => proc[j] = "gone" /\ exit[j] # "code"

JobInv == JobTypes /\ JobOrder

\* What no step of the job or of its guest takes back
Forward ==
  \A j \in Jobs :
    /\ log[j] <= log'[j]
    /\ exit[j] = "code" => exit'[j] = "code"
    /\ NothingLingers /\ exit[j] = "code" => log'[j] = log[j]
    /\ exit[j] # "absent" => exit'[j] # "absent"
    /\ proc[j] = "gone" => proc'[j] = "gone"
    /\ start[j] \in {"started", "failed"} => start'[j] = start[j]
    /\ j \in dirs => j \in dirs'

WatchTypes ==
  /\ stage \in [Watchers -> {"idle", "polling", "looking", "reading", "asking",
                          "tailing", "answered", "cut"}]
  /\ follows \in [Watchers -> Jobs \cup {NoJob}]
  /\ listing \in [Watchers -> BOOLEAN]
  /\ offset \in [Watchers -> Nat]
  /\ shown \in [Watchers -> Seq(Nat)]
  /\ status \in [Watchers -> {"none", "running", "lost", "exited", "unknown"}]
  /\ chunk \in [Watchers -> Nat]
  /\ misses \in [Watchers -> Nat]
  /\ outcome \in [Watchers -> {"nothing", "interrupted", "nojob", "lost", "exited", "unknown",
                            "none", "running", "gaveup", "failed"}]

UpTo(n) == [i \in 1..n |-> i]

\* Where a poll is inside the job's directory
Polled == InGuest \cup {"answered"}

WatchSees(w) ==
  /\ stage[w] \in Polled => follows[w] \in dirs
  /\ stage[w] = "reading" => exit[follows[w]] # "absent"
  /\ stage[w] \in {"tailing", "answered"} /\ status[w] = "exited" => exit[follows[w]] = "code"
  /\ stage[w] \in {"tailing", "answered"} /\ status[w] = "lost" /\ ~listing[w] =>
       (start[follows[w]] = "started" => proc[follows[w]] = "gone")

WatchPrints(w) ==
  /\ shown[w] = UpTo(offset[w])
  /\ follows[w] \in Jobs => offset[w] <= log[follows[w]]
  /\ follows[w] = NoJob => offset[w] = 0
  /\ follows[w] \in Jobs /\ ~listing[w] => start[follows[w]] \in {"started", "failed"}
  /\ stage[w] = "answered" /\ ~listing[w] =>
       /\ offset[w] <= chunk[w] /\ chunk[w] <= log[follows[w]]
       /\ NothingLingers /\ status[w] = "exited" => chunk[w] = log[follows[w]]

WatchTold(w) ==
  /\ outcome[w] \in {"lost", "exited"} => follows[w] \in Jobs
  /\ outcome[w] = "exited" /\ ~listing[w] =>
       exit[follows[w]] = "code" /\ (NothingLingers => offset[w] = log[follows[w]])
  /\ outcome[w] = "lost" /\ ~listing[w] /\ start[follows[w]] = "started" =>
       proc[follows[w]] = "gone"

WatchInv == WatchTypes /\ \A w \in Watchers : WatchSees(w) /\ WatchPrints(w) /\ WatchTold(w)

JobsInv == JobInv /\ WatchInv

-----------------------------------------------------------------------------
(* Printing.                                                               *)

LEMMA PrintedOn ==
  ASSUME NEW a \in Nat, NEW b \in Nat, a <= b
  PROVE  /\ UpTo(a) \o [i \in 1..(b - a) |-> a + i] = UpTo(b)
         /\ UpTo(b) \in Seq(Nat) /\ Len(UpTo(b)) = b
<1> DEFINE s == UpTo(a)
           t == [i \in 1..(b - a) |-> a + i]
<1>1. s \in Seq(Nat) /\ Len(s) = a /\ \A i \in 1..a : s[i] = i
  BY DEF UpTo
<1>2. t \in Seq(Nat) /\ Len(t) = b - a /\ \A i \in 1..(b - a) : t[i] = a + i
  <2>1. b - a \in Nat
    OBVIOUS
  <2> QED
    BY <2>1
<1>3. UpTo(b) \in Seq(Nat) /\ Len(UpTo(b)) = b /\ \A i \in 1..b : UpTo(b)[i] = i
  BY DEF UpTo
<1> HIDE DEF s, t
<1>4. /\ s \o t \in Seq(Nat) /\ Len(s \o t) = Len(s) + Len(t)
      /\ \A i \in 1..(Len(s) + Len(t)) :
           (s \o t)[i] = IF i <= Len(s) THEN s[i] ELSE t[i - Len(s)]
  BY <1>1, <1>2, ConcatProperties
<1>5. Len(s \o t) = b /\ \A i \in 1..b : (s \o t)[i] = i
  BY <1>1, <1>2, <1>4
<1>6. s \o t = UpTo(b)
  BY <1>3, <1>4, <1>5, SeqEqual
<1> QED
  BY <1>3, <1>6 DEF s, t

LEMMA LengthUpTo ==
  ASSUME NEW n \in Nat PROVE Len(UpTo(n)) = n
BY DEF UpTo

LEMMA PollPrinted ==
  ASSUME NEW w \in Watchers, offset[w] \in Nat, chunk[w] \in Nat, offset[w] <= chunk[w],
         shown[w] = UpTo(offset[w])
  PROVE  shown[w] \o Brought(w) = UpTo(chunk[w]) /\ UpTo(chunk[w]) \in Seq(Nat)
<1>1. Brought(w) = [i \in 1..(chunk[w] - offset[w]) |-> offset[w] + i]
  BY DEF Brought
<1>2. /\ UpTo(offset[w]) \o [i \in 1..(chunk[w] - offset[w]) |-> offset[w] + i] = UpTo(chunk[w])
      /\ UpTo(chunk[w]) \in Seq(Nat)
  BY PrintedOn
<1> QED
  BY <1>1, <1>2

-----------------------------------------------------------------------------
(* The job and its guest.                                                  *)

LEMMA JobStart ==
  ASSUME JobsInit PROVE JobInv
BY DEF JobsInit, JobInv, JobTypes, JobOrder

LEMMA JobKept ==
  ASSUME JobInv, UNCHANGED JobsVars PROVE JobInv' /\ Forward
BY DEF JobInv, JobTypes, JobOrder, Forward, JobsVars

LEMMA JobStep ==
  ASSUME JobInv,
         GoDown \/ \E j \in Jobs : JobNext(j)
  PROVE  JobInv' /\ Forward
<1> USE DEF JobInv, JobTypes, JobOrder, Forward, life
<1>1. CASE GoDown
  BY <1>1 DEF GoDown, Lives
<1>2. ASSUME NEW j \in Jobs, JobNext(j) PROVE JobInv' /\ Forward
  <2>1. CASE MakeDir(j)
    BY <2>1 DEF MakeDir
  <2>2. CASE Fork(j)
    BY <2>2 DEF Fork
  <2>3. CASE WritePid(j)
    BY <2>3 DEF WritePid
  <2>4. CASE Started(j)
    <3>1. j \in pids
      BY <2>4 DEF Started
    <3> QED
      BY <2>4, <3>1 DEF Started
  <2>5. CASE StartFails(j)
    BY <2>5 DEF StartFails
  <2>6. CASE Output(j)
    BY <2>6 DEF Output
  <2>7. CASE Ends(j)
    BY <2>7 DEF Ends, NothingLingers
  <2>8. CASE OpenExit(j)
    BY <2>8 DEF OpenExit
  <2>9. CASE WriteExit(j)
    BY <2>9 DEF WriteExit
  <2>10. CASE Killed(j)
    BY <2>10 DEF Killed, Lives
  <2>11. CASE PidTaken(j) \/ PidFree(j)
    BY <2>11 DEF PidTaken, PidFree
  <2> QED
    BY <1>2, <2>1, <2>2, <2>3, <2>4, <2>5, <2>6, <2>7, <2>8, <2>9, <2>10, <2>11 DEF JobNext
<1> QED
  BY <1>1, <1>2

-----------------------------------------------------------------------------
(* The watchers.                                                           *)

LEMMA WatchStart ==
  ASSUME JobsAssumption, JobsInit PROVE WatchInv
<1>1. UpTo(0) = <<>>
  BY DEF UpTo
<1> QED
  BY <1>1 DEF JobsAssumption, JobsInit, WatchInv, WatchTypes, WatchSees, WatchPrints, WatchTold, Polled, InGuest

\* What a watcher has seen stays true while the job goes on without it
LEMMA WatchKept ==
  ASSUME JobInv, WatchInv, JobInv', Forward,
         UNCHANGED <<asked, printed, pollVars, misses, outcome>>,
         \/ UNCHANGED stage
         \/ stage' = [w \in Watchers |-> IF stage[w] \in InGuest THEN "cut" ELSE stage[w]]
  PROVE  WatchInv'
<1> USE DEF asked, printed, pollVars
<1>1. WatchTypes'
  BY DEF WatchInv, WatchTypes
<1>2. ASSUME NEW w \in Watchers PROVE (WatchSees(w) /\ WatchPrints(w) /\ WatchTold(w))'
  <2>1. stage'[w] = stage[w] \/ stage'[w] = "cut"
    BY DEF WatchInv, WatchTypes
  <2>2. follows[w] \in dirs => follows[w] \in Jobs /\ follows'[w] \in dirs'
    BY DEF JobInv, JobTypes, Forward
  <2>3. follows[w] \in Jobs \cup {NoJob} /\ offset[w] \in Nat /\ chunk[w] \in Nat
    BY DEF WatchInv, WatchTypes
  <2>4. WatchSees(w) /\ WatchPrints(w) /\ WatchTold(w)
    BY DEF WatchInv
  <2>5. WatchSees(w)'
    BY <2>1, <2>2, <2>3, <2>4 DEF WatchSees, WatchPrints, Forward, Polled, InGuest, JobInv, JobTypes
  <2>6. WatchPrints(w)'
    BY <2>1, <2>2, <2>3, <2>4 DEF WatchSees, WatchPrints, Forward, Polled, JobInv, JobTypes
  <2>7. WatchTold(w)'
    BY <2>2, <2>3, <2>4 DEF WatchTold, WatchPrints, Forward, JobInv, JobTypes
  <2> QED
    BY <2>5, <2>6, <2>7
<1> QED
  BY <1>1, <1>2 DEF WatchInv

\* A step of one watcher leaves the others as they were
LEMMA WatchStep ==
  ASSUME JobsAssumption, JobInv, WatchInv, NEW w \in Watchers,
         Poll(w) \/ Interrupted(w) \/ Cut(w) \/ AttachBegins(w) \/ ListBegins(w)
  PROVE  UNCHANGED JobsVars /\ WatchInv'
<1> USE DEF JobInv, JobTypes, WatchInv, WatchTypes, guestVars, life, asked, printed, pollVars,
            JobsVars, Polled, InGuest, Moves, Tells, JobsAssumption
<1>1. CASE Connect(w)
  <2>1. UNCHANGED JobsVars /\ WatchTypes'
    BY <1>1 DEF Connect
  <2>2. ASSUME NEW v \in Watchers PROVE (WatchSees(v) /\ WatchPrints(v) /\ WatchTold(v))'
    <3>1. CASE v = w
      BY <1>1, <3>1 DEF Connect, WatchSees, WatchPrints, WatchTold
    <3>2. CASE v # w
      BY <1>1, <3>2 DEF Connect, WatchSees, WatchPrints, WatchTold
    <3> QED
      BY <3>1, <3>2
  <2> QED
    BY <2>1, <2>2
<1>2. CASE LookInside(w)
  BY <1>2 DEF LookInside, WatchSees, WatchPrints, WatchTold
<1>3. CASE ReadExit(w)
  BY <1>3 DEF ReadExit, WatchSees, WatchPrints, WatchTold
<1>4. CASE KillZero(w)
  BY <1>4 DEF KillZero, WatchSees, WatchPrints, WatchTold, JobOrder, Lives
<1>5. CASE ReadLog(w)
  BY <1>5 DEF ReadLog, WatchSees, WatchPrints, WatchTold
<1>6. CASE Receive(w)
  <2>1. /\ offset[w] \in Nat /\ chunk[w] \in Nat /\ offset[w] <= chunk[w]
        /\ shown[w] = UpTo(offset[w]) /\ follows[w] \in Jobs
        /\ chunk[w] <= log[follows[w]]
        /\ status[w] = "exited" =>
             exit[follows[w]] = "code" /\ (NothingLingers => chunk[w] = log[follows[w]])
        /\ status[w] = "lost" => (start[follows[w]] = "started" => proc[follows[w]] = "gone")
    BY <1>6 DEF Receive, WatchSees, WatchPrints
  <2>2. shown[w] \o Brought(w) = UpTo(chunk[w]) /\ UpTo(chunk[w]) \in Seq(Nat)
    BY <2>1, PollPrinted
  <2>3. /\ shown' = [shown EXCEPT ![w] = UpTo(chunk[w])]
        /\ offset' = [offset EXCEPT ![w] = chunk[w]]
        /\ misses' = [misses EXCEPT ![w] = 0]
        /\ \/ stage' = [stage EXCEPT ![w] = "polling"] /\ outcome' = outcome
           \/ stage' = [stage EXCEPT ![w] = "idle"] /\ outcome' = [outcome EXCEPT ![w] = status[w]]
        /\ UNCHANGED <<guestVars, asked, pollVars>>
    BY <1>6, <2>2 DEF Receive
  <2>4. UNCHANGED JobsVars /\ WatchTypes'
    <3>1. shown' \in [Watchers -> Seq(Nat)]
      BY <2>2, <2>3
    <3>2. /\ UNCHANGED JobsVars
          /\ offset' \in [Watchers -> Nat] /\ misses' \in [Watchers -> Nat]
      BY <2>1, <2>3
    <3>3. outcome' \in [Watchers -> {"nothing", "interrupted", "nojob", "lost", "exited", "unknown",
                                   "none", "running", "gaveup", "failed"}]
      <4>1. CASE outcome' = outcome
        BY <4>1
      <4>2. CASE outcome' = [outcome EXCEPT ![w] = status[w]]
        <5>1. status[w] \in {"none", "running", "lost", "exited", "unknown"}
          OBVIOUS
        <5> QED
          BY <4>2, <5>1
      <4> QED
        BY <2>3, <4>1, <4>2
    <3>4. stage' \in [Watchers -> {"idle", "polling", "looking", "reading", "asking",
                                "tailing", "answered", "cut"}]
      BY <2>3
    <3> QED
      BY <2>3, <3>1, <3>2, <3>3, <3>4
  <2>5. ASSUME NEW v \in Watchers PROVE (WatchSees(v) /\ WatchPrints(v) /\ WatchTold(v))'
    <3>1. CASE v = w
      BY <2>1, <2>3, <3>1 DEF WatchSees, WatchPrints, WatchTold
    <3>2. CASE v # w
      BY <2>3, <3>2 DEF WatchSees, WatchPrints, WatchTold
    <3> QED
      BY <3>1, <3>2
  <2> QED
    BY <2>4, <2>5
<1>7. CASE ReceiveUnknown(w)
  BY <1>7 DEF ReceiveUnknown, WatchSees, WatchPrints, WatchTold
<1>8. CASE ReceiveList(w)
  BY <1>8 DEF ReceiveList, WatchSees, WatchPrints, WatchTold
<1>9. CASE Missed(w)
  <2>1. UNCHANGED JobsVars /\ WatchTypes'
    <3>1. misses' \in [Watchers -> Nat]
      BY <1>9 DEF Missed
    <3>2. /\ \/ stage' = [stage EXCEPT ![w] = "polling"] /\ outcome' = outcome
             \/ stage' = [stage EXCEPT ![w] = "idle"] /\ outcome' = [outcome EXCEPT ![w] = "gaveup"]
          /\ UNCHANGED <<guestVars, asked, printed, pollVars>>
      BY <1>9 DEF Missed
    <3> QED
      BY <3>1, <3>2
  <2>2. ASSUME NEW v \in Watchers PROVE (WatchSees(v) /\ WatchPrints(v) /\ WatchTold(v))'
    <3>1. CASE v = w
      BY <1>9, <3>1 DEF Missed, WatchSees, WatchPrints, WatchTold
    <3>2. CASE v # w
      BY <1>9, <3>2 DEF Missed, WatchSees, WatchPrints, WatchTold
    <3> QED
      BY <3>1, <3>2
  <2> QED
    BY <2>1, <2>2
<1>10. CASE ListFails(w)
  BY <1>10 DEF ListFails, WatchSees, WatchPrints, WatchTold
<1>11. CASE Interrupted(w)
  BY <1>11 DEF Interrupted, WatchSees, WatchPrints, WatchTold
<1>12. CASE Cut(w)
  BY <1>12 DEF Cut, WatchSees, WatchPrints, WatchTold
<1>13. ASSUME NEW j \in Jobs \cup {NoJob}, NEW lists \in BOOLEAN, Begins(w, j, lists),
              j \in Jobs /\ ~lists => start[j] \in {"started", "failed"}
       PROVE  UNCHANGED JobsVars /\ WatchInv'
  <2>1. UpTo(0) = <<>>
    BY DEF UpTo
  <2> QED
    BY <1>13, <2>1 DEF Begins, WatchSees, WatchPrints, WatchTold
<1>14. CASE AttachBegins(w)
  BY <1>13, <1>14 DEF AttachBegins
<1>15. CASE ListBegins(w)
  BY <1>13, <1>15 DEF ListBegins
<1> QED
  BY <1>1, <1>2, <1>3, <1>4, <1>5, <1>6, <1>7, <1>8, <1>9, <1>10, <1>11, <1>12, <1>14, <1>15
  DEF Poll

-----------------------------------------------------------------------------
(* The theorems.                                                           *)

LEMMA JobsInductive ==
  ASSUME JobsAssumption PROVE JobsSpec => []JobsInv
<1>1. JobsInit => JobsInv
  BY JobStart, WatchStart DEF JobsInv
<1>2. ASSUME JobsInv, [JobsNext]_jobVars PROVE JobsInv'
  <2>1. CASE GoDown \/ \E j \in Jobs : JobNext(j)
    <3>1. JobInv' /\ Forward
      BY <1>2, <2>1, JobStep DEF JobsInv
    <3>2. /\ UNCHANGED <<asked, printed, pollVars, misses, outcome>>
          /\ \/ UNCHANGED stage
             \/ stage' = [w \in Watchers |-> IF stage[w] \in InGuest THEN "cut" ELSE stage[w]]
      BY <2>1 DEF GoDown, JobNext, MakeDir, Fork, WritePid, Started, StartFails, Output, Ends,
           OpenExit, WriteExit, Killed, PidTaken, PidFree, watchVars
    <3> QED
      BY <1>2, <3>1, <3>2, WatchKept DEF JobsInv
  <2>2. CASE ComeUp
    <3>1. JobInv' /\ Forward
      BY <1>2, <2>2, JobKept DEF JobsInv, JobsVars, ComeUp
    <3>2. UNCHANGED <<asked, printed, pollVars, misses, outcome, stage>>
      BY <2>2 DEF ComeUp, watchVars
    <3> QED
      BY <1>2, <3>1, <3>2, WatchKept DEF JobsInv
  <2>3. ASSUME NEW w \in Watchers,
               Poll(w) \/ Interrupted(w) \/ Cut(w) \/ AttachBegins(w) \/ ListBegins(w)
        PROVE  JobsInv'
    BY <1>2, <2>3, WatchStep, JobKept DEF JobsInv
  <2>4. CASE UNCHANGED jobVars
    <3>1. JobInv' /\ Forward
      BY <1>2, <2>4, JobKept DEF JobsInv, JobsVars, jobVars, guestVars
    <3>2. UNCHANGED <<asked, printed, pollVars, misses, outcome, stage>>
      BY <2>4 DEF jobVars, watchVars
    <3> QED
      BY <1>2, <3>1, <3>2, WatchKept DEF JobsInv
  <2> QED
    BY <1>2, <2>1, <2>2, <2>3, <2>4 DEF JobsNext
<1> QED
  BY <1>1, <1>2, PTL DEF JobsSpec

\* When attach returns a job's exit code it has printed the whole log, unless
\* the command leaves a child behind that writes on.
THEOREM OutputIsWhole ==
  ASSUME JobsAssumption, NothingLingers PROVE JobsSpec => []ExitMeansWhole
<1>1. ASSUME JobsInv PROVE ExitMeansWhole
  <2>1. ASSUME NEW w \in Watchers, ~listing[w], outcome[w] = "exited"
        PROVE  Len(shown[w]) = log[follows[w]]
    <3>1. shown[w] = UpTo(offset[w]) /\ offset[w] = log[follows[w]] /\ offset[w] \in Nat
      BY <1>1, <2>1 DEF JobsInv, WatchInv, WatchTypes, WatchPrints, WatchTold
    <3> QED
      BY <3>1, LengthUpTo
  <2> QED
    BY <2>1 DEF ExitMeansWhole
<1> QED
  BY <1>1, JobsInductive, PTL

\* attach prints the log from its start, no piece twice and none left out,
\* whatever polls fail or are cut.
THEOREM OutputIsShownOnce ==
  ASSUME JobsAssumption PROVE JobsSpec => []ShownOnce
<1>1. ASSUME JobsInv PROVE ShownOnce
  <2>1. ASSUME NEW w \in Watchers PROVE shown[w] = [i \in 1..Len(shown[w]) |-> i]
    <3>1. shown[w] = UpTo(offset[w]) /\ offset[w] \in Nat
      BY <1>1 DEF JobsInv, WatchInv, WatchTypes, WatchPrints
    <3>2. Len(shown[w]) = offset[w]
      BY <3>1, LengthUpTo
    <3> QED
      BY <3>1, <3>2 DEF UpTo
  <2> QED
    BY <2>1 DEF ShownOnce
<1> QED
  BY <1>1, JobsInductive, PTL

\* A job whose address was printed is called lost only when its process is gone.
THEOREM LostIsOver ==
  ASSUME JobsAssumption PROVE JobsSpec => []LostMeansOver
<1>1. ASSUME JobsInv PROVE LostMeansOver
  BY <1>1 DEF JobsInv, WatchInv, WatchTold, LostMeansOver, Lives
<1> QED
  BY <1>1, JobsInductive, PTL

-----------------------------------------------------------------------------
(* Readiness: the waits                                                     *)

USE WaitAssumption DEF WaitAssumption, Never

-----------------------------------------------------------------------------
(* Time                                                                    *)

\* A round takes some time, and not too much
LEMMA RoundTakes ==
  ASSUME spent \in Nat, Round
  PROVE  spent' \in Nat /\ spent < spent' /\ spent' <= spent + Slow
BY DEF Round

\* Both waits of run_lume fit in one timeout, but for the one attempt the second
\* always has (remaining)
LEMMA BudgetFits ==
  ASSUME used \in Nat, used <= Timeout
  PROVE  /\ Budget \in Nat /\ 0 < Budget /\ used + Budget <= Timeout + 1
         /\ used = 0 => Budget = Timeout
BY DEF Budget

\* A wait goes on only within its budget
LEMMA GoesOnInTime ==
  ASSUME NEW place, LateOr(place), spent' \in Nat, Budget \in Nat
  PROVE  at' = "late" \/ (at' = place /\ spent' < Budget)
BY DEF LateOr

\* What is known at the start of a round, and of the round
LEMMA RoundIsKnown ==
  ASSUME WaitInv, Round, used' = used
  PROVE  /\ used \in Nat /\ used <= Timeout /\ spent \in Nat
         /\ spent' \in Nat /\ spent < spent' /\ spent' <= spent + Slow
         /\ Budget \in Nat /\ 0 < Budget /\ used + Budget <= Timeout + 1
         /\ used = 0 => Budget = Timeout
         /\ Budget' = Budget
<1>1. used \in Nat /\ used <= Timeout /\ spent \in Nat BY DEF WaitInv, WaitTypeOK, TimeKept
<1>2. Budget' = Budget BY DEF Budget
<1> QED BY <1>1, <1>2, RoundTakes, BudgetFits

-----------------------------------------------------------------------------
(* Steps that take no time                                                 *)

LEMMA InitInv == Init => WaitInv
<1> SUFFICES ASSUME Init PROVE WaitInv OBVIOUS
<1> USE DEF Init
<1>1. WaitTypeOK BY DEF WaitTypeOK, Waiting, Ended
<1>2. TimeKept BY DEF TimeKept, Budget
<1>3. RefusalKept BY DEF RefusalKept
<1>4. DeathKept BY DEF DeathKept, Alive
<1>5. RestartKept BY DEF RestartKept
<1>6. RestartMeansRestarted /\ OnTime /\ RefusedThroughout /\ DeathIsNoticed
  BY DEF RestartMeansRestarted, OnTime, RefusedThroughout, DeathIsNoticed, Noticed, Alive
<1> QED BY <1>1, <1>2, <1>3, <1>4, <1>5, <1>6 DEF WaitInv

\* The guest starts and stops as it likes
LEMMA GuestKeeps ==
  ASSUME WaitInv, GoesDown \/ ComesUp \/ KeyArrives \/ LogsIn
  PROVE  WaitInv'
<1> USE DEF GoesDown, ComesUp, KeyArrives, LogsIn, Answers, Alive, told
<1>1. WaitTypeOK' BY DEF WaitInv, WaitTypeOK, Ended, Waiting
<1>2. TimeKept' BY DEF WaitInv, TimeKept, Budget, WaitTypeOK
<1>3. RefusalKept' BY DEF WaitInv, RefusalKept, WaitTypeOK
<1>4. DeathKept' BY DEF WaitInv, DeathKept, WaitTypeOK, TimeKept
<1>5. RestartKept' BY DEF WaitInv, RestartKept, WaitTypeOK
<1>6. RestartMeansRestarted' BY DEF WaitInv, RestartMeansRestarted, WaitTypeOK, RestartKept
<1>7. OnTime' BY DEF WaitInv, OnTime, TimeKept, Budget, WaitTypeOK
<1>8. RefusedThroughout' BY DEF WaitInv, RefusedThroughout, RefusalKept, WaitTypeOK
<1>9. DeathIsNoticed' BY DEF WaitInv, DeathIsNoticed, Noticed, WaitTypeOK, DeathKept
<1> QED BY <1>1, <1>2, <1>3, <1>4, <1>5, <1>6, <1>7, <1>8, <1>9 DEF WaitInv

\* A death is noted at the time of the command's clock
LEMMA DiesKeeps ==
  ASSUME WaitInv, Dies
  PROVE  WaitInv'
<1> USE DEF Dies, Answers, Alive, told
<1>1. WaitTypeOK' BY DEF WaitInv, WaitTypeOK, Ended, Waiting
<1>2. TimeKept' BY DEF WaitInv, TimeKept, Budget, WaitTypeOK
<1>3. RefusalKept' BY DEF WaitInv, RefusalKept, WaitTypeOK
<1>4. DeathKept' BY DEF WaitInv, DeathKept, WaitTypeOK, TimeKept
<1>5. RestartKept' BY DEF WaitInv, RestartKept, WaitTypeOK
<1>6. RestartMeansRestarted' BY DEF WaitInv, RestartMeansRestarted, WaitTypeOK, RestartKept
<1>7. OnTime' BY DEF WaitInv, OnTime, TimeKept, Budget, WaitTypeOK
<1>8. RefusedThroughout' BY DEF WaitInv, RefusedThroughout, RefusalKept, WaitTypeOK
<1>9. DeathIsNoticed' BY DEF WaitInv, DeathIsNoticed, Noticed, WaitTypeOK, DeathKept
<1> QED BY <1>1, <1>2, <1>3, <1>4, <1>5, <1>6, <1>7, <1>8, <1>9 DEF WaitInv

\* A look at the process that goes on has found it alive
LEMMA LookKeeps ==
  ASSUME WaitInv, Look \/ Watch
  PROVE  WaitInv'
<1> USE DEF Look, Watch, Alive, guest, told
<1>1. WaitTypeOK' BY DEF WaitInv, WaitTypeOK, Ended, Waiting
<1>2. TimeKept' BY DEF WaitInv, TimeKept, Budget, WaitTypeOK
<1>3. RefusalKept' BY DEF WaitInv, RefusalKept, WaitTypeOK
<1>4. DeathKept' BY DEF WaitInv, DeathKept, WaitTypeOK, TimeKept
<1>5. RestartKept' BY DEF WaitInv, RestartKept, WaitTypeOK
<1>6. RestartMeansRestarted' BY DEF WaitInv, RestartMeansRestarted, WaitTypeOK, RestartKept
<1>7. OnTime' BY DEF WaitInv, OnTime, TimeKept, Budget, WaitTypeOK
<1>8. RefusedThroughout' BY DEF WaitInv, RefusedThroughout, RefusalKept, WaitTypeOK
<1>9. DeathIsNoticed' BY DEF WaitInv, DeathIsNoticed, Noticed, WaitTypeOK, DeathKept
<1> QED BY <1>1, <1>2, <1>3, <1>4, <1>5, <1>6, <1>7, <1>8, <1>9 DEF WaitInv

\* A command begins with its clock at zero
LEMMA BeginKeeps ==
  ASSUME WaitInv, NEW c \in Commands, NEW g \in {"ssh", "desktop"}, Begin(c, g)
  PROVE  WaitInv'
<1> USE DEF Begin, Alive, guest, told
<1>1. WaitTypeOK' BY DEF WaitInv, WaitTypeOK, Ended, Waiting
<1>2. TimeKept' BY DEF WaitInv, TimeKept, Budget, WaitTypeOK
<1>3. RefusalKept' BY DEF WaitInv, RefusalKept, WaitTypeOK
<1>4. DeathKept' BY DEF WaitInv, DeathKept, WaitTypeOK, TimeKept
<1>5. RestartKept' BY DEF WaitInv, RestartKept, WaitTypeOK
<1>6. RestartMeansRestarted' BY DEF WaitInv, RestartMeansRestarted, WaitTypeOK, RestartKept
<1>7. OnTime' BY DEF WaitInv, OnTime, TimeKept, Budget, WaitTypeOK
<1>8. RefusedThroughout' BY DEF WaitInv, RefusedThroughout, RefusalKept, WaitTypeOK
<1>9. DeathIsNoticed' BY DEF WaitInv, DeathIsNoticed, Noticed, WaitTypeOK, DeathKept
<1> QED BY <1>1, <1>2, <1>3, <1>4, <1>5, <1>6, <1>7, <1>8, <1>9 DEF WaitInv

\* The marker restart reads is that of the boot it asks to end
LEMMA RequestKeeps ==
  ASSUME WaitInv, Mark \/ Request
  PROVE  WaitInv'
<1> USE DEF Mark, Request, Reachable, Alive, guest, told
<1>1. WaitTypeOK' BY DEF WaitInv, WaitTypeOK, Ended, Waiting
<1>2. TimeKept' BY DEF WaitInv, TimeKept, Budget, WaitTypeOK
<1>3. RefusalKept' BY DEF WaitInv, RefusalKept, WaitTypeOK
<1>4. DeathKept' BY DEF WaitInv, DeathKept, WaitTypeOK, TimeKept
<1>5. RestartKept' BY DEF WaitInv, RestartKept, WaitTypeOK
<1>6. RestartMeansRestarted' BY DEF WaitInv, RestartMeansRestarted, WaitTypeOK, RestartKept
<1>7. OnTime' BY DEF WaitInv, OnTime, TimeKept, Budget, WaitTypeOK
<1>8. RefusedThroughout' BY DEF WaitInv, RefusedThroughout, RefusalKept, WaitTypeOK
<1>9. DeathIsNoticed' BY DEF WaitInv, DeathIsNoticed, Noticed, WaitTypeOK, DeathKept
<1> QED BY <1>1, <1>2, <1>3, <1>4, <1>5, <1>6, <1>7, <1>8, <1>9 DEF WaitInv

\* run_lume's second wait has what the first one left
LEMMA OnwardKeeps ==
  ASSUME WaitInv, SecondWait \/ Fails
  PROVE  WaitInv'
<1> USE DEF SecondWait, Fails, Alive, guest, told
<1>1. WaitTypeOK' BY DEF WaitInv, WaitTypeOK, Ended, Waiting
<1>2. TimeKept' BY DEF WaitInv, TimeKept, Budget, WaitTypeOK
<1>3. RefusalKept' BY DEF WaitInv, RefusalKept, WaitTypeOK
<1>4. DeathKept' BY DEF WaitInv, DeathKept, WaitTypeOK, TimeKept
<1>5. RestartKept' BY DEF WaitInv, RestartKept, WaitTypeOK
<1>6. RestartMeansRestarted' BY DEF WaitInv, RestartMeansRestarted, WaitTypeOK, RestartKept
<1>7. OnTime' BY DEF WaitInv, OnTime, TimeKept, Budget, WaitTypeOK
<1>8. RefusedThroughout' BY DEF WaitInv, RefusedThroughout, RefusalKept, WaitTypeOK
<1>9. DeathIsNoticed' BY DEF WaitInv, DeathIsNoticed, Noticed, WaitTypeOK, DeathKept
<1> QED BY <1>1, <1>2, <1>3, <1>4, <1>5, <1>6, <1>7, <1>8, <1>9 DEF WaitInv

-----------------------------------------------------------------------------
(* Rounds                                                                  *)

\* SSH was reached within the budget
LEMMA ProbeSucceedsKeeps ==
  ASSUME WaitInv, ProbeSucceeds
  PROVE  WaitInv'
<1>1. Round /\ used' = used BY DEF ProbeSucceeds
<1>2. at = "probing" /\ at' \in {"desktop", "ready"} /\ (at' = "desktop" <=> goal = "desktop")
  BY DEF ProbeSucceeds, Onward, WaitInv, WaitTypeOK
<1>3. UNCHANGED <<died, answer, boot, cmd, goal, refusing, other, before>>
  BY DEF ProbeSucceeds, guest, told
<1> USE RoundIsKnown, <1>1, <1>2, <1>3 DEF Alive
<1>4. WaitTypeOK' BY DEF WaitInv, WaitTypeOK, Ended, Waiting
<1>5. TimeKept' BY DEF WaitInv, TimeKept, RestartKept, WaitTypeOK
<1>6. RefusalKept' BY DEF WaitInv, RefusalKept, WaitTypeOK
<1>7. DeathKept' BY DEF WaitInv, DeathKept, WaitTypeOK, TimeKept
<1>8. RestartKept' BY DEF WaitInv, RestartKept, WaitTypeOK
<1>9. RestartMeansRestarted' BY DEF WaitInv, RestartMeansRestarted, WaitTypeOK, RestartKept
<1>10. OnTime' BY DEF WaitInv, OnTime, TimeKept, RestartKept
<1>11. RefusedThroughout' BY DEF WaitInv, RefusedThroughout, RefusalKept, WaitTypeOK
<1>12. DeathIsNoticed' BY DEF WaitInv, DeathIsNoticed, Noticed, WaitTypeOK, DeathKept, RestartKept
<1> QED BY <1>4, <1>5, <1>6, <1>7, <1>8, <1>9, <1>10, <1>11, <1>12 DEF WaitInv

\* What was not a refusal ends the row of refusals
LEMMA ProbeUnansweredKeeps ==
  ASSUME WaitInv, ProbeUnanswered
  PROVE  WaitInv'
<1>1. Round /\ used' = used BY DEF ProbeUnanswered
<1>2. at = "probing" /\ (at' = "late" \/ (at' = "looking" /\ spent' < Budget))
  BY <1>1, RoundIsKnown, GoesOnInTime DEF ProbeUnanswered
<1>3. UNCHANGED <<died, answer, boot, cmd, goal, before>> /\ refusing' = -1 /\ other' = spent'
  BY DEF ProbeUnanswered, guest, told
<1> USE RoundIsKnown, <1>1, <1>2, <1>3 DEF Alive
<1>4. WaitTypeOK' BY DEF WaitInv, WaitTypeOK, Ended, Waiting
<1>5. TimeKept' BY DEF WaitInv, TimeKept
<1>6. RefusalKept' BY DEF WaitInv, RefusalKept, WaitTypeOK
<1>7. DeathKept' BY DEF WaitInv, DeathKept, WaitTypeOK, TimeKept
<1>8. RestartKept' BY DEF WaitInv, RestartKept, WaitTypeOK
<1>9. RestartMeansRestarted' BY DEF WaitInv, RestartMeansRestarted, WaitTypeOK, RestartKept
<1>10. OnTime' BY DEF WaitInv, OnTime, TimeKept, RestartKept
<1>11. RefusedThroughout' BY DEF WaitInv, RefusedThroughout, RefusalKept, WaitTypeOK
<1>12. DeathIsNoticed' BY DEF WaitInv, DeathIsNoticed, Noticed, WaitTypeOK, DeathKept, RestartKept
<1> QED BY <1>4, <1>5, <1>6, <1>7, <1>8, <1>9, <1>10, <1>11, <1>12 DEF WaitInv

\* The first refusal of a row is later than anything else that was seen
LEMMA ProbeRefusedKeeps ==
  ASSUME WaitInv, ProbeRefused
  PROVE  WaitInv'
<1>1. Round /\ used' = used BY DEF ProbeRefused
<1>2. /\ at = "probing"
      /\ \/ at' = "refused" /\ spent' - refusing' >= Grace
         \/ at' = "late"
         \/ at' = "looking" /\ spent' < Budget
  BY <1>1, RoundIsKnown, GoesOnInTime DEF ProbeRefused
<1>3. refusing' = IF refusing = -1 THEN spent' ELSE refusing
  BY DEF ProbeRefused
<1>4. UNCHANGED <<died, answer, boot, cmd, goal, other, before>>
  BY DEF ProbeRefused, guest, told
<1> USE RoundIsKnown, <1>1, <1>2, <1>3, <1>4 DEF Alive
<1>5. WaitTypeOK' BY DEF WaitInv, WaitTypeOK, Ended, Waiting
<1>6. TimeKept' BY DEF WaitInv, TimeKept
<1>7. RefusalKept' BY DEF WaitInv, RefusalKept, WaitTypeOK
<1>8. DeathKept' BY DEF WaitInv, DeathKept, WaitTypeOK, TimeKept
<1>9. RestartKept' BY DEF WaitInv, RestartKept, WaitTypeOK
<1>10. RestartMeansRestarted' BY DEF WaitInv, RestartMeansRestarted, WaitTypeOK, RestartKept
<1>11. OnTime' BY DEF WaitInv, OnTime, TimeKept, RestartKept
<1>12. RefusedThroughout' BY DEF WaitInv, RefusedThroughout, RefusalKept, WaitTypeOK
<1>13. DeathIsNoticed' BY DEF WaitInv, DeathIsNoticed, Noticed, WaitTypeOK, DeathKept, RestartKept
<1> QED BY <1>5, <1>6, <1>7, <1>8, <1>9, <1>10, <1>11, <1>12, <1>13 DEF WaitInv

\* lume is asked under a deadline, and says that a guest has stopped
LEMMA AddressKeeps ==
  ASSUME WaitInv, Address
  PROVE  WaitInv'
<1>1. Round /\ used' = used BY DEF Address
<1>2. /\ at = "addressing"
      /\ \/ Alive /\ spent' <= Timeout /\ at' = "found"
         \/ spent' <= Timeout /\ at' = "dead"
         \/ at' = "late"
         \/ (Alive \/ spent = 0) /\ spent' < Timeout /\ at' = "addressing"
  BY DEF Address
<1>3. UNCHANGED <<died, answer, boot, cmd, goal, refusing, other, before>>
  BY DEF Address, guest, told
<1> USE RoundIsKnown, <1>1, <1>2, <1>3 DEF Alive
<1>4. WaitTypeOK' BY DEF WaitInv, WaitTypeOK, Ended, Waiting
<1>5. TimeKept' BY DEF WaitInv, TimeKept
<1>6. RefusalKept' BY DEF WaitInv, RefusalKept, WaitTypeOK
<1>7. DeathKept' BY DEF WaitInv, DeathKept, WaitTypeOK, TimeKept
<1>8. RestartKept' BY DEF WaitInv, RestartKept, WaitTypeOK
<1>9. RestartMeansRestarted' BY DEF WaitInv, RestartMeansRestarted, WaitTypeOK, RestartKept
<1>10. OnTime' BY DEF WaitInv, OnTime, TimeKept, RestartKept
<1>11. RefusedThroughout' BY DEF WaitInv, RefusedThroughout, RefusalKept, WaitTypeOK
<1>12. DeathIsNoticed'
  <2>1. used = 0 BY DEF WaitInv, TimeKept
  <2>2. died # -1 => spent - died <= Slow BY DEF WaitInv, DeathKept
  <2> QED BY <2>1, <2>2 DEF WaitInv, DeathIsNoticed, Noticed, WaitTypeOK
<1> QED BY <1>4, <1>5, <1>6, <1>7, <1>8, <1>9, <1>10, <1>11, <1>12 DEF WaitInv

\* Another marker is one of a later boot
LEMMA ReadKeeps ==
  ASSUME WaitInv, Read
  PROVE  WaitInv'
<1>1. Round /\ used' = used BY DEF Read
<1>2. /\ at = "reading"
      /\ \/ boot # before /\ at' \in {"desktop", "ready"} /\ (at' = "desktop" <=> goal = "desktop")
         \/ at' = "late"
         \/ at' = "watching" /\ spent' < Budget
  BY <1>1, RoundIsKnown, GoesOnInTime DEF Read, Onward, WaitInv, WaitTypeOK
<1>3. UNCHANGED <<died, answer, boot, cmd, goal, refusing, other, before>>
  BY DEF Read, guest, told
<1> USE RoundIsKnown, <1>1, <1>2, <1>3 DEF Alive
<1>4. WaitTypeOK' BY DEF WaitInv, WaitTypeOK, Ended, Waiting
<1>5. TimeKept' BY DEF WaitInv, TimeKept
<1>6. RefusalKept' BY DEF WaitInv, RefusalKept, WaitTypeOK
<1>7. DeathKept' BY DEF WaitInv, DeathKept, WaitTypeOK, TimeKept
<1>8. RestartKept' BY DEF WaitInv, RestartKept, WaitTypeOK
<1>9. RestartMeansRestarted' BY DEF WaitInv, RestartMeansRestarted, WaitTypeOK, RestartKept
<1>10. OnTime' BY DEF WaitInv, OnTime, TimeKept, RestartKept
<1>11. RefusedThroughout' BY DEF WaitInv, RefusedThroughout, RefusalKept, WaitTypeOK
<1>12. DeathIsNoticed' BY DEF WaitInv, DeathIsNoticed, Noticed, WaitTypeOK, DeathKept, RestartKept
<1> QED BY <1>4, <1>5, <1>6, <1>7, <1>8, <1>9, <1>10, <1>11, <1>12 DEF WaitInv

\* The desktop has what is left of the same timeout, and one round
LEMMA DesktopKeeps ==
  ASSUME WaitInv, Desktop
  PROVE  WaitInv'
<1>1. Round /\ used' = used BY DEF Desktop
<1>2. /\ at = "desktop"
      /\ \/ at' \in {"ready", "nobody"}
         \/ at' = "desktop" /\ spent' < Timeout
  BY <1>1, RoundIsKnown DEF Desktop
<1>3. UNCHANGED <<died, answer, boot, cmd, goal, refusing, other, before>>
  BY DEF Desktop, guest, told
<1> USE RoundIsKnown, <1>1, <1>2, <1>3 DEF Alive
<1>4. WaitTypeOK' BY DEF WaitInv, WaitTypeOK, Ended, Waiting
<1>5. TimeKept' BY DEF WaitInv, TimeKept
<1>6. RefusalKept' BY DEF WaitInv, RefusalKept, WaitTypeOK
<1>7. DeathKept' BY DEF WaitInv, DeathKept, WaitTypeOK, TimeKept
<1>8. RestartKept' BY DEF WaitInv, RestartKept, WaitTypeOK
<1>9. RestartMeansRestarted' BY DEF WaitInv, RestartMeansRestarted, WaitTypeOK, RestartKept
<1>10. OnTime' BY DEF WaitInv, OnTime, TimeKept, RestartKept
<1>11. RefusedThroughout' BY DEF WaitInv, RefusedThroughout, RefusalKept, WaitTypeOK
<1>12. DeathIsNoticed' BY DEF WaitInv, DeathIsNoticed, Noticed, WaitTypeOK, DeathKept, RestartKept
<1> QED BY <1>4, <1>5, <1>6, <1>7, <1>8, <1>9, <1>10, <1>11, <1>12 DEF WaitInv

-----------------------------------------------------------------------------
(* Theorems                                                                *)

LEMMA StepInv == WaitInv /\ [Next]_vars => WaitInv'
<1> SUFFICES ASSUME WaitInv, [Next]_vars PROVE WaitInv'
  OBVIOUS
<1>1. CASE Guest BY <1>1, GuestKeeps, DiesKeeps DEF Guest
<1>2. CASE Vitro
  BY <1>2, LookKeeps, RequestKeeps, OnwardKeeps, ProbeSucceedsKeeps, ProbeUnansweredKeeps,
     ProbeRefusedKeeps, AddressKeeps, ReadKeeps, DesktopKeeps DEF Vitro
<1>3. CASE Fails BY <1>3, OnwardKeeps
<1>4. CASE \E c \in Commands, g \in {"ssh", "desktop"} : Begin(c, g) BY <1>4, BeginKeeps
<1>5. CASE UNCHANGED vars
  <2> USE <1>5 DEF vars, guest, told
  <2>1. WaitTypeOK' BY DEF WaitInv, WaitTypeOK
  <2>2. TimeKept' /\ RefusalKept' BY DEF WaitInv, TimeKept, RefusalKept, Budget
  <2>3. DeathKept' /\ RestartKept' BY DEF WaitInv, DeathKept, RestartKept, Alive
  <2>4. RestartMeansRestarted' /\ OnTime' BY DEF WaitInv, RestartMeansRestarted, OnTime
  <2>5. RefusedThroughout' /\ DeathIsNoticed'
    BY DEF WaitInv, RefusedThroughout, DeathIsNoticed, Noticed, Alive
  <2> QED BY <2>1, <2>2, <2>3, <2>4, <2>5 DEF WaitInv
<1> QED BY <1>1, <1>2, <1>3, <1>4, <1>5 DEF Next

\* The invariant of every wait (ssh.rs:397-472, wait.rs:54-160, lume.rs:356-376)
THEOREM WaitInvariant == Spec => []WaitInv
<1> QED BY InitInv, StepInv, PTL DEF Spec

\* No wait takes longer than its timeout and a round for each of its two stages
THEOREM WaitsAreOnTime == Spec => []OnTime
<1>1. WaitInv => OnTime BY DEF WaitInv
<1> QED BY <1>1, WaitInvariant, PTL

\* restart returns only to a guest that has started since it was asked to
THEOREM RestartIsTrue == Spec => []RestartMeansRestarted
<1>1. WaitInv => RestartMeansRestarted BY DEF WaitInv
<1> QED BY <1>1, WaitInvariant, PTL

\* A guest is said to refuse the key only after the whole grace without anything
\* else from it
THEOREM RefusalIsTrue == Spec => []RefusedThroughout
<1>1. WaitInv => RefusedThroughout BY DEF WaitInv
<1> QED BY <1>1, WaitInvariant, PTL

\* A death is not reported as a timeout, but by a build
THEOREM DeathIsReported == Spec => []DeathIsNoticed
<1>1. WaitInv => DeathIsNoticed BY DEF WaitInv
<1> QED BY <1>1, WaitInvariant, PTL

-----------------------------------------------------------------------------
(* Both                                                                    *)

\* What is checked of the two together is what is proved of each: a wait and the
\* following of a job have no state in common.
THEOREM RemoteIsBoth == RemoteSpec => Spec /\ JobsSpec
<1>1. RemoteInit => Init /\ JobsInit
  BY DEF RemoteInit
<1>2. [RemoteNext]_<<does, vars, jobVars>> => [Next]_vars /\ [JobsNext]_jobVars
  BY DEF RemoteNext
<1> QED BY <1>1, <1>2, PTL DEF RemoteSpec, Spec, JobsSpec
=============================================================================
