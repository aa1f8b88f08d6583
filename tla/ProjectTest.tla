---------------------------- MODULE ProjectTest ----------------------------
(***************************************************************************)
(* vitro test (project.rs, commands/test.rs) up to the code the process    *)
(* exits with (main.rs): the images of vitro.toml, or those named, one     *)
(* after another, each in a VM of its own, and Ctrl-C in between           *)
(* (signals.rs).                                                           *)
(***************************************************************************)
EXTENDS Naturals, Sequences, SequencesExt

CONSTANTS
  ImageKeys,  \* what an image can be called
  Codes       \* exit codes commands end with in the guest: what an i32 holds

TestAssumption == Codes \subseteq Nat

VARIABLES
  file,      \* the project: its images, which have a command, and which fit the configuration
  test,      \* the command and its signals
  results,   \* how each image went, so far
  exit       \* the code the process exits with

testVars == <<file, test, results, exit>>

Shared == "every image"

-----------------------------------------------------------------------------
(* vitro.toml                                                              *)

\* command_for: the image's own, or the shared one
HasCommand(image) == image \in file.commands \/ Shared \in file.commands

\* parse: every image listed has a command, and there is one at all; no command is empty
Parses ==
  /\ file.empty = "no"
  /\ \A i \in DOMAIN file.images : HasCommand(file.images[i])
  /\ file.commands # {}

-----------------------------------------------------------------------------
(* test                                                                    *)

\* Those named win over the file's
TestImages == IF test.named = <<>> THEN file.images ELSE test.named

Fails(code) == /\ exit' = code /\ test' = [test EXCEPT !.at = "exited"]
               /\ UNCHANGED <<file, results>>

\* Before any VM starts, every image is checked
Checked ==
  TestImages # <<>> /\ \A i \in DOMAIN TestImages :
    TestImages[i] \in file.configured /\ HasCommand(TestImages[i])

Refuse == test.at = "starting" /\ ~(Parses /\ Checked) /\ Fails(1)

Start ==
  /\ test.at = "starting" /\ Parses /\ Checked
  /\ test' = [test EXCEPT !.at = "testing"]
  /\ UNCHANGED <<file, results, exit>>

Exited(code) == [how |-> "exited", code |-> code]
Outcomes == {Exited(c) : c \in Codes} \cup [how : {"did not start", "did not run"}, code : {0}]

\* One image: its VM does not start, its command cannot be run, or that exits.  run and
\* then fail when they notice the signal, but a command may end first; after either the
\* loop asks for it
TestOne ==
  /\ test.at = "testing" /\ Len(results) < Len(TestImages)
  /\ \E result \in Outcomes :
       /\ results' = Append(results, result)
       /\ test' = [test EXCEPT !.at =
            IF test.signals > 0 \/ Len(results) + 1 = Len(TestImages) THEN "done" ELSE "testing"]
  /\ UNCHANGED <<file, exit>>

Passed(result) == result = Exited(0)
CodeOf(result) == IF result.how = "exited" THEN result.code ELSE 1

\* exit_code: the first failure's
ExitCode ==
  LET failed == {i \in DOMAIN results : ~Passed(results[i])} IN
  IF failed = {} THEN 0 ELSE CodeOf(results[Min(failed)])

\* mutant: the code's low byte, as the system itself keeps it
LowByte(code) == code % 256

\* main: a code that a byte does not hold is a failure
ProcessCode(code) == IF code < 256 THEN code ELSE 1

Finish == test.at = "done" /\ Fails(ProcessCode(ExitCode))

\* The first is noticed; the second has the system's own answer
Signal ==
  /\ test.at \in {"testing", "done"}
  /\ test' = IF test.signals = 0 THEN [test EXCEPT !.signals = 1] ELSE [test EXCEPT !.at = "killed"]
  /\ UNCHANGED <<file, results, exit>>

-----------------------------------------------------------------------------
Init ==
  /\ \E images \in SeqOf(ImageKeys, 2), commands \in SUBSET (ImageKeys \cup {Shared}),
        configured \in SUBSET ImageKeys, empty \in {"yes", "no"} :
       file = [images |-> images, commands |-> commands, configured |-> configured, empty |-> empty]
  /\ \E named \in SeqOf(ImageKeys, 2) : test = [at |-> "starting", named |-> named, signals |-> 0]
  /\ results = <<>> /\ exit = 0

Next == Refuse \/ Start \/ TestOne \/ Finish \/ Signal

-----------------------------------------------------------------------------
\* vitro test exits with 0 only if every command it ran passed, and, unless it was
\* interrupted, only if it ran them all; with one image it exits with its command's code,
\* if a process can.
ExitTellsTruth ==
  test.at = "exited" =>
    /\ exit = 0 => /\ results # <<>> /\ \A i \in DOMAIN results : results[i] = Exited(0)
                   /\ test.signals = 0 => Len(results) = Len(TestImages)
    /\ \A c \in Codes : results = <<Exited(c)>> /\ Len(TestImages) = 1 /\ c < 256 => exit = c
=============================================================================
