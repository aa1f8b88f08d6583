------------------------------ MODULE Commands ------------------------------
(***************************************************************************)
(* The parts of vitro that share no state with one another, side by side:  *)
(* a behaviour is of one of them, its scene, and leaves the others Off.    *)
(***************************************************************************)
EXTENDS Naturals, Sequences

CONSTANTS
  Hands, Keys, Sizes, Resizes, Parts,              \* GuestInput
  Attempts, Mishaps,
  Hosts, MaxPacks, Absent, FileTrouble,            \* GuestFiles
  Sessions, MaxStarts,                             \* Naming, HostSetup
  VmNames, Images, Typed, Begins,                  \* Naming
  Symbols, Words, MaxWords, Values,                \* GuestShell
  Root, Git, Dirs, Files, Links, Holder, Above,    \* Archive
  Ignorable, Outside, Gone,
  MaxKeys, SetupTrouble,                           \* HostSetup
  MaxLacks,                                        \* Doctor
  ImageKeys, Codes                                 \* ProjectTest

VARIABLES
  scene,
  down, button, stuck, screen, hand,
  packs, archive, tree, script, host,
  started, vm, session,
  asked, line, ran,
  file, test, results, exit,
  leads, ignored, unread, todo, sent, left, at,
  key, made, given, image, config, wrote, ssh, user,
  raw, lacks, virt, supplied, said, runs, built

-----------------------------------------------------------------------------
Screen == INSTANCE GuestInput
Sent == INSTANCE GuestFiles
Names == INSTANCE Naming WITH Generated <- VmNames
Shell == INSTANCE GuestShell
Tests == INSTANCE ProjectTest
Walk == INSTANCE Archive
Setup == INSTANCE HostSetup WITH session <- user
Checkup == INSTANCE Doctor WITH ran <- runs

\* Every name here is one that run makes up.  None begins another one, and none is an
\* image's
NamesApart == \A n \in VmNames : Begins[n] = {n} /\ n \notin Images \cup {""}

ASSUME PartsAssumption ==
  /\ Screen!InputAssumption /\ Sent!FilesAssumption
  /\ Names!NamingAssumption /\ NamesApart /\ Shell!ShellAssumption
  /\ Tests!TestAssumption /\ Walk!ArchiveAssumption
  /\ Setup!SetupAssumption /\ Checkup!DoctorAssumption

-----------------------------------------------------------------------------
Off == "off"

ScreenOff == down = Off /\ button = Off /\ stuck = Off /\ screen = Off /\ hand = Off
SentOff == packs = Off /\ archive = Off /\ tree = Off /\ script = Off /\ host = Off
NamesOff == started = Off /\ vm = Off /\ session = Off
ShellOff == asked = Off /\ line = Off /\ ran = Off
TestsOff == file = Off /\ test = Off /\ results = Off /\ exit = Off
WalkOff == /\ leads = Off /\ ignored = Off /\ unread = Off /\ todo = Off
           /\ sent = Off /\ left = Off /\ at = Off
SetupOff == /\ key = Off /\ made = Off /\ given = Off /\ image = Off
            /\ config = Off /\ wrote = Off /\ ssh = Off /\ user = Off
CheckupOff == /\ raw = Off /\ lacks = Off /\ virt = Off /\ supplied = Off
              /\ said = Off /\ runs = Off /\ built = Off

Init ==
  /\ scene \in {"screen", "sent", "names", "shell", "tests", "walk", "setup", "checkup"}
  /\ IF scene = "screen" THEN Screen!Init ELSE ScreenOff
  /\ IF scene = "sent" THEN Sent!Init ELSE SentOff
  /\ IF scene = "names" THEN Names!Init ELSE NamesOff
  /\ IF scene = "shell" THEN Shell!Init ELSE ShellOff
  /\ IF scene = "tests" THEN Tests!Init ELSE TestsOff
  /\ IF scene = "walk" THEN Walk!Init ELSE WalkOff
  /\ IF scene = "setup" THEN Setup!Init ELSE SetupOff
  /\ IF scene = "checkup" THEN Checkup!Init ELSE CheckupOff

screenVars == <<down, button, stuck, screen, hand>>
sentVars == <<packs, archive, tree, script, host>>
namesVars == <<started, vm, session>>
shellVars == <<asked, line, ran>>
testsVars == <<file, test, results, exit>>
walkVars == <<leads, ignored, unread, todo, sent, left, at>>
setupVars == <<key, made, given, image, config, wrote, ssh, user>>
checkupVars == <<raw, lacks, virt, supplied, said, runs, built>>

vars == <<scene, screenVars, sentVars, namesVars, shellVars, testsVars, walkVars, setupVars,
          checkupVars>>

Next ==
  /\ UNCHANGED scene
  /\ IF scene = "screen" THEN Screen!Next ELSE UNCHANGED screenVars
  /\ IF scene = "sent" THEN Sent!Next ELSE UNCHANGED sentVars
  /\ IF scene = "names" THEN Names!Next ELSE UNCHANGED namesVars
  /\ IF scene = "shell" THEN Shell!Next ELSE UNCHANGED shellVars
  /\ IF scene = "tests" THEN Tests!Next ELSE UNCHANGED testsVars
  /\ IF scene = "walk" THEN Walk!Next ELSE UNCHANGED walkVars
  /\ IF scene = "setup" THEN Setup!Next ELSE UNCHANGED setupVars
  /\ IF scene = "checkup" THEN Checkup!Next ELSE UNCHANGED checkupVars

Spec == Init /\ [][Next]_vars

-----------------------------------------------------------------------------
\* Each part's properties, under the names it gives them.
HandsComeUp == scene = "screen" => Screen!HandsComeUp
PictureWhole == scene = "screen" => Screen!PictureWhole
RunsWhatWasSent == scene = "sent" => Sent!RunsWhatWasSent
ActsOnItsPick == scene = "names" => Names!ActsOnItsPick
ArrivesAsSent == scene = "shell" => Shell!ArrivesAsSent
ExitTellsTruth == scene = "tests" => Tests!ExitTellsTruth
SendsTheProject == scene = "walk" => Walk!SendsTheProject
ImageOpens == scene = "setup" => Setup!ImageOpens
DoctorIsRight == scene = "checkup" => Checkup!DoctorIsRight
=============================================================================
