----------------------------- MODULE GuestShell -----------------------------
(***************************************************************************)
(* The one line that ssh carries for a command (ssh.rs, launch in gui.rs)  *)
(* and what the guest's shell makes of it: sshd hands a line, not words, to *)
(* a POSIX shell or to PowerShell.  A text is a sequence of symbols, of    *)
(* which a shell gives a meaning to some.                                  *)
(***************************************************************************)
EXTENDS Naturals, Sequences, SequencesExt

CONSTANTS
  Symbols,  \* what texts are made of
  Words,    \* the words of commands
  MaxWords, \* bound: the words of one command
  Values    \* what --cwd and --env are given

NoValue == <<"no value">>
Blank == " "
Semicolon == ";"
Detach == ">/dev/null 2>&1 &"  \* read by a shell as one

ShellAssumption ==
  /\ Words \cup Values \subseteq Seq(Symbols) /\ NoValue \notin Words \cup Values
  /\ MaxWords \in Nat

\* ssh.rs leaves a word of these alone, and quotes any other
Safe == {"N", "=", "cd", "sh", "-c", "nohup"}
\* Of these, what the names of variables are made of
NameParts == {"N", "cd", "sh", "nohup"}

VARIABLES
  asked,  \* how, and what for: the words, --cwd and --env
  line,   \* what ssh is given
  ran     \* what the guest's shell ran: commands, each of words

shellVars == <<asked, line, ran>>

-----------------------------------------------------------------------------
(* What vitro writes                                                       *)

IsSafe(word) == word # <<>> /\ \A i \in DOMAIN word : word[i] \in Safe

Replaced(word, by) == FlattenSeq([i \in DOMAIN word |-> IF word[i] = "'" THEN by ELSE <<word[i]>>])

\* mutant: quoted where there is a space
QuoteSpaces(word) ==
  IF word # <<>> /\ ~Contains(word, Blank) THEN word
  ELSE <<"'">> \o Replaced(word, <<"'", "\\", "'", "'">>) \o <<"'">>

\* A quote cannot be inside quotes: it is left, and entered again
Quote(word) ==
  IF IsSafe(word) THEN word ELSE <<"'">> \o Replaced(word, <<"'", "\\", "'", "'">>) \o <<"'">>

PowershellLiteral(word) == <<"'">> \o Replaced(word, <<"'", "'">>) \o <<"'">>

Joined(texts) ==
  FlattenSeq([i \in DOMAIN texts |-> IF i = 1 THEN texts[i] ELSE <<Blank>> \o texts[i]])
ShellJoin(words) == Joined([i \in DOMAIN words |-> Quote(words[i])])

ComposePosix(words, cwd, env) ==
  (IF cwd = NoValue THEN <<>> ELSE <<"cd", Blank>> \o Quote(cwd) \o <<Blank, "&&", Blank>>)
  \o (IF env = NoValue THEN <<>> ELSE <<"N", "=">> \o Quote(env) \o <<Blank>>)
  \o ShellJoin(words)

\* The words as they are
ComposeRaw(words, cwd, env) ==
  (IF cwd = NoValue THEN <<>>
   ELSE <<"Set-Location", Blank>> \o PowershellLiteral(cwd) \o <<Semicolon, Blank>>)
  \o (IF env = NoValue THEN <<>> ELSE <<"N", "=">> \o PowershellLiteral(env) \o <<Semicolon, Blank>>)
  \o Joined(words)

\* launch_command for a Unix guest: a line inside a line, which sets DISPLAY to :0
LaunchCommand(words) ==
  <<<<"sh">>, <<"-c">>,
    <<"N", "=", "N", Blank>> \o <<"nohup", Blank>> \o ShellJoin(words) \o <<Blank, Detach>>>>

-----------------------------------------------------------------------------
(* What a POSIX shell reads                                                *)

Between(words, commands) ==
  [shell |-> "posix", in |-> "gap", text |-> <<>>, plain |-> TRUE, sets |-> FALSE,
   words |-> words, commands |-> commands]

WordEnds(r) ==
  IF r.in = "gap" THEN r
  ELSE Between(Append(r.words, [text |-> r.text, sets |-> r.sets]), r.commands)

CommandEnds(r) == LET e == WordEnds(r) IN Between(<<>>, Append(e.commands, e.words))

Adds(r, c) == [r EXCEPT !.in = "word", !.text = Append(@, c)]

IsName(text) == text # <<>> /\ \A i \in DOMAIN text : text[i] \in NameParts

\* A plain name before = makes the word an assignment, if only such are before it
SetsHere(r, c) ==
  c = "=" /\ r.plain /\ IsName(r.text) /\ \A i \in DOMAIN r.words : r.words[i].sets

\* A symbol outside quotes
ReadsBare(r, c) ==
  CASE c = "'"            -> [r EXCEPT !.in = "quotes", !.plain = FALSE]
    [] c = "\\"           -> [r EXCEPT !.in = "escape", !.plain = FALSE]
    [] c = Blank          -> WordEnds(r)
    [] c \in {"&&", Detach} -> CommandEnds(r)
    [] c = "$"            -> Adds(r, "an expansion")
    [] OTHER              -> [Adds(r, c) EXCEPT !.sets = @ \/ SetsHere(r, c)]

PosixReads(r, c) ==
  CASE r.in = "quotes" -> IF c = "'" THEN [r EXCEPT !.in = "word"]
                          ELSE [r EXCEPT !.text = Append(@, c)]
    [] r.in = "escape" -> Adds(r, c)
    [] OTHER           -> ReadsBare(r, c)

\* What PowerShell takes for its first statements
PsAt(in, text, words) == [shell |-> "powershell", in |-> in, text |-> text, words |-> words]

PowershellBare(r, c) ==
  CASE c = "'"       -> PsAt("quotes", r.text, r.words)
    [] c = Semicolon -> PsAt("bare", <<>>, Append(r.words, r.text))
    [] c = Blank     -> PsAt("bare", r.text, r.words)
    [] OTHER         -> PsAt("bare", Append(r.text, c), r.words)

\* A quote that is doubled in quotes is one
PowershellReads(r, c) ==
  CASE r.in = "quotes"            -> IF c = "'" THEN PsAt("closed", r.text, r.words)
                                     ELSE PsAt("quotes", Append(r.text, c), r.words)
    [] r.in = "closed" /\ c = "'" -> PsAt("quotes", Append(r.text, c), r.words)
    [] OTHER                      -> PowershellBare(r, c)

Reads(r, c) == IF r.shell = "posix" THEN PosixReads(r, c) ELSE PowershellReads(r, c)

\* One symbol after the other
After(r, text) ==
  LET reading[n \in 0..Len(text)] == IF n = 0 THEN r ELSE Reads(reading[n - 1], text[n])
  IN  reading[Len(text)]

ShellReads(text) == CommandEnds(After(Between(<<>>, <<>>), text)).commands

Statements(text) == After(PsAt("bare", <<>>, <<>>), text).words

-----------------------------------------------------------------------------
Init ==
  /\ \E how \in {"exec", "raw", "launch"}, words \in UNION {[1..n -> Words] : n \in 1..MaxWords} :
       \E cwd, env \in IF how = "launch" THEN {NoValue} ELSE Values \cup {NoValue} :
         asked = [how |-> how, words |-> words, cwd |-> cwd, env |-> env]
  /\ line = <<>> /\ ran = <<>>

LineFor(a) ==
  CASE a.how = "exec"   -> ComposePosix(a.words, a.cwd, a.env)
    [] a.how = "raw"    -> ComposeRaw(a.words, a.cwd, a.env)
    [] a.how = "launch" -> ComposePosix(LaunchCommand(a.words), NoValue, NoValue)

\* sh -c has its own shell read the line it is given
ReadAs(how, text) ==
  CASE how = "exec"   -> ShellReads(text)
    [] how = "raw"    -> Statements(text)
    [] how = "launch" -> ShellReads(ShellReads(text)[1][3].text)

Send ==
  /\ line = <<>>
  /\ line' = LineFor(asked)
  /\ UNCHANGED <<asked, ran>>

Run ==
  /\ line # <<>> /\ ran = <<>>
  /\ ran' = ReadAs(asked.how, line)
  /\ UNCHANGED <<asked, line>>

Next == Send \/ Run

-----------------------------------------------------------------------------
Word(text) == [text |-> text, sets |-> FALSE]
Sets(text) == [text |-> <<"N", "=">> \o text, sets |-> TRUE]
\* Begins as NAME=
Assigns(word) == \E n \in DOMAIN word : word[n] = "=" /\ IsName(SubSeq(word, 1, n - 1))
Option(value, items) == IF value = NoValue THEN <<>> ELSE items

\* The guest's shell makes of the line the words, the directory and the variable that
\* were asked for, in one command and with nothing expanded; PowerShell the last two.
\* What launch starts is one command too, with its display and nothing else.
\* A first word that is a bare NAME=value is not one: the shell takes it for a variable.
ArrivesAsSent ==
  LET words == [i \in DOMAIN asked.words |-> Word(asked.words[i])]
      bare == IsSafe(asked.words[1]) /\ Assigns(asked.words[1])
  IN ran # <<>> =>
    /\ asked.how = "exec" /\ ~bare =>
         ran = Option(asked.cwd, <<<<Word(<<"cd">>), Word(asked.cwd)>>>>)
               \o <<Option(asked.env, <<Sets(asked.env)>>) \o words>>
    /\ asked.how = "launch" =>
         ran = <<<<Sets(<<"N">>), Word(<<"nohup">>)>> \o words, <<>>>>
    /\ asked.how = "raw" =>
         IsPrefix(Option(asked.cwd, <<<<"Set-Location">> \o asked.cwd>>)
                  \o Option(asked.env, <<<<"N", "=">> \o asked.env>>), ran)
=============================================================================
