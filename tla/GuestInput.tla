----------------------------- MODULE GuestInput -----------------------------
(***************************************************************************)
(* The screen, keyboard and mouse of a guest from outside (commands/gui.rs): *)
(* QEMU's monitor, one connection a call (qmp.rs), or lume's VNC server, one *)
(* session a command (vnc.rs).  What went down has to come up again.        *)
(***************************************************************************)
EXTENDS Naturals, Sequences

CONSTANTS
  Hands,     \* key, click, hover, drag and screenshot commands, on any host session
  Keys,      \* what --with and `vitro key` name
  Sizes,     \* of the screen
  Resizes,   \* bound: how often it changes
  Parts,     \* of a picture, as the server sends it
  Attempts,  \* CAPTURE_ATTEMPTS
  Mishaps    \* a subset of AllMishaps

\* refused: a call fails and nothing of it was done; lost: it was done, and only
\* its answer was lost; killed: the command is; partial: the server answers a request for
\* the whole screen with an update of less
AllMishaps == {"refused", "lost", "killed", "partial"}

InputAssumption ==
  /\ "button" \notin Keys
  /\ 0 \notin Sizes /\ Resizes \in Nat /\ Attempts \in Nat \ {0}
  /\ Mishaps \subseteq AllMishaps

VARIABLES
  down,     \* the keys that are down in the guest
  button,   \* the mouse's, "down" or "up"
  stuck,    \* what a call that would have let go of it, or the next one, was refused for
  screen,   \* its size and how often that changed
  hand      \* each command

inputVars == <<down, button, stuck, screen, hand>>

\* What a session knows of the screen: the size it was told, the one it asked for, whether
\* it was told another since, and what each part of the picture was drawn at, or 0
Blank == [p \in Parts |-> 0]
Unasked == [tries |-> 0, size |-> 0, asked |-> 0, resized |-> FALSE, picture |-> Blank]

Resting == [at |-> "idle", way |-> "none", keys |-> {}, todo |-> <<>>, cut |-> "no",
            shot |-> Unasked]

Moves(h, to) == hand' = [hand EXCEPT ![h].at = to]
Rests(h) == hand' = [hand EXCEPT ![h] = Resting]

-----------------------------------------------------------------------------
(* Calls                                                                   *)

\* QMP: an error is one call's.  VNC: it is the session's, whose later writes fail too
Answered(h) == hand[h].cut = "no"
Fails(h) == hand[h].cut = "yes" \/ "refused" \in Mishaps
Lost(h) == hand[h].way = "qmp" /\ "lost" \in Mishaps
Cut(h) == IF hand[h].way = "vnc" THEN "yes" ELSE "no"

-----------------------------------------------------------------------------
(* What a command does with the pointer                                    *)

Tap == <<"down", "up">>
Click == <<"move">> \o Tap
Actions == {<<>>, <<"move">>, Click, Click \o Tap, <<"move", "down", "move", "up">>}

\* Everything is read, and every point found to be on the screen, before the first call
Begin(h) ==
  /\ hand[h].at = "idle"
  /\ \E way \in {"qmp", "vnc"}, keys \in SUBSET Keys, todo \in Actions :
       /\ todo = <<>> => keys # {}
       /\ hand' = [hand EXCEPT ![h] = [Resting EXCEPT !.at = "pressing", !.way = way,
                                                      !.keys = keys, !.todo = todo]]
  /\ UNCHANGED <<down, button, stuck, screen>>

\* An error here is the command's: nothing lets go
Press(h) ==
  /\ hand[h].at = "pressing"
  /\ UNCHANGED <<button, screen>>
  /\ \/ /\ hand[h].keys = {} /\ Moves(h, "acting")
        /\ UNCHANGED <<down, stuck>>
     \/ /\ hand[h].keys # {} /\ Answered(h)
        /\ down' = down \cup hand[h].keys
        /\ Moves(h, "acting") /\ UNCHANGED stuck
     \/ /\ hand[h].keys # {} /\ Fails(h)
        /\ \E some \in SUBSET hand[h].keys :
             /\ hand[h].way = "qmp" => some = {}
             /\ down' = down \cup some /\ stuck' = stuck \cup some
        /\ Rests(h)
     \/ /\ hand[h].keys # {} /\ Lost(h)
        /\ down' = down \cup hand[h].keys /\ stuck' = stuck \cup hand[h].keys
        /\ Rests(h)

\* One move, press or release of the button
Done(h) ==
  /\ hand[h].at = "acting" /\ hand[h].todo # <<>> /\ Answered(h)
  /\ button' = IF Head(hand[h].todo) = "move" THEN button ELSE Head(hand[h].todo)
  /\ stuck' = IF button' = "up" THEN stuck \ {"button"} ELSE stuck
  /\ hand' = [hand EXCEPT ![h].todo = Tail(@)]
  /\ UNCHANGED <<down, screen>>

\* The button's next event is its release
LetsGo(todo) == \E i \in 1..Len(todo) : todo[i] = "up" /\ \A j \in 1..i : todo[j] # "down"
Owed(todo) == IF LetsGo(todo) THEN {"button"} ELSE {}

\* mutant: the error is returned first
BrokenAtOnce(h) ==
  /\ hand[h].at = "acting" /\ hand[h].todo # <<>> /\ Fails(h)
  /\ stuck' = stuck \cup Owed(hand[h].todo)
  /\ Rests(h)
  /\ UNCHANGED <<down, button, screen>>

\* The rest is not tried: a button that is down by then stays down
Broken(h) ==
  /\ hand[h].at = "acting" /\ hand[h].todo # <<>>
  /\ \/ Fails(h) /\ UNCHANGED button /\ stuck' = stuck \cup Owed(hand[h].todo)
     \/ /\ Lost(h) /\ button' = IF Head(hand[h].todo) = "move" THEN button ELSE Head(hand[h].todo)
        /\ stuck' = stuck \cup Owed(Tail(hand[h].todo))
  /\ hand' = [hand EXCEPT ![h].at = "releasing", ![h].todo = <<>>, ![h].cut = Cut(h)]
  /\ UNCHANGED <<down, screen>>

Acted(h) ==
  /\ hand[h].at = "acting" /\ hand[h].todo = <<>>
  /\ Moves(h, "releasing")
  /\ UNCHANGED <<down, button, stuck, screen>>

Release(h) ==
  /\ hand[h].at = "releasing"
  /\ UNCHANGED <<button, screen>>
  /\ \/ /\ Answered(h) \/ hand[h].keys = {}
        /\ down' = down \ hand[h].keys /\ stuck' = stuck \ hand[h].keys
     \/ Fails(h) /\ UNCHANGED down /\ stuck' = stuck \cup hand[h].keys
     \/ Lost(h) /\ down' = down \ hand[h].keys /\ stuck' = stuck \ hand[h].keys
  /\ Rests(h)

-----------------------------------------------------------------------------
(* screenshot, over VNC: QEMU writes its picture itself                    *)

Connect(h) ==
  /\ hand[h].at = "idle"
  /\ hand' = [hand EXCEPT ![h] = [Resting EXCEPT !.at = "asking", !.way = "vnc",
                                                  !.shot = [Unasked EXCEPT !.size = screen.size]]]
  /\ UNCHANGED <<down, button, stuck, screen>>

\* capture_once: for a picture of the size it was last told
Ask(h) ==
  /\ hand[h].at = "asking" /\ hand[h].shot.tries < Attempts
  /\ LET shot == hand[h].shot IN
     hand' = [hand EXCEPT ![h].at = "reading",
       ![h].shot = [tries |-> shot.tries + 1, size |-> shot.size, asked |-> shot.size,
                    resized |-> FALSE, picture |-> Blank]]
  /\ UNCHANGED <<down, button, stuck, screen>>

\* read_rectangle: the server says that the size is another before it draws at that one.
\* Rectangles that tell the same size, and messages between the updates, change nothing
Told(shot) == [shot EXCEPT !.size = screen.size, !.resized = TRUE, !.picture = Blank]

Rectangle(h) ==
  /\ hand[h].at = "reading"
  /\ LET shot == hand[h].shot IN
     \/ shot.size # screen.size /\ hand' = [hand EXCEPT ![h].shot = Told(shot)]
     \/ /\ shot.size = screen.size
        /\ \E p \in Parts : /\ shot.picture[p] = 0
                            /\ hand' = [hand EXCEPT ![h].shot.picture[p] = screen.size]
  /\ UNCHANGED <<down, button, stuck, screen>>

\* mutant: the size at the end is compared with the one asked for
ResizedAtLast(shot) == shot.size # shot.asked

Resized(shot) == shot.resized

\* The update ends: it has the whole screen, or told of another size
Updated(h) ==
  /\ hand[h].at = "reading"
  /\ \/ hand[h].shot.resized \/ "partial" \in Mishaps
     \/ \A p \in Parts : hand[h].shot.picture[p] # 0
  /\ Moves(h, IF Resized(hand[h].shot) THEN "asking" ELSE "drawn")
  /\ UNCHANGED <<down, button, stuck, screen>>

\* The file is written; or the screen kept changing, or the session broke
Shown(h) ==
  /\ \/ hand[h].at = "drawn"
     \/ hand[h].at = "asking" /\ hand[h].shot.tries = Attempts
     \/ hand[h].at \in {"asking", "reading"} /\ Fails(h)
  /\ Rests(h)
  /\ UNCHANGED <<down, button, stuck, screen>>

Resize ==
  /\ screen.changes < Resizes
  /\ \E size \in Sizes \ {screen.size} : screen' = [size |-> size, changes |-> screen.changes + 1]
  /\ UNCHANGED <<down, button, stuck, hand>>

-----------------------------------------------------------------------------
\* SIGKILL; an interrupt only sets a flag
Killed(h) ==
  /\ "killed" \in Mishaps /\ hand[h].at # "idle"
  /\ stuck' = IF hand[h].at = "pressing" THEN stuck
              ELSE stuck \cup hand[h].keys \cup Owed(hand[h].todo)
  /\ Rests(h)
  /\ UNCHANGED <<down, button, screen>>

Init ==
  /\ down = {} /\ button = "up" /\ stuck = {}
  /\ screen \in {[size |-> size, changes |-> 0] : size \in Sizes}
  /\ hand = [h \in Hands |-> Resting]

Next ==
  \/ Resize
  \/ \E h \in Hands :
       Begin(h) \/ Press(h) \/ Done(h) \/ Broken(h) \/ Acted(h) \/ Release(h)
         \/ Connect(h) \/ Ask(h) \/ Rectangle(h) \/ Updated(h) \/ Shown(h) \/ Killed(h)

-----------------------------------------------------------------------------
\* A key or the button is down only while a command holds it, whoever else
\* types meanwhile and whatever of the action failed (qmp.rs:161, vnc.rs:227);
\* or when the very call that lets go of it failed, or, of the button, a call
\* before that, which ends a drag or a click half way.
Holding(h) == hand[h].at \in {"acting", "releasing"}
HandsComeUp ==
  /\ \A k \in down : k \in stuck \/ \E h \in Hands : Holding(h) /\ k \in hand[h].keys
  /\ button = "down" => "button" \in stuck \/ \E h \in Hands : Holding(h) /\ LetsGo(hand[h].todo)

\* A picture is of one screen: all of it was drawn at the size it is written with, however
\* often the screen changed while the server drew it, there and back too (vnc.rs:325).
PictureWhole ==
  \A h \in Hands, p \in Parts :
    hand[h].at = "drawn" => hand[h].shot.picture[p] = hand[h].shot.asked
=============================================================================
