--------------------------- MODULE CommandsProofs ---------------------------
(***************************************************************************)
(* The parts of vitro that share no state, for any number of sessions,     *)
(* keys, screens and archives.  Each has an inductive invariant of its     *)
(* own, and one lemma that says which steps keep it: a command's step      *)
(* makes one record of the command, and what the others rely on stays.     *)
(***************************************************************************)
EXTENDS Commands, WellFoundedInduction, TLAPS

-----------------------------------------------------------------------------
(* The keyboard, the pointer and the screen (GuestInput)                   *)

Moves == {"move", "down", "up"}

\* Whatever goes down comes up, later on
Balanced(acts) ==
  \A i \in 1..Len(acts) : acts[i] = "down" =>
    \E j \in 1..Len(acts) : i < j /\ acts[j] = "up" /\ \A k \in i + 1..j : acts[k] # "down"

\* After a press, or a move on the way to a release, a release is still next
LEMMA LetsGoOn ==
  ASSUME NEW acts \in Seq(Moves), acts # <<>>, Balanced(acts),
         Head(acts) = "down" \/ (Head(acts) = "move" /\ Screen!LetsGo(acts))
  PROVE  Screen!LetsGo(Tail(acts))
<1> DEFINE rest == Tail(acts)
<1>1. /\ Len(acts) \in Nat /\ Len(acts) >= 1 /\ Len(rest) = Len(acts) - 1
      /\ \A i \in 1..Len(rest) : rest[i] = acts[i + 1]
      /\ Head(acts) = acts[1]
  OBVIOUS
<1>2. PICK j \in 1..Len(acts) : 1 < j /\ acts[j] = "up" /\ \A k \in 2..j : acts[k] # "down"
  <2>1. CASE Head(acts) = "down"
    BY <1>1, <2>1 DEF Balanced
  <2>2. CASE Head(acts) = "move" /\ Screen!LetsGo(acts)
    BY <1>1, <2>2 DEF Screen!LetsGo
  <2> QED BY <2>1, <2>2
<1>3. j - 1 \in 1..Len(rest) /\ rest[j - 1] = "up"
  BY <1>1, <1>2
<1>4. \A k \in 1..(j - 1) : rest[k] # "down"
  BY <1>1, <1>2
<1> QED BY <1>3, <1>4 DEF Screen!LetsGo

\* What is left of a balanced action is balanced
LEMMA BalancedTail ==
  ASSUME NEW acts \in Seq(Moves), acts # <<>>, Balanced(acts)
  PROVE  Tail(acts) \in Seq(Moves) /\ Balanced(Tail(acts))
<1> DEFINE rest == Tail(acts)
<1>1. /\ Len(acts) \in Nat /\ Len(rest) = Len(acts) - 1 /\ rest \in Seq(Moves)
      /\ \A i \in 1..Len(rest) : rest[i] = acts[i + 1]
  OBVIOUS
<1> HIDE DEF rest
<1>2. ASSUME NEW i \in 1..Len(rest), rest[i] = "down"
      PROVE  \E j \in 1..Len(rest) : i < j /\ rest[j] = "up" /\ \A k \in i + 1..j : rest[k] # "down"
  <2>1. i + 1 \in 1..Len(acts) /\ acts[i + 1] = "down"
    BY <1>1, <1>2
  <2>2. PICK j \in 1..Len(acts) : i + 1 < j /\ acts[j] = "up" /\ \A k \in (i + 1) + 1..j : acts[k] # "down"
    BY <2>1 DEF Balanced
  <2>3. j - 1 \in 1..Len(rest) /\ i < j - 1 /\ rest[j - 1] = "up"
    BY <1>1, <2>2
  <2>4. ASSUME NEW k \in i + 1..j - 1 PROVE rest[k] # "down"
    <3>1. k \in 1..Len(rest) /\ k + 1 \in (i + 1) + 1..j
      BY <1>1, <2>2, <2>4
    <3> QED BY <1>1, <2>2, <3>1
  <2> QED BY <2>3, <2>4
<1> QED BY <1>1, <1>2 DEF Balanced, rest

\* Every action of the pointer is made of moves, presses and releases, and balanced
LEMMA ActionsBalanced ==
  ASSUME NEW acts \in Screen!Actions
  PROVE  acts \in Seq(Moves) /\ Balanced(acts)
<1>1. acts \in {<<>>, <<"move">>, <<"move", "down", "up">>, <<"move", "down", "up", "down", "up">>,
                <<"move", "down", "move", "up">>}
  BY DEF Screen!Actions, Screen!Click, Screen!Tap
<1>2. CASE acts = <<>>
  BY <1>2 DEF Balanced, Moves
<1>3. CASE acts = <<"move">>
  BY <1>3 DEF Balanced, Moves
<1>4. CASE acts = <<"move", "down", "up">>
  BY <1>4 DEF Balanced, Moves
<1>5. CASE acts = <<"move", "down", "up", "down", "up">>
  BY <1>5 DEF Balanced, Moves
<1>6. CASE acts = <<"move", "down", "move", "up">>
  BY <1>6 DEF Balanced, Moves
<1> QED BY <1>1, <1>2, <1>3, <1>4, <1>5, <1>6

Pictures == [Parts -> Sizes \cup {0}]
Shots ==
  [tries : Nat, size : Sizes \cup {0}, asked : Sizes \cup {0}, resized : BOOLEAN, picture : Pictures]
Hand ==
  [at : {"idle", "pressing", "acting", "releasing", "asking", "reading", "drawn"},
   way : {"none", "qmp", "vnc"}, keys : SUBSET Keys, todo : Seq(Moves), cut : {"no", "yes"}, shot : Shots]

\* Until the server tells of another size, what it draws is of the size that was asked for
Steady(shot) == shot.size = shot.asked /\ \A p \in Parts : shot.picture[p] \in {0, shot.asked}

HandOK(s) ==
  /\ s \in Hand /\ Balanced(s.todo)
  /\ s.at = "reading" => s.shot.resized \/ Steady(s.shot)
  /\ s.at = "drawn" => "partial" \in Mishaps \/ \A p \in Parts : s.shot.picture[p] = s.shot.asked
  /\ s.at = "releasing" => s.todo = <<>>

InputInv ==
  /\ down \subseteq Keys /\ stuck \subseteq Keys \cup {"button"} /\ button \in {"up", "down"}
  /\ screen \in [size : Sizes, changes : Nat]
  /\ hand \in [Hands -> Hand] /\ \A h \in Hands : HandOK(hand[h])
  /\ Screen!HandsComeUp

Holds(s) == s.at \in {"acting", "releasing"}

\* What a step that makes s of a command leaves down, the command still holds, or a
\* call that would have let go of it was refused, or it is another's
Accounted(h, s) ==
  /\ down' \subseteq Keys /\ stuck' \subseteq Keys \cup {"button"} /\ button' \in {"up", "down"}
  /\ HandOK(s) /\ hand' = [hand EXCEPT ![h] = s]
  /\ screen' = screen
  /\ \A k \in down' :
       \/ k \in stuck' \/ (Holds(s) /\ k \in s.keys)
       \/ k \in down \ stuck /\ ~(Holds(hand[h]) /\ k \in hand[h].keys)
  /\ button' = "down" =>
       \/ "button" \in stuck' \/ (Holds(s) /\ Screen!LetsGo(s.todo))
       \/ button = "down" /\ "button" \notin stuck /\ ~(Holds(hand[h]) /\ Screen!LetsGo(hand[h].todo))

\* A step that accounts for what it leaves down keeps the invariant
LEMMA AccountedKeeps ==
  ASSUME InputInv, NEW h \in Hands, NEW s, Accounted(h, s)
  PROVE  InputInv'
<1>1. /\ hand \in [Hands -> Hand] /\ s \in Hand /\ hand' \in [Hands -> Hand] /\ hand'[h] = s
      /\ \A g \in Hands \ {h} : hand'[g] = hand[g]
  BY DEF InputInv, Accounted, HandOK
<1>2. \A g \in Hands : HandOK(hand'[g])
  BY <1>1 DEF InputInv, Accounted
<1>3. ASSUME NEW k \in down', k \notin stuck'
      PROVE  \E g \in Hands : Holds(hand'[g]) /\ k \in hand'[g].keys
  <2>1. CASE Holds(s) /\ k \in s.keys
    BY <1>1, <2>1
  <2>2. CASE k \in down \ stuck /\ ~(Holds(hand[h]) /\ k \in hand[h].keys)
    <3>1. PICK g \in Hands : Holds(hand[g]) /\ k \in hand[g].keys
      BY <2>2 DEF InputInv, Screen!HandsComeUp, Screen!Holding, Holds
    <3> QED BY <1>1, <2>2, <3>1
  <2> QED BY <1>3, <2>1, <2>2 DEF Accounted
<1>4. ASSUME button' = "down", "button" \notin stuck'
      PROVE  \E g \in Hands : Holds(hand'[g]) /\ Screen!LetsGo(hand'[g].todo)
  <2>1. CASE Holds(s) /\ Screen!LetsGo(s.todo)
    BY <1>1, <2>1
  <2>2. CASE button = "down" /\ "button" \notin stuck /\ ~(Holds(hand[h]) /\ Screen!LetsGo(hand[h].todo))
    <3>1. PICK g \in Hands : Holds(hand[g]) /\ Screen!LetsGo(hand[g].todo)
      BY <2>2 DEF InputInv, Screen!HandsComeUp, Screen!Holding, Holds
    <3> QED BY <1>1, <2>2, <3>1
  <2> QED BY <1>4, <2>1, <2>2 DEF Accounted
<1>5. Screen!HandsComeUp'
  BY <1>3, <1>4 DEF Screen!HandsComeUp, Screen!Holding, Holds
<1> QED BY <1>1, <1>2, <1>5 DEF InputInv, Accounted

\* A command that does nothing holds nothing
LEMMA RestingOK ==
  /\ HandOK(Screen!Resting) /\ ~Holds(Screen!Resting) /\ Screen!Resting \in Hand
<1>1. <<>> \in Seq(Moves) /\ Balanced(<<>>)
  BY DEF Balanced
<1>2. Screen!Resting \in Hand
  <2>1. Screen!Unasked \in Shots
    BY DEF Shots, Pictures, Screen!Unasked, Screen!Blank
  <2> QED BY <1>1, <2>1 DEF Hand, Screen!Resting
<1>3. Screen!Resting.at = "idle" /\ Screen!Resting.todo = <<>>
  BY DEF Screen!Resting
<1> QED BY <1>1, <1>2, <1>3 DEF HandOK, Holds

\* Every step of a command accounts for what it leaves down
LEMMA InputStep ==
  ASSUME PartsAssumption, InputInv, NEW h \in Hands,
         Screen!Begin(h) \/ Screen!Press(h) \/ Screen!Done(h) \/ Screen!Broken(h) \/ Screen!Acted(h)
           \/ Screen!Release(h) \/ Screen!Connect(h) \/ Screen!Ask(h) \/ Screen!Rectangle(h)
           \/ Screen!Updated(h) \/ Screen!Shown(h) \/ Screen!Killed(h)
  PROVE  InputInv'
<1> DEFINE was == hand[h]
<1>0. /\ hand \in [Hands -> Hand] /\ was \in Hand /\ HandOK(was) /\ "button" \notin Keys
      /\ down \subseteq Keys /\ stuck \subseteq Keys \cup {"button"} /\ button \in {"up", "down"}
      /\ screen \in [size : Sizes, changes : Nat]
  BY DEF InputInv, PartsAssumption, Screen!InputAssumption
<1>f. /\ was.keys \subseteq Keys /\ was.todo \in Seq(Moves) /\ Balanced(was.todo)
      /\ was.shot \in Shots
      /\ was.at = "releasing" => was.todo = <<>>
  BY <1>0 DEF Hand, HandOK
<1>s. ASSUME NEW stage \in {"asking", "reading", "drawn"}, NEW shot \in Shots,
             was.at \in {"asking", "reading"},
             UNCHANGED <<down, button, stuck, screen>>,
             hand' = [hand EXCEPT ![h] = [was EXCEPT !.at = stage, !.shot = shot]],
             stage = "reading" => shot.resized \/ Steady(shot),
             stage = "drawn" => "partial" \in Mishaps \/ \A p \in Parts : shot.picture[p] = shot.asked
      PROVE  \E s : Accounted(h, s)
  <2> DEFINE s == [was EXCEPT !.at = stage, !.shot = shot]
  <2>1. s \in Hand /\ s.at = stage /\ s.shot = shot /\ s.todo = was.todo
    BY <1>0, <1>s DEF Hand
  <2>2. HandOK(s) /\ ~Holds(s) /\ ~Holds(was)
    BY <1>f, <1>s, <2>1 DEF HandOK, Holds
  <2> HIDE DEF s
  <2>3. Accounted(h, s)
    BY <1>0, <1>s, <2>2 DEF Accounted, s
  <2> QED BY <2>3
<1> SUFFICES \E s : Accounted(h, s)
  BY AccountedKeeps
<1>1. CASE Screen!Begin(h)
  <2>1. PICK way \in {"qmp", "vnc"}, keys \in SUBSET Keys, acts \in Screen!Actions :
          hand' = [hand EXCEPT ![h] = [Screen!Resting EXCEPT !.at = "pressing", !.way = way,
                                                             !.keys = keys, !.todo = acts]]
    BY <1>1 DEF Screen!Begin
  <2> DEFINE s == [Screen!Resting EXCEPT !.at = "pressing", !.way = way, !.keys = keys, !.todo = acts]
  <2>2. s \in Hand /\ s.at = "pressing" /\ s.todo = acts
    BY RestingOK, ActionsBalanced DEF Hand
  <2>3. HandOK(s) /\ ~Holds(s)
    BY <2>2, ActionsBalanced DEF HandOK, Holds
  <2>4. was.at = "idle" /\ UNCHANGED <<down, button, stuck, screen>>
    BY <1>1 DEF Screen!Begin
  <2> HIDE DEF s
  <2>5. Accounted(h, s)
    BY <1>0, <2>1, <2>3, <2>4 DEF Accounted, Holds, s
  <2> QED BY <2>5
<1>2. CASE Screen!Press(h)
  <2>0. was.at = "pressing" /\ ~Holds(was) /\ UNCHANGED <<button, screen>>
    BY <1>2 DEF Screen!Press, Holds
  <2> DEFINE s == [was EXCEPT !.at = "acting"]
  <2>1. /\ s \in Hand /\ s.at = "acting" /\ s.keys = was.keys /\ s.todo = was.todo
    BY <1>0 DEF Hand
  <2>2. HandOK(s) /\ Holds(s)
    BY <1>f, <2>1 DEF HandOK, Holds
  <2> HIDE DEF s
  <2>3. CASE hand[h].keys = {} /\ Screen!Moves(h, "acting") /\ UNCHANGED <<down, stuck>>
    <3>1. hand' = [hand EXCEPT ![h] = s]
      BY <1>0, <2>3 DEF Screen!Moves, s
    <3>2. Accounted(h, s)
      BY <1>0, <2>0, <2>2, <2>3, <3>1 DEF Accounted
    <3> QED BY <3>2
  <2>4. CASE down' = down \cup hand[h].keys /\ Screen!Moves(h, "acting") /\ UNCHANGED stuck
    <3>1. hand' = [hand EXCEPT ![h] = s]
      BY <1>0, <2>4 DEF Screen!Moves, s
    <3>2. down' = down \cup s.keys /\ down' \subseteq Keys
      BY <1>0, <1>f, <2>1, <2>4
    <3>3. Accounted(h, s)
      BY <1>0, <2>0, <2>2, <2>4, <3>1, <3>2 DEF Accounted
    <3> QED BY <3>3
  <2>5. CASE \E some \in SUBSET hand[h].keys :
               down' = down \cup some /\ stuck' = stuck \cup some /\ Screen!Rests(h)
    <3>1. PICK some \in SUBSET hand[h].keys :
            down' = down \cup some /\ stuck' = stuck \cup some /\ Screen!Rests(h)
      BY <2>5
    <3>2. hand' = [hand EXCEPT ![h] = Screen!Resting]
      BY <3>1 DEF Screen!Rests
    <3>3. some \subseteq Keys /\ "button" \notin some
      BY <1>0, <1>f, <3>1
    <3>4. Accounted(h, Screen!Resting)
      BY <1>0, <2>0, <3>1, <3>2, <3>3, RestingOK DEF Accounted
    <3> QED BY <3>4
  <2>6. CASE down' = down \cup hand[h].keys /\ stuck' = stuck \cup hand[h].keys /\ Screen!Rests(h)
    BY <2>5, <2>6
  <2> QED BY <1>2, <2>3, <2>4, <2>5, <2>6 DEF Screen!Press
<1>3. CASE Screen!Done(h)
  <2> DEFINE s == [was EXCEPT !.todo = Tail(@)]
  <2>0. /\ was.at = "acting" /\ was.todo # <<>> /\ UNCHANGED <<down, screen>>
        /\ button' = IF Head(was.todo) = "move" THEN button ELSE Head(was.todo)
        /\ stuck' = IF button' = "up" THEN stuck \ {"button"} ELSE stuck
        /\ hand' = [hand EXCEPT ![h] = s]
    BY <1>0, <1>3 DEF Screen!Done
  <2>1. Tail(was.todo) \in Seq(Moves) /\ Balanced(Tail(was.todo)) /\ Head(was.todo) \in Moves
    BY <1>f, <2>0, BalancedTail
  <2>2. s \in Hand /\ s.at = "acting" /\ s.keys = was.keys /\ s.todo = Tail(was.todo)
    BY <1>0, <2>0, <2>1 DEF Hand
  <2>3. HandOK(s) /\ Holds(s) /\ Holds(was)
    BY <2>0, <2>1, <2>2 DEF HandOK, Holds
  <2> HIDE DEF s
  <2>4. button' \in {"up", "down"} /\ stuck' \subseteq Keys \cup {"button"}
    BY <1>0, <2>0, <2>1 DEF Moves
  <2>5. \A k \in down' : \/ k \in stuck' \/ (Holds(s) /\ k \in s.keys)
                         \/ k \in down \ stuck /\ ~(Holds(was) /\ k \in was.keys)
    <3>1. \A k \in Keys : k \in stuck => k \in stuck'
      BY <1>0, <2>0
    <3>2. down' = down /\ down \subseteq Keys
      BY <1>0, <2>0
    <3>3. s.keys = was.keys /\ Holds(s)
      BY <2>2, <2>3
    <3> QED BY <3>1, <3>2, <3>3
  <2>6. ASSUME button' = "down"
        PROVE  \/ "button" \in stuck' \/ Screen!LetsGo(s.todo)
               \/ button = "down" /\ "button" \notin stuck /\ ~Screen!LetsGo(was.todo)
    <3>1. CASE Head(was.todo) = "down"
      BY <1>f, <2>0, <2>2, <3>1, LetsGoOn
    <3>2. CASE Head(was.todo) = "move" /\ Screen!LetsGo(was.todo)
      BY <1>f, <2>0, <2>2, <3>2, LetsGoOn
    <3>3. CASE Head(was.todo) = "move" /\ ~Screen!LetsGo(was.todo)
      BY <2>0, <2>6, <3>3
    <3> QED BY <2>0, <2>1, <2>6, <3>1, <3>2, <3>3 DEF Moves
  <2>7. Accounted(h, s)
    BY <1>0, <2>0, <2>3, <2>4, <2>5, <2>6 DEF Accounted
  <2> QED BY <2>7
<1>4. CASE Screen!Broken(h)
  <2> DEFINE s == [was EXCEPT !.at = "releasing", !.todo = <<>>, !.cut = Screen!Cut(h)]
  <2>0. /\ was.at = "acting" /\ was.todo # <<>> /\ UNCHANGED <<down, screen>>
        /\ hand' = [hand EXCEPT ![h] = s]
    BY <1>0, <1>4 DEF Screen!Broken
  <2>1. <<>> \in Seq(Moves) /\ Balanced(<<>>) /\ Screen!Cut(h) \in {"no", "yes"}
    BY DEF Balanced, Screen!Cut
  <2>2. s \in Hand /\ s.at = "releasing" /\ s.keys = was.keys /\ s.todo = <<>>
    BY <1>0, <2>1 DEF Hand
  <2>3. HandOK(s) /\ Holds(s) /\ Holds(was)
    BY <2>0, <2>1, <2>2 DEF HandOK, Holds
  <2> HIDE DEF s
  <2>4. CASE UNCHANGED button /\ stuck' = stuck \cup Screen!Owed(was.todo)
    <3>1. Accounted(h, s)
      BY <1>0, <2>0, <2>2, <2>3, <2>4 DEF Accounted, Screen!Owed
    <3> QED BY <3>1
  <2>5. CASE /\ button' = IF Head(was.todo) = "move" THEN button ELSE Head(was.todo)
             /\ stuck' = stuck \cup Screen!Owed(Tail(was.todo))
    <3>1. Head(was.todo) \in Moves
      BY <1>f, <2>0
    <3>2. button' \in {"up", "down"} /\ stuck' \subseteq Keys \cup {"button"} /\ stuck \subseteq stuck'
      BY <1>0, <2>5, <3>1 DEF Moves, Screen!Owed
    <3>3. ASSUME button' = "down"
          PROVE  \/ "button" \in stuck'
                 \/ button = "down" /\ "button" \notin stuck /\ ~Screen!LetsGo(was.todo)
      <4>1. CASE Head(was.todo) = "down"
        BY <1>f, <2>0, <2>5, <4>1, LetsGoOn DEF Screen!Owed
      <4>2. CASE Head(was.todo) = "move" /\ Screen!LetsGo(was.todo)
        BY <1>f, <2>0, <2>5, <4>2, LetsGoOn DEF Screen!Owed
      <4>3. CASE Head(was.todo) = "move" /\ ~Screen!LetsGo(was.todo)
        BY <2>5, <3>2, <3>3, <4>3
      <4> QED BY <2>5, <3>1, <3>3, <4>1, <4>2, <4>3 DEF Moves
    <3>4. Accounted(h, s)
      BY <1>0, <2>0, <2>2, <2>3, <3>2, <3>3 DEF Accounted
    <3> QED BY <3>4
  <2> QED BY <1>4, <2>4, <2>5 DEF Screen!Broken
<1>5. CASE Screen!Acted(h)
  <2> DEFINE s == [was EXCEPT !.at = "releasing"]
  <2>0. /\ was.at = "acting" /\ was.todo = <<>> /\ UNCHANGED <<down, button, stuck, screen>>
        /\ hand' = [hand EXCEPT ![h] = s]
    BY <1>0, <1>5 DEF Screen!Acted, Screen!Moves
  <2>2. s \in Hand /\ s.at = "releasing" /\ s.keys = was.keys /\ s.todo = was.todo
    BY <1>0 DEF Hand
  <2>3. HandOK(s) /\ Holds(s) /\ Holds(was)
    BY <1>f, <2>0, <2>2 DEF HandOK, Holds
  <2> HIDE DEF s
  <2>4. Accounted(h, s)
    BY <1>0, <2>0, <2>2, <2>3 DEF Accounted
  <2> QED BY <2>4
<1>6. CASE Screen!Release(h)
  <2>0. /\ was.at = "releasing" /\ Holds(was) /\ UNCHANGED <<button, screen>>
        /\ hand' = [hand EXCEPT ![h] = Screen!Resting]
        /\ \/ down' = down \ was.keys /\ stuck' = stuck \ was.keys
           \/ UNCHANGED down /\ stuck' = stuck \cup was.keys
    BY <1>6 DEF Screen!Release, Screen!Rests, Holds
  <2>1. "button" \in stuck' <=> "button" \in stuck
    BY <1>0, <1>f, <2>0
  <2>2. ~Screen!LetsGo(was.todo)
    BY <1>f, <2>0 DEF Screen!LetsGo
  <2>3. down' \subseteq Keys /\ stuck' \subseteq Keys \cup {"button"}
    BY <1>0, <1>f, <2>0
  <2>4. \A k \in down' : k \in stuck' \/ (k \in down \ stuck /\ ~(Holds(was) /\ k \in was.keys))
    BY <2>0
  <2>5. Accounted(h, Screen!Resting)
    BY <1>0, <2>0, <2>1, <2>2, <2>3, <2>4, RestingOK DEF Accounted
  <2> QED BY <2>5
<1>7. CASE Screen!Connect(h)
  <2>1. PICK shot : shot = [Screen!Unasked EXCEPT !.size = screen.size]
    OBVIOUS
  <2>2. shot \in Shots
    BY <1>0, <2>1 DEF Shots, Pictures, Screen!Unasked, Screen!Blank
  <2> DEFINE s == [Screen!Resting EXCEPT !.at = "asking", !.way = "vnc", !.shot = shot]
  <2>3. /\ was.at = "idle" /\ UNCHANGED <<down, button, stuck, screen>>
        /\ hand' = [hand EXCEPT ![h] = s]
    BY <1>7, <2>1 DEF Screen!Connect
  <2>4. s \in Hand /\ s.at = "asking" /\ s.todo = <<>>
    BY <2>2, RestingOK DEF Hand, Screen!Resting
  <2>5. HandOK(s) /\ ~Holds(s) /\ ~Holds(was)
    BY <2>3, <2>4 DEF HandOK, Holds, Balanced
  <2> HIDE DEF s
  <2>6. Accounted(h, s)
    BY <1>0, <2>3, <2>5 DEF Accounted
  <2> QED BY <2>6
<1>8. CASE Screen!Ask(h)
  <2> DEFINE shot == [tries |-> was.shot.tries + 1, size |-> was.shot.size, asked |-> was.shot.size,
                      resized |-> FALSE, picture |-> Screen!Blank]
  <2>1. /\ was.at = "asking" /\ UNCHANGED <<down, button, stuck, screen>>
        /\ hand' = [hand EXCEPT ![h] = [was EXCEPT !.at = "reading", !.shot = shot]]
    BY <1>0, <1>8 DEF Screen!Ask
  <2>2. shot \in Shots
    BY <1>f DEF Shots, Pictures, Screen!Blank
  <2>3. Steady(shot)
    BY DEF Steady, Screen!Blank
  <2> HIDE DEF shot
  <2> QED BY <1>s, <2>1, <2>2, <2>3
<1>9. CASE Screen!Rectangle(h)
  <2>1. was.at = "reading" /\ UNCHANGED <<down, button, stuck, screen>> /\ screen.size \in Sizes
    BY <1>0, <1>9 DEF Screen!Rectangle
  <2>2. CASE hand' = [hand EXCEPT ![h].shot = Screen!Told(was.shot)]
    <3>1. PICK shot : shot = Screen!Told(was.shot)
      OBVIOUS
    <3>2. shot \in Shots /\ shot.resized
      BY <1>f, <2>1, <3>1 DEF Screen!Told, Shots, Pictures, Screen!Blank
    <3>3. hand' = [hand EXCEPT ![h] = [was EXCEPT !.at = "reading", !.shot = shot]]
      BY <1>0, <2>1, <2>2, <3>1 DEF Hand
    <3> QED BY <1>s, <2>1, <3>2, <3>3
  <2>3. CASE /\ was.shot.size = screen.size
             /\ \E p \in Parts : hand' = [hand EXCEPT ![h].shot.picture[p] = screen.size]
    <3>1. PICK p \in Parts : hand' = [hand EXCEPT ![h].shot.picture[p] = screen.size]
      BY <2>3
    <3>2. PICK picture : picture = [was.shot.picture EXCEPT ![p] = screen.size]
      OBVIOUS
    <3>3. PICK shot : shot = [was.shot EXCEPT !.picture = picture]
      OBVIOUS
    <3>4. picture \in Pictures /\ \A q \in Parts : picture[q] \in {was.shot.picture[q], screen.size}
      BY <1>f, <2>1, <3>2 DEF Shots, Pictures
    <3>5. /\ shot \in Shots /\ shot.picture = picture /\ shot.asked = was.shot.asked
          /\ shot.size = was.shot.size /\ shot.resized = was.shot.resized
      BY <1>f, <3>3, <3>4 DEF Shots
    <3>6. shot.resized \/ Steady(shot)
      BY <1>0, <2>1, <2>3, <3>4, <3>5 DEF HandOK, Steady
    <3>7. hand' = [hand EXCEPT ![h] = [was EXCEPT !.at = "reading", !.shot = shot]]
      BY <1>0, <2>1, <3>1, <3>2, <3>3 DEF Hand
    <3> QED BY <1>s, <2>1, <3>5, <3>6, <3>7
  <2> QED BY <1>9, <2>2, <2>3 DEF Screen!Rectangle
<1>11. CASE Screen!Updated(h)
  <2>1. PICK stage \in {"asking", "drawn"} :
          /\ stage = IF Screen!Resized(was.shot) THEN "asking" ELSE "drawn"
          /\ hand' = [hand EXCEPT ![h].at = stage]
    BY <1>11 DEF Screen!Updated, Screen!Moves
  <2>2. /\ was.at = "reading" /\ UNCHANGED <<down, button, stuck, screen>>
        /\ was.shot.resized \/ "partial" \in Mishaps \/ \A p \in Parts : was.shot.picture[p] # 0
    BY <1>11 DEF Screen!Updated
  <2>3. stage = "drawn" => "partial" \in Mishaps \/ \A p \in Parts : was.shot.picture[p] = was.shot.asked
    BY <1>0, <2>1, <2>2 DEF Screen!Resized, HandOK, Steady
  <2>4. hand' = [hand EXCEPT ![h] = [was EXCEPT !.at = stage, !.shot = was.shot]]
    BY <1>0, <2>1 DEF Hand
  <2> QED BY <1>f, <1>s, <2>1, <2>2, <2>3, <2>4
<1>12. CASE Screen!Shown(h)
  <2>1. /\ was.at \in {"drawn", "asking", "reading"} /\ UNCHANGED <<down, button, stuck, screen>>
        /\ hand' = [hand EXCEPT ![h] = Screen!Resting]
    BY <1>12 DEF Screen!Shown, Screen!Rests
  <2>2. Accounted(h, Screen!Resting)
    BY <1>0, <2>1, RestingOK DEF Accounted, Holds
  <2> QED BY <2>2
<1>10. CASE Screen!Killed(h)
  <2>1. /\ UNCHANGED <<down, button, screen>>
        /\ hand' = [hand EXCEPT ![h] = Screen!Resting]
        /\ stuck' = IF was.at = "pressing" THEN stuck
                    ELSE stuck \cup was.keys \cup Screen!Owed(was.todo)
    BY <1>10 DEF Screen!Killed, Screen!Rests
  <2>2. stuck \subseteq stuck' /\ stuck' \subseteq Keys \cup {"button"}
    BY <1>0, <1>f, <2>1 DEF Screen!Owed
  <2>3. Holds(was) => was.keys \subseteq stuck' /\ (Screen!LetsGo(was.todo) => "button" \in stuck')
    BY <2>1 DEF Holds, Screen!Owed
  <2>4. Accounted(h, Screen!Resting)
    BY <1>0, <2>1, <2>2, <2>3, RestingOK DEF Accounted
  <2> QED BY <2>4
<1> QED BY <1>1, <1>2, <1>3, <1>4, <1>5, <1>6, <1>7, <1>8, <1>9, <1>10, <1>11, <1>12

\* At first nothing is down
LEMMA InputInit ==
  ASSUME Screen!Init
  PROVE  InputInv
<1>1. down = {} /\ button = "up" /\ stuck = {} /\ screen \in [size : Sizes, changes : Nat]
  BY DEF Screen!Init
<1>2. hand \in [Hands -> Hand] /\ \A h \in Hands : HandOK(hand[h])
  BY RestingOK DEF Screen!Init
<1> QED BY <1>1, <1>2 DEF InputInv, Screen!HandsComeUp

\* Nor does a change of the screen, or a step of another part, disturb that
LEMMA InputNext ==
  ASSUME PartsAssumption, InputInv, Screen!Next \/ UNCHANGED screenVars
  PROVE  InputInv'
<1>1. CASE Screen!Resize
  <2>1. screen' \in [size : Sizes, changes : Nat] /\ UNCHANGED <<down, button, stuck, hand>>
    BY <1>1 DEF InputInv, Screen!Resize
  <2> QED BY <2>1 DEF InputInv, Screen!HandsComeUp, Screen!Holding, HandOK
<1>2. CASE UNCHANGED screenVars
  BY <1>2 DEF InputInv, Screen!HandsComeUp, Screen!Holding, HandOK, screenVars
<1> QED BY <1>1, <1>2, InputStep DEF Screen!Next

\* The invariant holds what the two properties say
LEMMA InputSafe ==
  ASSUME InputInv
  PROVE  Screen!HandsComeUp /\ ("partial" \notin Mishaps => Screen!PictureWhole)
BY DEF InputInv, HandOK, Screen!PictureWhole

ScreenInv == scene = "screen" => InputInv

\* The invariant of the keyboard and the screen, of the whole
THEOREM InputStands == Spec => []ScreenInv
<1>1. Init => ScreenInv
  BY InputInit DEF Init, ScreenInv
<1>2. ScreenInv /\ [Next]_vars => ScreenInv'
  BY InputNext, PartsAssumption DEF ScreenInv, Next, vars
<1> QED BY <1>1, <1>2, PTL DEF Spec

\* A key or the button is down only while a command holds it, or when a call that
\* would have let go of it was refused: of any commands, keys and actions, whichever
\* calls fail, lose their answer or end with the command (qmp.rs, vnc.rs).
THEOREM WhatGoesDownComesUp == Spec => []HandsComeUp
<1>1. ScreenInv => HandsComeUp
  BY InputSafe DEF ScreenInv, HandsComeUp
<1> QED BY <1>1, InputStands, PTL

\* Every part of a picture was drawn at the size that it is written with, however often the
\* screen changes while the server draws it and whatever else it tells, as long as an update
\* that tells of no change has the whole screen, as asked (capture_once, read_rectangle).
THEOREM PicturesAreWhole ==
  ASSUME "partial" \notin Mishaps
  PROVE  Spec => []PictureWhole
<1>1. ScreenInv => PictureWhole
  BY InputSafe DEF ScreenInv, PictureWhole
<1> QED BY <1>1, InputStands, PTL

-----------------------------------------------------------------------------
(* What exec, run and test put into a guest (GuestFiles)                   *)

Archives == {Absent} \cup [of : Nat, state : {"part", "whole"}]
Scripts == {Absent, "part", "whole"}
Hosting ==
  [at : {"idle", "packing", "sending", "filling", "unpacking", "copying", "ready", "running"},
   sync : {"yes", "no"}, script : {"yes", "no"}, cwd : {"yes", "no"}, packed : Nat,
   told : {"nothing", "notsent", "255", "prelude", "code"}]

InSync(s) == s.sync = "yes" /\ s.at \in {"sending", "filling", "unpacking", "copying", "ready"}

\* What a command s with script x knows of the archive a and the tree t of the guest
SentOK(s, x, a, t) ==
  /\ s \in Hosting /\ x \in Scripts
  /\ s.at \in {"packing", "sending", "filling", "unpacking"} => s.sync = "yes"
  /\ s.at = "filling" /\ a # Absent => a.of = s.packed
  /\ s.at = "unpacking" /\ a # Absent /\ a.state = "whole" => a.of = s.packed
  /\ s.at \in {"copying", "ready"} /\ s.sync = "yes" => t = s.packed
  /\ s.at = "ready" /\ s.script = "yes" => x = "whole"
  /\ s.at = "idle" /\ x # Absent => s.told \in {"notsent", "255", "prelude"}

SentInv ==
  /\ packs \in Nat /\ archive \in Archives /\ tree \in Nat
  /\ script \in [Hosts -> Scripts] /\ host \in [Hosts -> Hosting]
  /\ \A h \in Hosts : SentOK(host[h], script[h], archive, tree)
  /\ \A g, h \in Hosts : InSync(host[g]) /\ InSync(host[h]) => g = h

\* A step of h that makes s and x of it: it touches the archive and the tree only
\* while no other command is between its archive and its command
Sends(h, s, x) ==
  /\ packs' \in Nat /\ archive' \in Archives /\ tree' \in Nat
  /\ host' = [host EXCEPT ![h] = s] /\ script' = [script EXCEPT ![h] = x]
  /\ SentOK(s, x, archive', tree')
  /\ InSync(host[h]) \/ UNCHANGED <<archive, tree>>
  /\ InSync(s) => InSync(host[h]) \/ \A g \in Hosts \ {h} : ~InSync(host[g])

\* A step that keeps to its turn keeps the invariant, for the other commands too
LEMMA SendsKeeps ==
  ASSUME SentInv, NEW h \in Hosts, NEW s, NEW x, Sends(h, s, x)
  PROVE  SentInv'
<1>1. /\ s \in Hosting /\ x \in Scripts
      /\ host' \in [Hosts -> Hosting] /\ host'[h] = s /\ \A g \in Hosts \ {h} : host'[g] = host[g]
      /\ script' \in [Hosts -> Scripts] /\ script'[h] = x
      /\ \A g \in Hosts \ {h} : script'[g] = script[g]
  BY DEF SentInv, Sends, SentOK
<1>2. \A g1, g2 \in Hosts : InSync(host'[g1]) /\ InSync(host'[g2]) => g1 = g2
  BY <1>1 DEF SentInv, Sends
<1>3. ASSUME NEW g \in Hosts \ {h} PROVE SentOK(host[g], script[g], archive', tree')
  <2>1. SentOK(host[g], script[g], archive, tree)
    BY DEF SentInv
  <2>2. CASE UNCHANGED <<archive, tree>>
    BY <2>1, <2>2
  <2>3. CASE InSync(host[h])
    <3>1. ~InSync(host[g])
      BY <2>3 DEF SentInv
    <3>2. /\ host[g].at \notin {"filling", "unpacking"}
          /\ host[g].at \in {"copying", "ready"} => host[g].sync # "yes"
      BY <2>1, <3>1 DEF SentOK, InSync
    <3> QED BY <2>1, <3>2 DEF SentOK
  <2> QED BY <2>2, <2>3 DEF Sends
<1>4. \A g \in Hosts : SentOK(host'[g], script'[g], archive', tree')
  BY <1>1, <1>3 DEF Sends
<1> QED BY <1>1, <1>2, <1>4 DEF SentInv, Sends

\* A command that does nothing relies on nothing
LEMMA SentRestingOK ==
  ASSUME NEW a, NEW t
  PROVE  SentOK(Sent!Resting, Absent, a, t) /\ Sent!Resting \in Hosting /\ ~InSync(Sent!Resting)
<1>1. Sent!Resting \in Hosting /\ Sent!Resting.at = "idle" /\ Sent!Resting.told = "nothing"
  BY DEF Sent!Resting, Hosting
<1>2. Absent \in Scripts
  BY DEF Scripts
<1> QED BY <1>1, <1>2 DEF SentOK, InSync

\* Every step of a command keeps to its turn, where syncs do not overlap
LEMMA SentStep ==
  ASSUME "overlap" \notin FileTrouble, SentInv, NEW h \in Hosts,
         Sent!Begin(h) \/ Sent!Pack(h) \/ Sent!Open(h) \/ Sent!Filled(h) \/ Sent!SendFails(h)
           \/ Sent!Unpack(h) \/ Sent!UnpackFails(h) \/ Sent!CopyScript(h) \/ Sent!RunIt(h)
           \/ Sent!PreludeFails(h) \/ Sent!Exits(h) \/ Sent!CutOff(h)
  PROVE  SentInv'
<1> DEFINE was == host[h]
           had == script[h]
<1>0. /\ host \in [Hosts -> Hosting] /\ was \in Hosting
      /\ script \in [Hosts -> Scripts] /\ had \in Scripts /\ script = [script EXCEPT ![h] = had]
      /\ packs \in Nat /\ archive \in Archives /\ tree \in Nat
      /\ SentOK(was, had, archive, tree)
  BY DEF SentInv
<1>a. /\ was.packed \in Nat /\ was.sync \in {"yes", "no"} /\ was.script \in {"yes", "no"}
      /\ was.at \in {"packing", "sending", "filling", "unpacking"} => was.sync = "yes"
  BY <1>0 DEF Hosting, SentOK
<1>b. Absent \in Scripts /\ Absent \in Archives /\ "part" \in Scripts /\ "whole" \in Scripts
  BY DEF Scripts, Archives
<1>c. \A a \in Archives : a # Absent =>
        /\ a.of \in Nat /\ a.state \in {"part", "whole"}
        /\ [a EXCEPT !.state = "whole"] \in Archives
        /\ [a EXCEPT !.state = "whole"].of = a.of
  BY DEF Archives
<1>d. ASSUME NEW to \in {"filling", "unpacking", "copying", "ready", "running"}
      PROVE  LET s == [was EXCEPT !.at = to] IN
             s \in Hosting /\ s.at = to /\ s.sync = was.sync /\ s.script = was.script /\ s.packed = was.packed
  BY <1>0 DEF Hosting
<1>e. ASSUME NEW told \in {"notsent", "255", "prelude", "code"}
      PROVE  LET s == [was EXCEPT !.at = "idle", !.told = told] IN
             s \in Hosting /\ s.at = "idle" /\ s.told = told /\ ~InSync(s)
  BY <1>0 DEF Hosting, InSync
<1>f. ASSUME NEW told \in {"notsent", "255", "prelude", "code"}, Sent!Ends(h, told), NEW x \in Scripts,
             script' = [script EXCEPT ![h] = x], told = "code" => x = Absent,
             packs' \in Nat, archive' \in Archives, tree' \in Nat,
             InSync(host[h]) \/ UNCHANGED <<archive, tree>>
      PROVE  SentInv'
  <2> DEFINE s == [was EXCEPT !.at = "idle", !.told = told]
  <2>1. s \in Hosting /\ s.at = "idle" /\ s.told = told /\ ~InSync(s)
    BY <1>e
  <2>2. host' = [host EXCEPT ![h] = s]
    BY <1>0, <1>f DEF Sent!Ends
  <2> HIDE DEF s
  <2>3. SentOK(s, x, archive', tree')
    BY <1>f, <2>1 DEF SentOK
  <2> QED BY <1>f, <2>1, <2>2, <2>3, SendsKeeps DEF Sends
<1>g. ASSUME NEW to \in {"filling", "unpacking", "copying", "ready", "running"}, Sent!Moves(h, to),
             NEW x \in Scripts, script' = [script EXCEPT ![h] = x],
             packs' \in Nat, archive' \in Archives, tree' \in Nat,
             InSync(host[h]) \/ UNCHANGED <<archive, tree>>,
             was.sync = "yes" => InSync(was) \/ to = "running",
             to \in {"filling", "unpacking"} => was.sync = "yes",
             to = "filling" /\ archive' # Absent => archive'.of = was.packed,
             to = "unpacking" /\ archive' # Absent /\ archive'.state = "whole" => archive'.of = was.packed,
             to \in {"copying", "ready"} /\ was.sync = "yes" => tree' = was.packed,
             to = "ready" /\ was.script = "yes" => x = "whole"
      PROVE  SentInv'
  <2> DEFINE s == [was EXCEPT !.at = to]
  <2>1. s \in Hosting /\ s.at = to /\ s.sync = was.sync /\ s.script = was.script /\ s.packed = was.packed
    BY <1>d
  <2>2. host' = [host EXCEPT ![h] = s]
    BY <1>0, <1>g DEF Sent!Moves
  <2> HIDE DEF s
  <2>3. SentOK(s, x, archive', tree')
    BY <1>g, <2>1 DEF SentOK
  <2>4. InSync(s) => InSync(host[h])
    BY <1>g, <2>1 DEF InSync
  <2> QED BY <1>g, <2>1, <2>2, <2>3, <2>4, SendsKeeps DEF Sends
<1>1. CASE Sent!Begin(h)
  <2>1. PICK s1, x1, c1 \in {"yes", "no"} :
          host' = [host EXCEPT ![h] = [Sent!Resting EXCEPT
            !.at = IF s1 = "yes" THEN "packing" ELSE "copying", !.sync = s1, !.script = x1, !.cwd = c1]]
    BY <1>1 DEF Sent!Begin
  <2> DEFINE s == [Sent!Resting EXCEPT
                     !.at = IF s1 = "yes" THEN "packing" ELSE "copying", !.sync = s1, !.script = x1,
                     !.cwd = c1]
  <2>2. s \in Hosting /\ s.sync = s1 /\ s.at = IF s1 = "yes" THEN "packing" ELSE "copying"
    BY <2>1 DEF Sent!Resting, Hosting
  <2> HIDE DEF s
  <2>3. ~InSync(s) /\ \A a, t : SentOK(s, Absent, a, t)
    BY <1>b, <2>1, <2>2 DEF InSync, SentOK
  <2>4. host' = [host EXCEPT ![h] = s] /\ script' = [script EXCEPT ![h] = Absent]
        /\ UNCHANGED <<packs, archive, tree>>
    BY <1>1, <2>1 DEF Sent!Begin, s
  <2> QED BY <1>0, <2>3, <2>4, SendsKeeps DEF Sends
<1>2. CASE Sent!Pack(h)
  <2> DEFINE more == packs + 1
             s == [was EXCEPT !.at = "sending", !.packed = more]
  <2>1. /\ was.at = "packing" /\ packs' = more /\ host' = [host EXCEPT ![h] = s]
        /\ \A g \in Hosts \ {h} : ~Sent!Syncing(g)
        /\ UNCHANGED <<archive, tree, script>>
    BY <1>0, <1>2 DEF Sent!Pack
  <2>2. more \in Nat
    BY <1>0
  <2> HIDE DEF more
  <2>3. s \in Hosting /\ s.at = "sending" /\ s.sync = was.sync
    BY <1>0, <2>2 DEF Hosting
  <2> HIDE DEF s
  <2>4. SentOK(s, had, archive, tree)
    BY <1>0, <1>a, <2>1, <2>3 DEF SentOK
  <2>5. \A g \in Hosts \ {h} : ~InSync(host[g])
    BY <2>1 DEF Sent!Syncing, InSync
  <2> QED BY <1>0, <2>1, <2>2, <2>4, <2>5, SendsKeeps DEF Sends
<1>3. CASE Sent!Open(h)
  <2>1. /\ was.at = "sending" /\ archive' = [of |-> was.packed, state |-> "part"]
        /\ Sent!Moves(h, "filling") /\ UNCHANGED <<packs, tree, script>>
    BY <1>3 DEF Sent!Open
  <2>2. InSync(was) /\ was.sync = "yes"
    BY <1>a, <2>1 DEF InSync
  <2>3. archive' \in Archives /\ archive'.of = was.packed
    BY <1>a, <2>1 DEF Archives
  <2> QED BY <1>0, <1>g, <2>1, <2>2, <2>3
<1>4. CASE Sent!Filled(h)
  <2>1. /\ was.at = "filling" /\ Sent!Moves(h, "unpacking") /\ UNCHANGED <<packs, tree, script>>
        /\ archive' = IF archive # Absent /\ archive.of = was.packed
                      THEN [archive EXCEPT !.state = "whole"] ELSE archive
    BY <1>4 DEF Sent!Filled
  <2>2. InSync(was) /\ was.sync = "yes"
    BY <1>a, <2>1 DEF InSync
  <2>3. archive # Absent => archive.of = was.packed
    BY <1>0, <2>1 DEF SentOK
  <2>4. archive' \in Archives /\ (archive' # Absent => archive'.of = was.packed)
    BY <1>0, <1>c, <2>1, <2>3
  <2> QED BY <1>0, <1>g, <2>1, <2>2, <2>4
<1>5. CASE Sent!SendFails(h)
  BY <1>0, <1>5, <1>f DEF Sent!SendFails
<1>6. CASE Sent!Unpack(h)
  <2>1. /\ was.at = "unpacking" /\ archive # Absent /\ archive.state = "whole"
        /\ tree' = archive.of /\ archive' = Absent
        /\ Sent!Moves(h, "copying") /\ UNCHANGED <<packs, script>>
    BY <1>6 DEF Sent!Unpack
  <2>2. InSync(was) /\ was.sync = "yes"
    BY <1>a, <2>1 DEF InSync
  <2>3. tree' = was.packed /\ tree' \in Nat
    BY <1>0, <1>a, <2>1 DEF SentOK
  <2> QED BY <1>0, <1>b, <1>g, <2>1, <2>2, <2>3
<1>7. CASE Sent!UnpackFails(h)
  <2>1. /\ was.at = "unpacking" /\ Sent!Ends(h, "notsent") /\ UNCHANGED <<packs, script>>
        /\ tree' \in {tree} \cup (IF archive = Absent THEN {}
                          ELSE {0} \cup IF archive.state = "whole" THEN {archive.of} ELSE {})
        /\ archive' \in {archive} \cup IF archive # Absent /\ tree' = archive.of THEN {Absent} ELSE {}
    BY <1>7 DEF Sent!UnpackFails
  <2>2. InSync(was)
    BY <1>a, <2>1 DEF InSync
  <2>3. tree' \in Nat /\ archive' \in Archives
    <3>1. archive # Absent => archive.of \in Nat
      BY <1>0, <1>c
    <3>2. tree' \in {tree, 0} \/ (archive # Absent /\ tree' = archive.of)
      BY <2>1
    <3>3. archive' \in {archive, Absent}
      BY <2>1
    <3> QED BY <1>0, <1>b, <3>1, <3>2, <3>3
  <2> QED BY <1>0, <1>f, <2>1, <2>2, <2>3
<1>8. CASE Sent!CopyScript(h)
  <2>0. was.at = "copying" /\ UNCHANGED <<packs, archive, tree>>
    BY <1>8 DEF Sent!CopyScript
  <2>1. was.sync = "yes" => InSync(was) /\ tree = was.packed
    BY <1>0, <2>0 DEF InSync, SentOK
  <2>2. CASE was.script = "yes" /\ script' = [script EXCEPT ![h] = "whole"] /\ Sent!Moves(h, "ready")
    BY <1>0, <1>b, <1>g, <2>0, <2>1, <2>2
  <2>3. CASE was.script = "no" /\ UNCHANGED script /\ Sent!Moves(h, "ready")
    BY <1>0, <1>b, <1>g, <2>0, <2>1, <2>3
  <2>4. CASE script' = [script EXCEPT ![h] = "part"] /\ Sent!Ends(h, "notsent")
    BY <1>0, <1>b, <1>f, <2>0, <2>4
  <2> QED BY <1>8, <2>2, <2>3, <2>4 DEF Sent!CopyScript
<1>9. CASE Sent!RunIt(h)
  <2>1. UNCHANGED <<packs, archive, tree, script>>
    BY <1>9 DEF Sent!RunIt
  <2>2. CASE Sent!Moves(h, "running")
    BY <1>0, <1>g, <2>1, <2>2
  <2>3. CASE Sent!Ends(h, "255")
    BY <1>0, <1>f, <2>1, <2>3
  <2> QED BY <1>9, <2>2, <2>3 DEF Sent!RunIt
<1>10. CASE Sent!Exits(h)
  BY <1>0, <1>10, <1>b, <1>f DEF Sent!Exits
<1>12. CASE Sent!PreludeFails(h)
  BY <1>0, <1>12, <1>f DEF Sent!PreludeFails
<1>11. CASE Sent!CutOff(h)
  <2>1. PICK x \in Scripts : script' = [script EXCEPT ![h] = x]
    BY <1>0, <1>11, <1>b DEF Sent!CutOff
  <2> QED BY <1>0, <1>11, <1>f, <2>1 DEF Sent!CutOff
<1> QED BY <1>1, <1>2, <1>3, <1>4, <1>5, <1>6, <1>7, <1>8, <1>9, <1>10, <1>11, <1>12

\* At first nothing is sent
LEMMA SentInit ==
  ASSUME Sent!Init
  PROVE  SentInv
<1>1. packs \in Nat /\ archive \in Archives /\ tree \in Nat /\ Absent \in Scripts
  BY DEF Sent!Init, Archives, Scripts
<1>2. \A h \in Hosts : host[h] = Sent!Resting /\ script[h] = Absent
  BY DEF Sent!Init
<1>3. script \in [Hosts -> Scripts] /\ host \in [Hosts -> Hosting]
  BY <1>1, SentRestingOK DEF Sent!Init
<1> QED BY <1>1, <1>2, <1>3, SentRestingOK DEF SentInv

SceneSent == scene = "sent" => SentInv

\* The invariant of what is sent, of the whole, where syncs do not overlap
THEOREM SentStands ==
  ASSUME "overlap" \notin FileTrouble
  PROVE  Spec => []SceneSent
<1>1. Init => SceneSent
  BY SentInit DEF Init, SceneSent
<1>2. ASSUME SentInv, Sent!Next \/ UNCHANGED sentVars
      PROVE  SentInv'
  <2>1. CASE UNCHANGED sentVars
    BY <1>2, <2>1 DEF SentInv, sentVars
  <2> QED BY <1>2, <2>1, SentStep DEF Sent!Next
<1>3. SceneSent /\ [Next]_vars => SceneSent'
  BY <1>2 DEF SceneSent, Next, vars
<1> QED BY <1>1, <1>3, PTL DEF Spec

\* A command finds the project as it was when the command was given, and its script
\* whole, whichever connection breaks and whenever, as long as no sync begins before
\* another one's command has begun: they share the name of the archive (sync.rs).
THEOREM CommandsRunWhatWasSent ==
  ASSUME "overlap" \notin FileTrouble
  PROVE  Spec => []RunsWhatWasSent
<1>1. SceneSent => RunsWhatWasSent
  BY DEF SceneSent, SentInv, SentOK, RunsWhatWasSent, Sent!RunsWhatWasSent
<1> QED BY <1>1, SentStands, PTL

-----------------------------------------------------------------------------
(* The VM a name means (Naming)                                            *)

\* Of the names here, none begins another one, and none is an image's
LEMMA NamesDiffer ==
  \A n \in VmNames : n \in Typed /\ Begins[n] = {n} /\ n \notin Images \cup {""}
BY PartsAssumption DEF PartsAssumption, NamesApart, Names!NamingAssumption

Vms == [state : {"none", "gone", "running", "dead", "unreadable"}, image : Images \cup {""}, id : Nat]
Namings == [at : {"idle", "picked", "using", "removing"}, name : VmNames \cup {""}, id : Nat, got : Nat]

\* A name has meant the VM that session s picked, or none, since it was picked
NamingOK(s, v) ==
  /\ s \in Namings /\ s.got \in {0, s.id}
  /\ s.at # "idle" =>
       /\ s.name \in VmNames /\ v[s.name].state # "none"
       /\ v[s.name].state # "gone" => v[s.name].id = s.id

NamesInv ==
  /\ started \in Nat /\ vm \in [VmNames -> Vms] /\ session \in [Sessions -> Namings]
  /\ \A n \in VmNames : vm[n].state = "gone" => vm[n].id = 0
  /\ \A s \in Sessions : NamingOK(session[s], vm)

\* A name means itself: exactly the VM of that name, if there is one
LEMMA ResolvesItself ==
  ASSUME NamesInv, NEW m \in VmNames, NEW n, Names!Resolves(m, n)
  PROVE  n = m /\ m \in Names!Known
<1>1. \A k \in VmNames : vm[k].image # m
  BY NamesDiffer DEF NamesInv, Vms
<1>2. Names!FromImage(m) = {}
  BY <1>1 DEF Names!FromImage, Names!Known
<1>3. CASE m \in Names!Known
  BY <1>3 DEF Names!Resolves, Names!Fitting
<1>4. CASE m \notin Names!Known
  <2>1. Names!Known \cap Begins[m] = {}
    BY <1>4, NamesDiffer
  <2> QED BY <1>2, <1>4, <2>1 DEF Names!Resolves, Names!Fitting
<1> QED BY <1>3, <1>4

\* What a word means is a VM that there is
LEMMA ResolvesKnown ==
  ASSUME NEW w, NEW n, Names!Resolves(w, n)
  PROVE  n \in Names!Known
BY DEF Names!Resolves, Names!Fitting, Names!FromImage

\* A VM that runs is one that there is
LEMMA RunningKnown ==
  /\ Names!Running \subseteq Names!Known
  /\ \A n \in Names!Known : n \in VmNames /\ vm[n].state \notin {"none", "gone"}
BY DEF Names!Running, Names!Known

\* What is picked is a VM that there is
LEMMA PickedKnown ==
  ASSUME NEW n, Names!ResolvesOrSole(n) \/ Names!SplitsOff(n)
  PROVE  n \in Names!Known
<1>1. CASE Names!Running = {n}
  BY <1>1, RunningKnown
<1>2. CASE \E w \in Typed : Names!Resolves(w, n)
  BY <1>2, ResolvesKnown
<1> QED BY <1>1, <1>2 DEF Names!ResolvesOrSole, Names!SplitsOff

\* A step only ends VMs, or gives a name that never was one's to a new one
VmsKept(v) ==
  /\ v \in [VmNames -> Vms]
  /\ \A n \in VmNames : v[n].state = "gone" => v[n].id = 0
  /\ \A n \in VmNames : vm[n].state # "none" =>
       v[n].state # "none" /\ (v[n].state # "gone" => vm[n].state # "gone" /\ v[n].id = vm[n].id)

\* What a name means to one session stays so while VMs only end
LEMMA NamesKeeps ==
  ASSUME NamesInv, started' \in Nat, VmsKept(vm'),
         UNCHANGED session \/ \E s \in Sessions : \E t :
           session' = [session EXCEPT ![s] = t] /\ NamingOK(t, vm')
  PROVE  NamesInv'
<1>1. \A s \in Sessions : NamingOK(session[s], vm')
  BY DEF NamesInv, NamingOK, VmsKept
<1>2. CASE UNCHANGED session
  BY <1>1, <1>2 DEF NamesInv, VmsKept
<1>3. CASE \E s \in Sessions : \E t : session' = [session EXCEPT ![s] = t] /\ NamingOK(t, vm')
  <2>1. PICK s \in Sessions, t \in Namings : session' = [session EXCEPT ![s] = t] /\ NamingOK(t, vm')
    BY <1>3 DEF NamingOK
  <2>2. /\ t \in Namings /\ session' \in [Sessions -> Namings] /\ session'[s] = t
        /\ \A r \in Sessions \ {s} : session'[r] = session[r]
    BY <2>1 DEF NamesInv, NamingOK
  <2>3. \A r \in Sessions : NamingOK(session'[r], vm')
    BY <1>1, <2>1, <2>2
  <2> QED BY <2>2, <2>3 DEF NamesInv, VmsKept
<1> QED BY <1>2, <1>3

\* Every step only ends VMs, or starts one under a name that none ever had
LEMMA NamesStep ==
  ASSUME NamesInv, Names!Next
  PROVE  NamesInv'
<1>0. /\ started \in Nat /\ vm \in [VmNames -> Vms] /\ session \in [Sessions -> Namings]
      /\ \A n \in VmNames : vm[n] \in Vms /\ vm[n].state \in {"none", "gone", "running", "dead", "unreadable"}
                            /\ vm[n].id \in Nat /\ (vm[n].state = "gone" => vm[n].id = 0)
      /\ \A s \in Sessions : session[s] \in Namings /\ NamingOK(session[s], vm)
  BY DEF NamesInv, Vms
<1>v. /\ Names!NoVm("gone") \in Vms /\ Names!NoVm("gone").state = "gone" /\ Names!NoVm("gone").id = 0
  BY DEF Names!NoVm, Vms
<1>k. VmsKept(vm)
  BY <1>0 DEF VmsKept
<1>g. ASSUME NEW v \in [VmNames -> Vms], \A n \in VmNames : v[n] \in {vm[n], Names!NoVm("gone")}
      PROVE  VmsKept(v)
  <2>1. ASSUME NEW n \in VmNames
        PROVE  /\ v[n].state = "gone" => v[n].id = 0
               /\ vm[n].state # "none" => v[n].state # "none"
                    /\ (v[n].state # "gone" => vm[n].state # "gone" /\ v[n].id = vm[n].id)
    BY <1>0, <1>g, <1>v
  <2> QED BY <1>g, <2>1 DEF VmsKept
<1>r. ASSUME NEW n \in VmNames, Names!Removes(n) PROVE VmsKept(vm')
  BY <1>0, <1>v, <1>r, <1>g DEF Names!Removes
<1>1. ASSUME NEW s \in Sessions, Names!Start(s) PROVE NamesInv'
  <2> DEFINE id == started + 1
  <2>1. PICK n \in VmNames \ Names!Known, i \in Images, state \in {"running", "unreadable"} :
          /\ n \in VmNames => vm[n].state = "none"
          /\ vm' = [Names!Reaped EXCEPT ![n] = [state |-> state, image |-> i, id |-> id]]
          /\ \/ UNCHANGED session
             \/ session' = [session EXCEPT ![s] = [at |-> "using", name |-> n, id |-> id, got |-> 0]]
    BY <1>1 DEF Names!Start
  <2>2. id \in Nat /\ started' = id
    BY <1>0, <1>1 DEF Names!Start
  <2> HIDE DEF id
  <2> DEFINE new == [state |-> state, image |-> i, id |-> id]
  <2>3. new \in Vms /\ new.state \in {"running", "unreadable"} /\ new.id = id
    BY <2>2 DEF Vms
  <2>4. /\ Names!Reaped \in [VmNames -> Vms]
        /\ \A m \in VmNames : Names!Reaped[m] \in {vm[m], Names!NoVm("gone")}
    BY <1>0, <1>v DEF Names!Reaped
  <2>5. vm' \in [VmNames -> Vms] /\ vm'[n] = new /\ \A m \in VmNames \ {n} : vm'[m] = Names!Reaped[m]
    BY <2>1, <2>3, <2>4
  <2> HIDE DEF new
  <2>6. VmsKept(Names!Reaped)
    BY <1>g, <2>4
  <2>7. VmsKept(vm')
    BY <2>1, <2>3, <2>5, <2>6 DEF VmsKept
  <2>8. CASE UNCHANGED session
    BY <2>2, <2>7, <2>8, NamesKeeps
  <2>9. CASE session' = [session EXCEPT ![s] = [at |-> "using", name |-> n, id |-> id, got |-> 0]]
    <3> DEFINE t == [at |-> "using", name |-> n, id |-> id, got |-> 0]
    <3>1. t \in Namings /\ t.at = "using" /\ t.name = n /\ t.id = id /\ t.got = 0
      BY <2>2 DEF Namings
    <3> HIDE DEF t
    <3>2. NamingOK(t, vm')
      BY <2>3, <2>5, <3>1 DEF NamingOK
    <3>3. session' = [session EXCEPT ![s] = t]
      BY <2>9 DEF t
    <3> QED BY <2>2, <2>7, <3>2, <3>3, NamesKeeps
  <2> QED BY <2>1, <2>8, <2>9
<1>2. ASSUME NEW s \in Sessions, Names!Remove(s) PROVE NamesInv'
  <2> DEFINE was == session[s]
  <2>0. was.at = "removing" /\ was.name \in VmNames /\ started' = started
        /\ (vm[was.name].state # "gone" => vm[was.name].id = was.id) /\ was.id \in Nat
    BY <1>0, <1>2 DEF Names!Remove, NamingOK, Namings
  <2>1. CASE \E n \in VmNames : /\ Names!Resolves(was.name, n) /\ Names!Removes(n)
                                /\ session' = [session EXCEPT ![s].at = "idle", ![s].got = vm[n].id]
    <3>1. PICK n \in VmNames : /\ Names!Resolves(was.name, n) /\ Names!Removes(n)
                               /\ session' = [session EXCEPT ![s].at = "idle", ![s].got = vm[n].id]
      BY <2>1
    <3>2. n = was.name /\ vm[n].id = was.id
      BY <2>0, <3>1, ResolvesItself, RunningKnown
    <3> DEFINE t == [was EXCEPT !.at = "idle", !.got = was.id]
    <3>3. session' = [session EXCEPT ![s] = t]
      BY <1>0, <3>1, <3>2
    <3>4. t \in Namings /\ t.at = "idle" /\ t.got = t.id
      BY <1>0, <2>0 DEF Namings
    <3> HIDE DEF t
    <3>5. NamingOK(t, vm') /\ VmsKept(vm')
      BY <1>r, <3>1, <3>4 DEF NamingOK
    <3> QED BY <1>0, <2>0, <3>3, <3>5, NamesKeeps
  <2>2. CASE session' = [session EXCEPT ![s] = Names!Resting] /\ UNCHANGED vm
    <3>1. Names!Resting \in Namings /\ Names!Resting.at = "idle" /\ Names!Resting.got = 0
      BY DEF Names!Resting, Namings
    <3>2. NamingOK(Names!Resting, vm')
      BY <3>1 DEF NamingOK
    <3> QED BY <1>0, <1>k, <2>0, <2>2, <3>2, NamesKeeps
  <2> QED BY <1>2, <2>1, <2>2 DEF Names!Remove
<1>3. ASSUME NEW s \in Sessions, Names!Pick(s) PROVE NamesInv'
  <2>1. PICK n \in VmNames :
          /\ Names!ResolvesOrSole(n) \/ Names!SplitsOff(n)
          /\ session' = [session EXCEPT ![s] = [at |-> "picked", name |-> n, id |-> vm[n].id, got |-> 0]]
    BY <1>3 DEF Names!Pick
  <2>2. vm[n].state \notin {"none", "gone"}
    BY <2>1, PickedKnown, RunningKnown
  <2> DEFINE t == [at |-> "picked", name |-> n, id |-> vm[n].id, got |-> 0]
  <2>3. t \in Namings /\ t.at = "picked" /\ t.name = n /\ t.id = vm[n].id /\ t.got = 0
    BY <1>0 DEF Namings
  <2>4. session' = [session EXCEPT ![s] = t]
    BY <2>1
  <2> HIDE DEF t
  <2>5. UNCHANGED <<started, vm>>
    BY <1>3 DEF Names!Pick
  <2>6. NamingOK(t, vm')
    BY <2>2, <2>3, <2>5 DEF NamingOK
  <2> QED BY <1>0, <1>k, <2>4, <2>5, <2>6, NamesKeeps
<1>4. ASSUME NEW s \in Sessions, Names!Act(s) PROVE NamesInv'
  <2> DEFINE was == session[s]
             next == IF was.at = "using" THEN "removing" ELSE "idle"
  <2>0. /\ was.at # "idle" /\ was.name \in VmNames /\ UNCHANGED <<started, vm>>
        /\ (vm[was.name].state # "gone" => vm[was.name].id = was.id) /\ was.id \in Nat
        /\ was \in Namings /\ NamingOK(was, vm)
        /\ \/ \E n \in Names!Running : Names!Resolves(was.name, n)
                                       /\ session' = [session EXCEPT ![s].at = next, ![s].got = vm[n].id]
           \/ session' = [session EXCEPT ![s].at = next]
    BY <1>0, <1>4 DEF Names!Act, NamingOK, Namings
  <2>1. next \in {"idle", "removing"}
    OBVIOUS
  <2> HIDE DEF next
  <2>2. CASE \E n \in Names!Running : Names!Resolves(was.name, n)
                                      /\ session' = [session EXCEPT ![s].at = next, ![s].got = vm[n].id]
    <3>1. PICK n \in Names!Running : Names!Resolves(was.name, n)
                                     /\ session' = [session EXCEPT ![s].at = next, ![s].got = vm[n].id]
      BY <2>2
    <3>2. n = was.name /\ vm[n].id = was.id
      BY <2>0, <3>1, ResolvesItself, RunningKnown
    <3> DEFINE t == [was EXCEPT !.at = next, !.got = was.id]
    <3>3. session' = [session EXCEPT ![s] = t]
      BY <1>0, <3>1, <3>2
    <3>4. t \in Namings /\ t.name = was.name /\ t.got = t.id /\ t.id = was.id
      BY <2>0, <2>1 DEF Namings
    <3> HIDE DEF t
    <3>5. NamingOK(t, vm')
      BY <2>0, <3>4 DEF NamingOK
    <3> QED BY <1>0, <1>k, <2>0, <3>3, <3>5, NamesKeeps
  <2>3. CASE session' = [session EXCEPT ![s].at = next]
    <3> DEFINE t == [was EXCEPT !.at = next]
    <3>3. session' = [session EXCEPT ![s] = t]
      BY <1>0, <2>3
    <3>4. t \in Namings /\ t.name = was.name /\ t.got = was.got /\ t.id = was.id
      BY <2>0, <2>1 DEF Namings
    <3> HIDE DEF t
    <3>5. NamingOK(t, vm')
      BY <2>0, <3>4 DEF NamingOK
    <3> QED BY <1>0, <1>k, <2>0, <3>3, <3>5, NamesKeeps
  <2> QED BY <2>0, <2>2, <2>3
<1>5. CASE Names!Destroy
  BY <1>0, <1>5, <1>r, NamesKeeps DEF Names!Destroy
<1>6. CASE Names!DestroyAll
  <2>1. vm' \in [VmNames -> Vms] /\ \A n \in VmNames : vm'[n] \in {vm[n], Names!NoVm("gone")}
    BY <1>0, <1>6, <1>v DEF Names!DestroyAll
  <2>2. VmsKept(vm')
    BY <1>g, <2>1
  <2> QED BY <1>0, <1>6, <2>2, NamesKeeps DEF Names!DestroyAll
<1>7. ASSUME NEW n \in VmNames, Names!Dies(n) PROVE NamesInv'
  <2> DEFINE v == [vm[n] EXCEPT !.state = "dead"]
  <2>1. v \in Vms /\ v.state = "dead" /\ v.id = vm[n].id
    BY <1>0 DEF Vms
  <2>2. vm' = [vm EXCEPT ![n] = v] /\ vm[n].state = "running" /\ UNCHANGED <<started, session>>
    BY <1>0, <1>7 DEF Names!Dies, Names!Running
  <2> HIDE DEF v
  <2>3. VmsKept(vm')
    BY <1>0, <2>1, <2>2 DEF VmsKept
  <2> QED BY <1>0, <2>2, <2>3, NamesKeeps
<1> QED BY <1>1, <1>2, <1>3, <1>4, <1>5, <1>6, <1>7 DEF Names!Next

\* At first there are no VMs and nobody has picked one
LEMMA NamesInit ==
  ASSUME Names!Init
  PROVE  NamesInv
<1>1. Names!NoVm("none") \in Vms /\ Names!NoVm("none").state = "none"
  BY DEF Names!NoVm, Vms
<1>2. /\ Names!Resting \in Namings /\ Names!Resting.at = "idle" /\ Names!Resting.got = 0
  BY DEF Names!Resting, Namings
<1>3. \A v : NamingOK(Names!Resting, v)
  BY <1>2 DEF NamingOK
<1> QED BY <1>1, <1>2, <1>3 DEF Names!Init, NamesInv

SceneNames == scene = "names" => NamesInv

\* The invariant of names, of the whole
THEOREM NamesStand == Spec => []SceneNames
<1>1. Init => SceneNames
  BY NamesInit DEF Init, SceneNames
<1>2. ASSUME NamesInv, UNCHANGED namesVars PROVE NamesInv'
  BY <1>2 DEF NamesInv, namesVars
<1>3. SceneNames /\ [Next]_vars => SceneNames'
  BY <1>2, NamesStep DEF SceneNames, Next, vars
<1> QED BY <1>1, <1>3, PTL DEF Spec

\* What a command acts on, or --rm destroys, is the VM it picked or started, whoever
\* starts and destroys VMs meanwhile: the names that run makes up are used once
\* (state.rs).
THEOREM CommandsActOnTheirPick == Spec => []ActsOnItsPick
<1>1. SceneNames => ActsOnItsPick
  BY DEF SceneNames, NamesInv, NamingOK, ActsOnItsPick, Names!ActsOnItsPick
<1> QED BY <1>1, NamesStand, PTL

-----------------------------------------------------------------------------
(* The host's own files (HostSetup)                                        *)

Texts == [own : BOOLEAN, includes : Nat]
Halves == [private : Nat, public : Nat]
Settling ==
  [at : {"idle", "looking", "removing", "removing public", "generating", "saving", "saving public",
         "building", "config", "asking for a guest", "include", "asking to include", "adding",
         "writing"},
   what : {"none", "keygen", "setup", "build"}, force : BOOLEAN, asks : BOOLEAN, key : Nat,
   text : Texts]

Minting(s) == s.at \in {"saving", "saving public"}

\* A private key that a session is about to write over is one the user gave up
KeyFree(s, k, g) == s.at = "saving" => k.private \in {0} \cup g

SetupInv ==
  /\ key \in Halves /\ made \in Nat /\ ssh \in Texts
  /\ user \in [Sessions -> Settling]
  /\ Setup!ImageOpens
  /\ \A s \in Sessions : KeyFree(user[s], key, given)
  /\ \A s, t \in Sessions : Minting(user[s]) /\ Minting(user[t]) => s = t

\* What a step of s that makes t of it has to keep
KeysStep(s, t) ==
  /\ key' \in Halves /\ made' \in Nat
  /\ given \subseteq given' /\ Setup!ImageOpens'
  /\ key'.private \in {key.private, 0} \/ Minting(user[s])
  /\ KeyFree(t, key', given')
  /\ Minting(t) => Minting(user[s]) \/ \A r \in Sessions \ {s} : ~Minting(user[r])

\* A step that keeps to its window keeps the invariant
LEMMA SetupKeeps ==
  ASSUME SetupInv, NEW s \in Sessions, NEW t \in Settling, user' = [user EXCEPT ![s] = t],
         KeysStep(s, t), ssh' \in Texts
  PROVE  SetupInv'
<1>1. /\ user' \in [Sessions -> Settling] /\ user'[s] = t
      /\ \A r \in Sessions \ {s} : user'[r] = user[r]
  BY DEF SetupInv
<1>2. \A r, q \in Sessions : Minting(user'[r]) /\ Minting(user'[q]) => r = q
  BY <1>1 DEF SetupInv, KeysStep
<1>3. ASSUME NEW r \in Sessions PROVE KeyFree(user'[r], key', given')
  <2>1. CASE r = s
    BY <1>1, <2>1 DEF KeysStep
  <2>2. CASE r # s
    <3>1. user'[r] = user[r] /\ KeyFree(user[r], key, given)
      BY <1>1, <2>2 DEF SetupInv
    <3>2. Minting(user[s]) => user[r].at # "saving"
      BY <2>2 DEF SetupInv, Minting
    <3> QED BY <3>1, <3>2 DEF KeysStep, KeyFree
  <2> QED BY <2>1, <2>2
<1> QED BY <1>1, <1>2, <1>3 DEF SetupInv, KeysStep

\* A session that does nothing is in no window
LEMMA SetupRestingOK ==
  /\ Setup!Resting \in Settling /\ Setup!Resting.at = "idle"
BY DEF Setup!Resting, Settling, Texts

\* A step that leaves the keys alone keeps what is known of them
LEMMA KeysStay ==
  ASSUME SetupInv, NEW s \in Sessions, NEW t, ~Minting(t), UNCHANGED <<key, made, given, image>>
  PROVE  KeysStep(s, t)
BY DEF SetupInv, KeysStep, KeyFree, Minting, Setup!ImageOpens

\* Every step of a session keeps to its window
LEMMA SetupStep ==
  ASSUME PartsAssumption, "together" \notin SetupTrouble, SetupInv, NEW s \in Sessions,
         \/ Setup!Begin(s) \/ Setup!LookForKey(s) \/ Setup!RemovePrivate(s) \/ Setup!RemovePublic(s)
         \/ Setup!Confirm(s) \/ Setup!SavePrivate(s) \/ Setup!SavePublic(s)
         \/ Setup!BeginBuild(s) \/ Setup!EndBuild(s)
         \/ Setup!EnsureConfig(s) \/ Setup!AnswerStarter(s)
         \/ Setup!EnsureInclude(s) \/ Setup!Decline(s) \/ Setup!Agree(s) \/ Setup!Truncate(s)
         \/ Setup!Write(s) \/ Setup!Killed(s)
  PROVE  SetupInv'
<1> DEFINE was == user[s]
<1>0. /\ user \in [Sessions -> Settling] /\ was \in Settling /\ key \in Halves /\ made \in Nat
      /\ ssh \in Texts /\ Setup!ImageOpens
      /\ KeyFree(was, key, given)
  BY DEF SetupInv
<1>t. /\ key.private \in Nat /\ key.public \in Nat /\ was.key \in Nat /\ was.text \in Texts
  BY <1>0 DEF Halves, Settling
<1>m. ASSUME NEW to \in {"removing public", "generating", "saving", "include", "asking for a guest",
                         "asking to include", "writing", "config", "removing"}, Setup!Moves(s, to)
      PROVE  \E t \in Settling : user' = [user EXCEPT ![s] = t] /\ t.at = to
  <2> DEFINE t == [was EXCEPT !.at = to]
  <2>1. t \in Settling /\ t.at = to
    BY <1>0 DEF Settling
  <2>2. user' = [user EXCEPT ![s] = t]
    BY <1>0, <1>m DEF Setup!Moves
  <2> QED BY <2>1, <2>2
<1>e. ASSUME Setup!Ends(s), ssh' \in Texts, \A t : ~Minting(t) => KeysStep(s, t)
      PROVE  SetupInv'
  <2>1. Setup!Resting \in Settling /\ ~Minting(Setup!Resting)
    BY SetupRestingOK DEF Minting
  <2> QED BY <1>0, <1>e, <2>1, SetupKeeps DEF Setup!Ends
<1>k. ASSUME NEW t \in Settling, user' = [user EXCEPT ![s] = t],
             t.at \notin {"saving", "saving public"}, ssh' \in Texts,
             UNCHANGED <<key, made, given, image>>
      PROVE  SetupInv'
  BY <1>k, KeysStay, SetupKeeps DEF Minting
<1>w. ASSUME NEW t \in Settling
      PROVE  Setup!WithKey(s, t) \in Settling /\ Setup!WithKey(s, t).at \in {"config", "idle"}
  BY SetupRestingOK DEF Setup!WithKey, Settling
<1>1. CASE Setup!Begin(s)
  <2>1. PICK what \in {"keygen", "setup"}, flag \in BOOLEAN :
          user' = [user EXCEPT ![s] = [Setup!Resting EXCEPT !.at = "looking", !.what = what,
                     !.force = (what = "keygen" /\ flag), !.asks = (what = "setup" /\ flag)]]
    BY <1>1 DEF Setup!Begin
  <2> DEFINE t == [Setup!Resting EXCEPT !.at = "looking", !.what = what,
                     !.force = (what = "keygen" /\ flag), !.asks = (what = "setup" /\ flag)]
  <2>2. t \in Settling /\ t.at = "looking"
    BY SetupRestingOK DEF Settling
  <2> HIDE DEF t
  <2>3. user' = [user EXCEPT ![s] = t]
    BY <2>1 DEF t
  <2> QED BY <1>0, <1>1, <1>k, <2>2, <2>3 DEF Setup!Begin
<1>2. CASE Setup!LookForKey(s)
  <2> DEFINE t == IF key.private = 0 THEN [was EXCEPT !.at = "generating"]
                  ELSE IF was.force THEN [was EXCEPT !.at = "removing"]
                  ELSE Setup!WithKey(s, was)
  <2>1. t \in Settling /\ t.at \in {"generating", "removing", "config", "idle"}
    <3>1. /\ [was EXCEPT !.at = "generating"] \in Settling
          /\ [was EXCEPT !.at = "generating"].at = "generating"
          /\ [was EXCEPT !.at = "removing"] \in Settling
          /\ [was EXCEPT !.at = "removing"].at = "removing"
      BY <1>0 DEF Settling
    <3> QED BY <1>0, <1>w, <3>1
  <2>2. user' = [user EXCEPT ![s] = t] /\ was.at = "looking"
    BY <1>0, <1>2 DEF Setup!LookForKey
  <2> HIDE DEF t
  <2> QED BY <1>0, <1>2, <1>k, <2>1, <2>2 DEF Setup!LookForKey
<1>3. CASE Setup!RemovePrivate(s)
  <2>1. /\ was.at = "removing" /\ given' = given \cup {key.private}
        /\ key' = [key EXCEPT !.private = 0] /\ UNCHANGED <<made, image, config, wrote, ssh>>
    BY <1>3 DEF Setup!RemovePrivate
  <2>2. PICK t \in Settling : user' = [user EXCEPT ![s] = t] /\ t.at = "removing public"
    BY <1>3, <1>m DEF Setup!RemovePrivate
  <2>3. ~Minting(t)
    BY <2>2 DEF Minting
  <2>4. key' \in Halves /\ key'.private = 0
    BY <1>0, <2>1 DEF Halves
  <2>5. Setup!ImageOpens'
    BY <1>0, <2>1, <2>4 DEF Setup!ImageOpens
  <2>6. KeysStep(s, t)
    BY <1>0, <2>1, <2>2, <2>3, <2>4, <2>5 DEF KeysStep, KeyFree
  <2> QED BY <1>0, <2>1, <2>2, <2>3, <2>6, SetupKeeps
<1>4. CASE Setup!RemovePublic(s)
  <2>1. was.at = "removing public" /\ key' = [key EXCEPT !.public = 0]
        /\ UNCHANGED <<made, given, image, config, wrote, ssh>>
    BY <1>4 DEF Setup!RemovePublic
  <2>2. PICK t \in Settling : user' = [user EXCEPT ![s] = t] /\ t.at = "generating"
    BY <1>4, <1>m DEF Setup!RemovePublic
  <2>3. ~Minting(t)
    BY <2>2 DEF Minting
  <2>4. key' \in Halves /\ key'.private = key.private
    BY <1>0, <2>1 DEF Halves
  <2>6. KeysStep(s, t)
    BY <1>0, <2>1, <2>2, <2>3, <2>4 DEF KeysStep, KeyFree, Setup!ImageOpens
  <2> QED BY <1>0, <2>1, <2>2, <2>3, <2>6, SetupKeeps
<1>5. CASE Setup!Confirm(s)
  <2>1. /\ was.at = "generating" /\ UNCHANGED <<key, made, image, config, wrote, ssh>>
        /\ \A r \in Sessions \ {s} : ~Minting(user[r])
    BY <1>5 DEF Setup!Confirm, Setup!Alone, Minting
  <2>3. CASE Setup!Moves(s, "saving") /\ key.private \in {0} \cup given' /\ given \subseteq given'
    <3>1. PICK t \in Settling : user' = [user EXCEPT ![s] = t] /\ t.at = "saving"
      BY <1>m, <2>3
    <3>3. KeysStep(s, t)
      BY <1>0, <2>1, <2>3, <3>1 DEF KeysStep, KeyFree, Setup!ImageOpens
    <3> QED BY <1>0, <2>1, <3>1, <3>3, SetupKeeps
  <2>4. CASE Setup!Ends(s) /\ UNCHANGED given
    BY <1>0, <1>e, <2>1, <2>4, KeysStay
  <2> QED BY <1>5, <2>3, <2>4 DEF Setup!Confirm
<1>6. CASE Setup!SavePrivate(s)
  <2> DEFINE new == made + 1
             t == [was EXCEPT !.at = "saving public", !.key = new]
  <2>1. /\ was.at = "saving" /\ made' = new /\ key' = [key EXCEPT !.private = new]
        /\ user' = [user EXCEPT ![s] = t]
        /\ UNCHANGED <<given, image, config, wrote, ssh>>
    BY <1>0, <1>6 DEF Setup!SavePrivate
  <2>2. new \in Nat
    BY <1>0
  <2> HIDE DEF new
  <2>3. t \in Settling /\ t.at = "saving public"
    BY <1>0, <2>2 DEF Settling
  <2> HIDE DEF t
  <2>4. Minting(was) /\ t.at # "saving"
    BY <2>1, <2>3 DEF Minting
  <2>5. key' \in Halves /\ key.private \in {0} \cup given
    BY <1>0, <2>1, <2>2 DEF Halves, KeyFree
  <2>6. Setup!ImageOpens'
    BY <1>0, <2>1, <2>5 DEF Setup!ImageOpens
  <2>7. KeysStep(s, t)
    BY <2>1, <2>2, <2>4, <2>5, <2>6 DEF KeysStep, KeyFree
  <2> QED BY <1>0, <2>1, <2>3, <2>4, <2>7, SetupKeeps
<1>7. CASE Setup!SavePublic(s)
  <2> DEFINE t == Setup!WithKey(s, was)
  <2>1. /\ was.at = "saving public" /\ key' = [key EXCEPT !.public = was.key]
        /\ user' = [user EXCEPT ![s] = t]
        /\ UNCHANGED <<made, given, image, config, wrote, ssh>>
    BY <1>0, <1>7 DEF Setup!SavePublic
  <2>2. t \in Settling /\ t.at \in {"config", "idle"}
    BY <1>0, <1>w
  <2> HIDE DEF t
  <2>3. ~Minting(t)
    BY <2>2 DEF Minting
  <2>4. key' \in Halves /\ key'.private = key.private
    BY <1>0, <1>t, <2>1 DEF Halves
  <2>5. KeysStep(s, t)
    BY <1>0, <2>1, <2>3, <2>2, <2>4 DEF KeysStep, KeyFree, Setup!ImageOpens
  <2> QED BY <1>0, <2>1, <2>2, <2>3, <2>5, SetupKeeps
<1>8. CASE Setup!BeginBuild(s)
  <2> DEFINE t == [Setup!Resting EXCEPT !.at = "building", !.what = "build", !.key = key.public]
  <2>1. t \in Settling /\ t.at = "building"
    BY <1>t, SetupRestingOK DEF Settling
  <2>2. user' = [user EXCEPT ![s] = t] /\ was.at = "idle"
    BY <1>8 DEF Setup!BeginBuild
  <2> HIDE DEF t
  <2> QED BY <1>0, <1>8, <1>k, <2>1, <2>2 DEF Setup!BeginBuild
<1>9. CASE Setup!EndBuild(s)
  <2>1. /\ was.at = "building" /\ Setup!Ends(s) /\ UNCHANGED <<key, made, given, config, wrote, ssh>>
        /\ image' = IF key.private = was.key THEN was.key ELSE image
    BY <1>9 DEF Setup!EndBuild
  <2>2. Setup!ImageOpens'
    BY <1>0, <2>1 DEF Setup!ImageOpens
  <2>3. ASSUME NEW t, ~Minting(t) PROVE KeysStep(s, t)
    BY <1>0, <2>1, <2>2, <2>3 DEF KeysStep, KeyFree, Minting
  <2> QED BY <1>0, <1>e, <2>1, <2>3
<1>10. CASE Setup!EnsureConfig(s)
  BY <1>0, <1>10, <1>k, <1>m DEF Setup!EnsureConfig
<1>11. CASE Setup!AnswerStarter(s)
  BY <1>0, <1>11, <1>k, <1>m DEF Setup!AnswerStarter
<1>12. CASE Setup!EnsureInclude(s)
  <2>1. was.at = "include" /\ UNCHANGED <<key, made, given, image, config, wrote, ssh>>
    BY <1>12 DEF Setup!EnsureInclude
  <2>2. CASE Setup!Ends(s)
    BY <1>0, <1>e, <2>1, <2>2, KeysStay
  <2>3. CASE Setup!Moves(s, "asking to include")
    BY <1>0, <1>k, <1>m, <2>1, <2>3
  <2> QED BY <1>12, <2>2, <2>3 DEF Setup!EnsureInclude
<1>13. CASE Setup!Decline(s)
  BY <1>0, <1>13, <1>e, KeysStay DEF Setup!Decline
<1>14. CASE Setup!Agree(s)
  <2>1. UNCHANGED <<key, made, given, image, ssh>>
    BY <1>14 DEF Setup!Agree
  <2>2. CASE Setup!Ends(s)
    BY <1>0, <1>e, <2>1, <2>2, KeysStay
  <2>3. CASE user' = [user EXCEPT ![s].at = "adding", ![s].text = [Setup!Existing EXCEPT !.includes = 1]]
    <3> DEFINE text == [Setup!Existing EXCEPT !.includes = 1]
               t == [was EXCEPT !.at = "adding", !.text = text]
    <3>1. Setup!Existing \in Texts
      BY <1>0 DEF Setup!Existing, Texts
    <3>2. text \in Texts
      BY <3>1 DEF Texts
    <3> HIDE DEF text
    <3>3. t \in Settling /\ t.at = "adding"
      BY <1>0, <3>2 DEF Settling
    <3>4. user' = [user EXCEPT ![s] = t]
      BY <1>0, <2>3 DEF text
    <3> HIDE DEF t
    <3> QED BY <1>0, <1>k, <2>1, <3>3, <3>4
  <2> QED BY <1>14, <2>2, <2>3 DEF Setup!Agree
<1>15. CASE Setup!Truncate(s)
  <2>1. ssh' \in Texts /\ UNCHANGED <<key, made, given, image>>
    BY <1>15 DEF Setup!Truncate, Texts
  <2> QED BY <1>15, <1>k, <1>m, <2>1 DEF Setup!Truncate
<1>16. CASE Setup!Write(s)
  <2>1. ssh' = was.text /\ Setup!Ends(s) /\ UNCHANGED <<key, made, given, image>>
    BY <1>16 DEF Setup!Write
  <2> QED BY <1>e, <1>t, <2>1, KeysStay
<1>17. CASE Setup!Killed(s)
  BY <1>0, <1>17, <1>e, KeysStay DEF Setup!Killed
<1> QED BY <1>1, <1>2, <1>3, <1>4, <1>5, <1>6, <1>7, <1>8, <1>9, <1>10, <1>11, <1>12, <1>13, <1>14,
           <1>15, <1>16, <1>17

\* At first there is no key and no image
LEMMA SetupInit ==
  ASSUME Setup!Init
  PROVE  SetupInv
<1>1. /\ key \in Halves /\ made \in Nat /\ ssh \in Texts
      /\ user \in [Sessions -> Settling] /\ image = 0
  BY SetupRestingOK DEF Setup!Init, Halves, Texts
<1>2. \A s \in Sessions : user[s].at = "idle"
  BY SetupRestingOK DEF Setup!Init
<1>3. Setup!ImageOpens
  BY <1>1 DEF Setup!ImageOpens
<1>4. \A s \in Sessions : ~Minting(user[s]) /\ KeyFree(user[s], key, given)
  BY <1>2 DEF KeyFree, Minting
<1> QED BY <1>1, <1>3, <1>4 DEF SetupInv

\* Nor does what the user writes, or a step of another part, disturb that
LEMMA SetupNext ==
  ASSUME PartsAssumption, "together" \notin SetupTrouble, SetupInv, Setup!Next \/ UNCHANGED setupVars
  PROVE  SetupInv'
<1>1. CASE Setup!UserWrites
  <2>1. UNCHANGED <<key, made, given, image, ssh, user>>
    BY <1>1 DEF Setup!UserWrites
  <2> QED BY <2>1 DEF SetupInv, Setup!ImageOpens
<1>2. CASE UNCHANGED setupVars
  BY <1>2 DEF SetupInv, Setup!ImageOpens, setupVars
<1> QED BY <1>1, <1>2, SetupStep DEF Setup!Next

SceneSetup == scene = "setup" => SetupInv

\* The invariant of the keys, of the whole, with one session in ssh-keygen
THEOREM SetupStands ==
  ASSUME "together" \notin SetupTrouble
  PROVE  Spec => []SceneSetup
<1>1. Init => SceneSetup
  BY SetupInit DEF Init, SceneSetup
<1>2. SceneSetup /\ [Next]_vars => SceneSetup'
  BY SetupNext, PartsAssumption DEF SceneSetup, Next, vars
<1> QED BY <1>1, <1>2, PTL DEF Spec

\* A golden image opens with the key on the disk until the user gives that key up,
\* as long as no two sessions are within one ssh-keygen (keygen.rs).
THEOREM ImagesOpen ==
  ASSUME "together" \notin SetupTrouble
  PROVE  Spec => []ImageOpens
<1>1. SceneSetup => ImageOpens
  BY DEF SceneSetup, SetupInv, ImageOpens
<1> QED BY <1>1, SetupStands, PTL

-----------------------------------------------------------------------------
(* vitro test (ProjectTest)                                                *)

\* The first of some failures is one of them
LEMMA FirstIsThere ==
  ASSUME NEW failed \in SUBSET Nat, failed # {}
  PROVE  Tests!Min(failed) \in failed
<1> DEFINE Less == OpToRel(<, Nat)
<1>1. IsWellFoundedOn(Less, Nat)
  BY NatLessThanWellFounded
<1>2. \A i, j \in Nat : i < j => <<i, j>> \in Less
  BY DEF OpToRel
<1> HIDE DEF Less
<1>3. PICK least \in failed : \A i \in failed : ~(<<i, least>> \in Less)
  BY <1>1, WFMin
<1>4. \A i \in failed : least <= i
  <2>1. ASSUME NEW i \in failed PROVE ~(i < least)
    BY <1>2, <1>3, Zenon
  <2> QED BY <2>1
<1> QED BY <1>4 DEF Tests!Min

\* What failed has a code that is not 0
LEMMA FailureHasCode ==
  ASSUME PartsAssumption, NEW r \in Tests!Outcomes, ~Tests!Passed(r)
  PROVE  Tests!CodeOf(r) \in Nat /\ Tests!CodeOf(r) # 0
<1>1. CASE \E c \in Codes : r = Tests!Exited(c)
  <2>1. PICK c \in Codes : r = Tests!Exited(c)
    BY <1>1
  <2>2. c \in Nat /\ c # 0
    BY <2>1 DEF PartsAssumption, Tests!TestAssumption, Tests!Passed
  <2>3. Tests!CodeOf(r) = c
    BY <2>1 DEF Tests!CodeOf, Tests!Exited
  <2> QED BY <2>2, <2>3
<1>2. CASE r \in [how : {"did not start", "did not run"}, code : {0}]
  <2>1. r.how \in {"did not start", "did not run"}
    BY <1>2
  <2>2. Tests!CodeOf(r) = 1
    BY <2>1 DEF Tests!CodeOf
  <2> QED BY <2>2
<1> QED BY <1>1, <1>2 DEF Tests!Outcomes

\* 0 is the answer to no failure, and only to that
LEMMA ExitCodeIsZero ==
  ASSUME PartsAssumption, results \in Seq(Tests!Outcomes)
  PROVE  /\ Tests!ExitCode \in Nat
         /\ Tests!ExitCode = 0 => \A i \in DOMAIN results : Tests!Passed(results[i])
<1> DEFINE failed == {i \in DOMAIN results : ~Tests!Passed(results[i])}
<1>1. CASE failed = {}
  BY <1>1 DEF Tests!ExitCode
<1>2. CASE failed # {}
  <2>1. failed \in SUBSET Nat
    OBVIOUS
  <2>2. Tests!Min(failed) \in failed
    BY <1>2, <2>1, FirstIsThere
  <2>3. /\ results[Tests!Min(failed)] \in Tests!Outcomes
        /\ ~Tests!Passed(results[Tests!Min(failed)])
    BY <2>2
  <2>4. Tests!ExitCode = Tests!CodeOf(results[Tests!Min(failed)])
    BY <1>2 DEF Tests!ExitCode
  <2> QED BY <2>3, <2>4, FailureHasCode
<1> QED BY <1>1, <1>2

\* One command's code is the answer
LEMMA ExitCodeOfOne ==
  ASSUME PartsAssumption, NEW c \in Codes, results = <<Tests!Exited(c)>>
  PROVE  Tests!ExitCode = c
<1>1. DOMAIN results = {1} /\ results[1] = Tests!Exited(c)
  OBVIOUS
<1>2. CASE c = 0
  <2>1. {i \in DOMAIN results : ~Tests!Passed(results[i])} = {}
    BY <1>1, <1>2 DEF Tests!Passed
  <2> QED BY <1>2, <2>1 DEF Tests!ExitCode
<1>3. CASE c # 0
  <2>1. ~Tests!Passed(results[1])
    BY <1>1, <1>3 DEF Tests!Passed, Tests!Exited
  <2>2. {i \in DOMAIN results : ~Tests!Passed(results[i])} = {1}
    BY <1>1, <2>1
  <2>3. Tests!Min({1}) = 1
    BY FirstIsThere
  <2>4. Tests!CodeOf(results[1]) = c
    BY <1>1 DEF Tests!CodeOf, Tests!Exited
  <2> QED BY <2>2, <2>3, <2>4 DEF Tests!ExitCode
<1> QED BY <1>2, <1>3

Testing ==
  [at : {"starting", "testing", "done", "exited", "killed"}, named : Seq(ImageKeys), signals : Nat]

TestsInv ==
  /\ file.images \in Seq(ImageKeys) /\ test \in Testing
  /\ results \in Seq(Tests!Outcomes)
  /\ test.at = "starting" => results = <<>>
  /\ test.at = "testing" => Len(results) < Len(Tests!TestImages)
  /\ test.at = "done" => results # <<>> /\ (test.signals = 0 => Len(results) = Len(Tests!TestImages))
  /\ Tests!ExitTellsTruth

\* What is typed or configured is a sequence
LEMMA SequencesUpToTwo ==
  ASSUME NEW S, NEW q \in Tests!SeqOf(S, 2)
  PROVE  q \in Seq(S)
<1>1. PICK m \in 0..2 : q \in [1..m -> S]
  BY DEF Tests!SeqOf
<1> QED BY <1>1

\* At first nothing has been tested
LEMMA TestsInit ==
  ASSUME Tests!Init
  PROVE  TestsInv
<1>1. file.images \in Seq(ImageKeys)
  BY SequencesUpToTwo DEF Tests!Init
<1>2. PICK named \in Tests!SeqOf(ImageKeys, 2) : test = [at |-> "starting", named |-> named, signals |-> 0]
  BY DEF Tests!Init
<1>3. test \in Testing /\ test.at = "starting"
  BY <1>2, SequencesUpToTwo DEF Testing
<1>4. results = <<>>
  BY DEF Tests!Init
<1> QED BY <1>1, <1>3, <1>4 DEF TestsInv, Tests!ExitTellsTruth

\* Every step of the test, and of another part, keeps the invariant
LEMMA TestsNext ==
  ASSUME PartsAssumption, TestsInv, Tests!Next \/ UNCHANGED testsVars
  PROVE  TestsInv'
<1> DEFINE images == Tests!TestImages
           n == Len(images)
           m == Len(results)
<1>0. /\ images \in Seq(ImageKeys) /\ n \in Nat /\ m \in Nat
      /\ test \in Testing /\ results \in Seq(Tests!Outcomes) /\ test.signals \in Nat
  BY DEF TestsInv, Testing, Tests!TestImages
<1>i. ASSUME file' = file, test'.named = test.named PROVE images' = images
  BY <1>i DEF Tests!TestImages
<1> HIDE DEF images
<1>1. CASE Tests!Refuse
  <2>1. /\ exit' = 1 /\ UNCHANGED <<file, results>> /\ test.at = "starting"
        /\ test' = [test EXCEPT !.at = "exited"]
    BY <1>1 DEF Tests!Refuse, Tests!Fails
  <2>2. test' \in Testing /\ test'.at = "exited" /\ test'.named = test.named
    BY <1>0, <2>1 DEF Testing
  <2>3. results' = <<>>
    BY <2>1 DEF TestsInv
  <2>4. Tests!ExitTellsTruth'
    BY <2>1, <2>3 DEF Tests!ExitTellsTruth
  <2> QED BY <2>1, <2>2, <2>4 DEF TestsInv
<1>2. CASE Tests!Start
  <2>1. /\ UNCHANGED <<file, results, exit>> /\ test.at = "starting" /\ images # <<>>
        /\ test' = [test EXCEPT !.at = "testing"]
    BY <1>2 DEF Tests!Start, Tests!Checked, images
  <2>2. test' \in Testing /\ test'.at = "testing" /\ test'.named = test.named
    BY <1>0, <2>1 DEF Testing
  <2>3. results' = <<>> /\ n > 0 /\ images' = images
    BY <1>0, <1>i, <2>1, <2>2 DEF TestsInv
  <2> QED BY <2>1, <2>2, <2>3 DEF TestsInv, Tests!ExitTellsTruth, images
<1>3. CASE Tests!TestOne
  <2>1. PICK result \in Tests!Outcomes :
          /\ results' = Append(results, result)
          /\ test' = [test EXCEPT !.at = IF test.signals > 0 \/ m + 1 = n THEN "done" ELSE "testing"]
    BY <1>3 DEF Tests!TestOne, images
  <2>2. UNCHANGED <<file, exit>> /\ test.at = "testing" /\ m < n
    BY <1>3 DEF Tests!TestOne, images
  <2>3. /\ test' \in Testing /\ test'.named = test.named /\ test'.signals = test.signals
        /\ test'.at = IF test.signals > 0 \/ m + 1 = n THEN "done" ELSE "testing"
    BY <1>0, <2>1 DEF Testing
  <2>4. images' = images
    BY <1>i, <2>2, <2>3
  <2>5. results' \in Seq(Tests!Outcomes) /\ Len(results') = m + 1 /\ results' # <<>>
    BY <1>0, <2>1
  <2>6. /\ test'.at = "testing" => m + 1 < n
        /\ test'.at = "done" => (test.signals = 0 => m + 1 = n)
        /\ test'.at \in {"testing", "done"}
    BY <1>0, <2>2, <2>3
  <2> QED BY <2>2, <2>3, <2>4, <2>5, <2>6 DEF TestsInv, Tests!ExitTellsTruth, images
<1>4. CASE Tests!Finish
  <2>1. /\ exit' = Tests!ProcessCode(Tests!ExitCode) /\ UNCHANGED <<file, results>> /\ test.at = "done"
        /\ test' = [test EXCEPT !.at = "exited"]
    BY <1>4 DEF Tests!Finish, Tests!Fails
  <2>2. test' \in Testing /\ test'.at = "exited" /\ test'.named = test.named /\ test'.signals = test.signals
    BY <1>0, <2>1 DEF Testing
  <2>3. images' = images
    BY <1>i, <2>1, <2>2
  <2>4. results # <<>> /\ (test.signals = 0 => m = n)
    BY <2>1 DEF TestsInv, images
  <2>5. ASSUME exit' = 0 PROVE \A i \in DOMAIN results : results[i] = Tests!Exited(0)
    <3>1. Tests!ExitCode = 0
      BY <1>0, <2>1, <2>5, ExitCodeIsZero DEF Tests!ProcessCode
    <3> QED BY <1>0, <3>1, ExitCodeIsZero DEF Tests!Passed
  <2>6. ASSUME NEW c \in Codes, results = <<Tests!Exited(c)>>, c < 256
        PROVE  exit' = c
    <3>1. Tests!ExitCode = c
      BY <2>6, ExitCodeOfOne
    <3> QED BY <2>1, <2>6, <3>1 DEF Tests!ProcessCode
  <2>7. Tests!ExitTellsTruth'
    BY <2>1, <2>2, <2>3, <2>4, <2>5, <2>6 DEF Tests!ExitTellsTruth, Tests!Exited, images
  <2> QED BY <1>0, <2>1, <2>2, <2>7 DEF TestsInv
<1>5. CASE Tests!Signal
  <2>1. /\ UNCHANGED <<file, results, exit>> /\ test.at \in {"testing", "done"}
        /\ test' = IF test.signals = 0 THEN [test EXCEPT !.signals = 1] ELSE [test EXCEPT !.at = "killed"]
    BY <1>5 DEF Tests!Signal
  <2>2. /\ test' \in Testing /\ test'.named = test.named
        /\ test'.at = "killed" \/ (test'.at = test.at /\ test'.signals = 1)
    BY <1>0, <2>1 DEF Testing
  <2>3. images' = images
    BY <1>i, <2>1, <2>2
  <2> QED BY <1>0, <2>1, <2>2, <2>3 DEF TestsInv, Tests!ExitTellsTruth, images
<1>6. CASE UNCHANGED testsVars
  <2>1. UNCHANGED <<file, test, results, exit>>
    BY <1>6 DEF testsVars
  <2> QED BY <2>1 DEF TestsInv, Tests!ExitTellsTruth, Tests!TestImages
<1> QED BY <1>1, <1>2, <1>3, <1>4, <1>5, <1>6 DEF Tests!Next

SceneTests == scene = "tests" => TestsInv

\* The invariant of vitro test, of the whole
THEOREM TestsStand == Spec => []SceneTests
<1>1. Init => SceneTests
  BY TestsInit DEF Init, SceneTests
<1>2. SceneTests /\ [Next]_vars => SceneTests'
  BY TestsNext, PartsAssumption DEF SceneTests, Next, vars
<1> QED BY <1>1, <1>2, PTL DEF Spec

\* vitro test exits with 0 only if what it ran passed and it ran everything, and with
\* the code of its only command, whatever the codes and whenever it is interrupted.
THEOREM TestExitsTruly == Spec => []ExitTellsTruth
<1>1. SceneTests => ExitTellsTruth
  BY DEF SceneTests, TestsInv, ExitTellsTruth
<1> QED BY <1>1, TestsStand, PTL

-----------------------------------------------------------------------------
(* vitro doctor (Doctor)                                                   *)

\* What becomes of run, and the image that build makes, of the host as it is
Outcome == IF Checkup!RunStarts THEN "started" ELSE "failed"
Makes == IF raw.backend = "lume" THEN "the lume VM" ELSE "a build"

DoctorInv ==
  /\ raw \in Checkup!Sections \cup {Checkup!Empty}
  /\ said \in {"nothing", Checkup!Worst} /\ runs \in {"not yet", Outcome}
  /\ built = "done" => raw # Checkup!Empty /\ Makes \notin lacks /\ Checkup!AcceleratorLevel # "warn"

\* A host has some things if none of them is lacking
LEMMA HasAll ==
  ASSUME NEW things
  PROVE  Checkup!Has(things) <=> \A t \in things : t \notin lacks
BY DEF Checkup!Has

\* A section is of one backend, and a configuration without one of none
LEMMA Backends ==
  /\ raw \in Checkup!Sections => raw.backend \in {"qemu", "lume"} /\ raw # Checkup!Empty
  /\ Checkup!Empty.backend = "none"
<1>1. Checkup!Empty.backend = "none"
  BY DEF Checkup!Empty
<1>2. raw \in Checkup!Sections => raw.backend \in {"qemu", "lume"}
  BY DEF Checkup!Sections
<1> QED BY <1>1, <1>2

\* Where QEMU starts, the firmware is as doctor wants it
LEMMA FirmwareIsRight ==
  ASSUME raw \in Checkup!Sections, Checkup!FirmwareThere
  PROVE  Checkup!FirmwareLevel = "ok"
BY DEF Checkup!Sections, Checkup!FirmwareThere, Checkup!FirmwareLevel

\* And where doctor finds the firmware right, QEMU finds it
LEMMA FirmwareOk ==
  ASSUME raw \in Checkup!Sections, raw.backend = "qemu", Checkup!Has({"a known platform"}),
         Checkup!FirmwareLevel = "ok"
  PROVE  Checkup!FirmwareThere
BY DEF Checkup!Sections, Checkup!FirmwareThere, Checkup!FirmwareLevel

\* The levels that one check can have
LEMMA LevelsOfEach ==
  /\ Checkup!AcceleratorLevel \in {"ok", "warn", "FAIL"}
  /\ Checkup!ImageLevel \in {"ok", "warn", "FAIL"}
BY DEF Checkup!AcceleratorLevel, Checkup!ImageLevel, Checkup!MediaLevel

\* Where QEMU answers and has its accelerator, nothing is said of it
LEMMA AcceleratorIsRight ==
  ASSUME raw.backend # "lume" => Checkup!Has({"the accelerator", "qemu", "a QEMU that starts"})
  PROVE  Checkup!AcceleratorLevel = "ok"
BY HasAll DEF Checkup!AcceleratorLevel

\* And where nothing is said of it, it is there
LEMMA AcceleratorOk ==
  ASSUME raw.backend = "qemu", Checkup!Has({"a known platform"}), Checkup!AcceleratorLevel = "ok"
  PROVE  Checkup!Has({"the accelerator", "qemu", "a QEMU that starts"})
BY HasAll DEF Checkup!AcceleratorLevel

\* Where doctor finds nothing wrong, run starts
LEMMA OkStarts ==
  ASSUME raw \in Checkup!Sections \cup {Checkup!Empty}, Checkup!Worst = "ok",
         Checkup!Has({"the lume VM"})
  PROVE  Checkup!RunStarts
<1>1. ~Checkup!Missed /\ Checkup!ImageLevel = "ok" /\ Checkup!AcceleratorLevel = "ok"
  BY LevelsOfEach DEF Checkup!Worst
<1>2. raw # Checkup!Empty /\ Checkup!FirmwareLevel = "ok"
  BY <1>1 DEF Checkup!ImageLevel, Checkup!FirmwareLevel
<1>3. raw.backend = "lume" \/ Checkup!Has({Checkup!Golden})
  BY <1>1, <1>2 DEF Checkup!ImageLevel, Checkup!MediaLevel
<1>4. Checkup!Has({"a known platform", "the key", "a state directory"} \cup Checkup!WantedTools)
  BY <1>1 DEF Checkup!Missed
<1>5. CASE raw.backend = "lume"
  <2>1. Checkup!Has({"lume", "ssh", "the key"})
    BY <1>4, <1>5, HasAll DEF Checkup!WantedTools
  <2>2. Checkup!Has({Checkup!Golden, "a state directory"})
    <3>1. Checkup!Golden = "the lume VM"
      BY <1>5 DEF Checkup!Golden
    <3>2. "the lume VM" \notin lacks /\ "a state directory" \notin lacks
      BY <1>4, HasAll
    <3> QED BY <3>1, <3>2, HasAll
  <2> QED BY <1>2, <1>5, <2>1, <2>2 DEF Checkup!RunStarts
<1>6. CASE raw.backend = "qemu"
  <2>1. \A t \in {"a known platform", "the key", "qemu", "qemu-img", "ssh", "scp", "a state directory"} :
          t \notin lacks
    BY <1>4, <1>6, HasAll DEF Checkup!WantedTools
  <2>2. Checkup!Has({"the accelerator", "qemu", "a QEMU that starts"})
    BY <1>1, <1>6, <2>1, HasAll, AcceleratorOk
  <2>3. Checkup!Has({"a known platform", "the accelerator", "the key", "qemu", "a QEMU that starts",
                     "qemu-img", "ssh", "scp"})
    BY <2>1, <2>2, HasAll
  <2>4. Checkup!FirmwareThere
    BY <1>2, <1>6, <2>1, FirmwareOk, HasAll, Backends
  <2>5. Checkup!QemuStarts
    BY <2>3, <2>4 DEF Checkup!QemuStarts
  <2>6. Checkup!Has({Checkup!Golden, "a state directory"})
    BY <1>3, <1>6, <2>1, HasAll
  <2> QED BY <1>2, <1>6, <2>5, <2>6 DEF Checkup!RunStarts
<1> QED BY <1>2, <1>5, <1>6, Backends

\* Where it finds something, run does not start
LEMMA FailFails ==
  ASSUME raw \in Checkup!Sections \cup {Checkup!Empty}, Checkup!Worst = "FAIL", Checkup!RunStarts
  PROVE  raw.backend = "lume" /\ ~Checkup!Has({"scp", "the firmware", "a known platform"})
<1>1. Checkup!Has({Checkup!Golden, "a state directory"}) /\ raw # Checkup!Empty
  BY DEF Checkup!RunStarts
<1>2. CASE raw.backend = "lume"
  <2>1. \A t \in {"lume", "ssh", "the key", "a state directory"} : t \notin lacks
    BY <1>1, <1>2, HasAll DEF Checkup!RunStarts
  <2>2. SUFFICES ASSUME \A t \in {"scp", "the firmware", "a known platform"} : t \notin lacks
                 PROVE  FALSE
    BY <1>2, HasAll
  <2>3. ~Checkup!Missed
    BY <1>2, <2>1, <2>2, HasAll DEF Checkup!Missed, Checkup!WantedTools
  <2>4. Checkup!FirmwareLevel = "ok"
    BY <1>2, <2>2, HasAll DEF Checkup!FirmwareLevel
  <2>5. Checkup!AcceleratorLevel = "ok" /\ Checkup!ImageLevel = "ok"
    BY <1>1, <1>2, <2>4, AcceleratorIsRight DEF Checkup!ImageLevel
  <2> QED BY <2>3, <2>5 DEF Checkup!Worst
<1>3. CASE raw.backend = "qemu"
  <2>1. Checkup!QemuStarts
    BY <1>3 DEF Checkup!RunStarts
  <2>2. \A t \in {"a known platform", "the accelerator", "the key", "qemu", "a QEMU that starts",
                  "qemu-img", "ssh", "scp"} : t \notin lacks
    BY <2>1, HasAll DEF Checkup!QemuStarts
  <2>3. ~Checkup!Missed
    BY <1>1, <1>3, <2>2, HasAll DEF Checkup!Missed, Checkup!WantedTools
  <2>4. Checkup!FirmwareLevel = "ok" /\ Checkup!Has({Checkup!Golden})
    BY <1>1, <2>1, FirmwareIsRight, HasAll DEF Checkup!QemuStarts
  <2>5. Checkup!AcceleratorLevel = "ok"
    BY <2>2, HasAll, AcceleratorIsRight
  <2>6. Checkup!ImageLevel = "ok"
    BY <1>1, <2>4 DEF Checkup!ImageLevel
  <2> QED BY <2>3, <2>5, <2>6 DEF Checkup!Worst
<1> QED BY <1>1, <1>2, <1>3, Backends

\* Nor where it warns, of anything but the include line
LEMMA WarnFails ==
  ASSUME raw \in Checkup!Sections \cup {Checkup!Empty}, Checkup!Worst = "warn",
         Checkup!Has({"the include line"})
  PROVE  ~Checkup!RunStarts
<1>1. SUFFICES ASSUME Checkup!RunStarts PROVE FALSE
  OBVIOUS
<1>2. ~Checkup!Missed /\ "warn" \in {Checkup!AcceleratorLevel, Checkup!ImageLevel}
  BY DEF Checkup!Worst
<1>3. raw # Checkup!Empty /\ raw.backend \in {"qemu", "lume"} /\ Checkup!Has({Checkup!Golden})
  BY <1>1, Backends, HasAll DEF Checkup!RunStarts
<1>4. Checkup!ImageLevel # "warn"
  BY <1>3 DEF Checkup!ImageLevel
<1>5. raw.backend # "lume" => Checkup!Has({"the accelerator", "qemu", "a QEMU that starts"})
  BY <1>1, <1>3, HasAll DEF Checkup!RunStarts, Checkup!QemuStarts
<1> QED BY <1>2, <1>4, <1>5, AcceleratorIsRight

\* What is built is there, unless a file is named
LEMMA WarnsOfAFile ==
  ASSUME raw # Checkup!Empty, Checkup!Worst = "warn", Makes \notin lacks,
         Checkup!Has({"the include line"}), Checkup!AcceleratorLevel # "warn"
  PROVE  Checkup!Golden = "the golden file"
<1>1. Checkup!ImageLevel = "warn"
  BY DEF Checkup!Worst
<1>2. raw.backend # "lume" /\ ~Checkup!Has({Checkup!Golden})
  BY <1>1 DEF Checkup!ImageLevel
<1>3. "a build" \notin lacks
  BY <1>2 DEF Makes
<1>4. Checkup!Golden # "a build"
  BY <1>2, <1>3, HasAll
<1> QED BY <1>2, <1>4 DEF Checkup!Golden

\* What doctor, run and build would say depends on nothing else
LEMMA LevelsStay ==
  ASSUME UNCHANGED <<raw, lacks, virt, supplied>>
  PROVE  /\ Checkup!Worst' = Checkup!Worst /\ Outcome' = Outcome /\ Makes' = Makes
         /\ Checkup!AcceleratorLevel' = Checkup!AcceleratorLevel
BY DEF Checkup!Worst, Outcome, Makes, Checkup!Missed, Checkup!ImageLevel, Checkup!MediaLevel,
       Checkup!AcceleratorLevel, Checkup!FirmwareLevel, Checkup!FirmwareThere, Checkup!Golden,
       Checkup!Has, Checkup!WantedTools, Checkup!RunStarts, Checkup!QemuStarts

\* A build that ends had its QEMU, and its accelerator, if it wanted one
LEMMA BuiltWithAll ==
  ASSUME raw \in Checkup!Sections \cup {Checkup!Empty}, Checkup!BuildEnds,
         raw' = raw, lacks' \subseteq lacks
  PROVE  raw # Checkup!Empty /\ Checkup!AcceleratorLevel' # "warn"
<1>1. raw # Checkup!Empty
  <2>1. raw.build # "unset"
    BY DEF Checkup!BuildEnds
  <2>2. Checkup!Empty.build = "unset"
    BY DEF Checkup!Empty
  <2> QED BY <2>1, <2>2
<1>2. raw.backend # "lume" => Checkup!Has({"qemu", "a QEMU that starts"})
  BY HasAll DEF Checkup!BuildEnds, Checkup!QemuStarts
<1>3. raw.backend # "lume" => Checkup!Has({"qemu", "a QEMU that starts"})'
  BY <1>2 DEF Checkup!Has
<1> QED BY <1>1, <1>3 DEF Checkup!AcceleratorLevel

\* What was said stays true until the host changes, which takes it back
LEMMA DoctorNext ==
  ASSUME DoctorInv, Checkup!Next \/ UNCHANGED checkupVars
  PROVE  DoctorInv'
<1>e. Checkup!Empty' = Checkup!Empty /\ Checkup!Sections' = Checkup!Sections
  BY DEF Checkup!Empty, Checkup!Sections, Checkup!Builds
<1>1. CASE Checkup!Diagnose
  BY <1>e, <1>1, LevelsStay DEF Checkup!Diagnose, DoctorInv
<1>2. CASE Checkup!Run
  BY <1>e, <1>2, LevelsStay DEF Checkup!Run, DoctorInv, Outcome
<1>3. CASE Checkup!Build
  <2>1. CASE UNCHANGED <<said, runs, lacks>> /\ built' = "failed"
    BY <1>e, <1>3, <2>1, LevelsStay DEF Checkup!Build, DoctorInv
  <2>2. CASE /\ Checkup!BuildEnds
             /\ built' = "done" /\ said' = "nothing" /\ runs' = "not yet" /\ lacks' = lacks \ {Makes}
    <3>1. raw' = raw /\ Makes' = Makes
      BY <1>3 DEF Checkup!Build, Makes
    <3>2. raw # Checkup!Empty /\ Checkup!AcceleratorLevel' # "warn"
      BY <2>2, <3>1, BuiltWithAll DEF DoctorInv
    <3> QED BY <1>e, <2>2, <3>1, <3>2 DEF DoctorInv
  <2> QED BY <1>3, <2>1, <2>2 DEF Checkup!Build, Makes
<1>4. CASE Checkup!Mend
  BY <1>e, <1>4 DEF Checkup!Mend, DoctorInv
<1>5. CASE UNCHANGED checkupVars
  BY <1>e, <1>5, LevelsStay DEF DoctorInv, checkupVars
<1> QED BY <1>1, <1>2, <1>3, <1>4, <1>5 DEF Checkup!Next

SceneCheckup == scene = "checkup" => DoctorInv

\* The invariant of doctor, of the whole
THEOREM DoctorStands == Spec => []SceneCheckup
<1>1. Checkup!Init => DoctorInv
  BY DEF Checkup!Init, DoctorInv
<1>2. Init => SceneCheckup
  BY <1>1 DEF Init, SceneCheckup
<1>3. SceneCheckup /\ [Next]_vars => SceneCheckup'
  BY DoctorNext DEF SceneCheckup, Next, vars
<1> QED BY <1>2, <1>3, PTL DEF Spec

\* Where doctor finds nothing wrong run starts, where it finds something run fails, and
\* where it warns too, unless the warning is of the include line: on every host and for
\* every section or none, but for what lume has no use for and for lume's VM, which is
\* not looked for (doctor.rs:3).  A warning goes away with a build, unless a file is named.
THEOREM DoctorTellsRight == Spec => []DoctorIsRight
<1>1. DoctorInv => Checkup!DoctorIsRight
  <2>1. SUFFICES ASSUME DoctorInv PROVE Checkup!DoctorIsRight
    OBVIOUS
  <2>2. said = "ok" /\ runs # "not yet" => runs = "started" \/ ~Checkup!Has({"the lume VM"})
    BY <2>1, OkStarts DEF DoctorInv, Outcome
  <2>3. said = "FAIL" /\ runs # "not yet" =>
          \/ runs = "failed"
          \/ raw.backend = "lume" /\ ~Checkup!Has({"scp", "the firmware", "a known platform"})
    BY <2>1, FailFails DEF DoctorInv, Outcome
  <2>4. said = "warn" /\ Checkup!Has({"the include line"}) => runs # "started"
    BY <2>1, WarnFails DEF DoctorInv, Outcome
  <2>5. said = "warn" /\ Checkup!Has({"the include line"}) /\ built = "done" =>
          Checkup!Golden = "the golden file"
    BY <2>1, WarnsOfAFile DEF DoctorInv
  <2> QED BY <2>2, <2>3, <2>4, <2>5 DEF Checkup!DoctorIsRight
<1>2. SceneCheckup => DoctorIsRight
  BY <1>1 DEF SceneCheckup, DoctorIsRight
<1> QED BY <1>2, DoctorStands, PTL
=============================================================================
