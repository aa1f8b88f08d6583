--------------------------- MODULE SendingProofs ---------------------------
(***************************************************************************)
(* Two things that vitro sends to a guest, whatever they hold: a project's *)
(* files, for any tree of directories and links (Archive), and a command's *)
(* line, for any words, directory and variable (GuestShell).  What         *)
(* recursive functions make of a text is proved for one text after the     *)
(* other, from the empty one: a set that has it, and with a text each that *)
(* is a symbol longer, has all of them.                                    *)
(***************************************************************************)
EXTENDS Commands, WellFoundedInduction, SequenceTheorems, TLAPS

-----------------------------------------------------------------------------
(* The archive of a project (Archive)                                      *)

Nodes == Walk!Entries \cup {Root}

LEMMA Tree ==
  /\ Root \in Dirs /\ Git \in Dirs /\ Root # Git
  /\ Holder \in [Walk!Entries -> Dirs]
  /\ \A S \in SUBSET Walk!Entries : S # {} => \E e \in S : Holder[e] \notin S
  /\ Dirs \cap Links = {} /\ Files \cap Links = {} /\ Dirs \cap Files = {}
  /\ (Dirs \cup Files) \cap {Outside, Gone} = {}
  /\ Root \notin Walk!Entries /\ Dirs \subseteq Nodes /\ Files \subseteq Walk!Entries
  /\ Links \subseteq Walk!Entries /\ Nodes = Dirs \cup Files \cup Links
  /\ Above \in [Nodes -> SUBSET Nodes] /\ Above[Root] = {Root}
  /\ \A e \in Walk!Entries : Above[e] = {e} \cup Above[Holder[e]]
BY PartsAssumption DEF PartsAssumption, Walk!ArchiveAssumption, Walk!Entries, Nodes

\* The project's directory is above everything in it
LEMMA RootAbove ==
  ASSUME NEW e \in Nodes
  PROVE  Root \in Above[e] /\ e \in Above[e]
<1> DEFINE under == {x \in Walk!Entries : Root \notin Above[x]}
<1>1. ASSUME under # {} PROVE FALSE
  <2>1. PICK x \in under : Holder[x] \notin under
    BY <1>1, Tree
  <2>2. Holder[x] \in Nodes /\ Root \in Above[Holder[x]]
    BY <2>1, Tree DEF Nodes
  <2> QED BY <2>1, <2>2, Tree
<1>2. e = Root \/ e \in Walk!Entries
  BY DEF Nodes
<1> QED BY <1>1, <1>2, Tree

\* What is above an entry has something in it that is too
LEMMA OneBelow ==
  ASSUME NEW e \in Nodes, NEW d \in Above[e], d # e
  PROVE  \E b \in Above[e] : b \in Walk!Entries /\ Holder[b] = d
<1> DEFINE Bridged(x) == \A a \in Above[x] : a # x =>
                           \E b \in Above[x] : b \in Walk!Entries /\ Holder[b] = a
<1> DEFINE broken == {x \in Walk!Entries : ~Bridged(x)}
<1>1. ASSUME broken # {} PROVE FALSE
  <2>1. PICK x \in broken : Holder[x] \notin broken
    BY <1>1, Tree
  <2>2. Holder[x] \in Nodes /\ Bridged(Holder[x])
    BY <2>1, Tree DEF Nodes
  <2>3. Bridged(x)
    BY <2>1, <2>2, RootAbove, Tree
  <2> QED BY <2>1, <2>3
<1>2. e = Root \/ e \in Walk!Entries
  BY DEF Nodes
<1> QED BY <1>1, <1>2, Tree

-----------------------------------------------------------------------------
Paths == {path \in Seq(Nodes) : path # <<>>}

\* A directory above the entry is still to be read, by its own path
Ahead(e) == \E path \in todo, d \in Dirs : d \in Above[e] /\ Walk!IsPathOf(path, d)

HasFiles(l) ==
  \A f \in Files :
    Holder[f] = leads[l] /\ (\A q \in ignored : ~Walk!IsThrough(q, l, f)) =>
      \E path \in sent : Walk!IsThrough(path, l, f)

FollowsLink(l) ==
  \/ \E path \in sent \cup left : Walk!IsPathOf(path, l)
  \/ leads[l] \in Dirs /\ ((\E path \in todo : Walk!IsPathOf(path, l)) \/ HasFiles(l))

WalkInv ==
  /\ leads \in [Links -> Walk!Targets]
  /\ todo \cup sent \cup left \subseteq Paths
  /\ \A path \in todo : Walk!Reached(path) \in Dirs /\ Git \notin Above[Walk!Reached(path)]
  /\ \A path \in sent : Walk!Reached(path) \in Files /\ Git \notin Above[Walk!Reached(path)]
  /\ \A f \in Files : Walk!Wanted(f) => Ahead(f) \/ \E path \in sent : Walk!IsPathOf(path, f)
  /\ \A l \in Links : Walk!Wanted(l) => Ahead(l) \/ FollowsLink(l)
  /\ at = "done" => todo = {}

LEMMA OneMore ==
  ASSUME NEW path \in Paths, NEW e \in Walk!Entries
  PROVE  /\ Append(path, e) \in Paths /\ Walk!Last(Append(path, e)) = e
         /\ Walk!Front(Append(path, e)) = path
         /\ Walk!IsPathOf(path, Holder[e]) => Walk!IsPathOf(Append(path, e), e)
<1> DEFINE longer == Append(path, e)
<1>1. /\ path \in Seq(Nodes) /\ Len(path) \in Nat \ {0} /\ longer \in Seq(Nodes)
      /\ Len(longer) = Len(path) + 1 /\ longer[Len(path) + 1] = e
      /\ \A i \in 1..Len(path) : longer[i] = path[i]
  BY DEF Paths, Nodes
<1> HIDE DEF longer
<1>2. longer \in Paths /\ Walk!Last(longer) = e
  BY <1>1 DEF Paths, Walk!Last
<1>3. Walk!Front(longer) = path
  <2>1. Len(longer) - 1 = Len(path) /\ Walk!Front(longer) = SubSeq(longer, 1, Len(path))
    BY <1>1 DEF Walk!Front
  <2>2. SubSeq(longer, 1, Len(path)) = [i \in 1..Len(path) |-> longer[i]]
    BY <1>1
  <2>3. path = [i \in 1..Len(path) |-> path[i]]
    BY <1>1
  <2> QED BY <1>1, <2>1, <2>2, <2>3
<1>4. ASSUME Walk!IsPathOf(path, Holder[e]) PROVE Walk!IsPathOf(longer, e)
  <2>1. path[1] = Root /\ path[Len(path)] = Holder[e]
        /\ \A i \in 2..Len(path) : path[i] \in Walk!Entries /\ Holder[path[i]] = path[i - 1]
    BY <1>4 DEF Walk!IsPathOf, Walk!Last
  <2>2. longer[1] = Root
    BY <1>1, <2>1
  <2>3. ASSUME NEW i \in 2..Len(longer)
        PROVE  longer[i] \in Walk!Entries /\ Holder[longer[i]] = longer[i - 1]
    <3>1. CASE i = Len(path) + 1
      BY <1>1, <2>1, <3>1
    <3>2. CASE i # Len(path) + 1
      <4>1. i \in 2..Len(path) /\ i - 1 \in 1..Len(path) /\ i \in 1..Len(path)
        BY <1>1, <3>2
      <4> QED BY <1>1, <2>1, <4>1
    <3> QED BY <3>1, <3>2
  <2> QED BY <1>1, <1>2, <2>2, <2>3 DEF Walk!IsPathOf
<1> QED BY <1>2, <1>3, <1>4 DEF longer

LEMMA WalkInit ==
  ASSUME Walk!Init
  PROVE  WalkInv
<1>1. <<Root>> \in Paths /\ Walk!IsPathOf(<<Root>>, Root) /\ Walk!Last(<<Root>>) = Root
  BY DEF Paths, Nodes, Walk!IsPathOf, Walk!Last
<1>2. Walk!Reached(<<Root>>) = Root
  BY <1>1, Tree DEF Walk!Reached, Walk!Behind
<1>3. \A e \in Nodes : Ahead(e)
  BY <1>1, RootAbove, Tree DEF Walk!Init, Ahead
<1> QED BY <1>1, <1>2, <1>3, Tree DEF Walk!Init, WalkInv

-----------------------------------------------------------------------------
\* Reading a directory
Here(path) == {e \in Walk!Entries : /\ Holder[e] = Walk!Reached(path) /\ e # Git
                                    /\ Append(path, e) \notin ignored}
Kept(path) == {e \in Here(path) : ~Walk!Refused(e) /\ ~Walk!Loops(path, e)}

Reads(path) ==
  /\ path \in todo
  /\ todo' = (todo \ {path}) \cup {Append(path, e) : e \in {x \in Kept(path) : Walk!Behind(x) \in Dirs}}
  /\ sent' = sent \cup {Append(path, e) : e \in {x \in Kept(path) : Walk!Behind(x) \in Files}}
  /\ left' = left \cup {Append(path, e) : e \in Here(path) \ Kept(path)}
  /\ UNCHANGED <<leads, ignored>> /\ at' # "done"

LEMMA ReadsOne ==
  ASSUME Walk!ReadDir
  PROVE  \E path : Reads(path)
<1> DEFINE path == CHOOSE p \in todo : TRUE
<1>1. path \in todo
  BY DEF Walk!ReadDir
<1> HIDE DEF path
<1>2. Reads(path)
  BY <1>1 DEF Walk!ReadDir, Reads, Here, Kept, path
<1> QED BY <1>2

\* What is kept leads to somewhere in the project, outside its .git
LEMMA KeptLeads ==
  ASSUME WalkInv, NEW path \in todo, NEW e \in Kept(path)
  PROVE  /\ e \in Walk!Entries /\ Walk!Behind(e) \in Dirs \cup Files
         /\ Git \notin Above[Walk!Behind(e)]
<1>1. /\ e \in Walk!Entries /\ Holder[e] = Walk!Reached(path) /\ e # Git /\ ~Walk!Refused(e)
      /\ Git \notin Above[Walk!Reached(path)]
  BY DEF Kept, Here, WalkInv
<1>2. CASE e \in Links
  BY <1>1, <1>2 DEF Walk!Refused, Walk!StaysInside, Walk!Behind
<1>3. CASE e \notin Links
  <2>1. e \in Dirs \cup Files /\ Walk!Behind(e) = e
    BY <1>1, <1>3, Tree DEF Walk!Behind, Nodes
  <2> QED BY <1>1, <2>1, Tree
<1> QED BY <1>1, <1>2, <1>3

\* A path that is not read is there, and so is what was to be sent
LEMMA StillThere ==
  ASSUME WalkInv, NEW path, Reads(path)
  PROVE  /\ sent \subseteq sent' /\ left \subseteq left' /\ todo \ {path} \subseteq todo'
         /\ path \in todo /\ path \in Paths
         /\ leads' = leads /\ ignored' = ignored
         /\ \A e \in Nodes : Walk!Wanted(e)' = Walk!Wanted(e)
         /\ \A q, e : Walk!IsPathOf(q, e)' = Walk!IsPathOf(q, e)
BY DEF WalkInv, Reads, Walk!Wanted, Walk!IsPathOf

LEMMA ReadsType ==
  ASSUME WalkInv, NEW path, Reads(path)
  PROVE  /\ (todo \cup sent \cup left \subseteq Paths)'
         /\ \A p \in todo' : Walk!Reached(p)' \in Dirs /\ Git \notin Above[Walk!Reached(p)']
         /\ \A p \in sent' : Walk!Reached(p)' \in Files /\ Git \notin Above[Walk!Reached(p)']
<1>1. path \in todo /\ path \in Paths /\ todo \cup sent \cup left \subseteq Paths
  BY StillThere DEF WalkInv
<1>2. \A e \in Here(path) : e \in Walk!Entries
  BY DEF Here
<1>3. \A e \in Here(path) : Append(path, e) \in Paths /\ Walk!Reached(Append(path, e)) = Walk!Behind(e)
  BY <1>1, <1>2, OneMore DEF Walk!Reached
<1>4. \A p : Walk!Reached(p)' = Walk!Reached(p)
  BY DEF Walk!Reached, Walk!Behind, Reads
<1>5. Kept(path) \subseteq Here(path)
  BY DEF Kept
<1>6. \A e \in Kept(path) : Git \notin Above[Walk!Reached(Append(path, e))]
  BY <1>1, <1>3, <1>5, KeptLeads
<1>7. (todo \cup sent \cup left \subseteq Paths)'
  BY <1>1, <1>3, <1>5 DEF Reads
<1>8. \A p \in todo' : Walk!Reached(p) \in Dirs /\ Git \notin Above[Walk!Reached(p)]
  BY <1>3, <1>5, <1>6 DEF Reads, WalkInv
<1>9. \A p \in sent' : Walk!Reached(p) \in Files /\ Git \notin Above[Walk!Reached(p)]
  BY <1>3, <1>5, <1>6 DEF Reads, WalkInv
<1> QED BY <1>4, <1>7, <1>8, <1>9

\* A wanted entry with a directory above it to be read gets nearer, or is reached
LEMMA AheadStep ==
  ASSUME WalkInv, NEW path, Reads(path), NEW e \in Files \cup Links, Walk!Wanted(e), Ahead(e)
  PROVE  Ahead(e)' \/ (Walk!IsPathOf(Append(path, e), e) /\ e \in Here(path) /\ Append(path, e) \in Paths)
<1>1. PICK q \in todo, d \in Dirs : d \in Above[e] /\ Walk!IsPathOf(q, d)
  BY DEF Ahead
<1>2. CASE q # path
  BY <1>1, <1>2, StillThere DEF Ahead
<1>3. CASE q = path
  <2>1. e \in Nodes /\ d # e
    BY Tree DEF Nodes
  <2>2. PICK b \in Above[e] : b \in Walk!Entries /\ Holder[b] = d
    BY <1>1, <2>1, OneBelow
  <2>3. b # Git /\ \A q2 \in ignored : ~Walk!IsPathOf(q2, b)
    BY <2>1, <2>2, RootAbove, Tree DEF Walk!Wanted
  <2>4. Walk!Reached(path) = d
    BY <1>1, <1>3, Tree DEF Walk!Reached, Walk!Behind, Walk!IsPathOf
  <2>5. Append(path, b) \in Paths /\ Walk!IsPathOf(Append(path, b), b)
    BY <1>1, <1>3, <2>2, OneMore, StillThere
  <2>6. b \in Here(path)
    BY <2>2, <2>3, <2>4, <2>5 DEF Here
  <2>7. CASE b # e
    <3>1. PICK c \in Above[e] : c \in Walk!Entries /\ Holder[c] = b
      BY <2>1, <2>7, OneBelow
    <3>2. b \in Dirs /\ b \notin Links
      BY <3>1, Tree
    <3>3. b \in Kept(path) /\ Walk!Behind(b) \in Dirs
      BY <2>6, <3>2 DEF Kept, Walk!Refused, Walk!Loops, Walk!Behind
    <3>4. Append(path, b) \in todo'
      BY <3>3 DEF Reads
    <3> QED BY <2>5, <3>2, <3>4, StillThere DEF Ahead
  <2> QED BY <2>5, <2>6, <2>7
<1> QED BY <1>2, <1>3

LEMMA FileStep ==
  ASSUME WalkInv, NEW path, Reads(path), NEW f \in Files, Walk!Wanted(f)
  PROVE  (Ahead(f) \/ \E q \in sent : Walk!IsPathOf(q, f))'
<1>1. CASE \E q \in sent : Walk!IsPathOf(q, f)
  BY <1>1, StillThere
<1>2. CASE Walk!IsPathOf(Append(path, f), f) /\ f \in Here(path)
  <2>1. f \in Kept(path) /\ Walk!Behind(f) = f
    BY <1>2, Tree DEF Kept, Walk!Refused, Walk!Loops, Walk!Behind
  <2>2. Append(path, f) \in sent'
    BY <2>1 DEF Reads
  <2> QED BY <1>2, <2>2, StillThere
<1> QED BY <1>1, <1>2, AheadStep DEF WalkInv

LEMMA LinkStep ==
  ASSUME WalkInv, NEW path, Reads(path), NEW l \in Links, Walk!Wanted(l)
  PROVE  (Ahead(l) \/ FollowsLink(l))'
<1>1. CASE \E q \in sent \cup left : Walk!IsPathOf(q, l)
  BY <1>1, StillThere DEF FollowsLink
<1>2. CASE Walk!IsPathOf(Append(path, l), l) /\ l \in Here(path)
  <2>1. CASE l \notin Kept(path)
    BY <1>2, <2>1, StillThere DEF Reads, FollowsLink
  <2>2. CASE l \in Kept(path)
    <3>1. leads[l] \in Dirs \cup Files /\ Walk!Behind(l) = leads[l] /\ leads' = leads
      BY <2>2, KeptLeads, StillThere DEF Walk!Behind
    <3>2. CASE leads[l] \in Dirs
      <4>1. Append(path, l) \in todo'
        BY <2>2, <3>1, <3>2 DEF Reads
      <4> QED BY <1>2, <3>1, <3>2, <4>1, StillThere DEF FollowsLink
    <3>3. CASE leads[l] \in Files
      <4>1. Append(path, l) \in sent'
        BY <2>2, <3>1, <3>3 DEF Reads
      <4> QED BY <1>2, <4>1, StillThere DEF FollowsLink
    <3> QED BY <3>1, <3>2, <3>3
  <2> QED BY <2>1, <2>2
<1>3. CASE leads[l] \in Dirs /\ \E q \in todo : Walk!IsPathOf(q, l)
  <2>1. PICK q \in todo : Walk!IsPathOf(q, l)
    BY <1>3
  <2>2. CASE q # path
    BY <1>3, <2>1, <2>2, StillThere DEF FollowsLink
  <2>3. CASE q = path
    <3>1. Walk!Reached(path) = leads[l] /\ path \in Paths
      BY <2>1, <2>3, StillThere DEF Walk!Reached, Walk!Behind, Walk!IsPathOf
    <3>2. ASSUME NEW f \in Files, Holder[f] = leads[l],
                 \A p \in ignored : ~Walk!IsThrough(p, l, f)
          PROVE  \E p \in sent' : Walk!IsThrough(p, l, f)
      <4>1. Walk!Last(Append(path, f)) = f /\ Walk!Front(Append(path, f)) = path
        BY <3>1, OneMore, Tree
      <4>2. Walk!IsThrough(Append(path, f), l, f)
        BY <2>1, <2>3, <4>1 DEF Walk!IsThrough
      <4>3. f \in Here(path)
        BY <3>1, <3>2, <4>2, Tree DEF Here
      <4>4. f \in Kept(path) /\ Walk!Behind(f) = f
        BY <4>3, Tree DEF Kept, Walk!Refused, Walk!Loops, Walk!Behind
      <4>5. Append(path, f) \in sent'
        BY <4>4 DEF Reads
      <4> QED BY <4>2, <4>5
    <3>3. HasFiles(l)'
      BY <3>2, StillThere DEF HasFiles, Walk!IsThrough, Walk!IsPathOf, Walk!Front, Walk!Last
    <3> QED BY <1>3, <3>3, StillThere DEF FollowsLink
  <2> QED BY <2>2, <2>3
<1>4. CASE leads[l] \in Dirs /\ HasFiles(l)
  <2>1. HasFiles(l)'
    BY <1>4, StillThere DEF HasFiles
  <2> QED BY <1>4, <2>1, StillThere DEF FollowsLink
<1> QED BY <1>1, <1>2, <1>3, <1>4, AheadStep DEF WalkInv, FollowsLink

LEMMA WalkNext ==
  ASSUME WalkInv, Walk!Next
  PROVE  WalkInv'
<1>1. CASE Walk!Finish
  BY <1>1 DEF Walk!Finish, WalkInv, Ahead, FollowsLink, HasFiles, Walk!Wanted, Walk!Reached, Walk!Behind
<1>2. CASE Walk!ReadDir
  <2>1. PICK path : Reads(path)
    BY <1>2, ReadsOne
  <2>2. /\ leads' = leads /\ at' # "done"
        /\ \A e \in Nodes : Walk!Wanted(e)' = Walk!Wanted(e)
        /\ \A q, e : Walk!IsPathOf(q, e)' = Walk!IsPathOf(q, e)
    BY <2>1, StillThere DEF Reads
  <2>3. \A f \in Files : Walk!Wanted(f)' => (Ahead(f) \/ \E q \in sent : Walk!IsPathOf(q, f))'
    BY <2>1, <2>2, FileStep, Tree
  <2>4. \A l \in Links : Walk!Wanted(l)' => (Ahead(l) \/ FollowsLink(l))'
    BY <2>1, <2>2, LinkStep, Tree
  <2> QED BY <2>1, <2>2, <2>3, <2>4, ReadsType DEF WalkInv
<1> QED BY <1>1, <1>2 DEF Walk!Next

LEMMA WalkSends ==
  ASSUME WalkInv
  PROVE  Walk!SendsTheProject
BY DEF WalkInv, Walk!SendsTheProject, Ahead, FollowsLink, HasFiles

-----------------------------------------------------------------------------
SceneWalk == scene = "walk" => WalkInv

\* For any tree, links and rules of what to ignore: what is still to read leads to every
\* wanted entry that is not sent yet, and nothing else is sent (WalkInv)
THEOREM WalkStands == Spec => []SceneWalk
<1>1. Init => SceneWalk
  BY WalkInit DEF Init, SceneWalk
<1>2. ASSUME SceneWalk, [Next]_vars PROVE SceneWalk'
  <2>1. CASE UNCHANGED <<scene, walkVars>>
    BY <1>2, <2>1 DEF SceneWalk, WalkInv, walkVars, Ahead, FollowsLink, HasFiles, Walk!Wanted,
       Walk!Reached, Walk!Behind
  <2>2. CASE Walk!Next /\ UNCHANGED scene
    BY <1>2, <2>2, WalkNext DEF SceneWalk
  <2> QED BY <1>2, <2>1, <2>2 DEF Next, vars, SceneWalk
<1> QED BY <1>1, <1>2, PTL DEF Spec

\* sync sends the files of the project that are not ignored, those behind its links too, and
\* nothing that is outside of it (archive, stays_inside)
THEOREM SyncSendsTheProject == Spec => []SendsTheProject
<1>1. SceneWalk => SendsTheProject
  BY WalkSends DEF SceneWalk, SendsTheProject
<1> QED BY <1>1, WalkStands, PTL

-----------------------------------------------------------------------------
(* Induction, and the shells' readings (GuestShell)                        *)

\* Induction on the numbers: a least one that is not in S has one before it
LEMMA Counting ==
  ASSUME NEW S \in SUBSET Nat, 0 \in S, \A n \in S : n + 1 \in S
  PROVE  S = Nat
<1> SUFFICES ASSUME Nat \ S # {} PROVE FALSE
  OBVIOUS
<1> DEFINE Less == OpToRel(<, Nat)
<1>1. IsWellFoundedOn(Less, Nat)
  BY NatLessThanWellFounded, Zenon
<1>2. \A i, j \in Nat : i < j => <<i, j>> \in Less
  BY DEF OpToRel
<1> HIDE DEF Less
<1>3. PICK least \in Nat \ S : \A i \in Nat \ S : ~(<<i, least>> \in Less)
  BY <1>1, WFMin
<1>4. least # 0
  OBVIOUS
<1>5. least - 1 \in Nat /\ least - 1 < least /\ (least - 1) + 1 = least
  BY <1>4
<1>6. least - 1 \in S
  BY <1>2, <1>3, <1>5
<1> QED BY <1>5, <1>6

\* Induction on sequences: they all come of the empty one, by appending
LEMMA Growing ==
  ASSUME NEW X, NEW T \in SUBSET Seq(X), <<>> \in T,
         \A s \in T, x \in X : Append(s, x) \in T
  PROVE  T = Seq(X)
<1> DEFINE S == {n \in Nat : \A s \in Seq(X) : Len(s) = n => s \in T}
<1>1. 0 \in S
  BY EmptySeq
<1>2. ASSUME NEW n \in S PROVE n + 1 \in S
  <2> SUFFICES ASSUME NEW s \in Seq(X), Len(s) = n + 1 PROVE s \in T
    OBVIOUS
  <2>1. s # <<>>
    OBVIOUS
  <2>2. PICK front \in Seq(X), x \in X : s = Append(front, x)
    BY <2>1, SequenceEmptyOrAppend
  <2>3. Len(front) = n
    BY <2>2
  <2> QED BY <2>2, <2>3
<1>3. S = Nat
  <2> HIDE DEF S
  <2>1. S \in SUBSET Nat
    BY DEF S
  <2> QED BY <1>1, <1>2, <2>1, Counting
<1>4. ASSUME NEW s \in Seq(X) PROVE s \in T
  <2>1. Len(s) \in Nat
    OBVIOUS
  <2> QED BY <1>3, <2>1
<1> QED BY <1>4

\* The readings of the first symbols of a text
Readings(r, text, n) ==
  CHOOSE f : f = [m \in 0..n |-> IF m = 0 THEN r ELSE Shell!Reads(f[m - 1], text[m])]

\* The recursive function of After is there, for any text
LEMMA ReadingsThere ==
  ASSUME NEW r, NEW text, NEW n \in Nat
  PROVE  Readings(r, text, n) =
           [m \in 0..n |-> IF m = 0 THEN r ELSE Shell!Reads(Readings(r, text, n)[m - 1], text[m])]
<1> DEFINE Has(f, k) == f = [m \in 0..k |-> IF m = 0 THEN r ELSE Shell!Reads(f[m - 1], text[m])]
<1> DEFINE S == {k \in Nat : \E f : Has(f, k)}
<1>1. 0 \in S
  <2>1. Has([m \in 0..0 |-> r], 0)
    OBVIOUS
  <2> QED BY <2>1
<1>2. ASSUME NEW k \in S PROVE k + 1 \in S
  <2>1. PICK f : Has(f, k)
    OBVIOUS
  <2> DEFINE g == [m \in 0..(k + 1) |-> IF m = k + 1 THEN Shell!Reads(f[k], text[k + 1]) ELSE f[m]]
  <2>2. \A m \in 0..k : f[m] = IF m = 0 THEN r ELSE Shell!Reads(f[m - 1], text[m])
    BY <2>1
  <2>3. \A m \in 0..(k + 1) : g[m] = IF m = 0 THEN r ELSE Shell!Reads(g[m - 1], text[m])
    BY <2>2
  <2>4. Has(g, k + 1)
    BY <2>3
  <2> HIDE DEF Has, g
  <2> QED BY <2>4
<1>3. S = Nat
  <2> HIDE DEF S
  <2>1. S \in SUBSET Nat
    BY DEF S
  <2> QED BY <1>1, <1>2, <2>1, Counting
<1>4. \E f : Has(f, n)
  BY <1>3
<1> QED BY <1>4 DEF Readings

LEMMA AfterReadings ==
  ASSUME NEW r, NEW text
  PROVE  Shell!After(r, text) = Readings(r, text, Len(text))[Len(text)]
BY DEF Shell!After, Readings

\* A shell reads a text as it reads the front of it, and then the last symbol
LEMMA AfterNone == ASSUME NEW r PROVE Shell!After(r, <<>>) = r
BY AfterReadings, ReadingsThere

LEMMA AfterOne ==
  ASSUME NEW X, NEW s \in Seq(X), NEW c \in X, NEW r
  PROVE  Shell!After(r, Append(s, c)) = Shell!Reads(Shell!After(r, s), c)
<1> DEFINE n == Len(s)
           t == Append(s, c)
           f == Readings(r, s, n)
           g == Readings(r, t, n + 1)
<1>1. n \in Nat /\ Len(t) = n + 1 /\ t[n + 1] = c /\ \A m \in 1..n : t[m] = s[m]
  OBVIOUS
<1>2. \A m \in 0..n : f[m] = IF m = 0 THEN r ELSE Shell!Reads(f[m - 1], s[m])
  BY <1>1, ReadingsThere
<1>3. \A m \in 0..(n + 1) : g[m] = IF m = 0 THEN r ELSE Shell!Reads(g[m - 1], t[m])
  <2> DEFINE k == n + 1
  <2>0. k \in Nat
    BY <1>1
  <2>1. g = [m \in 0..k |-> IF m = 0 THEN r ELSE Shell!Reads(g[m - 1], t[m])]
    <3> HIDE DEF t, k
    <3> QED BY <2>0, ReadingsThere DEF k
  <2> QED BY <2>1
<1> HIDE DEF f, g, t
<1> DEFINE S == {m \in Nat : m <= n => f[m] = g[m]}
<1>4. 0 \in S
  BY <1>1, <1>2, <1>3
<1>5. ASSUME NEW m \in S PROVE m + 1 \in S
  BY <1>1, <1>2, <1>3
<1>6. S = Nat
  <2> HIDE DEF S
  <2>1. S \in SUBSET Nat
    BY DEF S
  <2> QED BY <1>4, <1>5, <2>1, Counting
<1>7. f[n] = g[n] /\ g[n + 1] = Shell!Reads(g[n], c)
  BY <1>1, <1>3, <1>6
<1>8. Shell!After(r, s) = f[n] /\ Shell!After(r, t) = g[n + 1]
  BY <1>1, AfterReadings DEF f, g
<1> QED BY <1>7, <1>8 DEF t

\* and one text after another
LEMMA AfterMore ==
  ASSUME NEW X, NEW s \in Seq(X), NEW t \in Seq(X), NEW r
  PROVE  Shell!After(r, s \o t) = Shell!After(Shell!After(r, s), t)
<1> DEFINE T == {u \in Seq(X) : Shell!After(r, s \o u) = Shell!After(Shell!After(r, s), u)}
<1>1. <<>> \in T
  BY AfterNone, ConcatEmptySeq, EmptySeq
<1>2. ASSUME NEW u \in T, NEW x \in X PROVE Append(u, x) \in T
  <2>1. s \o Append(u, x) = Append(s \o u, x) /\ s \o u \in Seq(X) /\ Append(u, x) \in Seq(X)
    OBVIOUS
  <2>2. PICK v, a : v \in Seq(X) /\ v = s \o u /\ a = Shell!After(r, s)
    BY <2>1
  <2>3. Shell!After(r, Append(v, x)) = Shell!Reads(Shell!After(r, v), x)
    BY <2>2, AfterOne
  <2>4. Shell!After(a, Append(u, x)) = Shell!Reads(Shell!After(a, u), x)
    BY AfterOne
  <2> QED BY <2>1, <2>2, <2>3, <2>4
<1>3. T = Seq(X)
  <2> HIDE DEF T
  <2>1. T \in SUBSET Seq(X)
    BY DEF T
  <2> QED BY <1>1, <1>2, <2>1, Growing
<1> QED BY <1>3

-----------------------------------------------------------------------------
\* What the first of some texts come to
Flats(texts, n) ==
  CHOOSE f : f = [i \in 1..n |-> IF i = 1 THEN texts[i] ELSE f[i - 1] \o texts[i]]

\* The recursive function of FlattenSeq is there, for any texts
LEMMA FlatsThere ==
  ASSUME NEW texts, NEW n \in Nat
  PROVE  Flats(texts, n) = [i \in 1..n |-> IF i = 1 THEN texts[i] ELSE Flats(texts, n)[i - 1] \o texts[i]]
<1> DEFINE Has(f, k) == f = [i \in 1..k |-> IF i = 1 THEN texts[i] ELSE f[i - 1] \o texts[i]]
<1> DEFINE S == {k \in Nat : \E f : Has(f, k)}
<1>1. 0 \in S
  <2>1. Has([i \in 1..0 |-> <<>>], 0)
    OBVIOUS
  <2> HIDE DEF Has
  <2> QED BY <2>1
<1>2. ASSUME NEW k \in S PROVE k + 1 \in S
  <2>1. PICK f : Has(f, k)
    OBVIOUS
  <2> DEFINE g == [i \in 1..(k + 1) |-> IF i = 1 THEN texts[1]
                                        ELSE IF i = k + 1 THEN f[k] \o texts[k + 1] ELSE f[i]]
  <2>2. \A i \in 1..k : f[i] = IF i = 1 THEN texts[i] ELSE f[i - 1] \o texts[i]
    BY <2>1
  <2>3. \A i \in 1..(k + 1) : g[i] = IF i = 1 THEN texts[i] ELSE g[i - 1] \o texts[i]
    <3>1. k \in Nat
      OBVIOUS
    <3>2. ASSUME NEW i \in 1..(k + 1), i # 1 PROVE g[i] = g[i - 1] \o texts[i]
      <4>1. i - 1 \in 1..k /\ i - 1 \in 1..(k + 1) /\ i - 1 # k + 1
        BY <3>1, <3>2
      <4>2. g[i - 1] = f[i - 1]
        BY <2>2, <4>1
      <4>3. CASE i = k + 1
        <5>1. i - 1 = k /\ g[i] = f[k] \o texts[k + 1]
          <6>1. i - 1 = k
            BY <3>1, <4>3
          <6>2. i \in 1..(k + 1)
            OBVIOUS
          <6>3. g[i] = IF i = 1 THEN texts[1] ELSE IF i = k + 1 THEN f[k] \o texts[k + 1] ELSE f[i]
            BY <6>2
          <6> QED BY <3>2, <4>3, <6>1, <6>3
        <5> HIDE DEF g
        <5> QED BY <4>2, <4>3, <5>1
      <4>4. CASE i # k + 1
        <5>1. i \in 1..k
          BY <3>1, <4>4
        <5> QED BY <2>2, <3>2, <4>2, <4>4, <5>1
      <4> QED BY <4>3, <4>4
    <3> QED BY <3>1, <3>2
  <2>4. Has(g, k + 1)
    BY <2>3
  <2> HIDE DEF Has, g
  <2> QED BY <2>4
<1>3. S = Nat
  <2> HIDE DEF S
  <2>1. S \in SUBSET Nat
    BY DEF S
  <2> QED BY <1>1, <1>2, <2>1, Counting
<1>4. \E f : Has(f, n)
  BY <1>3
<1> QED BY <1>4, Zenon DEF Flats

LEMMA FlatIsFlats ==
  ASSUME NEW texts, NEW n \in Nat, n # 0, Len(texts) = n
  PROVE  Shell!FlattenSeq(texts) = Flats(texts, n)[n]
BY DEF Shell!FlattenSeq, Flats

\* FlattenSeq, from the front
LEMMA FlatNone == Shell!FlattenSeq(<<>>) = <<>>
BY DEF Shell!FlattenSeq

LEMMA FlatFirst == ASSUME NEW X, NEW t \in Seq(X) PROVE Shell!FlattenSeq(<<t>>) = t
<1>0. PICK u : u = <<t>>
  OBVIOUS
<1>1. Len(u) = 1 /\ u[1] = t
  BY <1>0
<1>2. Flats(u, 1) = [i \in 1..1 |-> IF i = 1 THEN u[i] ELSE Flats(u, 1)[i - 1] \o u[i]]
  BY FlatsThere
<1>3. Flats(u, 1)[1] = t
  BY <1>1, <1>2
<1>4. PICK n \in Nat : n = 1
  OBVIOUS
<1>5. Shell!FlattenSeq(u) = Flats(u, n)[n]
  <2>1. Len(u) = n /\ n # 0
    BY <1>1, <1>4
  <2> QED BY <2>1, FlatIsFlats
<1> QED BY <1>0, <1>3, <1>4, <1>5

LEMMA FlatAppend ==
  ASSUME NEW X, NEW s \in Seq(Seq(X)), NEW t \in Seq(X), s # <<>>
  PROVE  Shell!FlattenSeq(Append(s, t)) = Shell!FlattenSeq(s) \o t
<1> DEFINE n == Len(s)
           u == Append(s, t)
           f == Flats(s, n)
           k == n + 1
           g == Flats(u, k)
<1>1. n \in Nat /\ n # 0 /\ k \in Nat /\ Len(u) = n + 1 /\ u[n + 1] = t /\ \A m \in 1..n : u[m] = s[m]
  OBVIOUS
<1>2. \A m \in 1..n : f[m] = IF m = 1 THEN s[m] ELSE f[m - 1] \o s[m]
  <2>1. f = [m \in 1..n |-> IF m = 1 THEN s[m] ELSE f[m - 1] \o s[m]]
    BY <1>1, FlatsThere
  <2> QED BY <2>1
<1>3. \A m \in 1..k : g[m] = IF m = 1 THEN u[m] ELSE g[m - 1] \o u[m]
  <2>1. g = [m \in 1..k |-> IF m = 1 THEN u[m] ELSE g[m - 1] \o u[m]]
    <3> HIDE DEF u, k
    <3> QED BY <1>1, FlatsThere
  <2> QED BY <2>1
<1> HIDE DEF f, g, u
<1> DEFINE S == {m \in Nat : 1 <= m /\ m <= n => f[m] = g[m]}
<1>4. 0 \in S
  OBVIOUS
<1>5. ASSUME NEW m \in S PROVE m + 1 \in S
  BY <1>1, <1>2, <1>3
<1>6. S = Nat
  <2> HIDE DEF S
  <2>1. S \in SUBSET Nat
    BY DEF S
  <2> QED BY <1>4, <1>5, <2>1, Counting
<1>7. f[n] = g[n] /\ g[k] = g[n] \o t
  <2>1. n \in S
    BY <1>1, <1>6
  <2>2. k \in 1..k /\ k # 1 /\ k - 1 = n /\ u[k] = t
    BY <1>1
  <2>3. g[k] = g[n] \o t
    BY <1>3, <2>2
  <2> QED BY <1>1, <2>1, <2>3
<1>8. Shell!FlattenSeq(s) = f[n]
  BY <1>1, FlatIsFlats DEF f
<1>9. Shell!FlattenSeq(u) = g[k]
  <2>1. Len(u) = k /\ k # 0 /\ k \in Nat
    BY <1>1
  <2> HIDE DEF k
  <2> QED BY <2>1, FlatIsFlats DEF g
<1> QED BY <1>7, <1>8, <1>9 DEF u

-----------------------------------------------------------------------------
\* A space, a ; and the end of launch's line are none of the other symbols that mean something
LEMMA BlankDiffers ==
  /\ Shell!Blank \notin {"'", "\\", "&&", "$", "Set-Location", Shell!Semicolon} \cup Shell!Safe
  /\ Shell!Semicolon \notin {"'", "N", "=", "Set-Location"}
  /\ Shell!Detach \notin {"'", "\\", "$", Shell!Blank} \cup Shell!Safe
BY Zenon DEF Shell!Blank, Shell!Semicolon, Shell!Detach, Shell!Safe

Chars == Symbols \cup Shell!Safe \cup {"'", "\\", Shell!Blank, "&&", Shell!Semicolon, "Set-Location",
                                      Shell!Detach}
Texts == Seq(Chars)

Piece(c, by) == IF c = "'" THEN by ELSE <<c>>

\* Replaced, from the front
LEMMA ReplacedNone == ASSUME NEW by PROVE Shell!Replaced(<<>>, by) = <<>>
<1>1. [i \in DOMAIN <<>> |-> IF <<>>[i] = "'" THEN by ELSE <<<<>>[i]>>] = <<>>
  OBVIOUS
<1> QED BY <1>1, FlatNone DEF Shell!Replaced

LEMMA Pieces ==
  ASSUME NEW w \in Texts, NEW c \in Chars, NEW by \in Texts
  PROVE  /\ [i \in DOMAIN w |-> Piece(w[i], by)] \in Seq(Texts)
         /\ [i \in DOMAIN Append(w, c) |-> Piece(Append(w, c)[i], by)]
            = Append([i \in DOMAIN w |-> Piece(w[i], by)], Piece(c, by))
<1> DEFINE n == Len(w)
           u == Append(w, c)
           p == [i \in DOMAIN w |-> Piece(w[i], by)]
           q == [i \in DOMAIN u |-> Piece(u[i], by)]
<1>1. n \in Nat /\ DOMAIN w = 1..n /\ \A i \in 1..n : w[i] \in Chars
  BY DEF Texts
<1>2. DOMAIN u = 1..(n + 1) /\ u[n + 1] = c /\ \A i \in 1..n : u[i] = w[i]
  BY DEF Texts
<1>3. \A x \in Chars : Piece(x, by) \in Texts
  BY DEF Piece, Texts
<1>4. p \in Seq(Texts) /\ Len(p) = n /\ \A i \in 1..n : p[i] = Piece(w[i], by)
  BY <1>1, <1>3
<1>5. q \in Seq(Texts) /\ Len(q) = n + 1 /\ \A i \in 1..(n + 1) : q[i] = Piece(u[i], by)
  BY <1>1, <1>2, <1>3
<1>6. q = Append(p, Piece(c, by))
  <2> HIDE DEF p, q, u
  <2>1. Piece(c, by) \in Texts
    BY <1>3
  <2>2. Append(p, Piece(c, by)) \in Seq(Texts) /\ Len(Append(p, Piece(c, by))) = n + 1
    BY <1>1, <1>4, <2>1
  <2>3. \A i \in 1..(n + 1) : q[i] = Append(p, Piece(c, by))[i]
    BY <1>1, <1>2, <1>4, <1>5
  <2> QED BY <1>5, <2>2, <2>3, SeqEqual
<1> QED BY <1>4, <1>6

LEMMA ReplacedAppend ==
  ASSUME NEW w \in Texts, NEW c \in Chars, NEW by \in Texts
  PROVE  Shell!Replaced(Append(w, c), by) = Shell!Replaced(w, by) \o Piece(c, by)
<1> DEFINE p == [i \in DOMAIN w |-> Piece(w[i], by)]
<1>1. Piece(c, by) \in Texts
  BY DEF Piece, Texts
<1>2. Shell!Replaced(w, by) = Shell!FlattenSeq(p)
  BY DEF Shell!Replaced, Piece
<1>3. Shell!Replaced(Append(w, c), by) = Shell!FlattenSeq(Append(p, Piece(c, by)))
  <2>1. Shell!Replaced(Append(w, c), by)
        = Shell!FlattenSeq([i \in DOMAIN Append(w, c) |-> Piece(Append(w, c)[i], by)])
    BY DEF Shell!Replaced, Piece
  <2> QED BY <2>1, Pieces
<1>4. p \in Seq(Texts)
  BY Pieces
<1> HIDE DEF p
<1>5. CASE p = <<>>
  <2>1. Append(p, Piece(c, by)) = <<Piece(c, by)>>
    BY <1>5
  <2>2. <<>> \o Piece(c, by) = Piece(c, by)
    BY <1>1 DEF Texts
  <2> QED BY <1>1, <1>2, <1>3, <1>5, <2>1, <2>2, FlatNone, FlatFirst DEF Texts
<1>6. CASE p # <<>>
  <2>1. Shell!FlattenSeq(Append(p, Piece(c, by))) = Shell!FlattenSeq(p) \o Piece(c, by)
    BY <1>1, <1>4, <1>6, FlatAppend DEF Texts
  <2> QED BY <1>2, <1>3, <2>1
<1> QED BY <1>5, <1>6

LEMMA ReplacedIsText ==
  ASSUME NEW w \in Texts, NEW by \in Texts
  PROVE  Shell!Replaced(w, by) \in Texts
<1> DEFINE T == {u \in Texts : Shell!Replaced(u, by) \in Texts}
<1>1. <<>> \in T
  <2>1. <<>> \in Texts /\ Shell!Replaced(<<>>, by) = <<>>
    BY ReplacedNone DEF Texts
  <2> QED BY <2>1
<1>2. ASSUME NEW u \in T, NEW x \in Chars PROVE Append(u, x) \in T
  <2>1. Append(u, x) \in Texts /\ Piece(x, by) \in Texts
    BY DEF Texts, Piece
  <2>2. Shell!Replaced(u, by) \o Piece(x, by) \in Texts
    BY <2>1 DEF Texts
  <2> QED BY <2>1, <2>2, ReplacedAppend
<1>3. T = Texts
  <2> HIDE DEF T
  <2>1. T \in SUBSET Seq(Chars)
    BY DEF T, Texts
  <2> QED BY <1>1, <1>2, <2>1, Growing DEF Texts
<1> QED BY <1>3

-----------------------------------------------------------------------------
St(in, text, plain, sets, words, commands) ==
  [shell |-> "posix", in |-> in, text |-> text, plain |-> plain, sets |-> sets,
   words |-> words, commands |-> commands]

AllSet(words) == \A i \in DOMAIN words : words[i].sets

\* The truth values of a reading, kept closed
No == FALSE
Yes == TRUE

\* A symbol makes a word an assignment, or it is one already
Marks(s, p, t, words, c) == s \/ (c = "=" /\ p /\ Shell!IsName(t) /\ AllSet(words))

\* What a POSIX shell makes of a symbol, in each of its states
LEMMA InQuotes ==
  ASSUME NEW t, NEW p, NEW s, NEW ws, NEW cs, NEW c, c # "'"
  PROVE  Shell!Reads(St("quotes", t, p, s, ws, cs), c) = St("quotes", Append(t, c), p, s, ws, cs)
BY DEF St, Shell!Reads, Shell!PosixReads

LEMMA QuotesEnd ==
  ASSUME NEW t, NEW p, NEW s, NEW ws, NEW cs
  PROVE  Shell!Reads(St("quotes", t, p, s, ws, cs), "'") = St("word", t, p, s, ws, cs)
BY DEF St, Shell!Reads, Shell!PosixReads

LEMMA Escaped ==
  ASSUME NEW t, NEW p, NEW s, NEW ws, NEW cs, NEW c
  PROVE  Shell!Reads(St("escape", t, p, s, ws, cs), c) = St("word", Append(t, c), p, s, ws, cs)
BY DEF St, Shell!Reads, Shell!PosixReads, Shell!Adds

LEMMA QuotesBegin ==
  ASSUME NEW t, NEW p, NEW s, NEW ws, NEW cs, NEW in \in {"gap", "word"}
  PROVE  Shell!Reads(St(in, t, p, s, ws, cs), "'") = St("quotes", t, No, s, ws, cs)
BY BlankDiffers DEF St, Shell!Reads, Shell!PosixReads, Shell!ReadsBare, No

LEMMA EscapeBegins ==
  ASSUME NEW t, NEW p, NEW s, NEW ws, NEW cs
  PROVE  Shell!Reads(St("word", t, p, s, ws, cs), "\\") = St("escape", t, No, s, ws, cs)
BY BlankDiffers DEF St, Shell!Reads, Shell!PosixReads, Shell!ReadsBare, No

\* Between words there is no word yet
LEMMA BetweenIs ==
  ASSUME NEW ws, NEW cs
  PROVE  Shell!Between(ws, cs) = St("gap", <<>>, Yes, No, ws, cs)
BY DEF St, Shell!Between, Yes, No

LEMMA BetweenWords ==
  ASSUME NEW ws, NEW cs
  PROVE  /\ Shell!Reads(Shell!Between(ws, cs), Shell!Blank) = Shell!Between(ws, cs)
         /\ \A c \in {"&&", Shell!Detach} :
              Shell!Reads(Shell!Between(ws, cs), c) = Shell!Between(<<>>, Append(cs, ws))
<1>1. Shell!Reads(Shell!Between(ws, cs), Shell!Blank) = Shell!Between(ws, cs)
  BY BlankDiffers DEF Shell!Reads, Shell!PosixReads, Shell!ReadsBare, Shell!Between, Shell!WordEnds
<1>2. ASSUME NEW c \in {"&&", Shell!Detach}
      PROVE  Shell!Reads(Shell!Between(ws, cs), c) = Shell!Between(<<>>, Append(cs, ws))
  <2>1. PICK r : r = Shell!Between(ws, cs)
    OBVIOUS
  <2>2. c \notin {"'", "\\", "$", Shell!Blank}
    BY BlankDiffers
  <2>3. Shell!ReadsBare(r, c) = Shell!CommandEnds(r)
    BY <2>2, Zenon DEF Shell!ReadsBare
  <2>4. Shell!Reads(r, c) = Shell!ReadsBare(r, c)
    BY <2>1 DEF Shell!Reads, Shell!PosixReads, Shell!Between
  <2>5. Shell!CommandEnds(r) = Shell!Between(<<>>, Append(cs, ws))
    BY <2>1 DEF Shell!CommandEnds, Shell!WordEnds, Shell!Between
  <2> QED BY <2>1, <2>3, <2>4, <2>5
<1> QED BY <1>1, <1>2

ReadWord(t, s) == [text |-> t, sets |-> s]

\* The words with one more
Longer(words, t, s) == Append(words, ReadWord(t, s))

\* A space ends a word, the line's end a command
LEMMA WordEnd ==
  ASSUME NEW t, NEW p, NEW s, NEW ws, NEW cs
  PROVE  Shell!Reads(St("word", t, p, s, ws, cs), Shell!Blank) = Shell!Between(Longer(ws, t, s), cs)
BY BlankDiffers DEF St, ReadWord, Longer, Shell!Reads, Shell!PosixReads, Shell!ReadsBare,
  Shell!Between, Shell!WordEnds

LEMMA LastWord ==
  ASSUME NEW t, NEW p, NEW s, NEW ws, NEW cs
  PROVE  Shell!CommandEnds(St("word", t, p, s, ws, cs))
         = Shell!Between(<<>>, Append(cs, Append(ws, ReadWord(t, s))))
BY DEF St, ReadWord, Shell!Between, Shell!WordEnds, Shell!CommandEnds

-----------------------------------------------------------------------------
\* Short texts are texts, appended symbol by symbol
LEMMA Written ==
  ASSUME NEW a \in Chars, NEW b \in Chars, NEW c \in Chars, NEW d \in Chars
  PROVE  /\ <<>> \in Texts /\ <<a>> \in Texts /\ <<a, b>> \in Texts /\ <<a, b, c>> \in Texts
         /\ <<a, b, c, d>> \in Texts
         /\ Append(<<>>, a) = <<a>>
         /\ Append(<<a>>, b) = <<a, b>>
         /\ Append(<<a, b>>, c) = <<a, b, c>>
         /\ Append(<<a, b, c>>, d) = <<a, b, c, d>>
<1> DEFINE s1 == Append(<<a>>, b)
           t1 == <<a, b>>
           s2 == Append(<<a, b>>, c)
           t2 == <<a, b, c>>
           s3 == Append(<<a, b, c>>, d)
           t3 == <<a, b, c, d>>
<1>1. s1 \in Seq(Chars) /\ Len(s1) = 2 /\ s1[1] = a /\ s1[2] = b
  OBVIOUS
<1>2. t1 \in Seq(Chars) /\ Len(t1) = 2 /\ t1[1] = a /\ t1[2] = b
  OBVIOUS
<1>3. s2 \in Seq(Chars) /\ Len(s2) = 3 /\ s2[1] = a /\ s2[2] = b /\ s2[3] = c
  OBVIOUS
<1>4. t2 \in Seq(Chars) /\ Len(t2) = 3 /\ t2[1] = a /\ t2[2] = b /\ t2[3] = c
  OBVIOUS
<1>5. s3 \in Seq(Chars) /\ Len(s3) = 4 /\ s3[1] = a /\ s3[2] = b /\ s3[3] = c /\ s3[4] = d
  OBVIOUS
<1>6. t3 \in Seq(Chars) /\ Len(t3) = 4 /\ t3[1] = a /\ t3[2] = b /\ t3[3] = c /\ t3[4] = d
  OBVIOUS
<1> HIDE DEF s1, t1, s2, t2, s3, t3
<1>7. s1 = t1
  <2>1. \A i \in 1..2 : s1[i] = t1[i]
    BY <1>1, <1>2
  <2> QED BY <1>1, <1>2, <2>1, SeqEqual
<1>8. s2 = t2
  <2>1. \A i \in 1..3 : s2[i] = t2[i]
    BY <1>3, <1>4
  <2> QED BY <1>3, <1>4, <2>1, SeqEqual
<1>9. s3 = t3
  <2>1. \A i \in 1..4 : s3[i] = t3[i]
    BY <1>5, <1>6
  <2> QED BY <1>5, <1>6, <2>1, SeqEqual
<1>10. <<>> \in Texts /\ <<a>> \in Texts /\ Append(<<>>, a) = <<a>>
  BY DEF Texts
<1>11. t1 \in Texts /\ t2 \in Texts /\ t3 \in Texts
  BY <1>2, <1>4, <1>6 DEF Texts
<1> QED BY <1>7, <1>8, <1>9, <1>10, <1>11 DEF s1, t1, s2, t2, s3, t3

LEMMA AfterOneSymbol ==
  ASSUME NEW r, NEW a \in Chars
  PROVE  Shell!After(r, <<a>>) = Shell!Reads(r, a)
<1>1. <<>> \in Texts /\ Append(<<>>, a) = <<a>>
  BY Written
<1>2. Shell!After(r, Append(<<>>, a)) = Shell!Reads(Shell!After(r, <<>>), a)
  BY <1>1, AfterOne DEF Texts
<1> QED BY <1>1, <1>2, AfterNone

LEMMA AfterTwo ==
  ASSUME NEW r, NEW a \in Chars, NEW b \in Chars
  PROVE  Shell!After(r, <<a, b>>) = Shell!Reads(Shell!Reads(r, a), b)
<1>1. <<a>> \in Texts /\ Append(<<a>>, b) = <<a, b>>
  BY Written
<1>2. Shell!After(r, Append(<<a>>, b)) = Shell!Reads(Shell!After(r, <<a>>), b)
  BY <1>1, AfterOne DEF Texts
<1> QED BY <1>1, <1>2, AfterOneSymbol

LEMMA AfterThree ==
  ASSUME NEW r, NEW a \in Chars, NEW b \in Chars, NEW c \in Chars
  PROVE  Shell!After(r, <<a, b, c>>) = Shell!Reads(Shell!Reads(Shell!Reads(r, a), b), c)
<1>1. <<a, b>> \in Texts /\ Append(<<a, b>>, c) = <<a, b, c>>
  BY Written
<1>2. Shell!After(r, Append(<<a, b>>, c)) = Shell!Reads(Shell!After(r, <<a, b>>), c)
  BY <1>1, AfterOne DEF Texts
<1> QED BY <1>1, <1>2, AfterTwo

LEMMA AfterFour ==
  ASSUME NEW r, NEW a \in Chars, NEW b \in Chars, NEW c \in Chars, NEW d \in Chars
  PROVE  Shell!After(r, <<a, b, c, d>>)
         = Shell!Reads(Shell!Reads(Shell!Reads(Shell!Reads(r, a), b), c), d)
<1> DEFINE s == <<a, b, c>>
           t == <<a, b, c, d>>
<1>1. s \in Texts
  BY Written
<1>2. t = Append(s, d)
  BY Written
<1>3. Shell!After(r, s) = Shell!Reads(Shell!Reads(Shell!Reads(r, a), b), c)
  BY AfterThree
<1> HIDE DEF s, t
<1>4. Shell!After(r, Append(s, d)) = Shell!Reads(Shell!After(r, s), d)
  BY <1>1, AfterOne DEF Texts
<1>5. Shell!After(r, t) = Shell!Reads(Shell!Reads(Shell!Reads(Shell!Reads(r, a), b), c), d)
  BY <1>2, <1>3, <1>4
<1> QED BY <1>5 DEF t

LEMMA AfterBoth ==
  ASSUME NEW r, NEW s \in Texts, NEW t \in Texts
  PROVE  Shell!After(r, s \o t) = Shell!After(Shell!After(r, s), t)
BY AfterMore DEF Texts

LEMMA BothIsText == ASSUME NEW s \in Texts, NEW t \in Texts PROVE s \o t \in Texts
BY DEF Texts

Escape == <<"'", "\\", "'", "'">>

\* A quote that is left, escaped and entered again is the quote
LEMMA EscapeRead ==
  ASSUME NEW t, NEW s, NEW ws, NEW cs
  PROVE  Shell!After(St("quotes", t, No, s, ws, cs), Escape)
         = St("quotes", Append(t, "'"), No, s, ws, cs)
<1>1. Shell!Reads(St("quotes", t, No, s, ws, cs), "'") = St("word", t, No, s, ws, cs)
  BY QuotesEnd
<1>2. Shell!Reads(St("word", t, No, s, ws, cs), "\\") = St("escape", t, No, s, ws, cs)
  BY EscapeBegins
<1>3. Shell!Reads(St("escape", t, No, s, ws, cs), "'") = St("word", Append(t, "'"), No, s, ws, cs)
  BY Escaped
<1>4. Shell!Reads(St("word", Append(t, "'"), No, s, ws, cs), "'")
      = St("quotes", Append(t, "'"), No, s, ws, cs)
  BY QuotesBegin
<1>5. "'" \in Chars /\ "\\" \in Chars
  BY DEF Chars
<1> DEFINE r == St("quotes", t, No, s, ws, cs)
           q == "'"
           e == "\\"
<1>6. /\ Shell!Reads(Shell!Reads(Shell!Reads(Shell!Reads(r, q), e), q), q)
         = St("quotes", Append(t, "'"), No, s, ws, cs)
      /\ q \in Chars /\ e \in Chars
  BY <1>1, <1>2, <1>3, <1>4, <1>5
<1>7. Escape = <<q, e, q, q>>
  BY DEF Escape
<1> HIDE DEF r, q, e
<1>8. Shell!After(r, Escape) = Shell!Reads(Shell!Reads(Shell!Reads(Shell!Reads(r, q), e), q), q)
  <2>1. Shell!After(r, <<q, e, q, q>>)
        = Shell!Reads(Shell!Reads(Shell!Reads(Shell!Reads(r, q), e), q), q)
    BY <1>6, AfterFour
  <2> QED BY <1>7, <2>1
<1> QED BY <1>6, <1>8 DEF r

LEMMA QuoteIsChar == "'" \in Chars
BY DEF Chars

LEMMA EscapeIsText == Escape \in Texts
<1>1. "'" \in Chars /\ "\\" \in Chars
  BY DEF Chars
<1> QED BY <1>1, Written DEF Escape

\* What is quoted is read as it is, whatever it holds
LEMMA QuotesKeep ==
  ASSUME NEW w \in Texts, NEW t \in Texts, NEW s, NEW ws, NEW cs
  PROVE  Shell!After(St("quotes", t, No, s, ws, cs), Shell!Replaced(w, Escape))
         = St("quotes", t \o w, No, s, ws, cs)
<1> DEFINE r == St("quotes", t, No, s, ws, cs)
           T == {u \in Texts : Shell!After(r, Shell!Replaced(u, Escape))
                               = St("quotes", t \o u, No, s, ws, cs)}
<1>0. Escape \in Texts
  BY EscapeIsText
<1>1. <<>> \in T
  <2>1. <<>> \in Texts /\ t \o <<>> = t
    BY DEF Texts
  <2> HIDE DEF r
  <2>2. Shell!After(r, Shell!Replaced(<<>>, Escape)) = r
    BY ReplacedNone, AfterNone
  <2> QED BY <2>1, <2>2 DEF r
<1>2. ASSUME NEW u \in T, NEW x \in Chars PROVE Append(u, x) \in T
  <2>1. /\ Append(u, x) \in Texts /\ t \o Append(u, x) = Append(t \o u, x)
        /\ Shell!Replaced(u, Escape) \in Texts /\ Piece(x, Escape) \in Texts
    BY <1>0, ReplacedIsText DEF Texts, Piece
  <2>2. Shell!After(r, Shell!Replaced(Append(u, x), Escape))
        = Shell!After(St("quotes", t \o u, No, s, ws, cs), Piece(x, Escape))
    <3>1. Shell!Replaced(Append(u, x), Escape) = Shell!Replaced(u, Escape) \o Piece(x, Escape)
      BY <1>0, ReplacedAppend
    <3> HIDE DEF r
    <3>2. Shell!After(r, Shell!Replaced(u, Escape) \o Piece(x, Escape))
          = Shell!After(Shell!After(r, Shell!Replaced(u, Escape)), Piece(x, Escape))
      BY <2>1, AfterMore DEF Texts
    <3> QED BY <3>1, <3>2
  <2>3. Shell!After(St("quotes", t \o u, No, s, ws, cs), Piece(x, Escape))
        = St("quotes", Append(t \o u, x), No, s, ws, cs)
    <3>1. CASE x = "'"
      BY <3>1, EscapeRead DEF Piece
    <3>2. CASE x # "'"
      BY <3>2, AfterOneSymbol, InQuotes DEF Piece
    <3> QED BY <3>1, <3>2
  <2> HIDE DEF r
  <2> QED BY <2>1, <2>2, <2>3
<1>3. T = Texts
  <2> HIDE DEF T
  <2>1. T \in SUBSET Seq(Chars)
    BY DEF T, Texts
  <2> QED BY <1>1, <1>2, <2>1, Growing DEF Texts
<1> QED BY <1>3

\* and the quotes go
LEMMA QuotedRead ==
  ASSUME NEW w \in Texts, NEW t \in Texts, NEW p, NEW s, NEW ws, NEW cs, NEW in \in {"gap", "word"}
  PROVE  /\ <<"'">> \o Shell!Replaced(w, Escape) \o <<"'">> \in Texts
         /\ Shell!After(St(in, t, p, s, ws, cs), <<"'">> \o Shell!Replaced(w, Escape) \o <<"'">>)
            = St("word", t \o w, No, s, ws, cs)
<1> DEFINE q == <<"'">>
           e == Shell!Replaced(w, Escape)
           r == St(in, t, p, s, ws, cs)
<1>1. q \in Texts /\ e \in Texts /\ q \o e \in Texts /\ q \o e \o q \in Texts
  <2>1. Escape \in Texts /\ q \in Texts
    BY EscapeIsText, QuoteIsChar, Written
  <2>2. e \in Texts
    BY <2>1, ReplacedIsText
  <2> HIDE DEF e, q
  <2> QED BY <2>1, <2>2 DEF Texts
<1>2. Shell!After(r, q) = St("quotes", t, No, s, ws, cs)
  BY AfterOneSymbol, QuoteIsChar, QuotesBegin
<1>3. Shell!After(Shell!After(r, q), e) = St("quotes", t \o w, No, s, ws, cs)
  BY <1>2, QuotesKeep
<1>4. Shell!After(Shell!After(Shell!After(r, q), e), q) = St("word", t \o w, No, s, ws, cs)
  <2>1. Shell!After(St("quotes", t \o w, No, s, ws, cs), q) = St("word", t \o w, No, s, ws, cs)
    BY AfterOneSymbol, QuoteIsChar, QuotesEnd
  <2> QED BY <1>3, <2>1
<1> HIDE DEF q, e, r
<1>5. Shell!After(r, q \o e \o q) = Shell!After(Shell!After(Shell!After(r, q), e), q)
  <2>1. Shell!After(r, (q \o e) \o q) = Shell!After(Shell!After(r, q \o e), q)
    BY <1>1, AfterBoth
  <2>2. Shell!After(r, q \o e) = Shell!After(Shell!After(r, q), e)
    BY <1>1, AfterBoth
  <2> QED BY <2>1, <2>2
<1> QED BY <1>1, <1>4, <1>5 DEF q, e, r

-----------------------------------------------------------------------------
\* A word that the shell takes for an assignment where only such are before it
Marked(w, words) == Shell!Assigns(w) /\ AllSet(words)

\* It is one from the = on that follows its name
LEMMA AssignsFrom ==
  ASSUME NEW u \in Seq(Shell!Safe), NEW x \in Shell!Safe
  PROVE  Shell!Assigns(Append(u, x)) <=> Shell!Assigns(u) \/ (x = "=" /\ Shell!IsName(u))
<1> DEFINE v == Append(u, x)
           k == Len(u)
<1>1. k \in Nat /\ Len(v) = k + 1 /\ v[k + 1] = x /\ \A i \in 1..k : v[i] = u[i]
  OBVIOUS
<1>2. \A n \in 1..(k + 1) : SubSeq(v, 1, n - 1) = SubSeq(u, 1, n - 1)
  OBVIOUS
<1>3. SubSeq(u, 1, (k + 1) - 1) = u
  OBVIOUS
<1>4. DOMAIN v = 1..(k + 1) /\ DOMAIN u = 1..k
  OBVIOUS
<1> HIDE DEF v, k
<1>5. ASSUME NEW n \in 1..k
      PROVE  v[n] = "=" /\ Shell!IsName(SubSeq(v, 1, n - 1))
             <=> u[n] = "=" /\ Shell!IsName(SubSeq(u, 1, n - 1))
  <2>1. v[n] = u[n] /\ SubSeq(v, 1, n - 1) = SubSeq(u, 1, n - 1)
    BY <1>1, <1>2
  <2> QED BY <2>1
<1>6. v[k + 1] = "=" /\ Shell!IsName(SubSeq(v, 1, (k + 1) - 1)) <=> x = "=" /\ Shell!IsName(u)
  <2>1. SubSeq(v, 1, (k + 1) - 1) = u
    BY <1>1, <1>2, <1>3
  <2> QED BY <1>1, <2>1
<1>7. 1..(k + 1) = (1..k) \cup {k + 1}
  BY <1>1
<1>8. Shell!Assigns(v) <=> Shell!Assigns(u) \/ (x = "=" /\ Shell!IsName(u))
  BY <1>4, <1>5, <1>6, <1>7, Zenon DEF Shell!Assigns
<1> QED BY <1>8 DEF v

LEMMA NothingAssigns == ~Shell!Assigns(<<>>) /\ ~Shell!IsName(<<>>)
BY DEF Shell!Assigns, Shell!IsName

LEMMA SafeMarks ==
  ASSUME NEW u \in Seq(Shell!Safe), NEW x \in Shell!Safe, NEW ws
  PROVE  Marks(Marked(u, ws), Yes, u, ws, x) = Marked(Append(u, x), ws)
<1>1. Shell!Assigns(Append(u, x)) <=> Shell!Assigns(u) \/ (x = "=" /\ Shell!IsName(u))
  BY AssignsFrom
<1>2. Marks(Marked(u, ws), Yes, u, ws, x) <=> Marked(Append(u, x), ws)
  BY <1>1, Zenon DEF Marks, Marked, Yes
<1> QED BY <1>2, Zenon DEF Marks, Marked

LEMMA SafeAreChars == Shell!Safe \subseteq Chars /\ Seq(Shell!Safe) \subseteq Texts
<1>1. Shell!Safe \subseteq Chars
  BY DEF Chars
<1> QED BY <1>1, SeqMonotonic DEF Texts

\* A symbol that no shell gives a meaning to
Ordinary(c) == c \notin {"'", "\\", Shell!Blank, "&&", Shell!Detach, "$"}

LEMMA TwoFields ==
  ASSUME NEW r, NEW u
  PROVE  [r EXCEPT !.in = "word", !.text = u] = [[r EXCEPT !.in = "word"] EXCEPT !.text = u]
OBVIOUS

LEMMA SymbolAdded ==
  ASSUME NEW t, NEW p, NEW s, NEW ws, NEW cs, NEW in, NEW c
  PROVE  Shell!Adds(St(in, t, p, s, ws, cs), c) = St("word", Append(t, c), p, s, ws, cs)
<1>1. PICK r, u : r = St(in, t, p, s, ws, cs) /\ u = Append(t, c)
  OBVIOUS
<1>2. [r EXCEPT !.in = "word"] = St("word", t, p, s, ws, cs)
  BY <1>1 DEF St
<1>3. [St("word", t, p, s, ws, cs) EXCEPT !.text = u] = St("word", u, p, s, ws, cs)
  BY DEF St
<1>4. r.text = t
  BY <1>1 DEF St
<1>5. Shell!Adds(r, c) = [r EXCEPT !.in = "word", !.text = u]
  BY <1>1, <1>4, Zenon DEF Shell!Adds
<1> QED BY <1>1, <1>2, <1>3, <1>5, TwoFields

\* A symbol that means nothing is added to the word
LEMMA OrdinaryReads ==
  ASSUME NEW t, NEW p, NEW s, NEW ws, NEW cs, NEW in \in {"gap", "word"}, NEW c, Ordinary(c)
  PROVE  Shell!Reads(St(in, t, p, s, ws, cs), c)
         = St("word", Append(t, c), p, Marks(s, p, t, ws, c), ws, cs)
<1> DEFINE r == St(in, t, p, s, ws, cs)
           added == St("word", Append(t, c), p, s, ws, cs)
           marks == Shell!SetsHere(r, c)
<1>1. Shell!Reads(r, c) = Shell!ReadsBare(r, c)
  BY DEF St, Shell!Reads, Shell!PosixReads
<1>2. Shell!ReadsBare(r, c) = [Shell!Adds(r, c) EXCEPT !.sets = @ \/ marks]
  <2> HIDE DEF r, marks
  <2> QED BY Zenon DEF Ordinary, Shell!ReadsBare, marks
<1>3. Shell!Adds(r, c) = added
  BY SymbolAdded
<1>4. /\ r.text = t /\ r.plain = p /\ r.words = ws /\ added.sets = s
      /\ \A b : [added EXCEPT !.sets = b] = St("word", Append(t, c), p, b, ws, cs)
  BY DEF St
<1> HIDE DEF r, added
<1>5. [added EXCEPT !.sets = @ \/ marks] = St("word", Append(t, c), p, s \/ marks, ws, cs)
  BY <1>4, Zenon
<1>6. marks = (c = "=" /\ p /\ Shell!IsName(t) /\ AllSet(ws))
  BY <1>4, Zenon DEF Shell!SetsHere, AllSet
<1>7. (s \/ marks) = Marks(s, p, t, ws, c)
  BY <1>6, Zenon DEF Marks
<1> QED BY <1>1, <1>2, <1>3, <1>5, <1>7, Zenon DEF r

LEMMA SafeReads ==
  ASSUME NEW t, NEW p, NEW s, NEW ws, NEW cs, NEW in \in {"gap", "word"}, NEW x \in Shell!Safe
  PROVE  Shell!Reads(St(in, t, p, s, ws, cs), x)
         = St("word", Append(t, x), p, Marks(s, p, t, ws, x), ws, cs)
<1>1. Ordinary(x)
  BY BlankDiffers DEF Ordinary, Shell!Safe
<1> QED BY <1>1, OrdinaryReads

\* A word of safe symbols is read as it is, and may be an assignment
LEMMA SafeRead ==
  ASSUME NEW w \in Seq(Shell!Safe), w # <<>>, NEW ws, NEW cs
  PROVE  Shell!After(St("gap", <<>>, Yes, No, ws, cs), w) = St("word", w, Yes, Marked(w, ws), ws, cs)
<1> DEFINE r == St("gap", <<>>, Yes, No, ws, cs)
           T == {u \in Seq(Shell!Safe) :
                   u # <<>> => Shell!After(r, u) = St("word", u, Yes, Marked(u, ws), ws, cs)}
<1>1. <<>> \in T
  OBVIOUS
<1>2. ASSUME NEW u \in T, NEW x \in Shell!Safe PROVE Append(u, x) \in T
  <2>0. Append(u, x) \in Seq(Shell!Safe) /\ u \in Seq(Shell!Safe)
    OBVIOUS
  <2>1. Shell!After(r, Append(u, x)) = Shell!Reads(Shell!After(r, u), x)
    <3> HIDE DEF r
    <3> QED BY <2>0, AfterOne
  <2>2. CASE u = <<>>
    <3>1. Shell!After(r, u) = r
      <4> HIDE DEF r
      <4> QED BY <2>2, AfterNone
    <3>2. Shell!Reads(r, x) = St("word", Append(<<>>, x), Yes, Marks(No, Yes, <<>>, ws, x), ws, cs)
      <4>1. PICK e : e = <<>>
        OBVIOUS
      <4>2. Shell!Reads(St("gap", e, Yes, No, ws, cs), x)
            = St("word", Append(e, x), Yes, Marks(No, Yes, e, ws, x), ws, cs)
        BY SafeReads
      <4> QED BY <4>1, <4>2
    <3>3. Marks(No, Yes, <<>>, ws, x) = Marked(<<x>>, ws)
      <4>1. ~Shell!Assigns(<<x>>) /\ ~Shell!IsName(<<>>)
        <5>1. <<>> \in Seq(Shell!Safe) /\ Append(<<>>, x) = <<x>>
          OBVIOUS
        <5> QED BY <5>1, AssignsFrom, NothingAssigns
      <4>2. ~Marked(<<x>>, ws) /\ ~Marks(No, Yes, <<>>, ws, x)
        BY <4>1, Zenon DEF Marks, Marked, No
      <4> QED BY <4>2, Zenon DEF Marks, Marked
    <3>4. Append(<<>>, x) = <<x>>
      OBVIOUS
    <3> HIDE DEF r
    <3> QED BY <2>0, <2>1, <2>2, <3>1, <3>2, <3>3, <3>4
  <2>3. CASE u # <<>>
    <3>1. Shell!After(r, u) = St("word", u, Yes, Marked(u, ws), ws, cs)
      BY <2>3
    <3>2. Shell!Reads(St("word", u, Yes, Marked(u, ws), ws, cs), x)
          = St("word", Append(u, x), Yes, Marks(Marked(u, ws), Yes, u, ws, x), ws, cs)
      BY SafeReads
    <3> HIDE DEF r
    <3> QED BY <2>0, <2>1, <2>3, <3>1, <3>2, SafeMarks
  <2> QED BY <2>2, <2>3
<1>3. T = Seq(Shell!Safe)
  <2> HIDE DEF T
  <2>1. T \in SUBSET Seq(Shell!Safe)
    BY DEF T
  <2> QED BY <1>1, <1>2, <2>1, Growing
<1> QED BY <1>3

\* In an assignment, the value is read to its end
LEMMA SafeGoesOn ==
  ASSUME NEW w \in Seq(Shell!Safe), NEW t \in Texts, NEW p, NEW ws, NEW cs
  PROVE  Shell!After(St("word", t, p, Yes, ws, cs), w) = St("word", t \o w, p, Yes, ws, cs)
<1> DEFINE r == St("word", t, p, Yes, ws, cs)
           T == {u \in Seq(Shell!Safe) : Shell!After(r, u) = St("word", t \o u, p, Yes, ws, cs)}
<1>1. <<>> \in T
  <2>1. t \o <<>> = t
    BY DEF Texts
  <2> QED BY <2>1, AfterNone
<1>2. ASSUME NEW u \in T, NEW x \in Shell!Safe PROVE Append(u, x) \in T
  <2>0. /\ Append(u, x) \in Seq(Shell!Safe) /\ u \in Seq(Shell!Safe)
        /\ t \o Append(u, x) = Append(t \o u, x)
    BY SafeAreChars DEF Texts
  <2>1. Shell!After(r, Append(u, x)) = Shell!Reads(Shell!After(r, u), x)
    <3> HIDE DEF r
    <3> QED BY <2>0, AfterOne
  <2>2. Shell!Reads(St("word", t \o u, p, Yes, ws, cs), x)
        = St("word", Append(t \o u, x), p, Marks(Yes, p, t \o u, ws, x), ws, cs)
    BY SafeReads
  <2>3. Marks(Yes, p, t \o u, ws, x) = Yes
    BY Zenon DEF Marks, Yes
  <2> HIDE DEF r
  <2> QED BY <2>0, <2>1, <2>2, <2>3
<1>3. T = Seq(Shell!Safe)
  <2> HIDE DEF T
  <2>1. T \in SUBSET Seq(Shell!Safe)
    BY DEF T
  <2> QED BY <1>1, <1>2, <2>1, Growing
<1> QED BY <1>3

-----------------------------------------------------------------------------
\* A word that is not quoted, and that the shell takes for an assignment
Bare(w) == Shell!IsSafe(w) /\ Shell!Assigns(w)
Taken(w, words) == Bare(w) /\ AllSet(words)

\* Quote leaves a safe word, and quotes any other
LEMMA SafeWords ==
  ASSUME NEW w \in Texts, Shell!IsSafe(w)
  PROVE  w \in Seq(Shell!Safe) /\ w # <<>> /\ Shell!Quote(w) = w
<1>1. w # <<>> /\ \A i \in DOMAIN w : w[i] \in Shell!Safe
  BY DEF Shell!IsSafe
<1>2. w \in Seq(Shell!Safe)
  BY <1>1, IsASeq DEF Texts
<1> QED BY <1>1, <1>2 DEF Shell!Quote

LEMMA OtherWords ==
  ASSUME NEW w \in Texts, ~Shell!IsSafe(w)
  PROVE  Shell!Quote(w) = <<"'">> \o Shell!Replaced(w, Escape) \o <<"'">>
BY DEF Shell!Quote, Escape

LEMMA QuoteIsText == ASSUME NEW w \in Texts PROVE Shell!Quote(w) \in Texts
<1>1. CASE Shell!IsSafe(w)
  BY <1>1, SafeWords
<1>2. CASE ~Shell!IsSafe(w)
  <2>1. <<"'">> \in Texts /\ Shell!Replaced(w, Escape) \in Texts
    BY QuoteIsChar, EscapeIsText, Written, ReplacedIsText
  <2>2. <<"'">> \o Shell!Replaced(w, Escape) \in Texts
    BY <2>1, BothIsText
  <2>3. (<<"'">> \o Shell!Replaced(w, Escape)) \o <<"'">> \in Texts
    BY <2>1, <2>2, BothIsText
  <2> QED BY <1>2, <2>3, OtherWords
<1> QED BY <1>1, <1>2

\* Either way the word arrives
LEMMA QuoteRead ==
  ASSUME NEW w \in Texts, NEW ws, NEW cs
  PROVE  \E p : Shell!After(Shell!Between(ws, cs), Shell!Quote(w))
                = St("word", w, p, Taken(w, ws), ws, cs)
<1>1. Shell!Between(ws, cs) = St("gap", <<>>, Yes, No, ws, cs)
  BY BetweenIs
<1>2. CASE Shell!IsSafe(w)
  <2>1. Shell!After(Shell!Between(ws, cs), Shell!Quote(w)) = St("word", w, Yes, Marked(w, ws), ws, cs)
    BY <1>1, <1>2, SafeWords, SafeRead
  <2>2. Marked(w, ws) <=> Taken(w, ws)
    BY <1>2, Zenon DEF Marked, Taken, Bare
  <2>3. Marked(w, ws) = Taken(w, ws)
    BY <2>2, Zenon DEF Marked, Taken
  <2> QED BY <2>1, <2>3
<1>3. CASE ~Shell!IsSafe(w)
  <2>0. PICK e \in Texts : e = <<>> /\ e \o w = w
    <3>1. <<>> \in Texts
      BY DEF Texts
    <3>2. <<>> \o w = w
      BY ConcatEmptySeq DEF Texts
    <3> QED BY <3>1, <3>2
  <2>1. Shell!After(St("gap", e, Yes, No, ws, cs), Shell!Quote(w))
        = St("word", e \o w, No, No, ws, cs)
    <3>1. Shell!After(St("gap", e, Yes, No, ws, cs),
                      <<"'">> \o Shell!Replaced(w, Escape) \o <<"'">>)
          = St("word", e \o w, No, No, ws, cs)
      BY QuotedRead
    <3> QED BY <1>3, <3>1, OtherWords
  <2>2. ~Taken(w, ws)
    BY <1>3, Zenon DEF Taken, Bare
  <2>3. No = Taken(w, ws)
    BY <2>2, Zenon DEF No, Taken
  <2> QED BY <1>1, <2>0, <2>1, <2>3
<1> QED BY <1>2, <1>3

\* and so does a value after NAME=
LEMMA QuoteGoesOn ==
  ASSUME NEW w \in Texts, NEW t \in Texts, NEW p, NEW ws, NEW cs
  PROVE  \E q : Shell!After(St("word", t, p, Yes, ws, cs), Shell!Quote(w))
                = St("word", t \o w, q, Yes, ws, cs)
<1>1. CASE Shell!IsSafe(w)
  BY <1>1, SafeWords, SafeGoesOn
<1>2. CASE ~Shell!IsSafe(w)
  <2>1. Shell!After(St("word", t, p, Yes, ws, cs), <<"'">> \o Shell!Replaced(w, Escape) \o <<"'">>)
        = St("word", t \o w, No, Yes, ws, cs)
    BY QuotedRead
  <2> QED BY <1>2, <2>1, OtherWords
<1> QED BY <1>1, <1>2

-----------------------------------------------------------------------------
\* What Joined puts for a text
Spacing(i, t) == IF i = 1 THEN t ELSE <<Shell!Blank>> \o t
Spaced(texts) == [i \in DOMAIN texts |-> Spacing(i, texts[i])]

LEMMA SpaceIsText == Shell!Blank \in Chars /\ <<Shell!Blank>> \in Texts
<1>1. Shell!Blank \in Chars
  BY DEF Chars
<1> QED BY <1>1, Written

\* Joined, from the front
LEMMA JoinedFirst ==
  ASSUME NEW t \in Texts
  PROVE  Shell!Joined(<<t>>) = t
<1>1. Spaced(<<t>>) = <<t>>
  BY DEF Spaced, Spacing
<1> QED BY <1>1, FlatFirst DEF Shell!Joined, Spaced, Spacing, Texts

LEMMA SpacedAppend ==
  ASSUME NEW ts \in Seq(Texts), ts # <<>>, NEW t \in Texts
  PROVE  /\ Spaced(ts) \in Seq(Texts) /\ Spaced(ts) # <<>>
         /\ Spaced(Append(ts, t)) = Append(Spaced(ts), <<Shell!Blank>> \o t)
<1> DEFINE n == Len(ts)
           us == Append(ts, t)
           x == <<Shell!Blank>> \o t
           p == Spaced(ts)
           q == Spaced(us)
<1>1. n \in Nat /\ n # 0 /\ DOMAIN ts = 1..n /\ \A i \in 1..n : ts[i] \in Texts
  OBVIOUS
<1>2. DOMAIN us = 1..(n + 1) /\ us[n + 1] = t /\ \A i \in 1..n : us[i] = ts[i]
  OBVIOUS
<1>3. \A i \in Nat, y \in Texts : Spacing(i, y) \in Texts
  BY SpaceIsText, BothIsText DEF Spacing
<1>4. p \in Seq(Texts) /\ Len(p) = n /\ \A i \in 1..n : p[i] = Spacing(i, ts[i])
  BY <1>1, <1>3 DEF Spaced
<1> HIDE DEF us
<1>5. q \in Seq(Texts) /\ Len(q) = n + 1 /\ \A i \in 1..(n + 1) : q[i] = Spacing(i, us[i])
  <2>1. \A i \in 1..(n + 1) : us[i] \in Texts
    BY <1>1, <1>2
  <2> QED BY <1>1, <1>2, <1>3, <2>1 DEF Spaced
<1>6. x \in Texts /\ Spacing(n + 1, t) = x
  <2>1. x \in Texts
    BY SpaceIsText, BothIsText
  <2>2. n + 1 # 1
    BY <1>1
  <2> QED BY <2>1, <2>2 DEF Spacing
<1> HIDE DEF x
<1>7. q = Append(p, x)
  <2> HIDE DEF p, q
  <2>1. Append(p, x) \in Seq(Texts) /\ Len(Append(p, x)) = n + 1
    BY <1>1, <1>4, <1>6
  <2>2. \A i \in 1..(n + 1) : q[i] = Append(p, x)[i]
    BY <1>1, <1>2, <1>4, <1>5, <1>6
  <2> QED BY <1>5, <2>1, <2>2, SeqEqual
<1> QED BY <1>1, <1>4, <1>7 DEF us, x

LEMMA JoinedAppend ==
  ASSUME NEW ts \in Seq(Texts), ts # <<>>, NEW t \in Texts
  PROVE  Shell!Joined(Append(ts, t)) = Shell!Joined(ts) \o (<<Shell!Blank>> \o t)
<1>1. <<Shell!Blank>> \o t \in Texts
  BY SpaceIsText, BothIsText
<1>2. Shell!Joined(ts) = Shell!FlattenSeq(Spaced(ts))
  BY DEF Shell!Joined, Spaced, Spacing
<1>3. Shell!Joined(Append(ts, t)) = Shell!FlattenSeq(Append(Spaced(ts), <<Shell!Blank>> \o t))
  <2>1. Shell!Joined(Append(ts, t)) = Shell!FlattenSeq(Spaced(Append(ts, t)))
    BY DEF Shell!Joined, Spaced, Spacing
  <2> QED BY <2>1, SpacedAppend
<1>4. Spaced(ts) \in Seq(Texts) /\ Spaced(ts) # <<>>
  BY SpacedAppend
<1> QED BY <1>1, <1>2, <1>3, <1>4, FlatAppend DEF Texts

-----------------------------------------------------------------------------
\* The words, quoted; and as the shell is to have them
Quoted(words) == [i \in DOMAIN words |-> Shell!Quote(words[i])]
WordsOf(words) == [i \in DOMAIN words |-> Shell!Word(words[i])]

\* The words quoted, and what is read of them, from the front
LEMMA QuotedAppend ==
  ASSUME NEW u \in Seq(Texts), NEW x \in Texts
  PROVE  /\ Quoted(u) \in Seq(Texts) /\ (u # <<>> => Quoted(u) # <<>>)
         /\ Quoted(Append(u, x)) = Append(Quoted(u), Shell!Quote(x))
<1> DEFINE n == Len(u)
           v == Append(u, x)
           p == Quoted(u)
           q == Quoted(v)
           y == Shell!Quote(x)
<1>1. n \in Nat /\ DOMAIN u = 1..n /\ \A i \in 1..n : u[i] \in Texts
  OBVIOUS
<1>2. DOMAIN v = 1..(n + 1) /\ v[n + 1] = x /\ \A i \in 1..n : v[i] = u[i]
  OBVIOUS
<1>3. \A z \in Texts : Shell!Quote(z) \in Texts
  BY QuoteIsText
<1>4. p \in Seq(Texts) /\ Len(p) = n /\ \A i \in 1..n : p[i] = Shell!Quote(u[i])
  BY <1>1, <1>3 DEF Quoted
<1> HIDE DEF v
<1>5. q \in Seq(Texts) /\ Len(q) = n + 1 /\ \A i \in 1..(n + 1) : q[i] = Shell!Quote(v[i])
  <2>1. \A i \in 1..(n + 1) : v[i] \in Texts
    BY <1>1, <1>2
  <2> QED BY <1>1, <1>2, <1>3, <2>1 DEF Quoted
<1>6. y \in Texts /\ Shell!Quote(v[n + 1]) = y
  BY <1>2, <1>3
<1>7. q = Append(p, y)
  <2> HIDE DEF p, q, y
  <2>1. Append(p, y) \in Seq(Texts) /\ Len(Append(p, y)) = n + 1
    BY <1>1, <1>4, <1>6
  <2>2. \A i \in 1..(n + 1) : q[i] = Append(p, y)[i]
    BY <1>1, <1>2, <1>4, <1>5, <1>6
  <2> QED BY <1>5, <2>1, <2>2, SeqEqual
<1>8. u # <<>> => p # <<>>
  <2> SUFFICES ASSUME u # <<>> PROVE p # <<>>
    OBVIOUS
  <2>1. n # 0
    OBVIOUS
  <2> HIDE DEF p
  <2> QED BY <1>4, <2>1
<1> QED BY <1>4, <1>7, <1>8 DEF v

\* ShellJoin, from the front
LEMMA JoinFirst == ASSUME NEW x \in Texts PROVE Shell!ShellJoin(<<x>>) = Shell!Quote(x)
<1>1. [i \in DOMAIN <<x>> |-> Shell!Quote(<<x>>[i])] = <<Shell!Quote(x)>>
  OBVIOUS
<1>2. Shell!Joined(<<Shell!Quote(x)>>) = Shell!Quote(x)
  BY QuoteIsText, JoinedFirst
<1> QED BY <1>1, <1>2 DEF Shell!ShellJoin

LEMMA JoinAppend ==
  ASSUME NEW u \in Seq(Texts), u # <<>>, NEW x \in Texts
  PROVE  Shell!ShellJoin(Append(u, x)) = Shell!ShellJoin(u) \o (<<Shell!Blank>> \o Shell!Quote(x))
<1>1. /\ Shell!ShellJoin(u) = Shell!Joined(Quoted(u))
      /\ Shell!ShellJoin(Append(u, x)) = Shell!Joined(Quoted(Append(u, x)))
  BY DEF Shell!ShellJoin, Quoted
<1>2. Shell!Quote(x) \in Texts /\ Quoted(u) \in Seq(Texts) /\ Quoted(u) # <<>>
  BY QuoteIsText, QuotedAppend
<1>3. Quoted(Append(u, x)) = Append(Quoted(u), Shell!Quote(x))
  BY QuotedAppend
<1>4. Shell!Joined(Append(Quoted(u), Shell!Quote(x)))
      = Shell!Joined(Quoted(u)) \o (<<Shell!Blank>> \o Shell!Quote(x))
  BY <1>2, JoinedAppend
<1> QED BY <1>1, <1>3, <1>4

LEMMA JoinedIsText ==
  ASSUME NEW u \in Seq(Texts), u # <<>>
  PROVE  Shell!Joined(u) \in Texts
<1> DEFINE T == {v \in Seq(Texts) : v # <<>> => Shell!Joined(v) \in Texts}
<1>1. <<>> \in T
  OBVIOUS
<1>2. ASSUME NEW v \in T, NEW x \in Texts PROVE Append(v, x) \in T
  <2>1. Append(v, x) \in Seq(Texts) /\ v \in Seq(Texts)
    OBVIOUS
  <2>2. CASE v = <<>>
    <3>1. Append(v, x) = <<x>>
      BY <2>2
    <3> QED BY <2>1, <3>1, JoinedFirst
  <2>3. CASE v # <<>>
    <3>1. <<Shell!Blank>> \o x \in Texts /\ Shell!Joined(v) \in Texts
      BY <2>1, <2>3, SpaceIsText, BothIsText
    <3>2. Shell!Joined(v) \o (<<Shell!Blank>> \o x) \in Texts
      BY <3>1, BothIsText
    <3> QED BY <2>1, <2>3, <3>2, JoinedAppend
  <2> QED BY <2>2, <2>3
<1>3. T = Seq(Texts)
  <2> HIDE DEF T
  <2>1. T \in SUBSET Seq(Texts)
    BY DEF T
  <2> QED BY <1>1, <1>2, <2>1, Growing
<1> QED BY <1>3

LEMMA JoinIsText ==
  ASSUME NEW u \in Seq(Texts), u # <<>>
  PROVE  Shell!ShellJoin(u) \in Texts
<1>1. PICK x : x \in Texts
  BY DEF Texts
<1>2. Quoted(u) \in Seq(Texts) /\ Quoted(u) # <<>>
  BY <1>1, QuotedAppend
<1>3. Shell!Joined(Quoted(u)) \in Texts
  BY <1>2, JoinedIsText
<1> QED BY <1>3 DEF Shell!ShellJoin, Quoted

-----------------------------------------------------------------------------
ReadWords == [text : Texts, sets : BOOLEAN]

LEMMA WordIsRead ==
  ASSUME NEW t \in Texts
  PROVE  Shell!Word(t) \in ReadWords /\ Shell!Word(t) = ReadWord(t, No)
BY DEF Shell!Word, ReadWords, ReadWord, No

LEMMA WordSetsNot == ASSUME NEW t PROVE ~Shell!Word(t).sets
BY DEF Shell!Word

LEMMA WordsOfAppend ==
  ASSUME NEW u \in Seq(Texts), NEW x \in Texts
  PROVE  /\ WordsOf(u) \in Seq(ReadWords) /\ Len(WordsOf(u)) = Len(u)
         /\ \A i \in 1..Len(u) : WordsOf(u)[i] = Shell!Word(u[i])
         /\ WordsOf(Append(u, x)) = Append(WordsOf(u), Shell!Word(x))
<1> DEFINE n == Len(u)
           v == Append(u, x)
           p == WordsOf(u)
           q == WordsOf(v)
           y == Shell!Word(x)
<1>1. n \in Nat /\ DOMAIN u = 1..n /\ \A i \in 1..n : u[i] \in Texts
  OBVIOUS
<1>2. DOMAIN v = 1..(n + 1) /\ v[n + 1] = x /\ \A i \in 1..n : v[i] = u[i]
  OBVIOUS
<1>3. \A z \in Texts : Shell!Word(z) \in ReadWords
  BY WordIsRead
<1>4. p \in Seq(ReadWords) /\ Len(p) = n /\ \A i \in 1..n : p[i] = Shell!Word(u[i])
  BY <1>1, <1>3 DEF WordsOf
<1> HIDE DEF v
<1>5. q \in Seq(ReadWords) /\ Len(q) = n + 1 /\ \A i \in 1..(n + 1) : q[i] = Shell!Word(v[i])
  <2>1. \A i \in 1..(n + 1) : v[i] \in Texts
    BY <1>1, <1>2
  <2> QED BY <1>1, <1>2, <1>3, <2>1 DEF WordsOf
<1>6. y \in ReadWords /\ Shell!Word(v[n + 1]) = y
  BY <1>2, <1>3
<1>7. q = Append(p, y)
  <2> HIDE DEF p, q, y
  <2>1. Append(p, y) \in Seq(ReadWords) /\ Len(Append(p, y)) = n + 1
    BY <1>1, <1>4, <1>6
  <2>2. \A i \in 1..(n + 1) : q[i] = Append(p, y)[i]
    BY <1>1, <1>2, <1>4, <1>5, <1>6
  <2> QED BY <1>5, <2>1, <2>2, SeqEqual
<1> QED BY <1>4, <1>7 DEF v

-----------------------------------------------------------------------------
\* A word that is not an assignment is among them
LEMMA NotAllSet ==
  ASSUME NEW ws \in Seq(ReadWords), NEW u \in Seq(Texts), u # <<>>
  PROVE  ~AllSet(ws \o WordsOf(u))
<1>1. /\ WordsOf(u) \in Seq(ReadWords) /\ Len(WordsOf(u)) = Len(u)
      /\ \A i \in 1..Len(u) : WordsOf(u)[i] = Shell!Word(u[i])
  <2>1. PICK x : x \in Texts
    BY DEF Texts
  <2> QED BY <2>1, WordsOfAppend
<1>2. Len(u) \in Nat /\ Len(u) # 0 /\ Len(ws) \in Nat
  OBVIOUS
<1> DEFINE k == Len(ws) + 1
           all == ws \o WordsOf(u)
<1>3. k \in DOMAIN all /\ all[k] = WordsOf(u)[1]
  BY <1>1, <1>2
<1>4. WordsOf(u)[1] = Shell!Word(u[1])
  BY <1>1, <1>2
<1> HIDE DEF k, all
<1>5. ~all[k].sets
  BY <1>3, <1>4, WordSetsNot
<1>6. ~AllSet(all)
  BY <1>3, <1>5 DEF AllSet
<1> QED BY <1>6 DEF all

\* The words of a command are read as they are, after what is before them
LEMMA WordsRead ==
  ASSUME NEW u \in Seq(Texts), u # <<>>, NEW ws \in Seq(ReadWords), NEW cs,
         AllSet(ws) => ~Bare(u[1])
  PROVE  \E t, p, vs :
           /\ Shell!After(Shell!Between(ws, cs), Shell!ShellJoin(u)) = St("word", t, p, No, vs, cs)
           /\ Append(vs, ReadWord(t, No)) = ws \o WordsOf(u)
<1> DEFINE r == Shell!Between(ws, cs)
           Are(v) == \E t, p, vs :
             /\ Shell!After(r, Shell!ShellJoin(v)) = St("word", t, p, No, vs, cs)
             /\ Append(vs, ReadWord(t, No)) = ws \o WordsOf(v)
           T == {v \in Seq(Texts) : v # <<>> /\ (AllSet(ws) => ~Bare(v[1])) => Are(v)}
<1>1. <<>> \in T
  OBVIOUS
<1>2. ASSUME NEW v \in T, NEW x \in Texts PROVE Append(v, x) \in T
  <2>0. Append(v, x) \in Seq(Texts) /\ v \in Seq(Texts)
    OBVIOUS
  <2>1. /\ WordsOf(v) \in Seq(ReadWords) /\ WordsOf(Append(v, x)) = Append(WordsOf(v), Shell!Word(x))
        /\ Shell!Word(x) = ReadWord(x, No) /\ Shell!Word(x) \in ReadWords
    BY <2>0, WordsOfAppend, WordIsRead
  <2>2. SUFFICES ASSUME AllSet(ws) => ~Bare(Append(v, x)[1]) PROVE Are(Append(v, x))
    BY <2>0
  <2>3. CASE v = <<>>
    <3>1. Append(v, x) = <<x>> /\ Append(v, x)[1] = x
      BY <2>3
    <3>2. PICK p : Shell!After(r, Shell!Quote(x)) = St("word", x, p, Taken(x, ws), ws, cs)
      BY QuoteRead
    <3>3. Taken(x, ws) = No
      <4>1. ~Taken(x, ws)
        BY <2>2, <3>1, Zenon DEF Taken
      <4> QED BY <4>1, Zenon DEF Taken, No
    <3>4. ws \o WordsOf(Append(v, x)) = Append(ws, ReadWord(x, No))
      <4>1. WordsOf(v) = <<>>
        BY <2>3 DEF WordsOf
      <4>2. ws \o Append(WordsOf(v), Shell!Word(x)) = Append(ws \o WordsOf(v), Shell!Word(x))
        BY <2>1
      <4>3. ws \o WordsOf(v) = ws
        BY <4>1, ConcatEmptySeq
      <4> QED BY <2>1, <4>2, <4>3
    <3>5. Shell!After(r, Shell!ShellJoin(Append(v, x))) = St("word", x, p, No, ws, cs)
      <4> HIDE DEF r
      <4> QED BY <3>1, <3>2, <3>3, JoinFirst
    <3> HIDE DEF r
    <3> QED BY <3>4, <3>5
  <2>4. CASE v # <<>>
    <3>1. AllSet(ws) => ~Bare(v[1])
      <4>1. Append(v, x)[1] = v[1]
        BY <2>4
      <4> QED BY <2>2, <4>1
    <3>2. PICK t, p, vs : /\ Shell!After(r, Shell!ShellJoin(v)) = St("word", t, p, No, vs, cs)
                          /\ Append(vs, ReadWord(t, No)) = ws \o WordsOf(v)
      BY <2>4, <3>1
    <3> DEFINE all == ws \o WordsOf(v)
    <3>3. Shell!Reads(St("word", t, p, No, vs, cs), Shell!Blank) = Shell!Between(all, cs)
      <4>1. Shell!Reads(St("word", t, p, No, vs, cs), Shell!Blank) = Shell!Between(Longer(vs, t, No), cs)
        BY WordEnd
      <4> QED BY <3>2, <4>1 DEF Longer
    <3>4. PICK q : Shell!After(Shell!Between(all, cs), Shell!Quote(x))
                   = St("word", x, q, Taken(x, all), all, cs)
      BY QuoteRead
    <3>5. Taken(x, all) = No
      <4>1. ~AllSet(all)
        BY <2>0, <2>4, NotAllSet
      <4>2. ~Taken(x, all)
        BY <4>1, Zenon DEF Taken
      <4> QED BY <4>2, Zenon DEF Taken, No
    <3>6. Append(all, ReadWord(x, No)) = ws \o WordsOf(Append(v, x))
      <4>1. ws \o Append(WordsOf(v), Shell!Word(x)) = Append(ws \o WordsOf(v), Shell!Word(x))
        BY <2>1
      <4> QED BY <2>1, <4>1
    <3>7. Shell!After(r, Shell!ShellJoin(Append(v, x))) = St("word", x, q, No, all, cs)
      <4>1. /\ Shell!ShellJoin(v) \in Texts /\ <<Shell!Blank>> \in Texts /\ Shell!Quote(x) \in Texts
            /\ <<Shell!Blank>> \o Shell!Quote(x) \in Texts
        BY <2>0, <2>4, JoinIsText, SpaceIsText, QuoteIsText, BothIsText
      <4> HIDE DEF r, all
      <4>2. Shell!After(r, Shell!ShellJoin(v) \o (<<Shell!Blank>> \o Shell!Quote(x)))
            = Shell!After(Shell!After(r, Shell!ShellJoin(v)), <<Shell!Blank>> \o Shell!Quote(x))
        BY <4>1, AfterBoth
      <4>3. Shell!After(St("word", t, p, No, vs, cs), <<Shell!Blank>> \o Shell!Quote(x))
            = Shell!After(Shell!After(St("word", t, p, No, vs, cs), <<Shell!Blank>>), Shell!Quote(x))
        BY <4>1, AfterBoth
      <4>4. Shell!After(St("word", t, p, No, vs, cs), <<Shell!Blank>>) = Shell!Between(all, cs)
        BY <3>3, SpaceIsText, AfterOneSymbol
      <4>5. Shell!ShellJoin(Append(v, x)) = Shell!ShellJoin(v) \o (<<Shell!Blank>> \o Shell!Quote(x))
        BY <2>0, <2>4, JoinAppend
      <4> QED BY <3>2, <3>4, <3>5, <4>2, <4>3, <4>4, <4>5
    <3> HIDE DEF r, all
    <3> QED BY <3>6, <3>7
  <2> QED BY <2>3, <2>4
<1>3. T = Seq(Texts)
  <2> HIDE DEF T
  <2>1. T \in SUBSET Seq(Texts)
    BY DEF T
  <2> QED BY <1>1, <1>2, <2>1, Growing
<1>4. Are(u)
  BY <1>3
<1> QED BY <1>4

\* What the shell has read of the words, when the text is over
LEMMA WordsArrive ==
  ASSUME NEW u \in Seq(Texts), u # <<>>, NEW ws \in Seq(ReadWords), NEW cs,
         AllSet(ws) => ~Bare(u[1])
  PROVE  Shell!CommandEnds(Shell!After(Shell!Between(ws, cs), Shell!ShellJoin(u)))
         = Shell!Between(<<>>, Append(cs, ws \o WordsOf(u)))
<1>1. PICK t, p, vs :
        /\ Shell!After(Shell!Between(ws, cs), Shell!ShellJoin(u)) = St("word", t, p, No, vs, cs)
        /\ Append(vs, ReadWord(t, No)) = ws \o WordsOf(u)
  BY WordsRead
<1>2. Shell!CommandEnds(St("word", t, p, No, vs, cs))
      = Shell!Between(<<>>, Append(cs, Append(vs, ReadWord(t, No))))
  BY LastWord
<1> QED BY <1>1, <1>2

-----------------------------------------------------------------------------
\* cd, as the shell reads it
CdLine(cwd) == <<"cd", Shell!Blank>> \o Shell!Quote(cwd) \o <<Shell!Blank, "&&", Shell!Blank>>
EnvLine(env) == <<"N", "=">> \o Shell!Quote(env) \o <<Shell!Blank>>

LEMMA ProgramSymbols == /\ "cd" \in Chars /\ Shell!Blank \in Chars /\ "&&" \in Chars /\ "N" \in Chars
                  /\ "=" \in Chars /\ "nohup" \in Chars /\ Shell!Detach \in Chars
BY DEF Chars, Shell!Safe

LEMMA TwoWords ==
  ASSUME NEW a, NEW b
  PROVE  Append(<<a>>, b) = <<a, b>>
<1> DEFINE s == Append(<<a>>, b)
           t == <<a, b>>
<1>0. PICK X : a \in X /\ b \in X
  <2>1. a \in {a, b} /\ b \in {a, b}
    OBVIOUS
  <2> QED BY <2>1
<1>1. s \in Seq(X) /\ Len(s) = 2 /\ s[1] = a /\ s[2] = b
  BY <1>0
<1>2. t \in Seq(X) /\ Len(t) = 2 /\ t[1] = a /\ t[2] = b
  BY <1>0
<1> HIDE DEF s, t
<1>3. \A i \in 1..2 : s[i] = t[i]
  BY <1>1, <1>2
<1>4. s = t
  BY <1>1, <1>2, <1>3, SeqEqual
<1> QED BY <1>4 DEF s, t

\* A word of one symbol, and a space
LEMMA NameGoesOn ==
  ASSUME NEW name \in Shell!Safe, name # "=", NEW ws, NEW cs
  PROVE  Shell!After(Shell!Between(ws, cs), <<name, Shell!Blank>>)
         = Shell!Between(Append(ws, Shell!Word(<<name>>)), cs)
<1> DEFINE word == Shell!Word(<<name>>)
           r0 == Shell!Between(ws, cs)
           r1 == Shell!Between(Append(ws, word), cs)
<1>1. r0 = St("gap", <<>>, Yes, No, ws, cs)
  BY BetweenIs
<1>2. Shell!Reads(r0, name) = St("word", <<name>>, Yes, No, ws, cs)
  <2>1. PICK e : e = <<>>
    OBVIOUS
  <2>2. Shell!Reads(St("gap", e, Yes, No, ws, cs), name)
        = St("word", Append(e, name), Yes, Marks(No, Yes, e, ws, name), ws, cs)
    BY SafeReads
  <2>3. Marks(No, Yes, e, ws, name) = No
    <3>1. ~Marks(No, Yes, e, ws, name)
      BY DEF Marks, No
    <3> QED BY <3>1, Zenon DEF Marks, No
  <2>4. Append(e, name) = <<name>>
    BY <2>1
  <2> HIDE DEF r0
  <2> QED BY <1>1, <2>1, <2>2, <2>3, <2>4
<1>3. Shell!Reads(St("word", <<name>>, Yes, No, ws, cs), Shell!Blank) = r1
  <2>1. Shell!Reads(St("word", <<name>>, Yes, No, ws, cs), Shell!Blank)
        = Shell!Between(Longer(ws, <<name>>, No), cs)
    BY WordEnd
  <2>2. ReadWord(<<name>>, No) = word
    BY DEF ReadWord, Shell!Word, No
  <2>3. Longer(ws, <<name>>, No) = Append(ws, word)
    BY <2>2 DEF Longer
  <2> HIDE DEF word
  <2> QED BY <2>1, <2>3
<1>4. Shell!After(r0, <<name, Shell!Blank>>) = Shell!Reads(Shell!Reads(r0, name), Shell!Blank)
  <2>1. name \in Chars /\ Shell!Blank \in Chars
    BY DEF Chars
  <2> QED BY <2>1, AfterTwo
<1> HIDE DEF r0, r1
<1>5. Shell!After(r0, <<name, Shell!Blank>>) = r1
  BY <1>2, <1>3, <1>4
<1> QED BY <1>5 DEF r0, r1

LEMMA NameRead ==
  ASSUME NEW name \in Shell!Safe, name # "="
  PROVE  Shell!After(Shell!Between(<<>>, <<>>), <<name, Shell!Blank>>)
         = Shell!Between(<<Shell!Word(<<name>>)>>, <<>>)
<1> DEFINE word == Shell!Word(<<name>>)
<1>1. PICK e : e = <<>>
  OBVIOUS
<1>2. Shell!After(Shell!Between(e, e), <<name, Shell!Blank>>) = Shell!Between(Append(e, word), e)
  BY NameGoesOn
<1> HIDE DEF word
<1>3. Append(e, word) = <<word>>
  BY <1>1
<1> QED BY <1>1, <1>2, <1>3 DEF word

\* cd and its directory are a command of their own
LEMMA CdRead ==
  ASSUME NEW cwd \in Texts
  PROVE  /\ CdLine(cwd) \in Texts
         /\ Shell!After(Shell!Between(<<>>, <<>>), CdLine(cwd))
            = Shell!Between(<<>>, <<<<Shell!Word(<<"cd">>), Shell!Word(cwd)>>>>)
<1> DEFINE a == <<"cd", Shell!Blank>>
           b == Shell!Quote(cwd)
           c == <<Shell!Blank, "&&", Shell!Blank>>
           cd == Shell!Word(<<"cd">>)
           r0 == Shell!Between(<<>>, <<>>)
           r1 == Shell!Between(<<cd>>, <<>>)
           r2 == Shell!Between(<<cd, Shell!Word(cwd)>>, <<>>)
           r3 == Shell!Between(<<>>, <<<<cd, Shell!Word(cwd)>>>>)
<1>1. a \in Texts /\ b \in Texts /\ c \in Texts /\ a \o b \in Texts /\ (a \o b) \o c \in Texts
  <2>1. a \in Texts /\ c \in Texts
    BY ProgramSymbols, Written
  <2>2. b \in Texts
    BY QuoteIsText
  <2> HIDE DEF a, b, c
  <2> QED BY <2>1, <2>2, BothIsText
<1>2. Shell!After(r0, a) = r1
  <2>1. "cd" \in Shell!Safe /\ "cd" # "="
    BY DEF Shell!Safe
  <2> QED BY <2>1, NameRead
<1>3. \E p : Shell!After(r1, b) = St("word", cwd, p, No, <<cd>>, <<>>)
  <2>1. ~Taken(cwd, <<cd>>)
    <3>1. ~cd.sets
      BY WordSetsNot
    <3> HIDE DEF cd
    <3>2. ~AllSet(<<cd>>)
      BY <3>1 DEF AllSet
    <3> QED BY <3>2, Zenon DEF Taken
  <2>2. Taken(cwd, <<cd>>) = No
    BY <2>1, Zenon DEF Taken, No
  <2> HIDE DEF cd
  <2> QED BY <2>2, QuoteRead
<1>4. PICK p : Shell!After(r1, b) = St("word", cwd, p, No, <<cd>>, <<>>)
  BY <1>3
<1>5. Shell!After(St("word", cwd, p, No, <<cd>>, <<>>), c) = r3
  <2>1. PICK e, one, two : e = <<>> /\ one = <<cd>> /\ two = <<cd, Shell!Word(cwd)>>
    OBVIOUS
  <2>2. Longer(one, cwd, No) = two
    <3>1. ReadWord(cwd, No) = Shell!Word(cwd) /\ cd \in ReadWords /\ Shell!Word(cwd) \in ReadWords
      <4>1. <<"cd">> \in Texts
        BY ProgramSymbols, Written
      <4> QED BY <4>1, WordIsRead
    <3> QED BY <2>1, <3>1, TwoWords DEF Longer
  <2>3. Append(e, two) = <<two>>
    BY <2>1
  <2>4. Shell!Reads(St("word", cwd, p, No, one, e), Shell!Blank) = Shell!Between(Longer(one, cwd, No), e)
    BY WordEnd
  <2>5. Shell!Reads(Shell!Between(two, e), "&&") = Shell!Between(<<>>, Append(e, two))
    BY BetweenWords
  <2>6. Shell!Reads(Shell!Between(<<>>, <<two>>), Shell!Blank) = Shell!Between(<<>>, <<two>>)
    BY BetweenWords
  <2>7. Shell!After(St("word", cwd, p, No, one, e), <<Shell!Blank, "&&", Shell!Blank>>)
        = Shell!Reads(Shell!Reads(Shell!Reads(St("word", cwd, p, No, one, e), Shell!Blank), "&&"), Shell!Blank)
    BY ProgramSymbols, AfterThree
  <2>8. Shell!After(St("word", cwd, p, No, one, e), <<Shell!Blank, "&&", Shell!Blank>>) = Shell!Between(<<>>, <<two>>)
    BY <2>2, <2>3, <2>4, <2>5, <2>6, <2>7
  <2> HIDE DEF cd
  <2> QED BY <2>1, <2>8
<1>6. Shell!After(r0, (a \o b) \o c) = Shell!After(Shell!After(Shell!After(r0, a), b), c)
  <2> HIDE DEF a, b, c, r0
  <2>1. Shell!After(r0, (a \o b) \o c) = Shell!After(Shell!After(r0, a \o b), c)
    BY <1>1, AfterBoth
  <2>2. Shell!After(r0, a \o b) = Shell!After(Shell!After(r0, a), b)
    BY <1>1, AfterBoth
  <2> QED BY <2>1, <2>2
<1>7. CdLine(cwd) = (a \o b) \o c
  BY DEF CdLine
<1> HIDE DEF a, b, c, r0, r1
<1>8. Shell!After(r0, CdLine(cwd)) = r3
  BY <1>2, <1>4, <1>5, <1>6, <1>7
<1> QED BY <1>1, <1>7, <1>8 DEF r0

\* The variable is an assignment before the words
LEMMA EnvRead ==
  ASSUME NEW env \in Texts, NEW cs
  PROVE  /\ EnvLine(env) \in Texts
         /\ Shell!After(Shell!Between(<<>>, cs), EnvLine(env))
            = Shell!Between(<<Shell!Sets(env)>>, cs)
<1>1. PICK e, a, c : e = <<>> /\ a = <<"N", "=">> /\ c = <<Shell!Blank>>
  OBVIOUS
<1> DEFINE b == Shell!Quote(env)
           r0 == Shell!Between(e, cs)
<1>2. a \in Texts /\ b \in Texts /\ c \in Texts /\ a \o b \in Texts /\ (a \o b) \o c \in Texts
  <2>1. a \in Texts
    BY <1>1, ProgramSymbols, Written
  <2>2. b \in Texts /\ c \in Texts
    BY <1>1, QuoteIsText, SpaceIsText
  <2> HIDE DEF b
  <2> QED BY <2>1, <2>2, BothIsText
<1>3. Shell!After(r0, a) = St("word", a, Yes, Yes, e, cs)
  <2>1. r0 = St("gap", e, Yes, No, e, cs)
    BY <1>1, BetweenIs
  <2>2. a \in Seq(Shell!Safe) /\ a # <<>>
    <3>1. "N" \in Shell!Safe /\ "=" \in Shell!Safe
      BY DEF Shell!Safe
    <3>2. <<"N", "=">> \in Seq(Shell!Safe) /\ <<"N", "=">> # <<>>
      BY <3>1
    <3> QED BY <1>1, <3>2
  <2>3. Marked(a, e) = Yes
    <3>1. Shell!Assigns(a)
      <4>1. a = Append(<<"N">>, "=") /\ "N" \in Shell!Safe /\ "=" \in Shell!Safe
        BY <1>1 DEF Shell!Safe
      <4>2. Shell!IsName(<<"N">>) /\ <<"N">> \in Seq(Shell!Safe)
        BY <4>1 DEF Shell!IsName, Shell!NameParts
      <4> QED BY <4>1, <4>2, AssignsFrom
    <3>2. AllSet(e)
      BY <1>1 DEF AllSet
    <3> QED BY <3>1, <3>2, Zenon DEF Marked, Yes
  <2>4. Shell!After(St("gap", <<>>, Yes, No, e, cs), a) = St("word", a, Yes, Marked(a, e), e, cs)
    BY <2>2, SafeRead
  <2> HIDE DEF r0
  <2> QED BY <1>1, <2>1, <2>3, <2>4
<1>4. PICK q : Shell!After(St("word", a, Yes, Yes, e, cs), b) = St("word", a \o env, q, Yes, e, cs)
  <2>1. \E q : Shell!After(St("word", a, Yes, Yes, e, cs), Shell!Quote(env))
               = St("word", a \o env, q, Yes, e, cs)
    <3>1. a \in Texts
      BY <1>2
    <3> QED BY <3>1, QuoteGoesOn
  <2> QED BY <2>1
<1>5. Shell!After(St("word", a \o env, q, Yes, e, cs), c) = Shell!Between(<<Shell!Sets(env)>>, cs)
  <2>1. Shell!After(St("word", a \o env, q, Yes, e, cs), <<Shell!Blank>>)
        = Shell!Reads(St("word", a \o env, q, Yes, e, cs), Shell!Blank)
    BY SpaceIsText, AfterOneSymbol
  <2>2. Shell!Reads(St("word", a \o env, q, Yes, e, cs), Shell!Blank)
        = Shell!Between(Longer(e, a \o env, Yes), cs)
    BY WordEnd
  <2>3. Longer(e, a \o env, Yes) = <<Shell!Sets(env)>>
    <3>1. ReadWord(a \o env, Yes) = Shell!Sets(env)
      BY <1>1, Zenon DEF ReadWord, Shell!Sets, Yes
    <3>2. Append(e, Shell!Sets(env)) = <<Shell!Sets(env)>>
      BY <1>1
    <3> QED BY <3>1, <3>2 DEF Longer
  <2> QED BY <1>1, <2>1, <2>2, <2>3
<1>6. Shell!After(r0, (a \o b) \o c) = Shell!After(Shell!After(Shell!After(r0, a), b), c)
  <2> HIDE DEF b, r0
  <2>1. Shell!After(r0, (a \o b) \o c) = Shell!After(Shell!After(r0, a \o b), c)
    BY <1>2, AfterBoth
  <2>2. Shell!After(r0, a \o b) = Shell!After(Shell!After(r0, a), b)
    BY <1>2, AfterBoth
  <2> QED BY <2>1, <2>2
<1>7. EnvLine(env) = (a \o b) \o c
  BY <1>1 DEF EnvLine
<1> HIDE DEF b, r0
<1>8. Shell!After(r0, EnvLine(env)) = Shell!Between(<<Shell!Sets(env)>>, cs)
  BY <1>3, <1>4, <1>5, <1>6, <1>7
<1> QED BY <1>1, <1>2, <1>7, <1>8 DEF r0

-----------------------------------------------------------------------------
Given == Texts \cup {Shell!NoValue}

CdPart(cwd) == IF cwd = Shell!NoValue THEN <<>> ELSE CdLine(cwd)
EnvPart(env) == IF env = Shell!NoValue THEN <<>> ELSE EnvLine(env)
CdCommands(cwd) == Shell!Option(cwd, <<<<Shell!Word(<<"cd">>), Shell!Word(cwd)>>>>)
EnvWords(env) == Shell!Option(env, <<Shell!Sets(env)>>)

\* compose writes these, one after the other
LEMMA ComposeParts ==
  ASSUME NEW words, NEW cwd, NEW env
  PROVE  Shell!ComposePosix(words, cwd, env) = (CdPart(cwd) \o EnvPart(env)) \o Shell!ShellJoin(words)
BY DEF Shell!ComposePosix, CdPart, EnvPart, CdLine, EnvLine

LEMMA CdPartRead ==
  ASSUME NEW cwd \in Given
  PROVE  /\ CdPart(cwd) \in Texts
         /\ Shell!After(Shell!Between(<<>>, <<>>), CdPart(cwd))
            = Shell!Between(<<>>, CdCommands(cwd))
<1>1. CASE cwd = Shell!NoValue
  <2>1. CdPart(cwd) = <<>> /\ CdCommands(cwd) = <<>> /\ <<>> \in Texts
    BY <1>1 DEF CdPart, CdCommands, Shell!Option, Texts
  <2> QED BY <2>1, AfterNone
<1>2. CASE cwd # Shell!NoValue
  <2>1. /\ CdPart(cwd) = CdLine(cwd) /\ cwd \in Texts
        /\ CdCommands(cwd) = <<<<Shell!Word(<<"cd">>), Shell!Word(cwd)>>>>
    BY <1>2 DEF CdPart, CdCommands, Shell!Option, Given
  <2> QED BY <2>1, CdRead
<1> QED BY <1>1, <1>2

LEMMA EnvPartRead ==
  ASSUME NEW env \in Given, NEW cs
  PROVE  /\ EnvPart(env) \in Texts
         /\ Shell!After(Shell!Between(<<>>, cs), EnvPart(env)) = Shell!Between(EnvWords(env), cs)
<1>1. CASE env = Shell!NoValue
  <2>1. EnvPart(env) = <<>> /\ EnvWords(env) = <<>> /\ <<>> \in Texts
    BY <1>1 DEF EnvPart, EnvWords, Shell!Option, Texts
  <2> QED BY <2>1, AfterNone
<1>2. CASE env # Shell!NoValue
  <2>1. EnvPart(env) = EnvLine(env) /\ env \in Texts /\ EnvWords(env) = <<Shell!Sets(env)>>
    BY <1>2 DEF EnvPart, EnvWords, Shell!Option, Given
  <2> QED BY <2>1, EnvRead
<1> QED BY <1>1, <1>2

LEMMA EnvWordsAre == ASSUME NEW env \in Given PROVE EnvWords(env) \in Seq(ReadWords)
<1>1. CASE env = Shell!NoValue
  BY <1>1 DEF EnvWords, Shell!Option
<1>2. CASE env # Shell!NoValue
  <2>1. <<"N", "=">> \in Texts
    BY ProgramSymbols, Written
  <2>2. <<"N", "=">> \o env \in Texts
    BY <1>2, <2>1, BothIsText DEF Given
  <2>3. Shell!Sets(env) \in ReadWords
    BY <2>2 DEF Shell!Sets, ReadWords
  <2>4. EnvWords(env) = <<Shell!Sets(env)>>
    BY <1>2 DEF EnvWords, Shell!Option
  <2> QED BY <2>3, <2>4
<1> QED BY <1>1, <1>2

\* exec: a command before this one if it changes the directory, and the variable before the
\* words
LEMMA ExecArrives ==
  ASSUME NEW words \in Seq(Texts), words # <<>>, NEW cwd \in Given, NEW env \in Given,
         ~Bare(words[1])
  PROVE  Shell!ShellReads(Shell!ComposePosix(words, cwd, env))
         = CdCommands(cwd) \o <<EnvWords(env) \o WordsOf(words)>>
<1> DEFINE a == CdPart(cwd)
           b == EnvPart(env)
           c == Shell!ShellJoin(words)
           r0 == Shell!Between(<<>>, <<>>)
           cs == CdCommands(cwd)
           ws == EnvWords(env)
<1>1. a \in Texts /\ b \in Texts /\ c \in Texts /\ a \o b \in Texts
  BY CdPartRead, EnvPartRead, JoinIsText, BothIsText
<1>2. Shell!After(r0, a) = Shell!Between(<<>>, cs)
  BY CdPartRead
<1>3. Shell!After(Shell!Between(<<>>, cs), b) = Shell!Between(ws, cs)
  BY EnvPartRead
<1>4. Shell!CommandEnds(Shell!After(Shell!Between(ws, cs), c))
      = Shell!Between(<<>>, Append(cs, ws \o WordsOf(words)))
  <2>1. ws \in Seq(ReadWords)
    BY EnvWordsAre
  <2> HIDE DEF ws, cs
  <2> QED BY <2>1, WordsArrive
<1>5. Shell!After(r0, (a \o b) \o c) = Shell!After(Shell!After(Shell!After(r0, a), b), c)
  <2> HIDE DEF a, b, c, r0
  <2>1. Shell!After(r0, (a \o b) \o c) = Shell!After(Shell!After(r0, a \o b), c)
    BY <1>1, AfterBoth
  <2>2. Shell!After(r0, a \o b) = Shell!After(Shell!After(r0, a), b)
    BY <1>1, AfterBoth
  <2> QED BY <2>1, <2>2
<1>6. Shell!ComposePosix(words, cwd, env) = (a \o b) \o c
  BY ComposeParts
<1>7. Shell!Between(<<>>, Append(cs, ws \o WordsOf(words))).commands = Append(cs, ws \o WordsOf(words))
  BY DEF Shell!Between
<1>8. Append(cs, ws \o WordsOf(words)) = cs \o <<ws \o WordsOf(words)>>
  <2> DEFINE x == ws \o WordsOf(words)
             y == <<Shell!Word(<<"cd">>), Shell!Word(cwd)>>
  <2>1. cs = <<>> \/ cs = <<y>>
    BY Zenon DEF CdCommands, Shell!Option
  <2> HIDE DEF x, y, cs
  <2>2. PICK X : x \in X /\ cs \in Seq(X)
    <3>1. PICK X : X = {x, y}
      OBVIOUS
    <3>2. <<>> \in Seq(X) /\ <<y>> \in Seq(X)
      BY <3>1
    <3> QED BY <2>1, <3>1, <3>2
  <2>3. Append(cs, x) = cs \o <<x>>
    BY <2>2, AppendIsConcat
  <2> QED BY <2>3 DEF x
<1> HIDE DEF a, b, c, r0, cs, ws
<1>9. Shell!ShellReads((a \o b) \o c) = Append(cs, ws \o WordsOf(words))
  BY <1>2, <1>3, <1>4, <1>5, <1>7 DEF Shell!ShellReads, r0
<1> QED BY <1>6, <1>8, <1>9 DEF cs, ws

-----------------------------------------------------------------------------
\* What a longer sequence begins with is a prefix of it
LEMMA PrefixIf ==
  ASSUME NEW s, NEW u, Len(s) <= Len(u), SubSeq(s, 1, Len(s)) = SubSeq(u, 1, Len(s))
  PROVE  Shell!IsPrefix(s, u)
BY DEF Shell!IsPrefix

LEMMA JoinedHasPrefix ==
  ASSUME NEW X, NEW s \in Seq(X), NEW t \in Seq(X), NEW u, u = s \o t
  PROVE  Shell!IsPrefix(s, u)
<1>1. Len(s \o t) = Len(s) + Len(t) /\ Len(s) \in Nat /\ Len(t) \in Nat
  BY ConcatProperties, LenProperties
<1>2. SubSeq(s, 1, Len(s)) = SubSeq(s \o t, 1, Len(s))
  <2>1. CASE Len(s) = 0
    BY <2>1
  <2>2. CASE Len(s) # 0
    <3>1. 1 \in 1..Len(s) /\ Len(s) \in 1..Len(s)
      BY <1>1, <2>2
    <3> QED BY <3>1, SubSeqOfConcat1
  <2> QED BY <2>1, <2>2
<1>3. Len(s) <= Len(s \o t)
  <2>1. PICK n, m \in Nat : Len(s) = n /\ Len(s \o t) = n + m
    BY <1>1
  <2> QED BY <2>1
<1>4. Len(s) <= Len(u) /\ SubSeq(s, 1, Len(s)) = SubSeq(u, 1, Len(s))
  BY <1>2, <1>3
<1> QED BY <1>4, PrefixIf

-----------------------------------------------------------------------------
DisplayLine == <<"N", "=", "N", Shell!Blank>>
InnerLine(words) ==
  DisplayLine \o <<"nohup", Shell!Blank>> \o Shell!ShellJoin(words) \o <<Shell!Blank, Shell!Detach>>

Display == Shell!Sets(<<"N">>)
Nohup == Shell!Word(<<"nohup">>)

\* DISPLAY is set as --env sets its variable
LEMMA DisplayRead ==
  ASSUME NEW cs
  PROVE  /\ DisplayLine \in Texts
         /\ Shell!After(Shell!Between(<<>>, cs), DisplayLine) = Shell!Between(<<Display>>, cs)
<1>1. PICK n : n = <<"N">>
  OBVIOUS
<1>2. n \in Seq(Shell!Safe) /\ n # <<>>
  BY <1>1 DEF Shell!Safe
<1>3. Shell!Quote(n) = n
  <2>1. Shell!IsSafe(n)
    BY <1>1 DEF Shell!IsSafe, Shell!Safe
  <2> QED BY <2>1 DEF Shell!Quote
<1>4. EnvLine(n) = DisplayLine
  <2>1. EnvLine(n) = <<"N", "=">> \o <<"N">> \o <<Shell!Blank>>
    BY <1>1, <1>3 DEF EnvLine
  <2>2. <<"N", "=">> \o <<"N">> \o <<Shell!Blank>> = Append(Append(<<"N", "=">>, "N"), Shell!Blank)
    <3>1. PICK s, x, y : s = <<"N", "=">> /\ x = "N" /\ y = Shell!Blank
      OBVIOUS
    <3>2. s \in Texts /\ x \in Chars /\ y \in Chars
      BY <3>1, ProgramSymbols, Written
    <3>3. s \o <<x>> = Append(s, x) /\ Append(s, x) \in Texts
      BY <3>2, AppendIsConcat DEF Texts
    <3>4. Append(s, x) \o <<y>> = Append(Append(s, x), y)
      BY <3>2, <3>3, AppendIsConcat DEF Texts
    <3> QED BY <3>1, <3>3, <3>4
  <2>3. Append(Append(<<"N", "=">>, "N"), Shell!Blank) = DisplayLine
    <3>1. PICK x, y, z : x = "N" /\ y = "=" /\ z = Shell!Blank
      OBVIOUS
    <3>2. x \in Chars /\ y \in Chars /\ z \in Chars
      BY <3>1, ProgramSymbols
    <3>3. Append(<<x, y>>, x) = <<x, y, x>> /\ Append(<<x, y, x>>, z) = <<x, y, x, z>>
      BY <3>2, Written
    <3> QED BY <3>1, <3>3 DEF DisplayLine
  <2> QED BY <2>1, <2>2, <2>3
<1>5. n \in Texts
  BY <1>2, SafeAreChars
<1>6. Shell!After(Shell!Between(<<>>, cs), EnvLine(n)) = Shell!Between(<<Shell!Sets(n)>>, cs)
  BY <1>5, EnvRead
<1>7. EnvLine(n) \in Texts
  BY <1>5, EnvRead
<1>8. Shell!Sets(n) = Display
  BY <1>1 DEF Display
<1> QED BY <1>4, <1>6, <1>7, <1>8

\* What begins a line as launch's does
LEMMA BeginsLaunch ==
  /\ <<Display, Nohup>> \in Seq(ReadWords) /\ ~AllSet(<<Display, Nohup>>)
  /\ Append(<<Display>>, Nohup) = <<Display, Nohup>>
<1>1. Nohup \in ReadWords /\ ~Nohup.sets
  <2>1. <<"nohup">> \in Texts
    BY ProgramSymbols, Written
  <2> QED BY <2>1, WordIsRead, WordSetsNot DEF Nohup
<1>2. Display \in ReadWords
  <2>1. PICK a, n : a = <<"N", "=">> /\ n = <<"N">>
    OBVIOUS
  <2>2. a \in Texts /\ n \in Texts
    BY <2>1, ProgramSymbols, Written
  <2>3. a \o n \in Texts
    BY <2>2, BothIsText
  <2>4. Display = ReadWord(a \o n, Yes)
    BY <2>1, Zenon DEF Display, Shell!Sets, ReadWord, Yes
  <2> QED BY <2>3, <2>4 DEF ReadWords, ReadWord, Yes
<1>3. PICK s : s = <<Display, Nohup>>
  OBVIOUS
<1>4. s \in Seq(ReadWords) /\ 2 \in DOMAIN s /\ s[2] = Nohup
  BY <1>1, <1>2, <1>3
<1>5. ~AllSet(s)
  BY <1>1, <1>4 DEF AllSet
<1> QED BY <1>1, <1>2, <1>3, <1>4, <1>5, TwoWords

\* The line inside a line runs nohup with the words and its display, and nothing else
LEMMA InnerRead ==
  ASSUME NEW words \in Seq(Texts), words # <<>>
  PROVE  /\ InnerLine(words) \in Texts
         /\ Shell!ShellReads(InnerLine(words)) = <<<<Display, Nohup>> \o WordsOf(words), <<>>>>
<1>1. PICK e, begin, d, a, b, c :
        /\ e = <<>> /\ begin = <<Display, Nohup>>
        /\ d = DisplayLine /\ a = <<"nohup", Shell!Blank>>
        /\ b = Shell!ShellJoin(words) /\ c = <<Shell!Blank, Shell!Detach>>
  OBVIOUS
<1>2. /\ d \in Texts /\ a \in Texts /\ b \in Texts /\ c \in Texts
      /\ d \o a \in Texts /\ d \o a \o b \in Texts /\ d \o a \o b \o c \in Texts
  <2>1. d \in Texts /\ a \in Texts /\ b \in Texts /\ c \in Texts
    BY <1>1, ProgramSymbols, Written, JoinIsText, DisplayRead
  <2> QED BY <2>1, BothIsText
<1>3. PICK r0 : r0 = Shell!Between(e, e)
  OBVIOUS
<1>4. Shell!After(r0, d) = Shell!Between(<<Display>>, e)
  BY <1>1, <1>3, DisplayRead
<1>5. Shell!After(Shell!Between(<<Display>>, e), a) = Shell!Between(begin, e)
  <2>1. "nohup" \in Shell!Safe /\ "nohup" # "="
    BY DEF Shell!Safe
  <2>2. Shell!After(Shell!Between(<<Display>>, e), <<"nohup", Shell!Blank>>)
        = Shell!Between(Append(<<Display>>, Shell!Word(<<"nohup">>)), e)
    BY <2>1, NameGoesOn
  <2> QED BY <1>1, <2>2, BeginsLaunch DEF Nohup
<1>6. PICK t, p, vs :
        /\ Shell!After(Shell!Between(begin, e), b) = St("word", t, p, No, vs, e)
        /\ Append(vs, ReadWord(t, No)) = begin \o WordsOf(words)
  <2>1. begin \in Seq(ReadWords) /\ ~AllSet(begin)
    BY <1>1, BeginsLaunch
  <2>2. \E t, p, vs :
          /\ Shell!After(Shell!Between(begin, e), Shell!ShellJoin(words)) = St("word", t, p, No, vs, e)
          /\ Append(vs, ReadWord(t, No)) = begin \o WordsOf(words)
    BY <2>1, WordsRead
  <2> QED BY <1>1, <2>2
<1>7. Shell!After(St("word", t, p, No, vs, e), c)
      = Shell!Between(e, Append(e, begin \o WordsOf(words)))
  <2>1. Shell!After(St("word", t, p, No, vs, e), <<Shell!Blank, Shell!Detach>>)
        = Shell!Reads(Shell!Reads(St("word", t, p, No, vs, e), Shell!Blank), Shell!Detach)
    BY ProgramSymbols, AfterTwo
  <2>2. Shell!Reads(St("word", t, p, No, vs, e), Shell!Blank) = Shell!Between(Longer(vs, t, No), e)
    BY WordEnd
  <2>3. Longer(vs, t, No) = begin \o WordsOf(words)
    BY <1>6 DEF Longer
  <2>4. Shell!Reads(Shell!Between(begin \o WordsOf(words), e), Shell!Detach)
        = Shell!Between(<<>>, Append(e, begin \o WordsOf(words)))
    BY BetweenWords
  <2> QED BY <1>1, <2>1, <2>2, <2>3, <2>4
<1>8. Shell!After(r0, d \o a \o b \o c) = Shell!Between(e, Append(e, begin \o WordsOf(words)))
  <2>1. Shell!After(r0, d \o a) = Shell!After(Shell!After(r0, d), a)
    BY <1>2, AfterBoth
  <2>2. Shell!After(r0, d \o a \o b) = Shell!After(Shell!After(r0, d \o a), b)
    BY <1>2, AfterBoth
  <2>3. Shell!After(r0, d \o a \o b \o c) = Shell!After(Shell!After(r0, d \o a \o b), c)
    BY <1>2, AfterBoth
  <2> QED BY <1>4, <1>5, <1>6, <1>7, <2>1, <2>2, <2>3
<1>9. PICK x : x = begin \o WordsOf(words)
  OBVIOUS
<1>10. Shell!CommandEnds(Shell!Between(e, Append(e, x))).commands = Append(Append(e, x), e)
  BY DEF Shell!CommandEnds, Shell!WordEnds, Shell!Between
<1>11. Append(Append(e, x), e) = <<x, e>>
  <2>1. Append(e, x) = <<x>>
    BY <1>1
  <2> QED BY <2>1, TwoWords
<1>12. Shell!ShellReads(d \o a \o b \o c) = <<x, e>>
  BY <1>1, <1>3, <1>8, <1>9, <1>10, <1>11 DEF Shell!ShellReads
<1>13. InnerLine(words) = d \o a \o b \o c
  BY <1>1 DEF InnerLine
<1> QED BY <1>1, <1>2, <1>9, <1>12, <1>13

\* launch_command: sh -c is given that line in one piece
LEMMA LaunchArrives ==
  ASSUME NEW words \in Seq(Texts), words # <<>>
  PROVE  LET outer == Shell!ComposePosix(Shell!LaunchCommand(words), Shell!NoValue, Shell!NoValue)
         IN  Shell!ShellReads(Shell!ShellReads(outer)[1][3].text)
             = <<<<Display, Nohup>> \o WordsOf(words), <<>>>>
<1> DEFINE inner == InnerLine(words)
           sh == <<"sh">>
           c == <<"-c">>
           none == Shell!NoValue
           cmd == <<sh, c, inner>>
<1>1. inner \in Texts /\ sh \in Texts /\ c \in Texts
  <2>1. "sh" \in Chars /\ "-c" \in Chars
    BY DEF Chars, Shell!Safe
  <2> QED BY <2>1, InnerRead, Written
<1>2. Shell!LaunchCommand(words) = cmd
  BY DEF Shell!LaunchCommand, InnerLine, DisplayLine
<1>3. ~Bare(sh)
  <2>1. DOMAIN sh = {1} /\ sh[1] # "="
    OBVIOUS
  <2> HIDE DEF sh
  <2> QED BY <2>1, Zenon DEF Bare, Shell!Assigns
<1>4. cmd \in Seq(Texts) /\ cmd # <<>> /\ Len(cmd) = 3 /\ cmd[1] = sh /\ cmd[3] = inner
  <2> HIDE DEF inner, sh, c
  <2> QED BY <1>1
<1> HIDE DEF inner, sh, c, cmd
<1>5. none \in Given
  BY DEF Given
<1>6. CdCommands(none) = <<>> /\ EnvWords(none) = <<>>
  BY Zenon DEF CdCommands, EnvWords, Shell!Option
<1>7. Shell!ShellReads(Shell!ComposePosix(cmd, none, none))
      = CdCommands(none) \o <<EnvWords(none) \o WordsOf(cmd)>>
  <2> HIDE DEF none
  <2> QED BY <1>3, <1>4, <1>5, ExecArrives
<1>8. WordsOf(cmd) \in Seq(ReadWords) /\ WordsOf(cmd)[3] = Shell!Word(inner)
  <2>1. PICK w : w \in Texts
    BY <1>1
  <2>2. /\ WordsOf(cmd) \in Seq(ReadWords)
        /\ \A i \in 1..Len(cmd) : WordsOf(cmd)[i] = Shell!Word(cmd[i])
    BY <1>4, <2>1, WordsOfAppend
  <2>3. 3 \in 1..Len(cmd)
    BY <1>4
  <2> QED BY <1>4, <2>2, <2>3
<1>9. (CdCommands(none) \o <<EnvWords(none) \o WordsOf(cmd)>>)[1] = WordsOf(cmd)
  <2>1. PICK x : x = WordsOf(cmd)
    OBVIOUS
  <2>2. <<>> \o x = x
    BY <1>8, <2>1
  <2>3. (<<>> \o <<x>>)[1] = x
    OBVIOUS
  <2> QED BY <1>6, <2>1, <2>2, <2>3
<1>10. Shell!ShellReads(Shell!ComposePosix(cmd, none, none))[1][3].text = inner
  <2>1. Shell!Word(inner).text = inner
    BY DEF Shell!Word
  <2> QED BY <1>7, <1>8, <1>9, <2>1
<1> QED BY <1>2, <1>10, InnerRead DEF inner, none

-----------------------------------------------------------------------------
Twice == <<"'", "'">>

LEMMA PsFields ==
  ASSUME NEW in, NEW t, NEW ws
  PROVE  /\ Shell!PsAt(in, t, ws).shell = "powershell" /\ Shell!PsAt(in, t, ws).in = in
         /\ Shell!PsAt(in, t, ws).text = t /\ Shell!PsAt(in, t, ws).words = ws
BY DEF Shell!PsAt

\* What PowerShell makes of a symbol, in each of its states
LEMMA PsReads ==
  ASSUME NEW in, NEW t, NEW ws, NEW c
  PROVE  Shell!Reads(Shell!PsAt(in, t, ws), c)
         = IF in = "quotes" THEN IF c = "'" THEN Shell!PsAt("closed", t, ws) ELSE Shell!PsAt("quotes", Append(t, c), ws)
           ELSE IF c = "'" THEN IF in = "closed" THEN Shell!PsAt("quotes", Append(t, c), ws) ELSE Shell!PsAt("quotes", t, ws)
           ELSE IF c = Shell!Semicolon THEN Shell!PsAt("bare", <<>>, Append(ws, t))
           ELSE IF c = Shell!Blank THEN Shell!PsAt("bare", t, ws)
           ELSE Shell!PsAt("bare", Append(t, c), ws)
<1>1. PICK r : r = Shell!PsAt(in, t, ws)
  OBVIOUS
<1>2. r.shell = "powershell" /\ r.in = in /\ r.text = t /\ r.words = ws
  BY <1>1, PsFields
<1>3. Shell!Reads(r, c) = Shell!PowershellReads(r, c)
  BY <1>2 DEF Shell!Reads
<1>4. Shell!PowershellReads(r, c)
      = IF in = "quotes" THEN IF c = "'" THEN Shell!PsAt("closed", t, ws) ELSE Shell!PsAt("quotes", Append(t, c), ws)
        ELSE IF in = "closed" /\ c = "'" THEN Shell!PsAt("quotes", Append(t, c), ws)
        ELSE Shell!PowershellBare(r, c)
  BY <1>2 DEF Shell!PowershellReads
<1>5. Shell!PowershellBare(r, c)
      = IF c = "'" THEN Shell!PsAt("quotes", t, ws)
        ELSE IF c = Shell!Semicolon THEN Shell!PsAt("bare", <<>>, Append(ws, t))
        ELSE IF c = Shell!Blank THEN Shell!PsAt("bare", t, ws)
        ELSE Shell!PsAt("bare", Append(t, c), ws)
  BY <1>2, BlankDiffers DEF Shell!PowershellBare
<1> QED BY <1>1, <1>3, <1>4, <1>5

LEMMA PsInQuotes ==
  ASSUME NEW t, NEW ws, NEW c, c # "'"
  PROVE  Shell!Reads(Shell!PsAt("quotes", t, ws), c) = Shell!PsAt("quotes", Append(t, c), ws)
BY PsReads, BlankDiffers

LEMMA PsQuotesEnd ==
  ASSUME NEW t, NEW ws
  PROVE  Shell!Reads(Shell!PsAt("quotes", t, ws), "'") = Shell!PsAt("closed", t, ws)
BY PsReads, BlankDiffers

LEMMA PsDoubled ==
  ASSUME NEW t, NEW ws
  PROVE  Shell!Reads(Shell!PsAt("closed", t, ws), "'") = Shell!PsAt("quotes", Append(t, "'"), ws)
BY PsReads, BlankDiffers

LEMMA PsQuotesBegin ==
  ASSUME NEW t, NEW ws
  PROVE  Shell!Reads(Shell!PsAt("bare", t, ws), "'") = Shell!PsAt("quotes", t, ws)
BY PsReads, BlankDiffers

LEMMA PsEnds ==
  ASSUME NEW t, NEW ws
  PROVE  Shell!Reads(Shell!PsAt("closed", t, ws), Shell!Semicolon) = Shell!PsAt("bare", <<>>, Append(ws, t))
BY PsReads, BlankDiffers

LEMMA PsSpace ==
  ASSUME NEW t, NEW ws
  PROVE  Shell!Reads(Shell!PsAt("bare", t, ws), Shell!Blank) = Shell!PsAt("bare", t, ws)
BY PsReads, BlankDiffers

LEMMA PsBare ==
  ASSUME NEW t, NEW ws, NEW c, c \notin {"'", Shell!Semicolon, Shell!Blank}
  PROVE  Shell!Reads(Shell!PsAt("bare", t, ws), c) = Shell!PsAt("bare", Append(t, c), ws)
BY PsReads, BlankDiffers

\* Whatever is read, the statements there are stay
LEMMA PsKeeps ==
  ASSUME NEW in, NEW t \in Texts, NEW ws, NEW c \in Chars
  PROVE  \/ \E d, u : u \in Texts /\ Shell!Reads(Shell!PsAt(in, t, ws), c) = Shell!PsAt(d, u, ws)
         \/ Shell!Reads(Shell!PsAt(in, t, ws), c) = Shell!PsAt("bare", <<>>, Append(ws, t))
<1>1. Append(t, c) \in Texts
  BY DEF Texts
<1> QED BY <1>1, PsReads

\* and so the statements that a line begins with are those it is read to have
LEMMA PsStay ==
  ASSUME NEW s \in Texts, NEW ws \in Seq(Texts)
  PROVE  \E in, t, u : u \in Seq(Texts) /\ Shell!After(Shell!PsAt("bare", <<>>, ws), s) = Shell!PsAt(in, t, ws \o u)
<1> DEFINE r == Shell!PsAt("bare", <<>>, ws)
           Stays(v) == \E in, t, u : t \in Texts /\ u \in Seq(Texts) /\ Shell!After(r, v) = Shell!PsAt(in, t, ws \o u)
           T == {v \in Texts : Stays(v)}
<1>1. <<>> \in T
  <2>1. PICK e : e = <<>>
    OBVIOUS
  <2>2. e \in Texts /\ e \in Seq(Texts) /\ ws \o e = ws
    BY <2>1 DEF Texts
  <2>3. Shell!After(Shell!PsAt("bare", e, ws), <<>>) = Shell!PsAt("bare", e, ws \o e)
    BY <2>2, AfterNone
  <2> QED BY <2>1, <2>2, <2>3
<1>2. ASSUME NEW v \in T, NEW x \in Chars PROVE Append(v, x) \in T
  <2>1. PICK in, t, u : t \in Texts /\ u \in Seq(Texts) /\ Shell!After(r, v) = Shell!PsAt(in, t, ws \o u)
    OBVIOUS
  <2> HIDE DEF r
  <2>2. Append(v, x) \in Texts /\ v \in Seq(Chars)
    BY DEF Texts
  <2>3. Shell!After(r, Append(v, x)) = Shell!Reads(Shell!PsAt(in, t, ws \o u), x)
    BY <2>1, <2>2, AfterOne
  <2>4. Stays(Append(v, x))
    <3>1. CASE \E d, k : k \in Texts /\ Shell!Reads(Shell!PsAt(in, t, ws \o u), x) = Shell!PsAt(d, k, ws \o u)
      BY <2>1, <2>3, <3>1
    <3>2. CASE Shell!Reads(Shell!PsAt(in, t, ws \o u), x) = Shell!PsAt("bare", <<>>, Append(ws \o u, t))
      <4>1. Append(ws \o u, t) = ws \o Append(u, t) /\ Append(u, t) \in Seq(Texts)
        <5>1. u \in Seq(Texts) /\ t \in Texts
          BY <2>1
        <5>2. Append(u, t) = u \o <<t>> /\ Append(u, t) \in Seq(Texts) /\ <<t>> \in Seq(Texts)
          BY <5>1, AppendIsConcat
        <5>3. PICK y \in Seq(Texts) : y = ws \o u
          BY <5>1, ConcatProperties
        <5>4. Append(y, t) = y \o <<t>>
          BY <5>1, AppendIsConcat
        <5>5. (ws \o u) \o <<t>> = ws \o (u \o <<t>>)
          BY <5>1, <5>2, ConcatAssociative
        <5> QED BY <5>2, <5>3, <5>4, <5>5
      <4>2. PICK e : e = <<>>
        OBVIOUS
      <4>3. e \in Texts
        BY <4>2 DEF Texts
      <4>4. Shell!After(r, Append(v, x)) = Shell!PsAt("bare", e, ws \o Append(u, t))
        BY <2>3, <3>2, <4>1, <4>2
      <4> QED BY <4>1, <4>3, <4>4
    <3> QED BY <2>1, <3>1, <3>2, PsKeeps
  <2> QED BY <2>2, <2>4
<1>3. T = Texts
  <2> HIDE DEF T
  <2>1. T \in SUBSET Seq(Chars)
    BY DEF T, Texts
  <2> QED BY <1>1, <1>2, <2>1, Growing DEF Texts
<1> QED BY <1>3

\* In quotes a doubled quote is one, and the rest is as it is
LEMMA PsQuotesKeep ==
  ASSUME NEW w \in Texts, NEW t \in Texts, NEW ws
  PROVE  Shell!After(Shell!PsAt("quotes", t, ws), Shell!Replaced(w, Twice)) = Shell!PsAt("quotes", t \o w, ws)
<1> DEFINE r == Shell!PsAt("quotes", t, ws)
           T == {u \in Texts : Shell!After(r, Shell!Replaced(u, Twice)) = Shell!PsAt("quotes", t \o u, ws)}
<1>0. Twice \in Texts
  BY QuoteIsChar, Written DEF Twice
<1>1. <<>> \in T
  <2>1. <<>> \in Texts /\ t \o <<>> = t
    BY DEF Texts
  <2> HIDE DEF r
  <2>2. Shell!After(r, Shell!Replaced(<<>>, Twice)) = r
    BY ReplacedNone, AfterNone
  <2> QED BY <2>1, <2>2 DEF r
<1>2. ASSUME NEW u \in T, NEW x \in Chars PROVE Append(u, x) \in T
  <2>1. /\ Append(u, x) \in Texts /\ t \o Append(u, x) = Append(t \o u, x)
        /\ Shell!Replaced(u, Twice) \in Texts /\ Piece(x, Twice) \in Texts
    BY <1>0, ReplacedIsText DEF Texts, Piece
  <2>2. Shell!After(r, Shell!Replaced(Append(u, x), Twice))
        = Shell!After(Shell!PsAt("quotes", t \o u, ws), Piece(x, Twice))
    <3>1. Shell!Replaced(Append(u, x), Twice) = Shell!Replaced(u, Twice) \o Piece(x, Twice)
      BY <1>0, ReplacedAppend
    <3> HIDE DEF r
    <3>2. Shell!After(r, Shell!Replaced(u, Twice) \o Piece(x, Twice))
          = Shell!After(Shell!After(r, Shell!Replaced(u, Twice)), Piece(x, Twice))
      BY <2>1, AfterMore DEF Texts
    <3> QED BY <3>1, <3>2
  <2>3. Shell!After(Shell!PsAt("quotes", t \o u, ws), Piece(x, Twice)) = Shell!PsAt("quotes", Append(t \o u, x), ws)
    <3>1. CASE x = "'"
      <4>1. Piece(x, Twice) = <<"'", "'">>
        BY <3>1 DEF Piece, Twice
      <4>2. PICK v : v = t \o u
        OBVIOUS
      <4>3. Shell!After(Shell!PsAt("quotes", v, ws), <<"'", "'">>)
            = Shell!Reads(Shell!Reads(Shell!PsAt("quotes", v, ws), "'"), "'")
        BY QuoteIsChar, AfterTwo
      <4> QED BY <3>1, <4>1, <4>2, <4>3, PsQuotesEnd, PsDoubled
    <3>2. CASE x # "'"
      BY <3>2, AfterOneSymbol, PsInQuotes DEF Piece
    <3> QED BY <3>1, <3>2
  <2> HIDE DEF r
  <2> QED BY <2>1, <2>2, <2>3
<1>3. T = Texts
  <2> HIDE DEF T
  <2>1. T \in SUBSET Seq(Chars)
    BY DEF T, Texts
  <2> QED BY <1>1, <1>2, <2>1, Growing DEF Texts
<1> QED BY <1>3

\* A literal is read as what it quotes
LEMMA LiteralRead ==
  ASSUME NEW w \in Texts, NEW t \in Texts, NEW ws
  PROVE  /\ Shell!PowershellLiteral(w) \in Texts
         /\ Shell!After(Shell!PsAt("bare", t, ws), Shell!PowershellLiteral(w)) = Shell!PsAt("closed", t \o w, ws)
<1> DEFINE q == <<"'">>
           e == Shell!Replaced(w, Twice)
           r == Shell!PsAt("bare", t, ws)
<1>1. q \in Texts /\ e \in Texts /\ q \o e \in Texts /\ (q \o e) \o q \in Texts
  <2>1. Twice \in Texts /\ q \in Texts
    BY QuoteIsChar, Written DEF Twice
  <2>2. e \in Texts
    BY <2>1, ReplacedIsText
  <2> HIDE DEF e, q
  <2> QED BY <2>1, <2>2, BothIsText
<1>2. Shell!After(r, q) = Shell!PsAt("quotes", t, ws)
  BY AfterOneSymbol, QuoteIsChar, PsQuotesBegin
<1>3. Shell!After(Shell!After(r, q), e) = Shell!PsAt("quotes", t \o w, ws)
  BY <1>2, PsQuotesKeep
<1>4. Shell!After(Shell!PsAt("quotes", t \o w, ws), q) = Shell!PsAt("closed", t \o w, ws)
  BY AfterOneSymbol, QuoteIsChar, PsQuotesEnd
<1>5. Shell!PowershellLiteral(w) = (q \o e) \o q
  BY DEF Shell!PowershellLiteral, Twice
<1> HIDE DEF q, e, r
<1>6. Shell!After(r, (q \o e) \o q) = Shell!After(Shell!After(r, q \o e), q)
  BY <1>1, AfterBoth
<1>7. Shell!After(r, q \o e) = Shell!After(Shell!After(r, q), e)
  BY <1>1, AfterBoth
<1> QED BY <1>1, <1>3, <1>4, <1>5, <1>6, <1>7 DEF r

\* With a ; it ends a statement
LEMMA StatementRead ==
  ASSUME NEW w \in Texts, NEW front \in Texts, NEW r, NEW t \in Texts, NEW ws,
         Shell!After(r, front) = Shell!PsAt("bare", t, ws)
  PROVE  /\ front \o Shell!PowershellLiteral(w) \o <<Shell!Semicolon, Shell!Blank>> \in Texts
         /\ Shell!After(r, front \o Shell!PowershellLiteral(w) \o <<Shell!Semicolon, Shell!Blank>>)
            = Shell!PsAt("bare", <<>>, Append(ws, t \o w))
<1> DEFINE b == Shell!PowershellLiteral(w)
           c == <<Shell!Semicolon, Shell!Blank>>
<1>1. b \in Texts /\ Shell!After(Shell!PsAt("bare", t, ws), b) = Shell!PsAt("closed", t \o w, ws)
  BY LiteralRead
<1>2. c \in Texts
  <2>1. Shell!Semicolon \in Chars /\ Shell!Blank \in Chars
    BY DEF Chars
  <2> QED BY <2>1, Written
<1>3. Shell!After(Shell!PsAt("closed", t \o w, ws), c) = Shell!PsAt("bare", <<>>, Append(ws, t \o w))
  <2>1. PICK v, e : v = t \o w /\ e = <<>>
    OBVIOUS
  <2>2. Shell!Semicolon \in Chars /\ Shell!Blank \in Chars
    BY DEF Chars
  <2>3. Shell!After(Shell!PsAt("closed", v, ws), c) = Shell!Reads(Shell!Reads(Shell!PsAt("closed", v, ws), Shell!Semicolon), Shell!Blank)
    BY <2>2, AfterTwo
  <2>4. Shell!Reads(Shell!PsAt("closed", v, ws), Shell!Semicolon) = Shell!PsAt("bare", e, Append(ws, v))
    BY <2>1, PsEnds
  <2>5. Shell!Reads(Shell!PsAt("bare", e, Append(ws, v)), Shell!Blank) = Shell!PsAt("bare", e, Append(ws, v))
    BY PsSpace
  <2> HIDE DEF c
  <2> QED BY <2>1, <2>3, <2>4, <2>5
<1> HIDE DEF b, c
<1>4. front \o b \in Texts /\ (front \o b) \o c \in Texts
  BY <1>1, <1>2, BothIsText
<1>5. Shell!After(r, (front \o b) \o c) = Shell!After(Shell!After(r, front \o b), c)
  BY <1>2, <1>4, AfterBoth
<1>6. Shell!After(r, front \o b) = Shell!After(Shell!After(r, front), b)
  BY <1>1, AfterBoth
<1> QED BY <1>1, <1>3, <1>4, <1>5, <1>6 DEF b, c

-----------------------------------------------------------------------------
PlacePart(cwd) ==
  IF cwd = Shell!NoValue THEN <<>>
  ELSE <<"Set-Location", Shell!Blank>> \o Shell!PowershellLiteral(cwd) \o <<Shell!Semicolon, Shell!Blank>>
ValuePart(env) ==
  IF env = Shell!NoValue THEN <<>>
  ELSE <<"N", "=">> \o Shell!PowershellLiteral(env) \o <<Shell!Semicolon, Shell!Blank>>
PlaceStatement(cwd) == Shell!Option(cwd, <<<<"Set-Location">> \o cwd>>)
ValueStatement(env) == Shell!Option(env, <<<<"N", "=">> \o env>>)

\* For PowerShell, compose writes these, one after the other
LEMMA RawParts ==
  ASSUME NEW words, NEW cwd, NEW env
  PROVE  Shell!ComposeRaw(words, cwd, env) = (PlacePart(cwd) \o ValuePart(env)) \o Shell!Joined(words)
BY DEF Shell!ComposeRaw, PlacePart, ValuePart

\* Set-Location and its directory are a statement
LEMMA PlaceRead ==
  ASSUME NEW cwd \in Given
  PROVE  /\ PlacePart(cwd) \in Texts /\ PlaceStatement(cwd) \in Seq(Texts)
         /\ Shell!After(Shell!PsAt("bare", <<>>, <<>>), PlacePart(cwd)) = Shell!PsAt("bare", <<>>, PlaceStatement(cwd))
<1>1. CASE cwd = Shell!NoValue
  <2>1. PlacePart(cwd) = <<>> /\ PlaceStatement(cwd) = <<>> /\ <<>> \in Texts /\ <<>> \in Seq(Texts)
    BY <1>1 DEF PlacePart, PlaceStatement, Shell!Option, Texts
  <2> QED BY <2>1, AfterNone
<1>2. CASE cwd # Shell!NoValue
  <2> DEFINE front == <<"Set-Location", Shell!Blank>>
             place == <<"Set-Location">>
             r0 == Shell!PsAt("bare", <<>>, <<>>)
  <2>1. cwd \in Texts /\ "Set-Location" \in Chars /\ Shell!Blank \in Chars
    BY <1>2 DEF Given, Chars
  <2>2. front \in Texts /\ place \in Texts
    BY <2>1, Written
  <2>3. Shell!After(r0, front) = Shell!PsAt("bare", place, <<>>)
    <3>1. PICK e : e = <<>>
      OBVIOUS
    <3>2. Shell!After(Shell!PsAt("bare", e, e), front)
          = Shell!Reads(Shell!Reads(Shell!PsAt("bare", e, e), "Set-Location"), Shell!Blank)
      BY <2>1, AfterTwo
    <3>3. Shell!Reads(Shell!PsAt("bare", e, e), "Set-Location") = Shell!PsAt("bare", Append(e, "Set-Location"), e)
      <4>1. "Set-Location" \notin {"'", Shell!Semicolon, Shell!Blank}
        BY BlankDiffers
      <4> QED BY <4>1, PsBare
    <3>4. Append(e, "Set-Location") = place
      BY <3>1
    <3>5. Shell!Reads(Shell!PsAt("bare", place, e), Shell!Blank) = Shell!PsAt("bare", place, e)
      BY PsSpace
    <3> HIDE DEF front, place
    <3> QED BY <3>1, <3>2, <3>3, <3>4, <3>5
  <2> HIDE DEF front, place, r0
  <2>4. PICK e : e = <<>>
    OBVIOUS
  <2>5. /\ front \o Shell!PowershellLiteral(cwd) \o <<Shell!Semicolon, Shell!Blank>> \in Texts
        /\ Shell!After(r0, front \o Shell!PowershellLiteral(cwd) \o <<Shell!Semicolon, Shell!Blank>>)
           = Shell!PsAt("bare", <<>>, Append(e, place \o cwd))
    <3>1. Shell!After(r0, front) = Shell!PsAt("bare", place, e)
      BY <2>3, <2>4
    <3> QED BY <2>1, <2>2, <3>1, StatementRead
  <2>6. PlacePart(cwd) = front \o Shell!PowershellLiteral(cwd) \o <<Shell!Semicolon, Shell!Blank>>
    BY <1>2 DEF PlacePart, front
  <2>7. PlaceStatement(cwd) = <<place \o cwd>>
    BY <1>2, Zenon DEF PlaceStatement, Shell!Option, place
  <2>8. place \o cwd \in Texts
    BY <2>1, <2>2, BothIsText
  <2>9. Append(e, place \o cwd) = <<place \o cwd>> /\ <<place \o cwd>> \in Seq(Texts)
    <3>1. PICK t : t = place \o cwd
      OBVIOUS
    <3>2. Append(e, t) = <<t>> /\ <<t>> \in Seq(Texts)
      BY <2>4, <2>8, <3>1
    <3> QED BY <3>1, <3>2
  <2> QED BY <2>5, <2>6, <2>7, <2>9 DEF r0
<1> QED BY <1>1, <1>2

\* and so is the assignment of the variable
LEMMA ValueRead ==
  ASSUME NEW env \in Given, NEW ws \in Seq(Texts)
  PROVE  /\ ValuePart(env) \in Texts /\ ValueStatement(env) \in Seq(Texts)
         /\ Shell!After(Shell!PsAt("bare", <<>>, ws), ValuePart(env))
            = Shell!PsAt("bare", <<>>, ws \o ValueStatement(env))
<1>1. CASE env = Shell!NoValue
  <2>1. /\ ValuePart(env) = <<>> /\ ValueStatement(env) = <<>> /\ <<>> \in Texts /\ <<>> \in Seq(Texts)
    BY <1>1 DEF ValuePart, ValueStatement, Shell!Option, Texts
  <2>2. ws \o <<>> = ws
    OBVIOUS
  <2> QED BY <2>1, <2>2, AfterNone
<1>2. CASE env # Shell!NoValue
  <2> DEFINE front == <<"N", "=">>
             r0 == Shell!PsAt("bare", <<>>, ws)
  <2>1. env \in Texts /\ "N" \in Chars /\ "=" \in Chars
    BY <1>2, ProgramSymbols DEF Given
  <2>2. front \in Texts
    BY <2>1, Written
  <2>3. Shell!After(r0, front) = Shell!PsAt("bare", front, ws)
    <3>1. PICK e : e = <<>>
      OBVIOUS
    <3>2. Shell!After(Shell!PsAt("bare", e, ws), front) = Shell!Reads(Shell!Reads(Shell!PsAt("bare", e, ws), "N"), "=")
      BY <2>1, AfterTwo
    <3>3. /\ Shell!Reads(Shell!PsAt("bare", e, ws), "N") = Shell!PsAt("bare", Append(e, "N"), ws)
          /\ Shell!Reads(Shell!PsAt("bare", Append(e, "N"), ws), "=") = Shell!PsAt("bare", Append(Append(e, "N"), "="), ws)
      <4>1. "N" \in Shell!Safe /\ "=" \in Shell!Safe
        BY DEF Shell!Safe
      <4>2. /\ "N" \notin {"'", Shell!Semicolon, Shell!Blank}
            /\ "=" \notin {"'", Shell!Semicolon, Shell!Blank}
        BY <4>1, BlankDiffers
      <4> QED BY <4>2, PsBare
    <3>4. Append(Append(e, "N"), "=") = front
      BY <2>1, <3>1, Written
    <3> HIDE DEF front
    <3> QED BY <3>1, <3>2, <3>3, <3>4
  <2> HIDE DEF front, r0
  <2>4. /\ front \o Shell!PowershellLiteral(env) \o <<Shell!Semicolon, Shell!Blank>> \in Texts
        /\ Shell!After(r0, front \o Shell!PowershellLiteral(env) \o <<Shell!Semicolon, Shell!Blank>>)
           = Shell!PsAt("bare", <<>>, Append(ws, front \o env))
    BY <2>1, <2>2, <2>3, StatementRead
  <2>5. ValuePart(env) = front \o Shell!PowershellLiteral(env) \o <<Shell!Semicolon, Shell!Blank>>
    BY <1>2 DEF ValuePart, front
  <2>6. ValueStatement(env) = <<front \o env>>
    BY <1>2, Zenon DEF ValueStatement, Shell!Option, front
  <2>7. front \o env \in Texts
    BY <2>1, <2>2, BothIsText
  <2>8. Append(ws, front \o env) = ws \o <<front \o env>> /\ <<front \o env>> \in Seq(Texts)
    <3>1. PICK t : t = front \o env
      OBVIOUS
    <3>2. t \in Texts /\ <<t>> \in Seq(Texts)
      BY <2>7, <3>1
    <3>3. Append(ws, t) = ws \o <<t>>
      BY <3>2, AppendIsConcat
    <3> QED BY <3>1, <3>2, <3>3
  <2> QED BY <2>4, <2>5, <2>6, <2>8 DEF r0
<1> QED BY <1>1, <1>2

\* raw: both before whatever the words are
LEMMA RawArrives ==
  ASSUME NEW words \in Seq(Texts), words # <<>>, NEW cwd \in Given, NEW env \in Given
  PROVE  Shell!IsPrefix(PlaceStatement(cwd) \o ValueStatement(env),
                        Shell!Statements(Shell!ComposeRaw(words, cwd, env)))
<1> DEFINE a == PlacePart(cwd)
           b == ValuePart(env)
           c == Shell!Joined(words)
           r0 == Shell!PsAt("bare", <<>>, <<>>)
           ws == PlaceStatement(cwd)
           vs == PlaceStatement(cwd) \o ValueStatement(env)
<1>1. /\ a \in Texts /\ b \in Texts /\ c \in Texts /\ a \o b \in Texts
      /\ ws \in Seq(Texts) /\ vs \in Seq(Texts)
  <2>1. a \in Texts /\ c \in Texts /\ ws \in Seq(Texts)
    BY PlaceRead, JoinedIsText
  <2>2. b \in Texts /\ ValueStatement(env) \in Seq(Texts)
    BY <2>1, ValueRead
  <2> HIDE DEF a, b, c
  <2>3. a \o b \in Texts
    BY <2>1, <2>2, BothIsText
  <2> QED BY <2>1, <2>2, <2>3
<1>2. Shell!After(r0, a) = Shell!PsAt("bare", <<>>, ws)
  BY PlaceRead
<1>3. Shell!After(Shell!PsAt("bare", <<>>, ws), b) = Shell!PsAt("bare", <<>>, vs)
  <2> HIDE DEF a
  <2> QED BY <1>1, ValueRead
<1> HIDE DEF a, b, c, ws, vs
<1>4. PICK in, t, u : u \in Seq(Texts) /\ Shell!After(Shell!PsAt("bare", <<>>, vs), c) = Shell!PsAt(in, t, vs \o u)
  BY <1>1, PsStay
<1> HIDE DEF r0
<1>5. Shell!After(r0, (a \o b) \o c) = Shell!After(Shell!After(r0, a \o b), c)
  BY <1>1, AfterBoth
<1>6. Shell!After(r0, a \o b) = Shell!After(Shell!After(r0, a), b)
  BY <1>1, AfterBoth
<1>7. Shell!After(r0, (a \o b) \o c) = Shell!PsAt(in, t, vs \o u)
  BY <1>2, <1>3, <1>4, <1>5, <1>6
<1>8. Shell!Statements((a \o b) \o c) = vs \o u
  <2>1. Shell!PsAt(in, t, vs \o u).words = vs \o u
    BY DEF Shell!PsAt
  <2> QED BY <1>7, <2>1 DEF Shell!Statements, Shell!PsAt, r0
<1>9. PICK all : all = vs \o u
  OBVIOUS
<1>10. Shell!IsPrefix(vs, all)
  BY <1>1, <1>4, <1>9, JoinedHasPrefix
<1>11. Shell!ComposeRaw(words, cwd, env) = (a \o b) \o c
  BY RawParts DEF a, b, c
<1> QED BY <1>8, <1>9, <1>10, <1>11 DEF vs

-----------------------------------------------------------------------------
Hows == {"exec", "raw", "launch"}

ShellInv ==
  /\ asked.how \in Hows
  /\ asked.words \in Seq(Texts) /\ asked.words # <<>>
  /\ asked.cwd \in Given /\ asked.env \in Given
  /\ line \in {<<>>, Shell!LineFor(asked)}
  /\ ran # <<>> => ran = Shell!ReadAs(asked.how, Shell!LineFor(asked))

\* Words and values are of the program's symbols and their own
LEMMA GivenAreTexts == Words \subseteq Texts /\ Values \cup {Shell!NoValue} \subseteq Given
<1>1. Words \cup Values \subseteq Seq(Symbols) /\ Symbols \subseteq Chars
  BY PartsAssumption DEF Shell!ShellAssumption, Chars
<1>2. ASSUME NEW w \in Words \cup Values PROVE w \in Texts
  <2>1. w \in Seq(Symbols)
    BY <1>1
  <2> QED BY <1>1, <2>1, SeqMonotonic DEF Texts
<1> QED BY <1>2 DEF Given

LEMMA ShellInit == ASSUME Shell!Init PROVE ShellInv
<1>1. PICK how \in Hows, words \in UNION {[1..n -> Words] : n \in 1..MaxWords},
           cwd \in Values \cup {Shell!NoValue}, env \in Values \cup {Shell!NoValue} :
        asked = [how |-> how, words |-> words, cwd |-> cwd, env |-> env]
  BY DEF Shell!Init, Hows
<1>2. PICK n \in 1..MaxWords : words \in [1..n -> Words]
  OBVIOUS
<1>3. n \in Nat /\ n # 0
  BY PartsAssumption DEF Shell!ShellAssumption
<1>4. words \in Seq(Texts) /\ words # <<>>
  <2>1. words \in [1..n -> Texts]
    BY <1>2, GivenAreTexts
  <2> QED BY <1>3, <2>1
<1>5. /\ asked.how \in Hows /\ asked.words = words /\ asked.cwd = cwd /\ asked.env = env
  BY <1>1
<1>6. line = <<>> /\ ran = <<>>
  BY DEF Shell!Init
<1> QED BY <1>4, <1>5, <1>6, GivenAreTexts DEF ShellInv

LEMMA ShellNext == ASSUME ShellInv, Shell!Next PROVE ShellInv'
<1>1. CASE Shell!Send
  BY <1>1 DEF Shell!Send, ShellInv
<1>2. CASE Shell!Run
  BY <1>2 DEF Shell!Run, ShellInv
<1> QED BY <1>1, <1>2 DEF Shell!Next

\* The line that LineFor makes of what was asked is read as what was asked
LEMMA ShellArrives == ASSUME ShellInv PROVE Shell!ArrivesAsSent
<1> DEFINE words == asked.words
           cwd == asked.cwd
           env == asked.env
           l == Shell!LineFor(asked)
<1> SUFFICES ASSUME ran # <<>>
             PROVE  /\ asked.how = "exec" /\ ~Bare(words[1])
                       => ran = CdCommands(cwd) \o <<EnvWords(env) \o WordsOf(words)>>
                    /\ asked.how = "launch" => ran = <<<<Display, Nohup>> \o WordsOf(words), <<>>>>
                    /\ asked.how = "raw" => Shell!IsPrefix(PlaceStatement(cwd) \o ValueStatement(env), ran)
  BY DEF Bare, Shell!ArrivesAsSent, Display, Nohup, CdCommands, EnvWords, WordsOf, PlaceStatement, ValueStatement
<1>1. /\ words \in Seq(Texts) /\ words # <<>> /\ cwd \in Given /\ env \in Given
      /\ ran = Shell!ReadAs(asked.how, l)
  BY DEF ShellInv
<1>2. CASE asked.how = "exec" /\ ~Bare(words[1])
  <2>1. l = Shell!ComposePosix(words, cwd, env) /\ ran = Shell!ShellReads(l)
    BY <1>1, <1>2 DEF Shell!LineFor, Shell!ReadAs
  <2> HIDE DEF words, cwd, env, l
  <2> QED BY <1>1, <1>2, <2>1, ExecArrives
<1>3. CASE asked.how = "launch"
  <2>1. /\ l = Shell!ComposePosix(Shell!LaunchCommand(words), Shell!NoValue, Shell!NoValue)
        /\ ran = Shell!ShellReads(Shell!ShellReads(l)[1][3].text)
    BY <1>1, <1>3 DEF Shell!LineFor, Shell!ReadAs
  <2> HIDE DEF words, cwd, env, l
  <2> QED BY <1>1, <1>3, <2>1, LaunchArrives
<1>4. CASE asked.how = "raw"
  <2>1. l = Shell!ComposeRaw(words, cwd, env) /\ ran = Shell!Statements(l)
    BY <1>1, <1>4 DEF Shell!LineFor, Shell!ReadAs
  <2> HIDE DEF words, cwd, env, l
  <2> QED BY <1>1, <1>4, <2>1, RawArrives
<1> QED BY <1>2, <1>3, <1>4

SceneShell == scene = "shell" => ShellInv

\* The line that vitro writes is a function of what was asked, and what runs is what the
\* guest's shell reads in it (Send and Run in GuestShell)
THEOREM LinesStand == Spec => []SceneShell
<1>1. Init => SceneShell
  BY ShellInit DEF Init, SceneShell
<1>2. ASSUME SceneShell, [Next]_vars PROVE SceneShell'
  <2>1. CASE UNCHANGED <<scene, shellVars>>
    BY <1>2, <2>1 DEF SceneShell, ShellInv, shellVars
  <2>2. CASE Shell!Next /\ UNCHANGED scene
    BY <1>2, <2>2, ShellNext DEF SceneShell
  <2> QED BY <1>2, <2>1, <2>2 DEF Next, vars, SceneShell
<1> QED BY <1>1, <1>2, PTL DEF Spec

\* Whatever the words of a command are and whatever --cwd and --env are given, the shell at
\* the other end of ssh runs them as they were given: no quoting is undone, nothing is split
\* and nothing expands (quote, compose, launch_command)
THEOREM LinesArriveAsSent == Spec => []ArrivesAsSent
<1>1. SceneShell => ArrivesAsSent
  BY ShellArrives DEF SceneShell, ArrivesAsSent
<1> QED BY <1>1, LinesStand, PTL
=============================================================================
