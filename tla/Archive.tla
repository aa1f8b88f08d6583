------------------------------ MODULE Archive ------------------------------
(***************************************************************************)
(* What sync sends of a project (sync.rs): the walk over its tree, which   *)
(* follows symbolic links, so that a file can be reached by several paths, *)
(* and what it leaves out.  An ignore file's rule is about a path: what is *)
(* ignored by one path is sent when another leads to it.                   *)
(***************************************************************************)
EXTENDS Naturals, Sequences, SequencesExt

CONSTANTS
  Root, Git,    \* the project's directory, and the .git in it
  Dirs, Files,  \* these two are of the Dirs
  Links,
  Holder,       \* the directory that each of them is in
  Above,        \* the directories from the project's to it, and itself
  Ignorable,    \* the paths that ignore files can name
  Outside, Gone \* where a link can lead: to something not in the project, to nothing

Entries == (Dirs \ {Root}) \cup Files \cup Links
Targets == Dirs \cup Files \cup {Outside, Gone}

\* A tree: whatever entries one takes, one of them is in none of the others
ArchiveAssumption ==
  /\ {Root, Git} \subseteq Dirs /\ Root # Git
  /\ (Dirs \cup Files) \cap (Links \cup {Outside, Gone}) = {} /\ Dirs \cap Files = {}
  /\ Holder \in [Entries -> Dirs]
  /\ \A S \in SUBSET Entries : S # {} => \E e \in S : Holder[e] \notin S
  /\ Above \in [Entries \cup {Root} -> SUBSET (Entries \cup {Root})] /\ Above[Root] = {Root}
  /\ \A e \in Entries : Above[e] = {e} \cup Above[Holder[e]]

VARIABLES
  leads,     \* where each link leads in the end
  ignored,   \* the paths that .gitignore, .ignore or .git/info/exclude names
  unread,    \* files that cannot be read
  todo,      \* the paths of the directories to read
  sent,      \* the paths of the files in the archive
  left,      \* the paths of the links left out, for the user to know
  at

archiveVars == <<leads, ignored, unread, todo, sent, left, at>>

-----------------------------------------------------------------------------
Behind(e) == IF e \in Links THEN leads[e] ELSE e
Reached(path) == Behind(Last(path))

\* mutant: in the project is enough
InTheProject(target) == target \in Dirs \cup Files

\* stays_inside: inside the project, and outside its .git
StaysInside(target) == target \in Dirs \cup Files /\ Git \notin Above[target]

\* filter_entry, after what is ignored
Refused(e) == e \in Links /\ ~StaysInside(leads[e])

\* unfollowable_link: a link back to a directory that the walk is in
Loops(path, e) == e \in Links /\ \E i \in DOMAIN path : Behind(path[i]) = leads[e]

\* One directory.  A file that cannot be read fails the sync, and nothing is sent
ReadDir ==
  /\ at = "walking" /\ todo # {}
  /\ LET path == CHOOSE p \in todo : TRUE
         here == {e \in Entries : /\ Holder[e] = Reached(path) /\ e # Git
                                  /\ Append(path, e) \notin ignored}
         kept == {e \in here : ~Refused(e) /\ ~Loops(path, e)}
         Paths(es) == {Append(path, e) : e \in es}
     IN /\ todo' = (todo \ {path}) \cup Paths({e \in kept : Behind(e) \in Dirs})
        /\ sent' = sent \cup Paths({e \in kept : Behind(e) \in Files})
        /\ left' = left \cup Paths(here \ kept)
        /\ at' = IF \E e \in kept : Behind(e) \in unread THEN "failed" ELSE at
  /\ UNCHANGED <<leads, ignored, unread>>

Finish ==
  /\ at = "walking" /\ todo = {} /\ at' = "done"
  /\ UNCHANGED <<leads, ignored, unread, todo, sent, left>>

Init ==
  /\ leads \in [Links -> Targets] /\ ignored \in SUBSET Ignorable
  /\ \E f \in Files : unread \in {{}, {f}}
  /\ todo = {<<Root>>} /\ sent = {} /\ left = {} /\ at = "walking"

Next == ReadDir \/ Finish

-----------------------------------------------------------------------------
\* The path is an entry's own, with no link on the way to it
IsPathOf(path, e) ==
  /\ path # <<>> /\ path[1] = Root /\ Last(path) = e
  /\ \A i \in 2..Len(path) : path[i] \in Entries /\ Holder[path[i]] = path[i - 1]

\* Nothing from the project's directory down to it is ignored
Wanted(e) == Git \notin Above[e] /\ \A d \in Above[e], q \in ignored : ~IsPathOf(q, d)

\* The path of a file in the directory that a link, not behind another one, leads to
IsThrough(path, l, f) == IsPathOf(Front(path), l) /\ Last(path) = f

\* A sync that succeeds sends no file from outside the project or from its .git, whatever
\* the links in it; it sends every other file that is not ignored, and for every link
\* that is not ignored what it leads to, or says that it does not.
SendsTheProject ==
  at = "done" =>
    /\ \A path \in sent : Reached(path) \in Files /\ Git \notin Above[Reached(path)]
    /\ \A f \in Files : Wanted(f) => \E path \in sent : IsPathOf(path, f)
    /\ \A l \in Links : Wanted(l) =>
         \/ \E path \in sent \cup left : IsPathOf(path, l)
         \/ /\ leads[l] \in Dirs
            /\ \A f \in Files :
                 Holder[f] = leads[l] /\ (\A q \in ignored : ~IsThrough(q, l, f)) =>
                   \E path \in sent : IsThrough(path, l, f)
=============================================================================
