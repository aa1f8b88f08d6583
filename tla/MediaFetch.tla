----------------------------- MODULE MediaFetch -----------------------------
(***************************************************************************)
(* Downloading installation media (media.rs).  A fetch writes the ranges   *)
(* of a file, several at a time and in any order, into a sibling of the    *)
(* cached file and then renames it.  Files are inodes: a name can come to  *)
(* mean another file while a fetch writes on into the one it opened.       *)
(***************************************************************************)
EXTENDS Integers, FiniteSets

CONSTANTS
  Fetches,    \* calls to fetch_until, of one URL
  Inodes,
  Nothing,    \* no file of that name
  Last,       \* the number of ranges of the longest version
  Streams,
  Versions,   \* what the server may serve under the URL
  Length,     \* how many ranges each has
  Wanted,     \* the version with the configured sha256
  Verified,   \* the fetches a sha256 is configured for
  FetchTrouble  \* a subset of AllFetchTrouble

\* fail: a request, a range or a file operation fails, or Ctrl-C or the deadline
\* ends it; crash: vitro is killed; change: the server serves another version;
\* together: two fetches run at once
AllFetchTrouble == {"fail", "crash", "change", "together"}

Hole == 0     \* what set_len leaves where nothing is written
Past == -1    \* no such range: the file ends before it

ASSUME FetchAssumption ==
  /\ Last \in Nat /\ Streams \in Nat \ {0}
  /\ Nothing \notin Inodes
  /\ Hole \notin Versions /\ Past \notin Versions /\ Wanted \in Versions
  /\ Length \in [Versions -> 0..Last]
  /\ Verified \subseteq Fetches
  /\ FetchTrouble \subseteq AllFetchTrouble

Ranges == 1..Last
Files == [Ranges -> Versions \cup {Hole, Past}]

VARIABLES
  file,       \* what is in each inode
  out,        \* the inode under the cache's name, or Nothing
  partial,    \* the inode under its sibling's, or Nothing
  served,     \* the version the server serves
  fetch,      \* where each fetch is
  total,      \* the length it was told
  ino,        \* the inode a fetch opened, or Nothing
  next,       \* the range its next free stream claims
  flying,     \* the ranges its streams have claimed and not finished with
  failure     \* whether one of its streams has failed

paths == <<out, partial>>
streams == <<next, flying, failure>>
media == <<file, paths, served, fetch, total, ino, streams>>

Fetching == {"looking", "asking", "creating", "fetching", "syncing", "checking", "renaming"}
Writing == {"creating", "fetching", "syncing", "checking", "renaming"}
Open == {"fetching", "syncing"}
Ended == {"done", "failed", "killed"}

\* What a download of version v, or of the first n ranges of it, is
Upto(n, v) == [r \in Ranges |-> IF r <= n THEN v ELSE Past]

\* No range is missing
Whole(i) == \A r \in Ranges : file[i][r] # Hole

\* Its length is n
IsLong(i, n) == \A r \in Ranges : file[i][r] = Past <=> r > n

\* The checksum matches
Right(i) == file[i] = Upto(Length[Wanted], Wanted)
Cached == out # Nothing /\ Right(out)

Go(f, place) == fetch' = [fetch EXCEPT ![f] = place]

-----------------------------------------------------------------------------
(* What is there already                                                   *)

BeginFetch(f) ==
  /\ fetch[f] = "not"
  /\ "together" \in FetchTrouble \/ \A g \in Fetches : fetch[g] \notin Fetching
  /\ Go(f, IF f \in Verified THEN "looking" ELSE "asking")
  /\ UNCHANGED <<file, paths, served, total, ino, streams>>

\* A cached file with the right checksum is used
Look(f) ==
  /\ fetch[f] = "looking"
  /\ Go(f, IF Cached THEN "done" ELSE "asking")
  /\ UNCHANGED <<file, paths, served, total, ino, streams>>

\* content_length, reusable: without a checksum a cached file is used if it has the
\* length that the server says; one that has not is downloaded over
AskLength(f) ==
  /\ fetch[f] = "asking"
  /\ total' = [total EXCEPT ![f] = Length[served]]
  /\ Go(f, IF f \notin Verified /\ out # Nothing /\ IsLong(out, Length[served])
           THEN "done" ELSE "creating")
  /\ UNCHANGED <<file, paths, served, ino, streams>>

\* File::create empties the file there is, whoever has it open
CreatePartial(f) ==
  /\ fetch[f] = "creating"
  /\ \E i \in IF partial # Nothing THEN {partial}
              ELSE Inodes \ ({out} \cup {ino[g] : g \in {h \in Fetches : fetch[h] \in Open}}) :
       /\ partial' = i
       /\ ino' = [ino EXCEPT ![f] = i]
       /\ file' = [file EXCEPT ![i] = Upto(total[f], Hole)]
  /\ next' = [next EXCEPT ![f] = 1]
  /\ flying' = [flying EXCEPT ![f] = {}]
  /\ failure' = [failure EXCEPT ![f] = FALSE]
  /\ Go(f, "fetching")
  /\ UNCHANGED <<out, served, total>>

-----------------------------------------------------------------------------
(* fetch_ranges                                                            *)

\* A stream that sees no failure claims the next range
Claim(f) ==
  /\ fetch[f] = "fetching" /\ ~failure[f] /\ next[f] <= total[f]
  /\ Cardinality(flying[f]) < Streams
  /\ next' = [next EXCEPT ![f] = @ + 1]
  /\ flying' = [flying EXCEPT ![f] = @ \cup {next[f]}]
  /\ UNCHANGED <<file, paths, served, fetch, total, ino, failure>>

\* write_at, which lets a file grow that is too short
WriteAt(contents, r, v) ==
  [q \in Ranges |-> IF q = r THEN v
                    ELSE IF q < r /\ contents[q] = Past THEN Hole ELSE contents[q]]

\* fetch_one: what is served has that range, and it goes where it belongs in the file
\* that the fetch has open
Land(f, r) ==
  /\ fetch[f] = "fetching" /\ r \in flying[f] /\ r <= Length[served]
  /\ file' = [file EXCEPT ![ino[f]] = WriteAt(@, r, served)]
  /\ flying' = [flying EXCEPT ![f] = @ \ {r}]
  /\ UNCHANGED <<paths, served, fetch, total, ino, next, failure>>

\* The attempts are used up, or what is served now has no such range
Lose(f, r) ==
  /\ "fail" \in FetchTrouble \/ r > Length[served]
  /\ fetch[f] = "fetching" /\ r \in flying[f]
  /\ flying' = [flying EXCEPT ![f] = @ \ {r}]
  /\ failure' = [failure EXCEPT ![f] = TRUE]
  /\ UNCHANGED <<file, paths, served, fetch, total, ino, next>>

\* A stream sees Ctrl-C before it claims
Interrupted(f) ==
  /\ "fail" \in FetchTrouble /\ fetch[f] = "fetching" /\ ~failure[f]
  /\ Cardinality(flying[f]) < Streams
  /\ failure' = [failure EXCEPT ![f] = TRUE]
  /\ UNCHANGED <<file, paths, served, fetch, total, ino, next, flying>>

\* No stream will claim another range
Claimed(f) == failure[f] \/ next[f] > total[f]

\* mutant: the streams' failures are forgotten once they have all returned
JoinAnyway(f) ==
  /\ fetch[f] = "fetching" /\ flying[f] = {} /\ Claimed(f)
  /\ Go(f, "syncing")
  /\ UNCHANGED <<file, paths, served, total, ino, streams>>

\* mutant: the failure of a stream does not end the others' wait
JoinWhole(f) ==
  /\ fetch[f] = "fetching" /\ flying[f] = {} /\ next[f] > total[f]
  /\ Go(f, IF failure[f] THEN "failed" ELSE "syncing")
  /\ partial' = IF failure[f] THEN Nothing ELSE partial
  /\ UNCHANGED <<file, out, served, total, ino, streams>>

\* Every stream has returned; after a failure whatever has the sibling's name goes
Join(f) ==
  /\ fetch[f] = "fetching" /\ flying[f] = {} /\ Claimed(f)
  /\ Go(f, IF failure[f] THEN "failed" ELSE "syncing")
  /\ partial' = IF failure[f] THEN Nothing ELSE partial
  /\ UNCHANGED <<file, out, served, total, ino, streams>>

-----------------------------------------------------------------------------
(* Putting it in place                                                     *)

Sync(f) ==
  /\ fetch[f] = "syncing"
  /\ Go(f, IF f \in Verified THEN "checking" ELSE "renaming")
  /\ UNCHANGED <<file, paths, served, total, ino, streams>>

\* mutant: a checksum that does not match is only reported
CheckReports(f) ==
  /\ fetch[f] = "checking" /\ partial # Nothing
  /\ Go(f, "renaming")
  /\ UNCHANGED <<file, paths, served, total, ino, streams>>

\* The checksum is of what has the sibling's name; if it is not right, or cannot
\* be read, the sibling goes
Check(f) ==
  /\ fetch[f] = "checking"
  /\ \/ /\ partial # Nothing /\ Right(partial)
        /\ Go(f, "renaming")
        /\ UNCHANGED partial
     \/ /\ partial = Nothing \/ ~Right(partial) \/ "fail" \in FetchTrouble
        /\ Go(f, "failed")
        /\ partial' = Nothing
  /\ UNCHANGED <<file, out, served, total, ino, streams>>

MoveIntoPlace(f) ==
  /\ fetch[f] = "renaming"
  /\ IF partial = Nothing
     THEN Go(f, "failed") /\ UNCHANGED paths
     ELSE Go(f, "done") /\ out' = partial /\ partial' = Nothing
  /\ UNCHANGED <<file, served, total, ino, streams>>

\* A step whose error returns at once: the sibling stays if it is there
FetchFails(f) ==
  /\ "fail" \in FetchTrouble
  /\ fetch[f] \in {"looking", "asking", "creating", "syncing", "renaming"}
  /\ Go(f, "failed")
  /\ UNCHANGED <<file, paths, served, total, ino, streams>>

FetchKilled(f) ==
  /\ "crash" \in FetchTrouble /\ fetch[f] \in Fetching
  /\ Go(f, "killed")
  /\ UNCHANGED <<file, paths, served, total, ino, streams>>

Change ==
  /\ "change" \in FetchTrouble
  /\ served' \in Versions \ {served}
  /\ UNCHANGED <<file, paths, fetch, total, ino, streams>>

-----------------------------------------------------------------------------
\* An empty cache, or one with an older whole download
FetchInit ==
  /\ \E v \in Versions : file = [i \in Inodes |-> Upto(Length[v], v)]
  /\ out \in Inodes \cup {Nothing}
  /\ partial = Nothing
  /\ served \in Versions
  /\ fetch = [f \in Fetches |-> "not"]
  /\ total = [f \in Fetches |-> 0]
  /\ ino = [f \in Fetches |-> Nothing]
  /\ next = [f \in Fetches |-> 1]
  /\ flying = [f \in Fetches |-> {}]
  /\ failure = [f \in Fetches |-> FALSE]

FetchStep(f) ==
  \/ Look(f) \/ AskLength(f) \/ CreatePartial(f)
  \/ Claim(f) \/ Join(f) \/ Sync(f) \/ Check(f) \/ MoveIntoPlace(f)
  \/ \E r \in Ranges : Land(f, r) \/ Lose(f, r)

FetchNext ==
  \/ Change
  \/ \E f \in Fetches :
       BeginFetch(f) \/ FetchStep(f) \/ Interrupted(f) \/ FetchFails(f) \/ FetchKilled(f)

FetchSpec == FetchInit /\ [][FetchNext]_media

\* Each range ends one way or the other, as does each other step: there is a
\* deadline (build_lume).  No user needs to begin, no server to answer well.
FairFetchSpec == FetchSpec /\ \A f \in Fetches : WF_media(FetchStep(f))

-----------------------------------------------------------------------------
(* Properties                                                              *)

\* Values in their sets
FetchTypeOK ==
  /\ file \in [Inodes -> Files]
  /\ out \in Inodes \cup {Nothing} /\ partial \in Inodes \cup {Nothing}
  /\ served \in Versions
  /\ fetch \in [Fetches -> Fetching \cup Ended \cup {"not"}]
  /\ total \in [Fetches -> 0..Last]
  /\ ino \in [Fetches -> Inodes \cup {Nothing}]
  /\ \A f \in Fetches : fetch[f] \in Open => ino[f] \in Inodes
  /\ next \in [Fetches -> 1..(Last + 1)]
  /\ flying \in [Fetches -> SUBSET Ranges]
  /\ failure \in [Fetches -> BOOLEAN]

\* An interrupted download never leaves something that looks like a complete
\* image (media.rs:88-89): whatever fails or is killed, over several fetches, a
\* file under the cache's name has no range missing.  It is what allows a file to
\* be reused on the strength of its length.
CacheWhole == out # Nothing => Whole(out)

\* With a sha256 configured, a fetch that succeeds leaves in the cache what was asked
\* for, whatever the server serves and however many streams disagree (media.rs:52,
\* 97-112).  Only one without can take it away again: a fetch that was told another
\* length than the cached file has (media.rs:72).
DoneMeansWanted ==
  [][/\ \A f \in Verified : fetch[f] # "done" /\ fetch'[f] = "done" => Cached'
     /\ Cached /\ ~Cached' =>
          \E f \in Fetches \ Verified : fetch[f] = "renaming" /\ total[f] # Length[Wanted]]_media

\* A fetch that begins ends: no stream waits for another, and none is waited for
\* that will not return.
FetchEnds == \A f \in Fetches : fetch[f] \in Fetching ~> fetch[f] \in Ended

\* What makes them so while one fetch runs at a time.  The file being written is
\* not the cached one, it is as long as the server said, and every range claimed is
\* written, in flight or failed; a fetch that checks nothing writes only where
\* nothing of that length is cached.
Alone == \A f, g \in Fetches : fetch[f] \in Fetching /\ fetch[g] \in Fetching => f = g
Written(f) ==
  /\ fetch[f] \in Writing /\ f \notin Verified => out = Nothing \/ ~IsLong(out, total[f])
  /\ fetch[f] \in Writing \ {"creating"} => partial = ino[f] /\ IsLong(ino[f], total[f])
  /\ fetch[f] = "fetching" =>
       /\ next[f] <= total[f] + 1 /\ flying[f] \subseteq 1..(next[f] - 1)
       /\ \A r \in 1..(next[f] - 1) : r \in flying[f] \/ failure[f] \/ file[ino[f]][r] # Hole
  /\ fetch[f] \in {"syncing", "checking", "renaming"} => Whole(ino[f])
  /\ fetch[f] = "renaming" /\ f \in Verified => Right(ino[f])
FetchInv ==
  /\ FetchTypeOK
  /\ Alone
  /\ partial # Nothing => partial # out
  /\ CacheWhole
  /\ \A f \in Fetches : Written(f)

\* The same for two fetches of one URL at once, when both are over.  It does not
\* hold: the second empties the first one's file, which the first then renames.
InterruptedLeavesNoImage == (\A f \in Fetches : fetch[f] \notin Fetching) => CacheWhole
=============================================================================
