-------------------------- MODULE MediaFetchProofs --------------------------
(***************************************************************************)
(* What is proved of MediaFetch, for any number of fetches, ranges,        *)
(* streams and versions.                                                   *)
(***************************************************************************)
EXTENDS MediaFetch, TLAPS

\* One fetch at a time; shared_part.cfg shows what happens otherwise
Singly == "together" \notin FetchTrouble

-----------------------------------------------------------------------------
(* Types                                                                   *)

\* Counters and places stay in their ranges
LEMMA InitTypes == FetchInit => FetchTypeOK
BY FetchAssumption, SMTT(30) DEF FetchAssumption, FetchInit, FetchTypeOK, Files, Upto, Ranges, Open, Hole, Past

LEMMA TypesOfPlaces ==
  ASSUME FetchTypeOK, NEW f \in Fetches,
         BeginFetch(f) \/ Look(f) \/ AskLength(f) \/ Sync(f) \/ Check(f) \/ MoveIntoPlace(f) \/ FetchFails(f) \/ FetchKilled(f)
  PROVE  FetchTypeOK'
<1> USE FetchAssumption DEF FetchAssumption, FetchTypeOK, Go, Open, Fetching, Ended, paths, streams
<1>1. CASE BeginFetch(f) BY <1>1 DEF BeginFetch
<1>2. CASE Look(f) BY <1>2 DEF Look
<1>3. CASE AskLength(f) BY <1>3 DEF AskLength
<1>4. CASE Sync(f) BY <1>4 DEF Sync
<1>5. CASE Check(f) BY <1>5 DEF Check
<1>6. CASE MoveIntoPlace(f) BY <1>6 DEF MoveIntoPlace
<1>7. CASE FetchFails(f) BY <1>7 DEF FetchFails
<1>8. CASE FetchKilled(f) BY <1>8 DEF FetchKilled
<1> QED BY <1>1, <1>2, <1>3, <1>4, <1>5, <1>6, <1>7, <1>8

LEMMA TypesOfStreams ==
  ASSUME FetchTypeOK, NEW f \in Fetches,
         Claim(f) \/ (\E r \in Ranges : Land(f, r) \/ Lose(f, r)) \/ Interrupted(f) \/ Join(f)
  PROVE  FetchTypeOK'
<1> USE FetchAssumption DEF FetchAssumption, FetchTypeOK, Go, Open, Fetching, Ended, paths, streams, Ranges
<1>1. CASE Claim(f)
  <2>1. next[f] \in Ranges BY <1>1 DEF Claim
  <2>2. next' \in [Fetches -> 1..(Last + 1)] BY <1>1, <2>1 DEF Claim
  <2>3. flying' \in [Fetches -> SUBSET Ranges] BY <1>1, <2>1 DEF Claim
  <2> QED BY <1>1, <2>2, <2>3 DEF Claim
<1>2. CASE \E r \in Ranges : Land(f, r)
  <2>1. PICK r \in Ranges : Land(f, r) BY <1>2
  <2>2. ino[f] \in Inodes /\ served \in Versions BY <2>1 DEF Land
  <2>3. WriteAt(file[ino[f]], r, served) \in Files
    BY <2>2 DEF WriteAt, Files
  <2>5. file' \in [Inodes -> Files] BY <2>1, <2>2, <2>3 DEF Land
  <2>4. flying' \in [Fetches -> SUBSET Ranges] BY <2>1 DEF Land
  <2> QED BY <2>1, <2>4, <2>5 DEF Land
<1>3. CASE \E r \in Ranges : Lose(f, r) BY <1>3 DEF Lose
<1>4. CASE Interrupted(f) BY <1>4 DEF Interrupted
<1>5. CASE Join(f) BY <1>5 DEF Join
<1> QED BY <1>1, <1>2, <1>3, <1>4, <1>5

LEMMA TypesOfCreate ==
  ASSUME FetchTypeOK, NEW f \in Fetches, CreatePartial(f)
  PROVE  FetchTypeOK'
<1>1. PICK i \in Inodes : /\ partial' = i
                          /\ ino' = [ino EXCEPT ![f] = i]
                          /\ file' = [file EXCEPT ![i] = Upto(total[f], Hole)]
  BY DEF CreatePartial, FetchTypeOK
<1>2. file' \in [Inodes -> Files] BY <1>1 DEF FetchTypeOK, Files, Upto
<1>3. ino' \in [Fetches -> Inodes \cup {Nothing}] /\ ino'[f] \in Inodes BY <1>1 DEF FetchTypeOK
<1>4. fetch' \in [Fetches -> Fetching \cup Ended \cup {"not"}] BY DEF FetchTypeOK, CreatePartial, Go, Fetching
<1>5. \A g \in Fetches : fetch'[g] \in Open => ino'[g] \in Inodes
  BY <1>1, <1>3 DEF FetchTypeOK, CreatePartial, Go
<1>6. next' \in [Fetches -> 1..(Last + 1)] /\ flying' \in [Fetches -> SUBSET Ranges]
  BY FetchAssumption DEF FetchTypeOK, FetchAssumption, CreatePartial
<1>7. failure' \in [Fetches -> BOOLEAN] BY DEF FetchTypeOK, CreatePartial
<1> QED BY <1>1, <1>2, <1>3, <1>4, <1>5, <1>6, <1>7 DEF FetchTypeOK, CreatePartial

LEMMA StepTypes ==
  ASSUME FetchTypeOK, [FetchNext]_media
  PROVE  FetchTypeOK'
<1>1. CASE Change BY <1>1 DEF Change, FetchTypeOK, paths, streams
<1>2. CASE UNCHANGED media BY <1>2 DEF media, FetchTypeOK, paths, streams
<1>3. ASSUME NEW f \in Fetches, BeginFetch(f) \/ FetchStep(f) \/ Interrupted(f) \/ FetchFails(f) \/ FetchKilled(f)
      PROVE  FetchTypeOK'
  BY <1>3, TypesOfPlaces, TypesOfStreams, TypesOfCreate DEF FetchStep
<1> QED BY <1>1, <1>2, <1>3 DEF FetchNext

-----------------------------------------------------------------------------
(* One fetch at work                                                       *)

\* A step of the one fetch at work leaves it alone, and says nothing of others
LEMMA OthersIdle ==
  ASSUME FetchTypeOK, NEW f \in Fetches, NEW place,
         \A g \in Fetches \ {f} : fetch[g] \notin Fetching,
         fetch' = [fetch EXCEPT ![f] = place]
  PROVE  Alone' /\ \A g \in Fetches \ {f} : Written(g)'
<1>1. \A g \in Fetches \ {f} : fetch'[g] \notin Fetching BY DEF FetchTypeOK
<1>2. Alone' BY <1>1 DEF Alone
<1>3. ASSUME NEW g \in Fetches \ {f} PROVE Written(g)'
  BY <1>1, <1>3 DEF Written, Fetching, Writing
<1> QED BY <1>2, <1>3

\* What a step keeps that leaves the cached file and its name alone
LEMMA CacheKept ==
  ASSUME FetchInv, out' = out, out # Nothing => file'[out] = file[out]
  PROVE  CacheWhole'
BY DEF FetchInv, CacheWhole, Whole

\* The conclusion for a step of f that does both
LEMMA StepKeeps ==
  ASSUME FetchInv, FetchTypeOK', NEW f \in Fetches, NEW place,
         \A g \in Fetches \ {f} : fetch[g] \notin Fetching,
         fetch' = [fetch EXCEPT ![f] = place],
         CacheWhole',
         partial' # Nothing => partial' # out',
         Written(f)'
  PROVE  FetchInv'
<1>1. Alone' /\ \A g \in Fetches \ {f} : Written(g)' BY OthersIdle DEF FetchInv
<1> QED BY <1>1 DEF FetchInv

LEMMA AloneNow ==
  ASSUME FetchInv, NEW f \in Fetches, fetch[f] \in Fetching
  PROVE  \A g \in Fetches \ {f} : fetch[g] \notin Fetching
BY DEF FetchInv, Alone

-----------------------------------------------------------------------------
(* The steps                                                               *)

LEMMA BeginKeeps ==
  ASSUME FetchInv, FetchTypeOK', Singly, NEW f \in Fetches, BeginFetch(f)
  PROVE  FetchInv'
<1> DEFINE place == IF f \in Verified THEN "looking" ELSE "asking"
<1>1. fetch' = [fetch EXCEPT ![f] = place] BY DEF BeginFetch, Go
<1>2. \A g \in Fetches \ {f} : fetch[g] \notin Fetching BY DEF BeginFetch, Singly
<1>3. place \in {"looking", "asking"} OBVIOUS
<1> HIDE DEF place
<1>4. UNCHANGED <<file, out, partial>> BY DEF BeginFetch, paths
<1>5. CacheWhole' BY <1>4, CacheKept
<1>6. fetch'[f] = place BY <1>1 DEF FetchInv, FetchTypeOK
<1>7. Written(f)' BY <1>3, <1>6 DEF Written, Writing
<1> QED BY <1>1, <1>2, <1>4, <1>5, <1>7, StepKeeps DEF FetchInv

LEMMA LookKeeps ==
  ASSUME FetchInv, FetchTypeOK', NEW f \in Fetches, Look(f)
  PROVE  FetchInv'
<1> DEFINE place == IF Cached THEN "done" ELSE "asking"
<1>1. fetch' = [fetch EXCEPT ![f] = place] BY DEF Look, Go
<1>2. \A g \in Fetches \ {f} : fetch[g] \notin Fetching BY AloneNow DEF Look, Fetching
<1>3. place \in {"done", "asking"} OBVIOUS
<1> HIDE DEF place
<1>4. UNCHANGED <<file, out, partial>> BY DEF Look, paths
<1>5. CacheWhole' BY <1>4 DEF FetchInv, CacheWhole, Whole
<1>6. fetch'[f] = place BY <1>1 DEF FetchInv, FetchTypeOK
<1>8. Written(f)' BY <1>3, <1>6 DEF Written, Writing
<1> QED BY <1>1, <1>2, <1>4, <1>5, <1>8, StepKeeps DEF FetchInv

LEMMA AskKeeps ==
  ASSUME FetchInv, FetchTypeOK', NEW f \in Fetches, AskLength(f)
  PROVE  FetchInv'
<1> DEFINE place == IF f \notin Verified /\ out # Nothing /\ IsLong(out, Length[served])
                    THEN "done" ELSE "creating"
<1>1. fetch' = [fetch EXCEPT ![f] = place] BY DEF AskLength, Go
<1>2. \A g \in Fetches \ {f} : fetch[g] \notin Fetching BY AloneNow DEF AskLength, Fetching
<1>3. /\ place \in {"done", "creating"}
      /\ place = "creating" => f \in Verified \/ out = Nothing \/ ~IsLong(out, Length[served])
  OBVIOUS
<1> HIDE DEF place
<1>4. UNCHANGED <<file, out, partial>> BY DEF AskLength, paths
<1>5. CacheWhole' BY <1>4 DEF FetchInv, CacheWhole, Whole
<1>6. fetch'[f] = place BY <1>1 DEF FetchInv, FetchTypeOK
<1>7. total'[f] = Length[served] BY DEF FetchInv, FetchTypeOK, AskLength
<1>8. Written(f)' BY <1>3, <1>4, <1>6, <1>7 DEF Written, Writing, IsLong
<1> QED BY <1>1, <1>2, <1>4, <1>5, <1>8, StepKeeps DEF FetchInv

LEMMA CreateKeeps ==
  ASSUME FetchInv, FetchTypeOK', NEW f \in Fetches, CreatePartial(f)
  PROVE  FetchInv'
<1>1. fetch' = [fetch EXCEPT ![f] = "fetching"] BY DEF CreatePartial, Go
<1>2. \A g \in Fetches \ {f} : fetch[g] \notin Fetching BY AloneNow DEF CreatePartial, Fetching
<1>3. PICK i \in Inodes : /\ i # out
                          /\ partial' = i
                          /\ ino' = [ino EXCEPT ![f] = i]
                          /\ file' = [file EXCEPT ![i] = Upto(total[f], Hole)]
  BY DEF CreatePartial, FetchInv, FetchTypeOK
<1>4. out' = out BY DEF CreatePartial
<1>5. out # Nothing => file'[out] = file[out] BY <1>3 DEF FetchInv, FetchTypeOK
<1>6. CacheWhole' BY <1>4, <1>5, CacheKept
<1>7. fetch'[f] = "fetching" /\ fetch[f] = "creating" BY <1>1 DEF FetchInv, FetchTypeOK, CreatePartial
<1>8. ino'[f] = i /\ next'[f] = 1 /\ flying'[f] = {} BY <1>3 DEF FetchInv, FetchTypeOK, CreatePartial
<1>9. total' = total /\ total[f] \in 0..Last /\ file'[i] = Upto(total[f], Hole)
  BY <1>3 DEF FetchInv, FetchTypeOK, CreatePartial
<1>10. IsLong(i, total[f])'
  BY <1>9, FetchAssumption DEF FetchAssumption, IsLong, Upto, Ranges, Hole, Past
<1>11. f \notin Verified => out' = Nothing \/ ~IsLong(out, total[f])'
  <2>1. f \notin Verified => out = Nothing \/ ~IsLong(out, total[f])
    BY <1>7 DEF FetchInv, Written, Writing
  <2> QED BY <1>4, <1>5, <1>9, <2>1 DEF IsLong
<1>12. Written(f)'
  BY <1>3, <1>7, <1>8, <1>9, <1>10, <1>11, FetchAssumption DEF FetchAssumption, Written, Writing
<1> QED BY <1>1, <1>2, <1>3, <1>4, <1>6, <1>12, StepKeeps

\* fetch_ranges: the cached file is not the one that is written, which keeps its length
LEMMA StreamsKeep ==
  ASSUME FetchInv, FetchTypeOK', NEW f \in Fetches, fetch[f] = "fetching",
         UNCHANGED <<paths, fetch, total, ino>>,
         NEW contents \in Files, file' = [file EXCEPT ![ino[f]] = contents],
         \A r \in Ranges : contents[r] = Past <=> file[ino[f]][r] = Past,
         next'[f] <= total[f] + 1, flying'[f] \subseteq 1..(next'[f] - 1),
         \A r \in 1..(next'[f] - 1) : r \in flying'[f] \/ failure'[f] \/ contents[r] # Hole
  PROVE  FetchInv'
<1>1. fetch' = [fetch EXCEPT ![f] = "fetching"] BY DEF FetchInv, FetchTypeOK
<1>2. \A g \in Fetches \ {f} : fetch[g] \notin Fetching BY AloneNow DEF Fetching
<1>3. out' = out /\ partial' = partial /\ ino' = ino BY DEF paths
<1>4. partial = ino[f] /\ IsLong(ino[f], total[f]) BY DEF FetchInv, Written, Writing
<1>5. ino[f] \in Inodes BY DEF FetchInv, FetchTypeOK, Open
<1>6. ino[f] # out BY <1>4, <1>5, FetchAssumption DEF FetchInv, FetchAssumption
<1>7. out # Nothing => file'[out] = file[out] BY <1>6 DEF FetchInv, FetchTypeOK
<1>8. CacheWhole' BY <1>3, <1>7, CacheKept
<1>9. file'[ino[f]] = contents BY <1>5 DEF FetchInv, FetchTypeOK
<1>10. IsLong(ino[f], total[f])' BY <1>3, <1>4, <1>9 DEF IsLong
<1>11. f \notin Verified => out' = Nothing \/ ~IsLong(out, total[f])'
  <2>1. f \notin Verified => out = Nothing \/ ~IsLong(out, total[f])
    BY DEF FetchInv, Written, Writing
  <2> QED BY <1>3, <1>7, <2>1 DEF IsLong
<1>12. fetch'[f] = "fetching" OBVIOUS
<1>13. Written(f)'
  BY <1>3, <1>4, <1>9, <1>10, <1>11, <1>12 DEF Written, Writing
<1> QED BY <1>1, <1>2, <1>3, <1>8, <1>13, StepKeeps DEF FetchInv

\* What a stream that writes nothing does
LEMMA NothingWritten ==
  ASSUME FetchInv, FetchTypeOK', NEW f \in Fetches, fetch[f] = "fetching",
         UNCHANGED <<file, paths, fetch, total, ino>>,
         next'[f] <= total[f] + 1, flying'[f] \subseteq 1..(next'[f] - 1),
         \A r \in 1..(next'[f] - 1) : r \in flying'[f] \/ failure'[f] \/ file[ino[f]][r] # Hole
  PROVE  FetchInv'
<1>1. ino[f] \in Inodes /\ file[ino[f]] \in Files BY DEF FetchInv, FetchTypeOK, Open
<1>2. file' = [file EXCEPT ![ino[f]] = file[ino[f]]] BY <1>1 DEF FetchInv, FetchTypeOK
<1> QED BY <1>1, <1>2, StreamsKeep

LEMMA ClaimKeeps ==
  ASSUME FetchInv, FetchTypeOK', NEW f \in Fetches, Claim(f)
  PROVE  FetchInv'
<1>1. /\ next[f] \in Nat /\ total[f] \in Nat
      /\ next'[f] = next[f] + 1 /\ flying'[f] = flying[f] \cup {next[f]}
  BY FetchAssumption DEF FetchAssumption, FetchInv, FetchTypeOK, Claim
<1>2. \A r \in 1..(next[f] - 1) : r \in flying[f] \/ failure[f] \/ file[ino[f]][r] # Hole
  BY DEF FetchInv, Written, Claim
<1>3. \A r \in 1..(next'[f] - 1) : r \in flying'[f] \/ failure'[f] \/ file[ino[f]][r] # Hole
  BY <1>1, <1>2 DEF Claim
<1>4. next'[f] <= total[f] + 1 BY <1>1 DEF Claim
<1>5. flying[f] \subseteq 1..(next[f] - 1) BY DEF FetchInv, Written, Claim
<1>6. next[f] \in 1..(Last + 1) BY DEF FetchInv, FetchTypeOK
<1>7. flying'[f] \subseteq 1..(next'[f] - 1) BY <1>1, <1>5, <1>6, FetchAssumption DEF FetchAssumption
<1> QED BY <1>3, <1>4, <1>7, NothingWritten DEF Claim

LEMMA LandKeeps ==
  ASSUME FetchInv, FetchTypeOK', NEW f \in Fetches, NEW r \in Ranges, Land(f, r)
  PROVE  FetchInv'
<1> DEFINE contents == WriteAt(file[ino[f]], r, served)
<1>1. fetch[f] = "fetching" /\ flying'[f] = flying[f] \ {r} /\ r \in flying[f]
  BY DEF FetchInv, FetchTypeOK, Land
<1>2. ino[f] \in Inodes /\ file[ino[f]] \in Files BY <1>1 DEF FetchInv, FetchTypeOK, Open
<1>3. file' = [file EXCEPT ![ino[f]] = contents] BY DEF Land
<1>4. /\ served \in Versions /\ served # Hole /\ served # Past
      /\ next[f] \in 1..(Last + 1) /\ total[f] \in 0..Last
      /\ next' = next /\ failure' = failure
  BY FetchAssumption DEF FetchAssumption, FetchInv, FetchTypeOK, Land
<1>5. /\ IsLong(ino[f], total[f]) /\ next[f] <= total[f] + 1 /\ flying[f] \subseteq 1..(next[f] - 1)
      /\ \A s \in 1..(next[f] - 1) : s \in flying[f] \/ failure[f] \/ file[ino[f]][s] # Hole
  BY <1>1 DEF FetchInv, Written, Writing
<1>6. r < next[f] BY <1>1, <1>4, <1>5, FetchAssumption DEF FetchAssumption, Ranges
<1>7. \A q \in Ranges : q <= r => file[ino[f]][q] # Past
  BY <1>4, <1>5, <1>6, FetchAssumption DEF FetchAssumption, IsLong, Ranges
<1>8. contents = [file[ino[f]] EXCEPT ![r] = served]
  BY <1>2, <1>7, FetchAssumption DEF FetchAssumption, WriteAt, Files, Ranges
<1>9. contents \in Files BY <1>2, <1>4, <1>8 DEF Files
<1>10. \A q \in Ranges : contents[q] = Past <=> file[ino[f]][q] = Past
  BY <1>2, <1>4, <1>7, <1>8, FetchAssumption DEF FetchAssumption, Files, Ranges
<1>11. \A s \in 1..(next[f] - 1) : s \in Ranges
  BY <1>4, FetchAssumption DEF FetchAssumption, Ranges
<1>12. \A s \in 1..(next'[f] - 1) : s \in flying'[f] \/ failure'[f] \/ contents[s] # Hole
  BY <1>1, <1>2, <1>4, <1>5, <1>8, <1>11 DEF Files
<1>13. UNCHANGED <<paths, fetch, total, ino>> BY DEF Land
<1>14. flying'[f] \subseteq 1..(next'[f] - 1) BY <1>1, <1>4, <1>5
<1> HIDE DEF contents
<1> QED BY <1>1, <1>3, <1>4, <1>5, <1>9, <1>10, <1>12, <1>13, <1>14, StreamsKeep

LEMMA FailureKeeps ==
  ASSUME FetchInv, FetchTypeOK', NEW f \in Fetches,
         Interrupted(f) \/ \E r \in Ranges : Lose(f, r)
  PROVE  FetchInv'
<1>1. fetch[f] = "fetching" /\ failure'[f] /\ UNCHANGED <<file, paths, fetch, total, ino, next>>
  BY DEF FetchInv, FetchTypeOK, Interrupted, Lose
<1>2. next[f] <= total[f] + 1 /\ flying[f] \subseteq 1..(next[f] - 1)
  BY <1>1 DEF FetchInv, Written
<1>3. flying'[f] \subseteq flying[f] BY DEF FetchInv, FetchTypeOK, Interrupted, Lose
<1> QED BY <1>1, <1>2, <1>3, NothingWritten

LEMMA JoinKeeps ==
  ASSUME FetchInv, FetchTypeOK', NEW f \in Fetches, Join(f)
  PROVE  FetchInv'
<1> DEFINE place == IF failure[f] THEN "failed" ELSE "syncing"
<1>1. fetch' = [fetch EXCEPT ![f] = place] BY DEF Join, Go
<1>2. \A g \in Fetches \ {f} : fetch[g] \notin Fetching BY AloneNow DEF Join, Fetching
<1>3. place \in {"failed", "syncing"} /\ (place = "syncing" => ~failure[f]) OBVIOUS
<1> HIDE DEF place
<1>4. UNCHANGED <<file, out, ino>> /\ partial' \in {partial, Nothing} /\ (~failure[f] => partial' = partial)
  BY DEF Join
<1>5. CacheWhole' BY <1>4, CacheKept
<1>6. fetch'[f] = place /\ fetch[f] = "fetching" BY <1>1 DEF FetchInv, FetchTypeOK, Join
<1>7. ~failure[f] => Whole(ino[f])
  <2>1. \A r \in 1..(next[f] - 1) : r \in flying[f] \/ failure[f] \/ file[ino[f]][r] # Hole
    BY <1>6 DEF FetchInv, Written
  <2>2. next[f] \in 1..(Last + 1) /\ total[f] \in 0..Last BY DEF FetchInv, FetchTypeOK
  <2>3. ~failure[f] => \A r \in Ranges : r <= total[f] => r \in 1..(next[f] - 1)
    BY <2>2, FetchAssumption DEF FetchAssumption, Join, Claimed, Ranges
  <2>4. flying[f] = {} BY DEF Join
  <2>5. IsLong(ino[f], total[f]) BY <1>6 DEF FetchInv, Written, Writing
  <2>6. \A r \in Ranges : r > total[f] => file[ino[f]][r] # Hole
    BY <2>5 DEF IsLong, Hole, Past
  <2>7. \A r \in Ranges : r <= total[f] \/ r > total[f]
    BY <2>2, FetchAssumption DEF FetchAssumption, Ranges
  <2> QED BY <2>1, <2>3, <2>4, <2>6, <2>7 DEF Whole
<1>8. total' = total /\ partial = ino[f] /\ IsLong(ino[f], total[f])
  BY <1>6 DEF FetchInv, Written, Writing, Join
<1>9. f \notin Verified => out = Nothing \/ ~IsLong(out, total[f])
  BY <1>6 DEF FetchInv, Written, Writing
<1>10. Written(f)'
  BY <1>3, <1>4, <1>6, <1>7, <1>8, <1>9 DEF Written, Writing, Whole, IsLong
<1> QED BY <1>1, <1>2, <1>4, <1>5, <1>10, StepKeeps DEF FetchInv

LEMMA SyncKeeps ==
  ASSUME FetchInv, FetchTypeOK', NEW f \in Fetches, Sync(f)
  PROVE  FetchInv'
<1> DEFINE place == IF f \in Verified THEN "checking" ELSE "renaming"
<1>1. fetch' = [fetch EXCEPT ![f] = place] BY DEF Sync, Go
<1>2. \A g \in Fetches \ {f} : fetch[g] \notin Fetching BY AloneNow DEF Sync, Fetching
<1>3. place \in {"checking", "renaming"} /\ (place = "renaming" => f \notin Verified) OBVIOUS
<1> HIDE DEF place
<1>4. UNCHANGED <<file, out, partial, total, ino>> BY DEF Sync, paths
<1>5. CacheWhole' BY <1>4, CacheKept
<1>6. fetch'[f] = place /\ fetch[f] = "syncing" BY <1>1 DEF FetchInv, FetchTypeOK, Sync
<1>7. Written(f)' BY <1>3, <1>4, <1>6 DEF Written, Writing, Whole, IsLong, FetchInv
<1> QED BY <1>1, <1>2, <1>4, <1>5, <1>7, StepKeeps DEF FetchInv

LEMMA CheckKeeps ==
  ASSUME FetchInv, FetchTypeOK', NEW f \in Fetches, Check(f)
  PROVE  FetchInv'
<1>1. PICK place \in {"renaming", "failed"} : fetch' = [fetch EXCEPT ![f] = place]
  BY DEF Check, Go
<1>2. \A g \in Fetches \ {f} : fetch[g] \notin Fetching BY AloneNow DEF Check, Fetching
<1>3. UNCHANGED <<file, out, total, ino>> /\ partial' \in {partial, Nothing} BY DEF Check
<1>4. CacheWhole' BY <1>3, CacheKept
<1>5. fetch'[f] = place /\ fetch[f] = "checking" BY <1>1 DEF FetchInv, FetchTypeOK, Check
<1>6. place = "renaming" => partial' = partial /\ Right(partial)
  BY <1>1, <1>5 DEF FetchInv, FetchTypeOK, Check, Go
<1>7. Written(f)'
  BY <1>3, <1>5, <1>6 DEF Written, Writing, Whole, Right, IsLong, FetchInv
<1> QED BY <1>1, <1>2, <1>3, <1>4, <1>7, StepKeeps DEF FetchInv

\* What is renamed is whole, and right if it was checked
LEMMA RenameKeeps ==
  ASSUME FetchInv, FetchTypeOK', NEW f \in Fetches, MoveIntoPlace(f)
  PROVE  FetchInv'
<1>1. fetch[f] = "renaming" /\ partial = ino[f] /\ Whole(partial) /\ file' = file
  BY DEF FetchInv, Written, Writing, MoveIntoPlace
<1>2. \A g \in Fetches \ {f} : fetch[g] \notin Fetching BY <1>1, AloneNow DEF Fetching
<1>3. CASE partial = Nothing
  <2>1. fetch' = [fetch EXCEPT ![f] = "failed"] /\ UNCHANGED <<out, partial>>
    BY <1>3 DEF MoveIntoPlace, Go, paths
  <2>2. CacheWhole' BY <1>1, <2>1, CacheKept
  <2>3. fetch'[f] = "failed" BY <2>1 DEF FetchInv, FetchTypeOK
  <2>4. Written(f)' BY <2>3 DEF Written, Writing
  <2> QED BY <1>2, <2>1, <2>2, <2>4, StepKeeps DEF FetchInv
<1>4. CASE partial # Nothing
  <2>1. fetch' = [fetch EXCEPT ![f] = "done"] /\ out' = partial /\ partial' = Nothing
    BY <1>4 DEF MoveIntoPlace, Go
  <2>2. CacheWhole' BY <1>1, <2>1 DEF CacheWhole, Whole
  <2>3. fetch'[f] = "done" BY <2>1 DEF FetchInv, FetchTypeOK
  <2>4. Written(f)' BY <2>3 DEF Written, Writing
  <2> QED BY <1>2, <2>1, <2>2, <2>4, StepKeeps
<1> QED BY <1>3, <1>4

LEMMA EndKeeps ==
  ASSUME FetchInv, FetchTypeOK', NEW f \in Fetches, FetchFails(f) \/ FetchKilled(f)
  PROVE  FetchInv'
<1>1. PICK place \in {"failed", "killed"} : fetch' = [fetch EXCEPT ![f] = place]
  BY DEF FetchFails, FetchKilled, Go
<1>2. \A g \in Fetches \ {f} : fetch[g] \notin Fetching BY AloneNow DEF FetchFails, FetchKilled, Fetching
<1>3. UNCHANGED <<file, out, partial>> BY DEF FetchFails, FetchKilled, paths
<1>4. CacheWhole' BY <1>3, CacheKept
<1>5. fetch'[f] = place BY <1>1 DEF FetchInv, FetchTypeOK
<1>6. Written(f)' BY <1>5 DEF Written, Writing
<1> QED BY <1>1, <1>2, <1>3, <1>4, <1>6, StepKeeps DEF FetchInv

LEMMA RestKeeps ==
  ASSUME FetchInv, FetchTypeOK', Change \/ UNCHANGED media
  PROVE  FetchInv'
<1>1. UNCHANGED <<file, out, partial, fetch, total, ino, next, flying, failure>>
  BY DEF Change, media, paths, streams
<1>2. \A f \in Fetches : Written(f)' BY <1>1 DEF FetchInv, Written, Whole, Right, IsLong
<1>3. CacheWhole' BY <1>1 DEF FetchInv, CacheWhole, Whole
<1>4. Alone' BY <1>1 DEF FetchInv, Alone
<1> QED BY <1>1, <1>2, <1>3, <1>4 DEF FetchInv

-----------------------------------------------------------------------------
(* Theorems                                                                *)

LEMMA InitInv == FetchInit => FetchInv
<1> SUFFICES ASSUME FetchInit PROVE FetchInv OBVIOUS
<1>1. FetchTypeOK BY InitTypes
<1>2. \A f \in Fetches : fetch[f] = "not" BY DEF FetchInit
<1>3. Alone BY <1>2 DEF Alone, Fetching
<1>4. \A f \in Fetches : Written(f) BY <1>2 DEF Written, Writing
<1>5. CacheWhole
  <2>1. PICK v \in Versions : file = [i \in Inodes |-> Upto(Length[v], v)] BY DEF FetchInit
  <2>2. v # Hole /\ Past # Hole BY FetchAssumption DEF FetchAssumption, Hole, Past
  <2>3. out # Nothing => out \in Inodes BY DEF FetchInit
  <2> QED BY <2>1, <2>2, <2>3 DEF CacheWhole, Whole, Upto
<1> QED BY <1>1, <1>3, <1>4, <1>5 DEF FetchInv, FetchInit

LEMMA StepInv ==
  ASSUME FetchInv, [FetchNext]_media, Singly
  PROVE  FetchInv'
<1>1. FetchTypeOK' BY StepTypes DEF FetchInv
<1>2. ASSUME NEW f \in Fetches, BeginFetch(f) \/ FetchStep(f) \/ Interrupted(f) \/ FetchFails(f) \/ FetchKilled(f)
      PROVE  FetchInv'
  BY <1>1, <1>2, BeginKeeps, LookKeeps, AskKeeps, CreateKeeps, ClaimKeeps, LandKeeps, FailureKeeps,
     JoinKeeps, SyncKeeps, CheckKeeps, RenameKeeps, EndKeeps DEF FetchStep
<1> QED BY <1>1, <1>2, RestKeeps DEF FetchNext

\* The invariant of fetches that run one at a time (fetch_until, media.rs:54-117)
THEOREM FetchInvariant == Singly => (FetchSpec => []FetchInv)
<1> SUFFICES ASSUME Singly PROVE FetchSpec => []FetchInv
  OBVIOUS
<1>1. FetchInv /\ [FetchNext]_media => FetchInv'
  BY StepInv
<1> QED BY <1>1, InitInv, PTL DEF FetchSpec

\* No file under the cache's name has a range missing, whatever fails and wherever
\* a fetch is killed
THEOREM CacheIsWhole == Singly => (FetchSpec => []CacheWhole)
<1> SUFFICES ASSUME Singly PROVE FetchSpec => []CacheWhole
  OBVIOUS
<1>1. FetchSpec => []FetchInv BY FetchInvariant
<1>2. FetchInv => CacheWhole BY DEF FetchInv
<1> QED BY <1>1, <1>2, PTL

-----------------------------------------------------------------------------
(* What becomes of the file with the right checksum                        *)

\* Only a rename changes what is cached
LEMMA OthersLeaveIt ==
  ASSUME FetchInv, [FetchNext]_media, \A f \in Fetches : ~MoveIntoPlace(f)
  PROVE  out' = out /\ (out # Nothing => file'[out] = file[out])
<1>1. CASE Change \/ UNCHANGED media BY <1>1 DEF Change, media, paths
<1>2. ASSUME NEW f \in Fetches,
             BeginFetch(f) \/ Look(f) \/ AskLength(f) \/ Claim(f) \/ Join(f) \/ Sync(f) \/ Check(f)
             \/ Interrupted(f) \/ FetchFails(f) \/ FetchKilled(f) \/ \E r \in Ranges : Lose(f, r)
      PROVE  out' = out /\ file' = file
  BY <1>2 DEF BeginFetch, Look, AskLength, Claim, Join, Sync, Check, Interrupted, FetchFails,
              FetchKilled, Lose, paths
<1>3. ASSUME NEW f \in Fetches, CreatePartial(f)
      PROVE  out' = out /\ (out # Nothing => file'[out] = file[out])
  <2>1. PICK i \in Inodes : i # out /\ file' = [file EXCEPT ![i] = Upto(total[f], Hole)]
    BY <1>3 DEF CreatePartial, FetchInv, FetchTypeOK
  <2> QED BY <1>3, <2>1 DEF CreatePartial, FetchInv, FetchTypeOK
<1>4. ASSUME NEW f \in Fetches, NEW r \in Ranges, Land(f, r)
      PROVE  out' = out /\ (out # Nothing => file'[out] = file[out])
  <2>1. ino[f] \in Inodes /\ partial = ino[f]
    BY <1>4 DEF Land, FetchInv, FetchTypeOK, Written, Writing, Open
  <2>2. ino[f] # out BY <2>1, FetchAssumption DEF FetchInv, FetchAssumption
  <2> QED BY <1>4, <2>1, <2>2 DEF Land, paths, FetchInv, FetchTypeOK
<1> QED BY <1>1, <1>2, <1>3, <1>4 DEF FetchNext, FetchStep

\* The step of a fetch that gets done is one of its own, and says what it found
LEMMA Finishes ==
  ASSUME FetchInv, [FetchNext]_media, NEW f \in Verified, fetch[f] # "done", fetch'[f] = "done"
  PROVE  Cached'
<1>1. f \in Fetches BY FetchAssumption DEF FetchAssumption
<1>2. \A g \in Fetches \ {f} :
        ~(BeginFetch(g) \/ FetchStep(g) \/ Interrupted(g) \/ FetchFails(g) \/ FetchKilled(g))
  BY <1>1 DEF FetchInv, FetchTypeOK, BeginFetch, FetchStep, Look, AskLength, CreatePartial, Claim, Join,
     Sync, Check, MoveIntoPlace, Land, Lose, Interrupted, FetchFails, FetchKilled, Go
<1>3. (Look(f) /\ Cached) \/ (MoveIntoPlace(f) /\ partial # Nothing)
  BY <1>1, <1>2 DEF FetchInv, FetchTypeOK, FetchNext, Change, media, BeginFetch, FetchStep, Look, AskLength,
     CreatePartial, Claim, Join, Sync, Check, MoveIntoPlace, Land, Lose, Interrupted, FetchFails, FetchKilled, Go
<1>4. CASE Look(f) /\ Cached BY <1>4 DEF Look, Cached, Right, paths
<1>5. CASE MoveIntoPlace(f) /\ partial # Nothing
  <2>1. partial = ino[f] /\ Right(ino[f]) BY <1>1, <1>5 DEF MoveIntoPlace, FetchInv, Written, Writing
  <2> QED BY <1>5, <2>1 DEF MoveIntoPlace, Cached, Right
<1> QED BY <1>3, <1>4, <1>5

\* What a fetch without a checksum takes the place of had another length
LEMMA Replaces ==
  ASSUME FetchInv, [FetchNext]_media, Cached, ~Cached'
  PROVE  \E f \in Fetches \ Verified : fetch[f] = "renaming" /\ total[f] # Length[Wanted]
<1>1. PICK f \in Fetches : MoveIntoPlace(f) BY OthersLeaveIt DEF Cached, Right
<1>2. fetch[f] = "renaming" /\ partial = ino[f] /\ file' = file
  BY <1>1 DEF MoveIntoPlace, FetchInv, Written, Writing
<1>3. partial # Nothing /\ out' = partial
  BY <1>1, <1>2 DEF MoveIntoPlace, paths, Cached, Right
<1>4. f \notin Verified BY <1>2, <1>3 DEF FetchInv, Written, Cached, Right
<1>5. ~IsLong(out, total[f]) BY <1>2, <1>4 DEF FetchInv, Written, Writing, Cached
<1>6. IsLong(out, Length[Wanted])
  BY FetchAssumption DEF FetchAssumption, Cached, Right, Upto, IsLong, Ranges
<1> QED BY <1>2, <1>4, <1>5, <1>6

\* A fetch that was given a checksum and succeeds leaves what it asked for, and nothing
\* takes that away again but a fetch without one that was told another length
THEOREM DoneIsWanted == Singly => (FetchSpec => DoneMeansWanted)
<1> SUFFICES ASSUME Singly PROVE FetchSpec => DoneMeansWanted
  OBVIOUS
<1>1. FetchSpec => []FetchInv BY FetchInvariant
<1>2. FetchInv /\ [FetchNext]_media =>
        [/\ \A f \in Verified : fetch[f] # "done" /\ fetch'[f] = "done" => Cached'
         /\ Cached /\ ~Cached' =>
              \E f \in Fetches \ Verified : fetch[f] = "renaming" /\ total[f] # Length[Wanted]]_media
  BY Finishes, Replaces
<1> QED BY <1>1, <1>2, PTL DEF FetchSpec, DoneMeansWanted
=============================================================================
