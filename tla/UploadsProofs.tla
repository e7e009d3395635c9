---------------------------- MODULE UploadsProofs ----------------------------
(***************************************************************************)
(* Proofs about Uploads, for any sets of handlers and sessions and any     *)
(* upload limit but one: no temp file is left without a session that the   *)
(* cache will end, what became of a file is final, and the limit holds.    *)
(* MCUploads checks IInv on a small instance.                              *)
(***************************************************************************)
EXTENDS Uploads, SequenceTheorems, FiniteSetTheorems, TLAPS

-----------------------------------------------------------------------------
(* The inductive invariant *)

Labels == {"idle", "create", "set", "get", "session", "write", "rename", "delete", "deleted"}

Types ==
  /\ drMu \in Handlers \union {"gc", None} /\ cacheMu \in Pruners \union {None}
  /\ entries \in Seq(Sessions) /\ expired \in 0..Len(entries) /\ spawned \in Nat
  /\ todo \in [Pruners -> Seq(Sessions)]
  /\ open \subseteq Sessions /\ touches \in Nat
  /\ file \in [Sessions -> {"none", "temp", "blob", "gone"}]
  /\ pc \in [Handlers -> Labels] /\ cur \in [Handlers -> Sessions \union {None}]
  /\ gc \in {"idle", "empty"}
  /\ down \in {"up", "deleteAll", "discard", "drop", "down"}
  /\ gone \in Sessions \union {None}

\* The cache is a map: it has a session once.
NoTwice == \A i, j \in 1..Len(entries) : entries[i] = entries[j] => i = j

\* Whoever refers to a session refers to one whose temp file was made.
Made ==
  /\ \A s \in Sessions : InCache(s) => file[s] # "none"
  /\ \A h \in Handlers : pc[h] \notin {"idle", "create"} =>
       cur[h] \in Sessions /\ file[cur[h]] # "none"
  /\ down \in {"discard", "drop"} => gone \in Sessions /\ file[gone] # "none"

\* dirRepo.mu is with the one request that makes or looks up a session, or the collector.
Locked ==
  /\ \A h \in Handlers : pc[h] \in {"create", "set", "get"} => drMu = h
  /\ gc = "empty" => drMu = "gc"

\* A session that is being made is not in the cache yet.
BeingMade == \A h \in Handlers : pc[h] = "set" => ~InCache(cur[h])

\* Whoever is to drop an entry has discarded its session: no temp file is left.
Discarded ==
  /\ \A h \in Handlers : pc[h] = "deleted" => file[cur[h]] # "temp"
  /\ down = "drop" => file[gone] # "temp"

\* A pruner has the cache for as long as there is something left for it to delete.
PrunerLocks == \A p \in Pruners : todo[p] # <<>> <=> cacheMu = p

\* pruneCount is to delete the entries from the front, down to MinCount.
Counting ==
  todo["count"] # <<>> =>
    /\ Len(entries) = MinCount + Len(todo["count"]) /\ 0 < MinCount
    /\ \A i \in 1..Len(todo["count"]) : todo["count"][i] = entries[i]

\* 90 % of an upload limit of one is none, which pruneCount reads as no limit.
Bounded == UploadMax # 1 => UploadsBounded

\* The inductive invariant.
IInv ==
  /\ Types /\ NoTwice /\ Made /\ Locked /\ BeingMade /\ Discarded /\ PrunerLocks /\ Counting
  /\ NoOrphanFile /\ Bounded

-----------------------------------------------------------------------------
(* The cache: what is left when an entry is removed *)

\* An entry is at its position.
LEMMA PositionOf ==
  ASSUME entries \in Seq(Sessions), NEW s, InCache(s)
  PROVE  Position(s) \in 1..Len(entries) /\ entries[Position(s)] = s
<1>1. \E i \in 1..Len(entries) : entries[i] = s
  BY DEF InCache, ToSet
<1> QED  BY <1>1 DEF Position

\* The entries without s are the others, in the same order.
LEMMA WithoutIs ==
  ASSUME entries \in Seq(Sessions), NEW s, InCache(s)
  PROVE  /\ Without(s) \in Seq(Sessions) /\ Len(Without(s)) = Len(entries) - 1
         /\ \A i \in 1..(Len(entries) - 1) :
              Without(s)[i] = entries[IF i < Position(s) THEN i ELSE i + 1]
<1> DEFINE p == Position(s)
           before == SubSeq(entries, 1, p - 1)
           after == SubSeq(entries, p + 1, Len(entries))
<1>1. p \in 1..Len(entries) /\ Len(entries) \in Nat
  BY PositionOf, LenProperties
<1>2. /\ before \in Seq(Sessions) /\ Len(before) = p - 1
      /\ \A i \in 1..(p - 1) : before[i] = entries[i]
  BY <1>1, SubSeqProperties
<1>3. /\ after \in Seq(Sessions) /\ Len(after) = Len(entries) - p
      /\ \A i \in 1..(Len(entries) - p) : after[i] = entries[p + i]
  BY <1>1, SubSeqProperties
<1>4. Without(s) = before \o after
  BY DEF Without, RemoveAt
<1> HIDE DEF p, before, after
<1>5. /\ before \o after \in Seq(Sessions)
      /\ Len(before \o after) = Len(before) + Len(after)
      /\ \A i \in 1..(Len(before) + Len(after)) :
           (before \o after)[i] = IF i <= Len(before) THEN before[i] ELSE after[i - Len(before)]
  BY <1>2, <1>3, ConcatProperties
<1>6. Len(before) + Len(after) = Len(entries) - 1
  BY <1>1, <1>2, <1>3
<1>7. ASSUME NEW i \in 1..(Len(entries) - 1)
      PROVE  Without(s)[i] = entries[IF i < p THEN i ELSE i + 1]
  <2>1. CASE i < p
    BY <1>1, <1>2, <1>4, <1>5, <1>6, <2>1
  <2>2. CASE ~(i < p)
    <3>1. /\ i - (p - 1) \in 1..(Len(entries) - p) /\ p + (i - (p - 1)) = i + 1
          /\ ~(i <= Len(before))
      BY <1>1, <1>2, <2>2
    <3>2. (before \o after)[i] = after[i - (p - 1)]
      BY <1>2, <1>5, <1>6, <3>1
    <3>3. after[i - (p - 1)] = entries[i + 1]
      BY <1>3, <3>1
    <3> QED  BY <1>4, <2>2, <3>2, <3>3
  <2> QED  BY <2>1, <2>2
<1> QED  BY <1>4, <1>5, <1>6, <1>7 DEF p

\* Dropping an entry takes it, and nothing else, out of the cache.
LEMMA Dropped ==
  ASSUME Types, NoTwice, NEW s, Drop(s)
  PROVE  /\ entries' \in Seq(Sessions) /\ expired' \in 0..Len(entries')
         /\ NoTwice'
         /\ \A t : InCache(t)' <=> InCache(t) /\ t # s
         /\ Len(entries') <= Len(entries)
<1> DEFINE n == Len(entries)
<1>1. entries \in Seq(Sessions) /\ n \in Nat /\ expired \in 0..n
  BY LenProperties DEF Types
<1>2. CASE ~InCache(s)
  <2>1. entries' = entries /\ expired' = expired
    BY <1>2 DEF Drop, Without, Aged
  <2> QED  BY <1>1, <1>2, <2>1 DEF InCache, NoTwice
<1>3. CASE InCache(s)
  <2> DEFINE p == Position(s)
             at(i) == IF i < p THEN i ELSE i + 1
  <2>1. /\ entries' \in Seq(Sessions) /\ Len(entries') = n - 1
        /\ \A i \in 1..(n - 1) : entries'[i] = entries[at(i)]
        /\ DOMAIN entries' = 1..(n - 1) /\ DOMAIN entries = 1..n
    BY <1>1, <1>3, WithoutIs, LenProperties DEF Drop
  <2>2. p \in 1..n /\ entries[p] = s
    BY <1>1, <1>3, PositionOf
  <2>3. expired' = IF p <= expired THEN expired - 1 ELSE expired
    BY <1>3 DEF Drop, Aged
  <2> HIDE DEF p, n
  <2>4. \A i \in 1..(n - 1) : at(i) \in 1..n /\ at(i) # p
    BY <1>1, <2>2
  <2>5. \A i, j \in 1..(n - 1) : at(i) = at(j) => i = j
    BY <1>1, <2>2
  <2>6. \A i \in 1..n : i # p => \E j \in 1..(n - 1) : at(j) = i
    <3> SUFFICES ASSUME NEW i \in 1..n, i # p
                 PROVE  \E j \in 1..(n - 1) : at(j) = i
      OBVIOUS
    <3>1. CASE i < p
      <4>1. i \in 1..(n - 1) /\ at(i) = i
        BY <1>1, <2>2, <3>1
      <4> QED  BY <4>1
    <3>2. CASE i > p
      <4>1. i - 1 \in 1..(n - 1) /\ at(i - 1) = i
        BY <1>1, <2>2, <3>2
      <4> QED  BY <4>1
    <3> QED  BY <1>1, <2>2, <3>1, <3>2
  <2> HIDE DEF at
  <2>7. \A i, j \in 1..n : entries[i] = entries[j] => i = j
    BY DEF NoTwice, n
  <2>8. NoTwice'
    BY <2>1, <2>4, <2>5, <2>7 DEF NoTwice
  <2>9. \A t : InCache(t)' <=> InCache(t) /\ t # s
    <3>1. ASSUME NEW i \in 1..(n - 1)
          PROVE  InCache(entries'[i]) /\ entries'[i] # s
      BY <2>1, <2>2, <2>4, <2>7 DEF InCache, ToSet
    <3>2. ASSUME NEW i \in 1..n, entries[i] # s
          PROVE  \E j \in 1..(n - 1) : entries'[j] = entries[i]
      BY <2>1, <2>2, <2>6, <3>2
    <3>3. \A t : InCache(t) <=> \E i \in 1..n : entries[i] = t
      BY <2>1 DEF InCache, ToSet
    <3>4. \A t : InCache(t)' <=> \E j \in 1..(n - 1) : entries'[j] = t
      BY <2>1 DEF InCache, ToSet
    <3> QED  BY <3>1, <3>2, <3>3, <3>4
  <2>10. expired' \in 0..(n - 1) /\ n - 1 <= n
    BY <1>1, <2>2, <2>3
  <2> QED  BY <2>1, <2>8, <2>9, <2>10 DEF n
<1> QED  BY <1>2, <1>3

\* Using an entry moves it to the back of the cache.
LEMMA Kept ==
  ASSUME Types, NoTwice, NEW s \in Sessions, InCache(s), Used(s)
  PROVE  /\ entries' \in Seq(Sessions) /\ expired' \in 0..Len(entries')
         /\ NoTwice'
         /\ \A t : InCache(t)' <=> InCache(t)
         /\ Len(entries') = Len(entries)
<1> DEFINE n == Len(entries)
           p == Position(s)
           at(i) == IF i = n THEN p ELSE IF i < p THEN i ELSE i + 1
<1>1. entries \in Seq(Sessions) /\ n \in Nat /\ expired \in 0..n
  BY LenProperties DEF Types
<1>2. p \in 1..n /\ entries[p] = s
  BY <1>1, PositionOf
<1>3. /\ Without(s) \in Seq(Sessions) /\ Len(Without(s)) = n - 1
      /\ \A i \in 1..(n - 1) : Without(s)[i] = entries[IF i < p THEN i ELSE i + 1]
  BY <1>1, WithoutIs
<1>4. /\ entries' \in Seq(Sessions) /\ Len(entries') = n
      /\ \A i \in 1..(n - 1) : entries'[i] = Without(s)[i]
      /\ entries'[n] = s
  <2>1. entries' = Append(Without(s), s)
    BY DEF Used
  <2> HIDE DEF n
  <2> QED  BY <1>1, <1>2, <1>3, <2>1, AppendProperties
<1>5. /\ \A i \in 1..n : entries'[i] = entries[at(i)]
      /\ DOMAIN entries' = 1..n /\ DOMAIN entries = 1..n
  BY <1>1, <1>2, <1>3, <1>4, LenProperties
<1>6. expired' = IF p <= expired THEN expired - 1 ELSE expired
  BY DEF Used, Aged
<1> HIDE DEF p, n
<1>7. \A i \in 1..n : at(i) \in 1..n
  BY <1>1, <1>2
<1>8. \A i, j \in 1..n : at(i) = at(j) => i = j
  BY <1>1, <1>2
<1>9. \A i \in 1..n : \E j \in 1..n : at(j) = i
  <2> SUFFICES ASSUME NEW i \in 1..n
               PROVE  \E j \in 1..n : at(j) = i
    OBVIOUS
  <2>1. CASE i = p
    BY <1>1, <1>2, <2>1
  <2>2. CASE i < p
    <3>1. i \in 1..n /\ at(i) = i
      BY <1>1, <1>2, <2>2
    <3> QED  BY <3>1
  <2>3. CASE i > p
    <3>1. i - 1 \in 1..n /\ at(i - 1) = i
      BY <1>1, <1>2, <2>3
    <3> QED  BY <3>1
  <2> QED  BY <1>1, <1>2, <2>1, <2>2, <2>3
<1> HIDE DEF at
<1>10. \A i, j \in 1..n : entries[i] = entries[j] => i = j
  BY DEF NoTwice, n
<1>11. NoTwice'
  BY <1>4, <1>5, <1>7, <1>8, <1>10 DEF NoTwice
<1>12. \A t : InCache(t)' <=> InCache(t)
  <2>1. \A t : InCache(t) <=> \E i \in 1..n : entries[i] = t
    BY <1>5 DEF InCache, ToSet
  <2>2. \A t : InCache(t)' <=> \E i \in 1..n : entries'[i] = t
    BY <1>5 DEF InCache, ToSet
  <2> QED  BY <1>5, <1>7, <1>9, <2>1, <2>2
<1>13. expired' \in 0..n
  BY <1>1, <1>2, <1>6
<1> QED  BY <1>4, <1>11, <1>12, <1>13 DEF n

\* A new session comes to the back of the cache.
LEMMA Added ==
  ASSUME Types, NoTwice, NEW s \in Sessions, ~InCache(s),
         entries' = Append(entries, s), expired' = expired
  PROVE  /\ entries' \in Seq(Sessions) /\ expired' \in 0..Len(entries')
         /\ NoTwice'
         /\ \A t : InCache(t)' <=> InCache(t) \/ t = s
         /\ Len(entries') = Len(entries) + 1
<1> DEFINE n == Len(entries)
<1>1. entries \in Seq(Sessions) /\ n \in Nat /\ expired \in 0..n
  BY LenProperties DEF Types
<1>2. /\ entries' \in Seq(Sessions) /\ Len(entries') = n + 1
      /\ \A i \in 1..n : entries'[i] = entries[i]
      /\ entries'[n + 1] = s
  BY <1>1, AppendProperties
<1>3. DOMAIN entries' = 1..(n + 1) /\ DOMAIN entries = 1..n
  BY <1>1, <1>2, LenProperties
<1> HIDE DEF n
<1>4. \A i \in 1..n : entries[i] # s
  BY <1>3 DEF InCache, ToSet
<1>5. \A i, j \in 1..n : entries[i] = entries[j] => i = j
  BY DEF NoTwice, n
<1>6. \A i \in 1..(n + 1) : i \in 1..n \/ i = n + 1
  BY <1>1
<1>7. NoTwice'
  BY <1>2, <1>4, <1>5, <1>6 DEF NoTwice
<1>8. \A t : InCache(t)' <=> InCache(t) \/ t = s
  <2>1. n + 1 \in 1..(n + 1) /\ 1..n \subseteq 1..(n + 1)
    BY <1>1
  <2> QED  BY <1>2, <1>3, <1>6, <2>1 DEF InCache, ToSet
<1> QED  BY <1>1, <1>2, <1>7, <1>8 DEF n

-----------------------------------------------------------------------------
(* What a step does to the files, to the cache, and to what refers to them *)

\* A session's file goes from the temp folder to the blobs or is removed, once, and a
\* step that discards a session leaves none in the temp folder.
FileMoves ==
  \A s \in Sessions :
    /\ file[s] # "none" => file'[s] # "none"
    /\ file[s] \in {"blob", "gone"} => file'[s] = file[s]
    /\ file[s] # "temp" /\ file'[s] = "temp" =>
         \E h \in Handlers : pc'[h] = "set" /\ cur'[h] = s

\* Every step moves files so.
LEMMA FileStep ==
  ASSUME IInv, [Next]_vars
  PROVE  FileMoves /\ file' \in [Sessions -> {"none", "temp", "blob", "gone"}]
<1> USE DEF IInv, Types, Labels, Pruners, locks, cache, files, ctl, Go, Leave, Enter, FileMoves
<1> DEFINE Goal == FileMoves /\ file' \in [Sessions -> {"none", "temp", "blob", "gone"}]
<1>1. ASSUME NEW h \in Handlers, CreateLock(h)
      PROVE  Goal
  BY <1>1 DEF CreateLock
<1>2. ASSUME NEW h \in Handlers, NEW s \in Sessions, CreateTemp(h, s)
      PROVE  Goal
  BY <1>2 DEF CreateTemp
<1>3. ASSUME NEW h \in Handlers, Created(h)
      PROVE  Goal
  BY <1>3 DEF Created
<1>4. ASSUME NEW h \in Handlers, NEW s \in Sessions, SessionLock(h, s)
      PROVE  Goal
  BY <1>4 DEF SessionLock
<1>5. ASSUME NEW h \in Handlers, SessionGet(h)
      PROVE  Goal
  BY <1>5 DEF SessionGet
<1>6. ASSUME NEW h \in Handlers, WriteLock(h)
      PROVE  Goal
  BY <1>6 DEF WriteLock
<1>7. ASSUME NEW h \in Handlers, Write(h)
      PROVE  Goal
  BY <1>7 DEF Write
<1>8. ASSUME NEW h \in Handlers, Return(h)
      PROVE  Goal
  BY <1>8 DEF Return
<1>9. ASSUME NEW h \in Handlers, CloseFile(h)
      PROVE  Goal
  <2>1. /\ file \in [Sessions -> {"none", "temp", "blob", "gone"}]
        /\ \/ file' = [file EXCEPT ![cur[h]] = IF @ = "temp" THEN "gone" ELSE @]
           \/ file' = file
    BY <1>9 DEF CloseFile
  <2> QED  BY <2>1
<1>10. ASSUME NEW h \in Handlers, Rename(h)
       PROVE  Goal
  BY <1>10 DEF Rename
<1>11. ASSUME NEW h \in Handlers, CancelLock(h)
       PROVE  Goal
  BY <1>11 DEF CancelLock
<1>12. ASSUME NEW h \in Handlers, Delete(h)
       PROVE  Goal
  BY <1>12 DEF Delete, Discard
<1>13. ASSUME NEW h \in Handlers, Deleted(h)
       PROVE  Goal
  BY <1>13 DEF Deleted
<1>14. ASSUME Touch
       PROVE  Goal
  BY <1>14 DEF Touch
<1>15. ASSUME Expire
       PROVE  Goal
  BY <1>15 DEF Expire
<1>16. ASSUME PruneAge
       PROVE  Goal
  BY <1>16 DEF PruneAge
<1>17. ASSUME PruneCount
       PROVE  Goal
  BY <1>17 DEF PruneCount
<1>18. ASSUME NEW p \in Pruners, PruneNext(p)
       PROVE  Goal
  BY <1>18 DEF PruneNext, Discard
<1>19. ASSUME GCLock
       PROVE  Goal
  BY <1>19 DEF GCLock
<1>20. ASSUME GCUnlock
       PROVE  Goal
  BY <1>20 DEF GCUnlock
<1>21. ASSUME CloseStore
       PROVE  Goal
  BY <1>21 DEF CloseStore
<1>22. ASSUME NEW s \in Sessions, DeleteAllNext(s)
       PROVE  Goal
  BY <1>22 DEF DeleteAllNext
<1>23. ASSUME DeleteAllDiscard
       PROVE  Goal
  BY <1>23 DEF DeleteAllDiscard, Discard
<1>24. ASSUME DeleteAllDrop
       PROVE  Goal
  BY <1>24 DEF DeleteAllDrop
<1>25. ASSUME DeleteAllDone
       PROVE  Goal
  BY <1>25 DEF DeleteAllDone
<1>26. CASE UNCHANGED vars
  BY <1>26 DEF vars
<1> QED
  BY <1>1, <1>2, <1>3, <1>4, <1>5, <1>6, <1>7, <1>8, <1>9, <1>10, <1>11, <1>12, <1>13, <1>14,
     <1>15, <1>16, <1>17, <1>18, <1>19, <1>20, <1>21, <1>22, <1>23, <1>24, <1>25, <1>26
  DEF Next

\* What enters the cache was being made, and what leaves it has no temp file any more.
CacheMoves ==
  /\ entries' \in Seq(Sessions) /\ expired' \in 0..Len(entries') /\ NoTwice'
  /\ \A s \in Sessions :
       /\ InCache(s)' =>
            InCache(s) \/ \E h \in Handlers : pc[h] = "set" /\ cur[h] = s /\ pc'[h] # "set"
       /\ InCache(s) => InCache(s)' \/ file'[s] # "temp"
       /\ \A h \in Handlers : pc[h] = "set" /\ cur[h] = s /\ pc'[h] # "set" => InCache(s)'

\* Every step changes the cache so.
LEMMA CacheStep ==
  ASSUME IInv, [Next]_vars
  PROVE  CacheMoves
<1> USE DEF IInv, Types, Labels, Pruners, locks, cache, files, ctl, Go, Leave, Enter, CacheMoves
<1>0. ASSUME UNCHANGED <<entries, expired>>, \A h \in Handlers : pc[h] = "set" => pc'[h] = "set"
      PROVE  CacheMoves
  BY <1>0 DEF InCache, NoTwice
<1>1. ASSUME NEW h \in Handlers, CreateLock(h)
      PROVE  CacheMoves
  BY <1>0, <1>1 DEF CreateLock
<1>2. ASSUME NEW h \in Handlers, NEW s \in Sessions, CreateTemp(h, s)
      PROVE  CacheMoves
  BY <1>0, <1>2 DEF CreateTemp
<1>3. ASSUME NEW h \in Handlers, Created(h)
      PROVE  CacheMoves
  <2>1. cur[h] \in Sessions /\ ~InCache(cur[h])
    BY <1>3 DEF Created, Made, BeingMade
  <2> QED  BY <1>3, <2>1, Added DEF Created
<1>4. ASSUME NEW h \in Handlers, NEW s \in Sessions, SessionLock(h, s)
      PROVE  CacheMoves
  BY <1>0, <1>4 DEF SessionLock
<1>5. ASSUME NEW h \in Handlers, SessionGet(h)
      PROVE  CacheMoves
  <2>1. cur[h] \in Sessions
    BY <1>5 DEF SessionGet, Made
  <2>2. CASE InCache(cur[h])
    BY <1>5, <2>1, <2>2, Kept DEF SessionGet
  <2>3. CASE ~InCache(cur[h])
    BY <1>5, <1>0, <2>3 DEF SessionGet
  <2> QED  BY <2>2, <2>3
<1>6. ASSUME NEW h \in Handlers, WriteLock(h)
      PROVE  CacheMoves
  BY <1>0, <1>6 DEF WriteLock
<1>7. ASSUME NEW h \in Handlers, Write(h)
      PROVE  CacheMoves
  <2>1. cur[h] \in Sessions
    BY <1>7 DEF Write, Made
  <2>2. CASE InCache(cur[h])
    BY <1>7, <2>1, <2>2, Kept DEF Write
  <2>3. CASE ~InCache(cur[h])
    BY <1>7, <1>0, <2>3 DEF Write
  <2> QED  BY <2>2, <2>3
<1>8. ASSUME NEW h \in Handlers, Return(h)
      PROVE  CacheMoves
  BY <1>0, <1>8 DEF Return
<1>9. ASSUME NEW h \in Handlers, CloseFile(h)
      PROVE  CacheMoves
  BY <1>0, <1>9 DEF CloseFile
<1>10. ASSUME NEW h \in Handlers, Rename(h)
       PROVE  CacheMoves
  BY <1>0, <1>10 DEF Rename
<1>11. ASSUME NEW h \in Handlers, CancelLock(h)
       PROVE  CacheMoves
  BY <1>0, <1>11 DEF CancelLock
<1>12. ASSUME NEW h \in Handlers, Delete(h)
       PROVE  CacheMoves
  BY <1>0, <1>12 DEF Delete
<1>13. ASSUME NEW h \in Handlers, Deleted(h)
       PROVE  CacheMoves
  <2>1. file'[cur[h]] # "temp"
    BY <1>13 DEF Deleted, Discarded
  <2> QED  BY <1>13, <2>1, Dropped DEF Deleted
<1>14. ASSUME Touch
       PROVE  CacheMoves
  BY <1>0, <1>14 DEF Touch
<1>15. ASSUME Expire
       PROVE  CacheMoves
  BY <1>15, LenProperties DEF Expire, InCache, NoTwice
<1>16. ASSUME PruneAge
       PROVE  CacheMoves
  BY <1>0, <1>16 DEF PruneAge
<1>17. ASSUME PruneCount
       PROVE  CacheMoves
  BY <1>0, <1>17 DEF PruneCount
<1>18. ASSUME NEW p \in Pruners, PruneNext(p)
       PROVE  CacheMoves
  <2>1. Head(todo[p]) \in Sessions
    BY <1>18, HeadTailProperties DEF PruneNext
  <2>2. file'[Head(todo[p])] # "temp" /\ Drop(Head(todo[p]))
    BY <1>18, <2>1 DEF PruneNext, Discard
  <2> QED  BY <1>18, <2>2, Dropped DEF PruneNext
<1>19. ASSUME GCLock
       PROVE  CacheMoves
  BY <1>0, <1>19 DEF GCLock
<1>20. ASSUME GCUnlock
       PROVE  CacheMoves
  BY <1>0, <1>20 DEF GCUnlock
<1>21. ASSUME CloseStore
       PROVE  CacheMoves
  BY <1>0, <1>21 DEF CloseStore
<1>22. ASSUME NEW s \in Sessions, DeleteAllNext(s)
       PROVE  CacheMoves
  BY <1>0, <1>22 DEF DeleteAllNext
<1>23. ASSUME DeleteAllDiscard
       PROVE  CacheMoves
  BY <1>0, <1>23 DEF DeleteAllDiscard
<1>24. ASSUME DeleteAllDrop
       PROVE  CacheMoves
  <2>1. file'[gone] # "temp"
    BY <1>24 DEF DeleteAllDrop, Discarded
  <2> QED  BY <1>24, <2>1, Dropped DEF DeleteAllDrop
<1>25. ASSUME DeleteAllDone
       PROVE  CacheMoves
  BY <1>0, <1>25 DEF DeleteAllDone
<1>26. CASE UNCHANGED vars
  BY <1>0, <1>26 DEF vars
<1> QED
  BY <1>1, <1>2, <1>3, <1>4, <1>5, <1>6, <1>7, <1>8, <1>9, <1>10, <1>11, <1>12, <1>13, <1>14,
     <1>15, <1>16, <1>17, <1>18, <1>19, <1>20, <1>21, <1>22, <1>23, <1>24, <1>25, <1>26
  DEF Next

-----------------------------------------------------------------------------
(* Every step keeps the invariant *)

\* Types.
LEMMA TypesStep ==
  ASSUME IInv, [Next]_vars
  PROVE  Types'
<1> USE DEF IInv, Types, Labels, Pruners, locks, cache, files, ctl, Go, Leave, Enter
<1>0. /\ entries' \in Seq(Sessions) /\ expired' \in 0..Len(entries')
      /\ file' \in [Sessions -> {"none", "temp", "blob", "gone"}]
  BY FileStep, CacheStep DEF CacheMoves
<1>1. ASSUME NEW h \in Handlers, CreateLock(h)
      PROVE  Types'
  BY <1>0, <1>1 DEF CreateLock
<1>2. ASSUME NEW h \in Handlers, NEW s \in Sessions, CreateTemp(h, s)
      PROVE  Types'
  BY <1>0, <1>2 DEF CreateTemp
<1>3. ASSUME NEW h \in Handlers, Created(h)
      PROVE  Types'
  <2>1. entries' \in Seq(Sessions) /\ expired' \in 0..Len(entries')
    BY <1>0
  <2> QED  BY <1>3, <2>1 DEF Created
<1>4. ASSUME NEW h \in Handlers, NEW s \in Sessions, SessionLock(h, s)
      PROVE  Types'
  BY <1>0, <1>4 DEF SessionLock
<1>5. ASSUME NEW h \in Handlers, SessionGet(h)
      PROVE  Types'
  BY <1>0, <1>5 DEF SessionGet
<1>6. ASSUME NEW h \in Handlers, WriteLock(h)
      PROVE  Types'
  BY <1>0, <1>6 DEF WriteLock
<1>7. ASSUME NEW h \in Handlers, Write(h)
      PROVE  Types'
  BY <1>0, <1>7 DEF Write
<1>8. ASSUME NEW h \in Handlers, Return(h)
      PROVE  Types'
  BY <1>0, <1>8 DEF Return
<1>9. ASSUME NEW h \in Handlers, CloseFile(h)
      PROVE  Types'
  BY <1>0, <1>9 DEF CloseFile
<1>10. ASSUME NEW h \in Handlers, Rename(h)
       PROVE  Types'
  BY <1>0, <1>10 DEF Rename
<1>11. ASSUME NEW h \in Handlers, CancelLock(h)
       PROVE  Types'
  BY <1>0, <1>11 DEF CancelLock
<1>12. ASSUME NEW h \in Handlers, Delete(h)
       PROVE  Types'
  <2>1. open' \subseteq Sessions /\ touches' \in Nat
    BY <1>12 DEF Delete, Discard
  <2>2. pc' \in [Handlers -> Labels] /\ cur' \in [Handlers -> Sessions \union {None}]
    BY <1>12 DEF Delete
  <2> QED  BY <1>0, <1>12, <2>1, <2>2 DEF Delete
<1>13. ASSUME NEW h \in Handlers, Deleted(h)
       PROVE  Types'
  BY <1>0, <1>13 DEF Deleted
<1>14. ASSUME Touch
       PROVE  Types'
  BY <1>0, <1>14 DEF Touch
<1>15. ASSUME Expire
       PROVE  Types'
  BY <1>0, <1>15 DEF Expire
<1>16. ASSUME PruneAge
       PROVE  Types'
  <2> DEFINE S == {entries[i] : i \in 1..expired}
  <2>1. PICK order \in SetToSeqs(S) : todo' = [todo EXCEPT !["age"] = order]
    BY <1>16 DEF PruneAge
  <2>2. order \in Seq(Sessions)
    <3>1. S \subseteq Sessions /\ IsFiniteSet(S)
      <4>1. IsFiniteSet(1..expired)
        BY FS_Interval
      <4>2. [i \in 1..expired |-> entries[i]] \in Surjection(1..expired, S)
        BY DEF Surjection
      <4>3. IsFiniteSet(S)
        BY <4>1, <4>2, FS_Surjection
      <4>4. S \subseteq Sessions
        BY ElementOfSeq, LenProperties
      <4> QED  BY <4>3, <4>4
    <3>2. Cardinality(S) \in Nat
      BY <3>1, FS_CardinalityType
    <3>3. order \in [1..Cardinality(S) -> Sessions]
      BY <2>1, <3>1 DEF SetToSeqs
    <3>4. \E n \in Nat : order \in [1..n -> Sessions]
      BY <3>2, <3>3
    <3>5. Seq(Sessions) = UNION {[1..n -> Sessions] : n \in Nat}
      BY SeqDef, Zenon
    <3> HIDE DEF S
    <3> QED  BY <3>4, <3>5, Zenon
  <2> QED  BY <1>16, <2>1, <2>2 DEF PruneAge
<1>17. ASSUME PruneCount
       PROVE  Types'
  <2>0. MinCount \in Int
    BY MaxType DEF MinCount
  <2>1. UNCHANGED <<todo, cacheMu>> \/ /\ cacheMu' = "count"
                                       /\ MinCount > 0
                                       /\ todo' = [todo EXCEPT !["count"] =
                                                   SubSeq(entries, 1, Len(entries) - MinCount)]
    BY <1>17, <2>0 DEF PruneCount
  <2>2. MinCount > 0 => SubSeq(entries, 1, Len(entries) - MinCount) \in Seq(Sessions)
    <3> SUFFICES ASSUME MinCount > 0
                 PROVE  SubSeq(entries, 1, Len(entries) - MinCount) \in Seq(Sessions)
      OBVIOUS
    <3>1. MinCount \in Int /\ Len(entries) \in Nat
      BY <2>0, LenProperties
    <3>2. \A i \in 1..(Len(entries) - MinCount) : entries[i] \in Sessions
      BY <3>1, ElementOfSeq
    <3> QED  BY <3>1, <3>2, SubSeqProperties
  <2>3. todo' \in [Pruners -> Seq(Sessions)] /\ cacheMu' \in Pruners \union {None}
    BY <2>1, <2>2
  <2> QED  BY <1>0, <1>17, <2>3 DEF PruneCount
<1>18. ASSUME NEW p \in Pruners, PruneNext(p)
       PROVE  Types'
  <2>1. Tail(todo[p]) \in Seq(Sessions) /\ Head(todo[p]) \in Sessions
    BY <1>18, HeadTailProperties DEF PruneNext
  <2> QED  BY <1>18, <1>0, <2>1 DEF PruneNext, Discard
<1>19. ASSUME GCLock
       PROVE  Types'
  BY <1>0, <1>19 DEF GCLock
<1>20. ASSUME GCUnlock
       PROVE  Types'
  BY <1>0, <1>20 DEF GCUnlock
<1>21. ASSUME CloseStore
       PROVE  Types'
  BY <1>0, <1>21 DEF CloseStore
<1>22. ASSUME NEW s \in Sessions, DeleteAllNext(s)
       PROVE  Types'
  BY <1>0, <1>22 DEF DeleteAllNext
<1>23. ASSUME DeleteAllDiscard
       PROVE  Types'
  BY <1>0, <1>23 DEF DeleteAllDiscard, Discard
<1>24. ASSUME DeleteAllDrop
       PROVE  Types'
  BY <1>0, <1>24 DEF DeleteAllDrop
<1>25. ASSUME DeleteAllDone
       PROVE  Types'
  BY <1>0, <1>25 DEF DeleteAllDone
<1>26. CASE UNCHANGED vars
  BY <1>0, <1>26 DEF vars
<1> QED
  BY <1>1, <1>2, <1>3, <1>4, <1>5, <1>6, <1>7, <1>8, <1>9, <1>10, <1>11, <1>12, <1>13, <1>14,
     <1>15, <1>16, <1>17, <1>18, <1>19, <1>20, <1>21, <1>22, <1>23, <1>24, <1>25, <1>26
  DEF Next

\* Whoever refers to a session after a step referred to it before, found it made, or made
\* it; and whoever is to drop one was to drop it before, or has discarded it.
References ==
  /\ \A g \in Handlers : pc'[g] \notin {"idle", "create"} =>
       cur'[g] \in Sessions /\ (file[cur'[g]] # "none" \/ file'[cur'[g]] # "none")
  /\ down' \in {"discard", "drop"} => gone' \in Sessions /\ file[gone'] # "none"
  /\ \A g \in Handlers : pc'[g] = "deleted" =>
       (pc[g] = "deleted" /\ cur'[g] = cur[g]) \/ file'[cur'[g]] # "temp"
  /\ down' = "drop" => (down = "drop" /\ gone' = gone) \/ file'[gone'] # "temp"

\* Every step leaves references so.
LEMMA ReferenceStep ==
  ASSUME IInv, [Next]_vars
  PROVE  References
<1> USE DEF Types, Labels, Pruners, locks, cache, files, ctl, Go, Leave, Enter
<1> USE DEF References
<1>0. /\ Types
      /\ \A s \in Sessions : InCache(s) => file[s] # "none"
      /\ \A h \in Handlers : pc[h] \notin {"idle", "create"} =>
           cur[h] \in Sessions /\ file[cur[h]] # "none"
      /\ down \in {"discard", "drop"} => gone \in Sessions /\ file[gone] # "none"
  BY DEF IInv, Made
<1>1. ASSUME NEW h \in Handlers, CreateLock(h)
      PROVE  References
  BY <1>0, <1>1 DEF CreateLock
<1>2. ASSUME NEW h \in Handlers, NEW s \in Sessions, CreateTemp(h, s)
      PROVE  References
  BY <1>0, <1>2 DEF CreateTemp
<1>3. ASSUME NEW h \in Handlers, Created(h)
      PROVE  References
  BY <1>0, <1>3 DEF Created
<1>4. ASSUME NEW h \in Handlers, NEW s \in Sessions, SessionLock(h, s)
      PROVE  References
  BY <1>0, <1>4 DEF SessionLock
<1>5. ASSUME NEW h \in Handlers, SessionGet(h)
      PROVE  References
  BY <1>0, <1>5 DEF SessionGet
<1>6. ASSUME NEW h \in Handlers, WriteLock(h)
      PROVE  References
  BY <1>0, <1>6 DEF WriteLock
<1>7. ASSUME NEW h \in Handlers, Write(h)
      PROVE  References
  BY <1>0, <1>7 DEF Write
<1>8. ASSUME NEW h \in Handlers, Return(h)
      PROVE  References
  BY <1>0, <1>8 DEF Return
<1>9. ASSUME NEW h \in Handlers, CloseFile(h)
      PROVE  References
  <2>1. /\ UNCHANGED <<down, gone>>
        /\ \A g \in Handlers \ {h} : pc'[g] = pc[g] /\ cur'[g] = cur[g]
        /\ pc[h] = "session" /\ pc'[h] \in {"idle", "rename"}
        /\ pc'[h] = "rename" => cur'[h] = cur[h]
    BY <1>0, <1>9 DEF CloseFile, Enter
  <2>2. \A s \in Sessions : file'[s] = "temp" => file[s] = "temp"
    BY <1>0, <1>9 DEF CloseFile
  <2>3. down = "drop" => file[gone] # "temp"
    BY DEF IInv, Discarded
  <2> QED  BY <1>0, <2>1, <2>2, <2>3
<1>10. ASSUME NEW h \in Handlers, Rename(h)
       PROVE  References
  BY <1>0, <1>10 DEF Rename
<1>11. ASSUME NEW h \in Handlers, CancelLock(h)
       PROVE  References
  BY <1>0, <1>11 DEF CancelLock
<1>12. ASSUME NEW h \in Handlers, Delete(h)
       PROVE  References
  <2>1. /\ UNCHANGED <<down, gone>>
        /\ \A g \in Handlers \ {h} : pc'[g] = pc[g] /\ cur'[g] = cur[g]
        /\ pc[h] = "delete" /\ pc'[h] \in {"idle", "deleted"}
    BY <1>0, <1>12 DEF Delete
  <2>2. cur[h] \in Sessions /\ file[cur[h]] # "none" /\ file \in [Sessions -> {"none", "temp", "blob", "gone"}]
    BY <1>0, <2>1
  <2>3. pc'[h] = "deleted" => Discard(cur[h]) /\ UNCHANGED cur
    BY <1>0, <1>12 DEF Delete
  <2>4. pc'[h] = "deleted" => file'[cur[h]] # "temp"
    BY <2>2, <2>3 DEF Discard
  <2>5. \A g \in Handlers : pc'[g] \notin {"idle", "create"} =>
          cur'[g] \in Sessions /\ file[cur'[g]] # "none"
    BY <1>0, <2>1, <2>2, <2>3
  <2>6. \A g \in Handlers : pc'[g] = "deleted" =>
          (pc[g] = "deleted" /\ cur'[g] = cur[g]) \/ file'[cur'[g]] # "temp"
    BY <2>1, <2>3, <2>4
  <2> QED  BY <1>0, <2>1, <2>5, <2>6
<1>13. ASSUME NEW h \in Handlers, Deleted(h)
       PROVE  References
  BY <1>0, <1>13 DEF Deleted
<1>14. ASSUME Touch
       PROVE  References
  BY <1>0, <1>14 DEF Touch
<1>15. ASSUME Expire
       PROVE  References
  BY <1>0, <1>15 DEF Expire
<1>16. ASSUME PruneAge
       PROVE  References
  BY <1>0, <1>16 DEF PruneAge
<1>17. ASSUME PruneCount
       PROVE  References
  BY <1>0, <1>17 DEF PruneCount
<1>18. ASSUME NEW p \in Pruners, PruneNext(p)
       PROVE  References
  BY <1>0, <1>18 DEF PruneNext, Discard
<1>19. ASSUME GCLock
       PROVE  References
  BY <1>0, <1>19 DEF GCLock
<1>20. ASSUME GCUnlock
       PROVE  References
  BY <1>0, <1>20 DEF GCUnlock
<1>21. ASSUME CloseStore
       PROVE  References
  BY <1>0, <1>21 DEF CloseStore
<1>22. ASSUME NEW s \in Sessions, DeleteAllNext(s)
       PROVE  References
  BY <1>0, <1>22 DEF DeleteAllNext
<1>23. ASSUME DeleteAllDiscard
       PROVE  References
  BY <1>0, <1>23 DEF DeleteAllDiscard, Discard
<1>24. ASSUME DeleteAllDrop
       PROVE  References
  BY <1>0, <1>24 DEF DeleteAllDrop
<1>25. ASSUME DeleteAllDone
       PROVE  References
  BY <1>0, <1>25 DEF DeleteAllDone
<1>26. CASE UNCHANGED vars
  BY <1>0, <1>26 DEF vars
<1> QED
  BY <1>1, <1>2, <1>3, <1>4, <1>5, <1>6, <1>7, <1>8, <1>9, <1>10, <1>11, <1>12, <1>13, <1>14,
     <1>15, <1>16, <1>17, <1>18, <1>19, <1>20, <1>21, <1>22, <1>23, <1>24, <1>25, <1>26
  DEF Next

\* Sessions that are referred to have been made; who drops one has discarded it.
LEMMA MadeStep ==
  ASSUME IInv, [Next]_vars
  PROVE  Made' /\ Discarded'
<1>1. FileMoves /\ CacheMoves /\ References /\ Made /\ Discarded /\ Types
  BY FileStep, CacheStep, ReferenceStep DEF IInv
<1>2. ASSUME NEW s \in Sessions, file[s] # "none"
      PROVE  file'[s] # "none"
  BY <1>1, <1>2 DEF FileMoves
<1>3. ASSUME NEW s \in Sessions, file[s] \notin {"none", "temp"}
      PROVE  file'[s] # "temp"
  BY <1>1, <1>3 DEF FileMoves, Types
<1>4. ASSUME NEW s \in Sessions, InCache(s)'
      PROVE  file'[s] # "none"
  BY <1>1, <1>2, <1>4 DEF CacheMoves, Made
<1>5. Made'
  <2>1. \A h \in Handlers : pc'[h] \notin {"idle", "create"} =>
          cur'[h] \in Sessions /\ file'[cur'[h]] # "none"
    BY <1>1, <1>2 DEF References
  <2>2. down' \in {"discard", "drop"} => gone' \in Sessions /\ file'[gone'] # "none"
    BY <1>1, <1>2 DEF References
  <2> QED  BY <1>4, <2>1, <2>2 DEF Made
<1>6. Discarded'
  <2>1. \A h \in Handlers : pc[h] = "deleted" => cur[h] \in Sessions /\ file'[cur[h]] # "temp"
    BY <1>1, <1>3 DEF Made, Discarded
  <2>2. down = "drop" => gone \in Sessions /\ file'[gone] # "temp"
    BY <1>1, <1>3 DEF Made, Discarded
  <2> QED  BY <1>1, <2>1, <2>2 DEF References, Discarded
<1> QED  BY <1>5, <1>6

\* Every step keeps the mutexes with those who are in the middle of something.
LEMMA LockedStep ==
  ASSUME IInv, [Next]_vars
  PROVE  Locked' /\ PrunerLocks'
<1> USE DEF IInv, Types, Labels, Pruners, locks, cache, files, ctl, Go, Leave, Enter
<1> USE ThreadsDiffer DEF Locked, PrunerLocks, Threads
<1>1. ASSUME NEW h \in Handlers, CreateLock(h)
      PROVE  Locked' /\ PrunerLocks'
  BY <1>1 DEF CreateLock
<1>2. ASSUME NEW h \in Handlers, NEW s \in Sessions, CreateTemp(h, s)
      PROVE  Locked' /\ PrunerLocks'
  BY <1>2 DEF CreateTemp
<1>3. ASSUME NEW h \in Handlers, Created(h)
      PROVE  Locked' /\ PrunerLocks'
  BY <1>3 DEF Created
<1>4. ASSUME NEW h \in Handlers, NEW s \in Sessions, SessionLock(h, s)
      PROVE  Locked' /\ PrunerLocks'
  BY <1>4 DEF SessionLock
<1>5. ASSUME NEW h \in Handlers, SessionGet(h)
      PROVE  Locked' /\ PrunerLocks'
  BY <1>5 DEF SessionGet
<1>6. ASSUME NEW h \in Handlers, WriteLock(h)
      PROVE  Locked' /\ PrunerLocks'
  BY <1>6 DEF WriteLock
<1>7. ASSUME NEW h \in Handlers, Write(h)
      PROVE  Locked' /\ PrunerLocks'
  BY <1>7 DEF Write
<1>8. ASSUME NEW h \in Handlers, Return(h)
      PROVE  Locked' /\ PrunerLocks'
  BY <1>8 DEF Return
<1>9. ASSUME NEW h \in Handlers, CloseFile(h)
      PROVE  Locked' /\ PrunerLocks'
  BY <1>9 DEF CloseFile
<1>10. ASSUME NEW h \in Handlers, Rename(h)
       PROVE  Locked' /\ PrunerLocks'
  BY <1>10 DEF Rename
<1>11. ASSUME NEW h \in Handlers, CancelLock(h)
       PROVE  Locked' /\ PrunerLocks'
  BY <1>11 DEF CancelLock
<1>12. ASSUME NEW h \in Handlers, Delete(h)
       PROVE  Locked' /\ PrunerLocks'
  BY <1>12 DEF Delete, Discard
<1>13. ASSUME NEW h \in Handlers, Deleted(h)
       PROVE  Locked' /\ PrunerLocks'
  BY <1>13 DEF Deleted
<1>14. ASSUME Touch
       PROVE  Locked' /\ PrunerLocks'
  BY <1>14 DEF Touch
<1>15. ASSUME Expire
       PROVE  Locked' /\ PrunerLocks'
  BY <1>15 DEF Expire
<1>16. ASSUME PruneAge
       PROVE  Locked' /\ PrunerLocks'
  <2> DEFINE S == {entries[i] : i \in 1..expired}
  <2>1. PICK order \in SetToSeqs(S) : todo' = [todo EXCEPT !["age"] = order]
    BY <1>16 DEF PruneAge
  <2>2. order # <<>>
    <3>1. entries[1] \in S /\ IsFiniteSet(S)
      <4>1. 1 \in 1..expired
        BY <1>16 DEF PruneAge
      <4>2. IsFiniteSet(1..expired)
        BY FS_Interval
      <4>3. [i \in 1..expired |-> entries[i]] \in Surjection(1..expired, S)
        BY DEF Surjection
      <4> QED  BY <4>1, <4>2, <4>3, FS_Surjection
    <3>2. Cardinality(S) \in Nat \ {0}
      BY <3>1, FS_CardinalityType, FS_EmptySet
    <3>3. DOMAIN order = 1..Cardinality(S)
      BY <2>1 DEF SetToSeqs
    <3> QED  BY <3>2, <3>3
  <2> HIDE DEF S
  <2> QED  BY <1>16, <2>1, <2>2 DEF PruneAge
<1>17. ASSUME PruneCount
       PROVE  Locked' /\ PrunerLocks'
  <2>1. MinCount \in Int /\ Len(entries) \in Nat
    BY MaxType, LenProperties DEF MinCount
  <2>2. CASE MinCount <= 0 \/ Len(entries) <= MinCount
    BY <1>17, <2>2 DEF PruneCount
  <2>3. CASE MinCount > 0 /\ Len(entries) > MinCount
    <3> DEFINE old == SubSeq(entries, 1, Len(entries) - MinCount)
    <3>1. \A i \in 1..(Len(entries) - MinCount) : entries[i] \in Sessions
      BY <2>1, <2>3, ElementOfSeq
    <3>2. old \in Seq(Sessions) /\ Len(old) = Len(entries) - MinCount
      BY <2>1, <2>3, <3>1, SubSeqProperties
    <3>3. old # <<>>
      <4>1. Len(old) # 0
        BY <2>1, <2>3, <3>2
      <4> HIDE DEF old, IInv
      <4> QED  BY <3>2, <4>1, EmptySeq
    <3>4. todo' = [todo EXCEPT !["count"] = old] /\ cacheMu' = "count" /\ cacheMu = None
      BY <1>17, <2>1, <2>3 DEF PruneCount
    <3> HIDE DEF old
    <3> QED  BY <1>17, <3>3, <3>4 DEF PruneCount
  <2> QED  BY <2>1, <2>2, <2>3
<1>18. ASSUME NEW p \in Pruners, PruneNext(p)
       PROVE  Locked' /\ PrunerLocks'
  <2>1. Tail(todo[p]) # <<>> <=> Len(todo[p]) # 1
    <3>1. todo[p] \in Seq(Sessions) /\ todo[p] # <<>>
      BY <1>18 DEF PruneNext
    <3>2. Tail(todo[p]) \in Seq(Sessions) /\ Len(Tail(todo[p])) = Len(todo[p]) - 1
      BY <3>1, HeadTailProperties
    <3> HIDE DEF IInv
    <3>3. Len(todo[p]) \in Nat
      BY <3>1, LenProperties
    <3>4. Tail(todo[p]) = <<>> <=> Len(Tail(todo[p])) = 0
      BY <3>2, EmptySeq
    <3> QED  BY <3>2, <3>3, <3>4
  <2>2. /\ todo' = [todo EXCEPT ![p] = Tail(@)] /\ todo[p] # <<>>
        /\ cacheMu' = IF Len(todo[p]) = 1 THEN None ELSE cacheMu
    BY <1>18 DEF PruneNext
  <2>3. PrunerLocks'
    BY <2>1, <2>2
  <2>4. Locked'
    BY <1>18 DEF PruneNext
  <2> QED  BY <2>3, <2>4
<1>19. ASSUME GCLock
       PROVE  Locked' /\ PrunerLocks'
  BY <1>19 DEF GCLock
<1>20. ASSUME GCUnlock
       PROVE  Locked' /\ PrunerLocks'
  BY <1>20 DEF GCUnlock
<1>21. ASSUME CloseStore
       PROVE  Locked' /\ PrunerLocks'
  BY <1>21 DEF CloseStore
<1>22. ASSUME NEW s \in Sessions, DeleteAllNext(s)
       PROVE  Locked' /\ PrunerLocks'
  BY <1>22 DEF DeleteAllNext
<1>23. ASSUME DeleteAllDiscard
       PROVE  Locked' /\ PrunerLocks'
  BY <1>23 DEF DeleteAllDiscard
<1>24. ASSUME DeleteAllDrop
       PROVE  Locked' /\ PrunerLocks'
  BY <1>24 DEF DeleteAllDrop
<1>25. ASSUME DeleteAllDone
       PROVE  Locked' /\ PrunerLocks'
  BY <1>25 DEF DeleteAllDone
<1>26. CASE UNCHANGED vars
  BY <1>26 DEF vars
<1> QED
  BY <1>1, <1>2, <1>3, <1>4, <1>5, <1>6, <1>7, <1>8, <1>9, <1>10, <1>11, <1>12, <1>13, <1>14,
     <1>15, <1>16, <1>17, <1>18, <1>19, <1>20, <1>21, <1>22, <1>23, <1>24, <1>25, <1>26
  DEF Next


\* A request that makes a session has made it before this step, or makes one that nobody
\* had yet.
LEMMA NewSession ==
  ASSUME IInv, [Next]_vars
  PROVE  \A h \in Handlers : pc'[h] = "set" =>
           IF pc[h] = "set" THEN cur'[h] = cur[h]
           ELSE cur'[h] \in Sessions /\ file[cur'[h]] = "none"
<1> USE DEF IInv, Types, Labels, Pruners, locks, cache, files, ctl, Go, Leave, Enter
<1> DEFINE Goal == \A h \in Handlers : pc'[h] = "set" =>
                     IF pc[h] = "set" THEN cur'[h] = cur[h]
                     ELSE cur'[h] \in Sessions /\ file[cur'[h]] = "none"
<1>1. ASSUME NEW h \in Handlers, CreateLock(h)
      PROVE  Goal
  BY <1>1 DEF CreateLock
<1>2. ASSUME NEW h \in Handlers, NEW s \in Sessions, CreateTemp(h, s)
      PROVE  Goal
  BY <1>2 DEF CreateTemp
<1>3. ASSUME NEW h \in Handlers, Created(h)
      PROVE  Goal
  BY <1>3 DEF Created
<1>4. ASSUME NEW h \in Handlers, NEW s \in Sessions, SessionLock(h, s)
      PROVE  Goal
  BY <1>4 DEF SessionLock
<1>5. ASSUME NEW h \in Handlers, SessionGet(h)
      PROVE  Goal
  BY <1>5 DEF SessionGet
<1>6. ASSUME NEW h \in Handlers, WriteLock(h)
      PROVE  Goal
  BY <1>6 DEF WriteLock
<1>7. ASSUME NEW h \in Handlers, Write(h)
      PROVE  Goal
  BY <1>7 DEF Write
<1>8. ASSUME NEW h \in Handlers, Return(h)
      PROVE  Goal
  BY <1>8 DEF Return
<1>9. ASSUME NEW h \in Handlers, CloseFile(h)
      PROVE  Goal
  BY <1>9 DEF CloseFile
<1>10. ASSUME NEW h \in Handlers, Rename(h)
       PROVE  Goal
  BY <1>10 DEF Rename
<1>11. ASSUME NEW h \in Handlers, CancelLock(h)
       PROVE  Goal
  BY <1>11 DEF CancelLock
<1>12. ASSUME NEW h \in Handlers, Delete(h)
       PROVE  Goal
  BY <1>12 DEF Delete
<1>13. ASSUME NEW h \in Handlers, Deleted(h)
       PROVE  Goal
  BY <1>13 DEF Deleted
<1>14. ASSUME Touch
       PROVE  Goal
  BY <1>14 DEF Touch
<1>15. ASSUME Expire
       PROVE  Goal
  BY <1>15 DEF Expire
<1>16. ASSUME PruneAge
       PROVE  Goal
  BY <1>16 DEF PruneAge
<1>17. ASSUME PruneCount
       PROVE  Goal
  BY <1>17 DEF PruneCount
<1>18. ASSUME NEW p \in Pruners, PruneNext(p)
       PROVE  Goal
  BY <1>18 DEF PruneNext
<1>19. ASSUME GCLock
       PROVE  Goal
  BY <1>19 DEF GCLock
<1>20. ASSUME GCUnlock
       PROVE  Goal
  BY <1>20 DEF GCUnlock
<1>21. ASSUME CloseStore
       PROVE  Goal
  BY <1>21 DEF CloseStore
<1>22. ASSUME NEW s \in Sessions, DeleteAllNext(s)
       PROVE  Goal
  BY <1>22 DEF DeleteAllNext
<1>23. ASSUME DeleteAllDiscard
       PROVE  Goal
  BY <1>23 DEF DeleteAllDiscard
<1>24. ASSUME DeleteAllDrop
       PROVE  Goal
  BY <1>24 DEF DeleteAllDrop
<1>25. ASSUME DeleteAllDone
       PROVE  Goal
  BY <1>25 DEF DeleteAllDone
<1>26. CASE UNCHANGED vars
  BY <1>26 DEF vars
<1> QED
  BY <1>1, <1>2, <1>3, <1>4, <1>5, <1>6, <1>7, <1>8, <1>9, <1>10, <1>11, <1>12, <1>13, <1>14,
     <1>15, <1>16, <1>17, <1>18, <1>19, <1>20, <1>21, <1>22, <1>23, <1>24, <1>25, <1>26
  DEF Next

\* Every step keeps a session that is being made out of the cache.
LEMMA BeingMadeStep ==
  ASSUME IInv, [Next]_vars
  PROVE  BeingMade'
<1>1. CacheMoves /\ Made /\ Locked /\ BeingMade
  BY CacheStep DEF IInv
<1> SUFFICES ASSUME NEW h \in Handlers, pc'[h] = "set", NEW s, s = cur'[h], InCache(s)'
             PROVE  FALSE
  BY DEF BeingMade, InCache
<1>2. CASE pc[h] = "set" /\ s = cur[h]
  BY <1>1, <1>2 DEF CacheMoves, Made, Locked, BeingMade
<1>3. CASE s \in Sessions /\ file[s] = "none"
  BY <1>1, <1>3 DEF CacheMoves, Made
<1> QED  BY <1>2, <1>3, NewSession

\* Every step keeps temp files with sessions that the cache will end.
LEMMA OrphanStep ==
  ASSUME IInv, [Next]_vars
  PROVE  NoOrphanFile'
<1>1. FileMoves /\ CacheMoves /\ NoOrphanFile
  BY FileStep, CacheStep DEF IInv
<1> SUFFICES ASSUME NEW s \in Sessions, file'[s] = "temp"
             PROVE  InCache(s)' \/ \E h \in Handlers : pc'[h] = "set" /\ cur'[h] = s
  BY DEF NoOrphanFile, InCache
<1>2. CASE file[s] # "temp"
  BY <1>1, <1>2 DEF FileMoves
<1>3. CASE InCache(s)
  BY <1>1, <1>3 DEF CacheMoves
<1>4. ASSUME NEW h \in Handlers, pc[h] = "set", cur[h] = s, ~InCache(s)'
      PROVE  pc'[h] = "set" /\ cur'[h] = s
  <2>1. pc'[h] = "set"
    BY <1>1, <1>4 DEF CacheMoves
  <2> QED  BY <1>4, <2>1, NewSession
<1> QED  BY <1>1, <1>2, <1>3, <1>4 DEF NoOrphanFile

\* 90 % of a limit of two or more is at least one, and no more than the limit.
LEMMA MinCountFits ==
  /\ MinCount \in Int
  /\ UploadMax > 1 => 0 < MinCount /\ MinCount <= UploadMax
BY MaxType DEF MinCount

\* A step of pruneCount takes the entry at the front.
LEMMA FrontDropped ==
  ASSUME Types, NoTwice, Counting, PruneNext("count")
  PROVE  /\ Counting'
         /\ Len(entries') = MinCount + Len(todo'["count"])
         /\ todo'["count"] \in Seq(Sessions)
<1> DEFINE list == todo["count"]
           n == Len(entries)
<1>1. /\ list \in Seq(Sessions) /\ list # <<>> /\ entries \in Seq(Sessions)
      /\ Drop(Head(list)) /\ todo' = [todo EXCEPT !["count"] = Tail(list)]
  BY DEF Types, Pruners, PruneNext
<1>2. n = MinCount + Len(list) /\ 0 < MinCount /\ \A i \in 1..Len(list) : list[i] = entries[i]
  BY <1>1 DEF Counting
<1>3. /\ Len(list) \in Nat \ {0} /\ n \in Nat
  BY <1>1, EmptySeq, LenProperties
<1>4. /\ Head(list) = list[1]
      /\ Tail(list) \in Seq(Sessions) /\ Len(Tail(list)) = Len(list) - 1
      /\ \A i \in 1..(Len(list) - 1) : Tail(list)[i] = list[i + 1]
  <2>1. /\ Head(list) \in Sessions /\ Tail(list) \in Seq(Sessions)
        /\ Len(Tail(list)) = Len(list) - 1
        /\ \A i \in 1..Len(Tail(list)) : Tail(list)[i] = list[i + 1]
    BY <1>1, HeadTailProperties
  <2>2. Head(list) = list[1]
    OBVIOUS
  <2> QED  BY <1>3, <2>1, <2>2
<1> HIDE DEF list, n
<1>5. MinCount \in Int
  BY MinCountFits
<1>6. 1 \in 1..n /\ 1 \in 1..Len(list) /\ entries[1] = Head(list)
  BY <1>2, <1>3, <1>4, <1>5
<1>7. InCache(Head(list))
  BY <1>1, <1>6, LenProperties DEF InCache, ToSet, n
<1>8. Position(Head(list)) = 1
  BY <1>1, <1>6, <1>7, PositionOf DEF NoTwice, n
<1>9. /\ Len(entries') = n - 1
      /\ \A i \in 1..(n - 1) : entries'[i] = entries[i + 1]
  <2>1. entries' = Without(Head(list))
    BY <1>1 DEF Drop
  <2>2. /\ Len(entries') = n - 1
        /\ \A i \in 1..(n - 1) : entries'[i] = entries[IF i < 1 THEN i ELSE i + 1]
    BY <1>1, <1>7, <1>8, <2>1, WithoutIs DEF n
  <2> QED  BY <1>3, <2>2
<1>10. todo'["count"] = Tail(list)
  BY <1>1 DEF Types, Pruners
<1>11. \A i \in 1..(Len(list) - 1) : Tail(list)[i] = entries'[i]
  <2> SUFFICES ASSUME NEW i \in 1..(Len(list) - 1)
               PROVE  Tail(list)[i] = entries'[i]
    OBVIOUS
  <2>1. i + 1 \in 1..Len(list) /\ i \in 1..(n - 1)
    BY <1>2, <1>3, <1>5
  <2> QED  BY <1>2, <1>4, <1>9, <2>1
<1>12. Len(entries') = MinCount + Len(Tail(list))
  BY <1>2, <1>3, <1>4, <1>5, <1>9
<1>13. Counting'
  <2>1. MinCount' = MinCount
    BY DEF MinCount
  <2> QED  BY <1>2, <1>4, <1>10, <1>11, <1>12, <2>1 DEF Counting
<1> QED  BY <1>4, <1>10, <1>12, <1>13

\* Every step keeps what pruneCount is to delete at the front, and a pruneCount under way
\* while there are too many.
LEMMA BoundStep ==
  ASSUME IInv, [Next]_vars
  PROVE  Counting' /\ Bounded'
<1>1. /\ Types /\ NoTwice /\ Counting /\ Bounded /\ PrunerLocks
      /\ entries \in Seq(Sessions) /\ Len(entries) \in Nat /\ spawned \in Nat
      /\ UploadMax \in Int /\ MinCount \in Int /\ MinCount' = MinCount
      /\ DOMAIN todo = Pruners
  <2>1. entries \in Seq(Sessions)
    BY DEF IInv, Types
  <2> QED  BY <2>1, MaxType, MinCountFits, LenProperties DEF IInv, Types, MinCount
\* The cache is not pruned by pruneCount, and has not grown.
<1>2. ASSUME todo["count"] = <<>>, todo'["count"] = <<>>, spawned' = spawned,
             Len(entries') \in Nat, Len(entries') <= Len(entries)
      PROVE  Counting' /\ Bounded'
  BY <1>1, <1>2 DEF Counting, Bounded, UploadsBounded
<1>3. ASSUME UNCHANGED <<entries, spawned>>, todo'["count"] = todo["count"]
      PROVE  Counting' /\ Bounded'
  BY <1>1, <1>3 DEF Counting, Bounded, UploadsBounded
<1>4. cacheMu = None => todo["count"] = <<>>
  BY <1>1, ThreadsDiffer DEF PrunerLocks, Pruners, Threads
<1>5. ASSUME NEW h \in Handlers, Created(h)
      PROVE  Counting' /\ Bounded'
  <2>1. Len(entries') = Len(entries) + 1
    BY <1>1, <1>5, AppendProperties DEF Created, IInv, Made
  <2>2. /\ spawned' = IF TooMany THEN spawned + 1 ELSE spawned
        /\ todo' = todo /\ todo["count"] = <<>>
    BY <1>4, <1>5 DEF Created
  <2> QED  BY <1>1, <2>1, <2>2 DEF Counting, Bounded, UploadsBounded, TooMany
<1>6. ASSUME NEW h \in Handlers, SessionGet(h) \/ Write(h)
      PROVE  Counting' /\ Bounded'
  <2>1. Len(entries') = Len(entries)
    BY <1>1, <1>6, Kept DEF SessionGet, Write, IInv, Made
  <2>2. spawned' = spawned /\ todo' = todo /\ todo["count"] = <<>>
    BY <1>4, <1>6 DEF SessionGet, Write
  <2> QED  BY <1>1, <1>2, <2>1, <2>2
<1>7. ASSUME (\E h \in Handlers : Deleted(h)) \/ DeleteAllDrop
      PROVE  Counting' /\ Bounded'
  <2>1. Len(entries') \in Nat /\ Len(entries') <= Len(entries)
    BY <1>1, <1>7, Dropped, LenProperties DEF Deleted, DeleteAllDrop
  <2>2. spawned' = spawned /\ todo' = todo /\ todo["count"] = <<>>
    BY <1>4, <1>7 DEF Deleted, DeleteAllDrop
  <2> QED  BY <1>2, <2>1, <2>2
<1>8. CASE PruneAge
  BY <1>1, <1>3, <1>8 DEF PruneAge, Pruners
<1>9. CASE PruneCount
  <2>1. CASE MinCount <= 0 \/ Len(entries) <= MinCount
    <3>1. UNCHANGED <<entries, todo>> /\ todo["count"] = <<>>
      BY <1>4, <1>9, <2>1 DEF PruneCount
    <3>2. UploadMax > 1 => Len(entries) <= UploadMax
      BY <1>1, <2>1, MinCountFits
    <3> QED  BY <1>1, <3>1, <3>2 DEF Counting, Bounded, UploadsBounded
  <2>2. CASE MinCount > 0 /\ Len(entries) > MinCount
    <3> DEFINE old == SubSeq(entries, 1, Len(entries) - MinCount)
    <3>1. entries' = entries /\ todo' = [todo EXCEPT !["count"] = old]
      BY <1>1, <1>9, <2>2 DEF PruneCount
    <3>2. /\ old \in Seq(Sessions) /\ Len(old) = Len(entries) - MinCount
          /\ \A i \in 1..(Len(entries) - MinCount) : old[i] = entries[i]
      <4>1. \A i \in 1..(Len(entries) - MinCount) : entries[i] \in Sessions
        BY <1>1, <2>2, ElementOfSeq
      <4> QED  BY <1>1, <2>2, <4>1, SubSeqProperties
    <3> HIDE DEF old
    <3>3. old # <<>>
      <4>1. Len(old) # 0
        BY <1>1, <2>2, <3>2
      <4> QED  BY <3>2, <4>1, EmptySeq
    <3>4. todo'["count"] = old
      BY <1>1, <3>1 DEF Pruners
    <3> QED  BY <1>1, <2>2, <3>1, <3>2, <3>3, <3>4 DEF Counting, Bounded, UploadsBounded
  <2> QED  BY <1>1, <2>1, <2>2
<1>10. CASE PruneNext("age")
  <2>1. Len(entries') \in Nat /\ Len(entries') <= Len(entries)
    BY <1>1, <1>10, Dropped, LenProperties DEF PruneNext
  <2>2. cacheMu = "age"
    BY <1>1, <1>10 DEF PrunerLocks, Pruners, PruneNext
  <2>3. todo["count"] = <<>> /\ todo'["count"] = todo["count"] /\ spawned' = spawned
    BY <1>1, <1>10, <2>2 DEF PrunerLocks, Pruners, PruneNext
  <2> QED  BY <1>2, <2>1, <2>3
<1>11. CASE PruneNext("count")
  <2>1. /\ Counting' /\ todo'["count"] \in Seq(Sessions)
        /\ Len(entries') = MinCount + Len(todo'["count"])
    BY <1>1, <1>11, FrontDropped
  <2>2. 0 < MinCount
    BY <1>1, <1>11 DEF PruneNext, Counting
  <2>3. todo'["count"] = <<>> => Len(entries') = MinCount
    BY <1>1, <2>1, EmptySeq
  <2> QED  BY <1>1, <2>1, <2>3, MinCountFits DEF Bounded, UploadsBounded
<1>12. CASE \E h \in Handlers :
              \/ CreateLock(h) \/ WriteLock(h) \/ Return(h) \/ CloseFile(h) \/ Rename(h)
              \/ CancelLock(h) \/ Delete(h)
              \/ \E s \in Sessions : CreateTemp(h, s) \/ SessionLock(h, s)
  BY <1>3, <1>12
  DEF CreateLock, WriteLock, Return, CloseFile, Rename, CancelLock, Delete, CreateTemp,
      SessionLock, cache
<1>13. CASE \/ Touch \/ Expire \/ GCLock \/ GCUnlock \/ CloseStore \/ DeleteAllDiscard
            \/ DeleteAllDone \/ (\E s \in Sessions : DeleteAllNext(s)) \/ UNCHANGED vars
  BY <1>3, <1>13
  DEF Touch, Expire, GCLock, GCUnlock, CloseStore, DeleteAllDiscard, DeleteAllDone,
      DeleteAllNext, cache, vars
<1> QED
  BY <1>5, <1>6, <1>7, <1>8, <1>9, <1>10, <1>11, <1>12, <1>13 DEF Next, Pruners

-----------------------------------------------------------------------------
(* The theorems *)

\* The repository begins without sessions.
LEMMA InitInvariant ==
  ASSUME Init
  PROVE  IInv
<1> USE DEF Init
<1>1. entries \in Seq(Sessions) /\ Len(entries) = 0
  BY EmptySeq
<1>2. Types
  BY <1>1, EmptySeq DEF Types, Labels
<1>3. NoTwice /\ \A s : ~InCache(s)
  BY <1>1 DEF NoTwice, InCache, ToSet
<1>4. Made /\ Locked /\ BeingMade /\ Discarded /\ NoOrphanFile
  BY <1>3 DEF Made, Locked, BeingMade, Discarded, NoOrphanFile
<1>5. PrunerLocks /\ Counting
  BY ThreadsDiffer DEF PrunerLocks, Counting, Pruners, Threads
<1>6. Bounded
  BY <1>1, MaxType DEF Bounded, UploadsBounded
<1> QED  BY <1>2, <1>3, <1>4, <1>5, <1>6 DEF IInv

\* IInv holds in every state, for any numbers of requests and sessions and any limit.
THEOREM Invariance == Spec => []IInv
<1>1. IInv /\ [Next]_vars => IInv'
  BY TypesStep, CacheStep, MadeStep, LockedStep, BeingMadeStep, OrphanStep, BoundStep
  DEF IInv, CacheMoves
<1> QED  BY <1>1, InitInvariant, PTL DEF Spec

\* Whoever ends a session, and however many try at a time, no temp file is left that the
\* cache will not remove.
THEOREM NoFileOrphaned == Spec => []NoOrphanFile
BY Invariance, PTL DEF IInv

\* What became of a session's file, a blob or nothing, is final.
THEOREM FilesFinal == Spec => FileFinal
<1>1. IInv /\ [Next]_vars
        => [\A s \in Sessions : file[s] \in {"blob", "gone"} => file'[s] = file[s]]_vars
  BY FileStep DEF FileMoves
<1> QED  BY <1>1, Invariance, PTL DEF Spec, FileFinal

\* While a repository has more uploads than its limit, a pruneCount is under way: for every
\* limit but one, of which pruneCount takes 90 % for none.
THEOREM LimitHolds ==
  ASSUME UploadMax # 1
  PROVE  Spec => []UploadsBounded
BY Invariance, PTL DEF IInv, Bounded
=============================================================================
