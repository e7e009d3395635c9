------------------------------- MODULE Uploads ------------------------------
(***************************************************************************)
(* The upload sessions of one repository of the directory store:           *)
(* dirRepoUpload and the calls of dirRepo that reach it in                 *)
(* internal/store/dir.go, and the cache that holds the sessions,           *)
(* internal/cache/cache.go.                                                *)
(*                                                                         *)
(* A request has left the repository (repo.Done) when it uses its session, *)
(* so sessions are used while the cache prunes them, while the collector   *)
(* runs and while the store closes. Three mutexes order this, and a step   *)
(* runs from one blocking Lock to the next:                                *)
(*   drMu      dirRepo.mu                                                  *)
(*   cacheMu   Cache.mu of dirRepo.uploads                                 *)
(*   upMu[s]   dirRepoUpload.mu                                            *)
(***************************************************************************)
EXTENDS Integers, Sequences, FiniteSets, SequencesExt

CONSTANTS
  Handlers, Sessions, None,
  UploadMax,      \* ConfigGC.RepoUploadMax, none if not positive
  Expiry          \* GracePeriod is positive, so sessions expire

ASSUME MaxType == UploadMax \in Int /\ Expiry \in BOOLEAN

Pruners == {"age", "count"}    \* the timer's pruneAge and the last pruneCount
Threads == Handlers \union Pruners \union {"gc"}
ASSUME ThreadsDiffer == None \notin Threads /\ Handlers \cap {"age", "count", "gc"} = {}

VARIABLES
  drMu, cacheMu, upMu,   \* who holds each mutex
  entries,    \* Cache.entries, the one used longest ago first
  expired,    \* how many of them, from the front, are over the age limit
  spawned,    \* pruneCount goroutines that have not got the mutex yet
  touches,    \* goroutines that will set dirRepo.timeMod (dirRepoUpload.delete)
  todo,       \* what each pruner has still to delete
  open,       \* sessions whose file handle is open
  file,       \* what became of each session's temp file
  pc, cur,    \* each handler's next step, and its session
  gc,         \* the collector's
  down, gone  \* the store's Close: its next step, and the session it deletes

locks == <<drMu, cacheMu, upMu>>
cache == <<entries, expired, spawned, todo>>
files == <<open, file, touches>>
ctl   == <<pc, cur>>
vars  == <<drMu, cacheMu, upMu, entries, expired, spawned, todo, open, file,
           touches, pc, cur, gc, down, gone>>

Init ==
  /\ drMu = None /\ cacheMu = None /\ upMu = [s \in Sessions |-> None]
  /\ entries = <<>> /\ expired = 0 /\ spawned = 0
  /\ todo = [p \in Pruners |-> <<>>]
  /\ open = {} /\ file = [s \in Sessions |-> "none"] /\ touches = 0
  /\ pc = [h \in Handlers |-> "idle"] /\ cur = [h \in Handlers |-> None]
  /\ gc = "idle" /\ down = "up" /\ gone = None

-----------------------------------------------------------------------------
(* The cache; the caller holds cacheMu *)

InCache(s) == s \in ToSet(entries)

\* What is left of the entries, and of those over the age limit, without s.
Position(s) == CHOOSE i \in 1..Len(entries) : entries[i] = s
Without(s)  == IF InCache(s) THEN RemoveAt(entries, Position(s)) ELSE entries
Aged(s)     == IF InCache(s) /\ Position(s) <= expired THEN expired - 1 ELSE expired

\* Get of an entry that is there: it is now the one used last.
Used(s) == entries' = Append(Without(s), s) /\ expired' = Aged(s)

\* delete(c.entries, s)
Drop(s) == entries' = Without(s) /\ expired' = Aged(s)

MinCount == (UploadMax * 9) \div 10    \* int(float64(opt.Count) * 0.9)

\* Mutant: nothing prunes a cache that is too long.
NoCount == FALSE
\* Set of a new entry made the cache too long.
TooMany == UploadMax > 0 /\ Len(entries) + 1 > UploadMax

-----------------------------------------------------------------------------
(* dirRepoUpload.delete, the cache's PruneFn *)

\* Mutant: the temp file stays.
KeepFile(s) == open' = open \ {s} /\ touches' = touches + 1 /\ UNCHANGED file
\* Mutant: the file is removed wherever it is now.
RemoveBlob(s) ==
  /\ open' = open \ {s} /\ touches' = touches + 1
  /\ file' = [file EXCEPT ![s] = "gone"]
\* The file is closed and its name removed: not there any more if it is a blob.
\* dirRepo.timeMod is left to a goroutine.
Discard(s) ==
  /\ open' = open \ {s}
  /\ file' = [file EXCEPT ![s] = IF @ = "temp" THEN "gone" ELSE @]
  /\ touches' = touches + 1

Touch ==
  /\ touches > 0 /\ drMu = None
  /\ touches' = touches - 1
  /\ UNCHANGED <<locks, cache, open, file, ctl, gc, down, gone>>

-----------------------------------------------------------------------------
(* BlobCreate and BlobSession *)

Go(h, label) == pc' = [pc EXCEPT ![h] = label]
Leave(h)     == Go(h, "idle") /\ cur' = [cur EXCEPT ![h] = None]

\* New requests come while the store is up: Close waits for those that have the
\* repository open, which are the ones between here and Created.
CreateLock(h) ==
  /\ pc[h] = "idle" /\ down = "up"
  /\ drMu = None /\ drMu' = h
  /\ Go(h, "create")
  /\ UNCHANGED <<cacheMu, upMu, cache, files, cur, gc, down, gone>>

\* A session id that the cache does not have, and the temp file.
CreateTemp(h, s) ==
  /\ pc[h] = "create" /\ cacheMu = None
  /\ file[s] = "none"
  /\ file' = [file EXCEPT ![s] = "temp"] /\ open' = open \union {s}
  /\ Go(h, "set") /\ cur' = [cur EXCEPT ![h] = s]
  /\ UNCHANGED <<locks, cache, touches, gc, down, gone>>

\* uploads.Set, which starts pruneCount in a goroutine, and the return.
Created(h) ==
  /\ pc[h] = "set" /\ cacheMu = None
  /\ entries' = Append(entries, cur[h])
  /\ spawned' = IF TooMany THEN spawned + 1 ELSE spawned
  /\ drMu' = None
  /\ Leave(h)
  /\ UNCHANGED <<cacheMu, upMu, expired, todo, files, gc, down, gone>>

SessionLock(h, s) ==
  /\ pc[h] = "idle" /\ down = "up" /\ file[s] # "none"
  /\ drMu = None /\ drMu' = h
  /\ Go(h, "get") /\ cur' = [cur EXCEPT ![h] = s]
  /\ UNCHANGED <<cacheMu, upMu, cache, files, gc, down, gone>>

\* ErrNotFound, or the session, which the request keeps without the repository.
SessionGet(h) ==
  /\ pc[h] = "get" /\ cacheMu = None
  /\ drMu' = None
  /\ IF InCache(cur[h])
     THEN Used(cur[h]) /\ Go(h, "session") /\ UNCHANGED cur
     ELSE Leave(h) /\ UNCHANGED <<entries, expired>>
  /\ UNCHANGED <<cacheMu, upMu, spawned, todo, files, gc, down, gone>>

-----------------------------------------------------------------------------
(* Write, Close and Cancel *)

\* Lock of the session's mutex, which its user holds until it returns.
Enter(h) ==
  /\ pc[h] = "session" /\ upMu[cur[h]] = None

\* A closed writer is an error: nothing to write to.
WriteLock(h) ==
  /\ Enter(h) /\ cur[h] \in open
  /\ upMu' = [upMu EXCEPT ![cur[h]] = h]
  /\ Go(h, "write")
  /\ UNCHANGED <<drMu, cacheMu, cache, files, cur, gc, down, gone>>

\* The session is still there, and becomes the one used last, or has expired.
Write(h) ==
  /\ pc[h] = "write" /\ cacheMu = None
  /\ IF InCache(cur[h]) THEN Used(cur[h]) ELSE UNCHANGED <<entries, expired>>
  /\ upMu' = [upMu EXCEPT ![cur[h]] = None]
  /\ Go(h, "session")
  /\ UNCHANGED <<drMu, cacheMu, spawned, todo, files, cur, gc, down, gone>>

\* The request returns, after Size, Digest or Verify, or an error.
Return(h) ==
  /\ Enter(h)
  /\ Leave(h)
  /\ UNCHANGED <<locks, cache, files, gc, down, gone>>

\* The file is closed. Then the request fails, if it was closed before or is not
\* what BlobCreate was told to expect: it is removed, the session stays.
CloseFile(h) ==
  /\ Enter(h)
  /\ open' = open \ {cur[h]}
  /\ \/ /\ file' = [file EXCEPT ![cur[h]] = IF @ = "temp" THEN "gone" ELSE @]
        /\ Leave(h) /\ UNCHANGED upMu
     \/ /\ cur[h] \in open
        /\ upMu' = [upMu EXCEPT ![cur[h]] = h]
        /\ Go(h, "rename") /\ UNCHANGED <<file, cur>>
  /\ UNCHANGED <<drMu, cacheMu, cache, touches, gc, down, gone>>

\* The rename into the blob store; it fails if the store's Close removed the file.
Rename(h) ==
  /\ pc[h] = "rename"
  /\ file' = [file EXCEPT ![cur[h]] = IF @ = "temp" THEN "blob" ELSE @]
  /\ Go(h, "delete")
  /\ UNCHANGED <<locks, cache, open, touches, cur, gc, down, gone>>

CancelLock(h) ==
  /\ Enter(h)
  /\ upMu' = [upMu EXCEPT ![cur[h]] = h]
  /\ Go(h, "delete")
  /\ UNCHANGED <<drMu, cacheMu, cache, files, cur, gc, down, gone>>

\* Cache.Delete: the entry's PruneFn runs without cacheMu.
Delete(h) ==
  /\ pc[h] = "delete" /\ cacheMu = None
  /\ IF InCache(cur[h])
     THEN Discard(cur[h]) /\ Go(h, "deleted") /\ UNCHANGED <<upMu, cur>>
     ELSE /\ upMu' = [upMu EXCEPT ![cur[h]] = None]
          /\ Leave(h) /\ UNCHANGED files
  /\ UNCHANGED <<drMu, cacheMu, cache, gc, down, gone>>

\* It is locked again for the deletion.
Deleted(h) ==
  /\ pc[h] = "deleted" /\ cacheMu = None
  /\ Drop(cur[h])
  /\ upMu' = [upMu EXCEPT ![cur[h]] = None]
  /\ Leave(h)
  /\ UNCHANGED <<drMu, cacheMu, spawned, todo, files, gc, down, gone>>

-----------------------------------------------------------------------------
(* Pruning: cacheMu is held throughout, each session's mutex in turn *)

\* The oldest entry gets over the age limit.
Expire ==
  /\ Expiry /\ expired < Len(entries)
  /\ expired' = expired + 1
  /\ UNCHANGED <<locks, entries, spawned, todo, files, ctl, gc, down, gone>>

\* pruneAge goes through the map in any order.
PruneAge ==
  /\ cacheMu = None /\ expired > 0
  /\ cacheMu' = "age"
  /\ \E order \in SetToSeqs({entries[i] : i \in 1..expired}) :
       todo' = [todo EXCEPT !["age"] = order]
  /\ UNCHANGED <<drMu, upMu, entries, expired, spawned, files, ctl, gc, down, gone>>

\* pruneCount deletes what was used longest ago, down to MinCount.
PruneCount ==
  /\ cacheMu = None /\ spawned > 0
  /\ spawned' = spawned - 1
  /\ IF MinCount <= 0 \/ Len(entries) <= MinCount
     THEN UNCHANGED <<cacheMu, todo>>
     ELSE /\ cacheMu' = "count"
          /\ todo' = [todo EXCEPT !["count"] = SubSeq(entries, 1, Len(entries) - MinCount)]
  /\ UNCHANGED <<drMu, upMu, entries, expired, files, ctl, gc, down, gone>>

\* PrunePreFn locks the session, PruneFn discards it, PrunePostFn unlocks it.
PruneNext(p) ==
  /\ todo[p] # <<>>
  /\ LET s == Head(todo[p])
     IN  upMu[s] = None /\ Discard(s) /\ Drop(s)
  /\ todo' = [todo EXCEPT ![p] = Tail(@)]
  /\ cacheMu' = IF Len(todo[p]) = 1 THEN None ELSE cacheMu
  /\ UNCHANGED <<drMu, upMu, spawned, ctl, gc, down, gone>>

-----------------------------------------------------------------------------
(* The collector, which asks the cache IsEmpty while it holds dirRepo.mu, and *)
(* the store's Close, which deletes every session                             *)

GCLock ==
  /\ gc = "idle" /\ drMu = None /\ down = "up"
  /\ drMu' = "gc" /\ gc' = "empty"
  /\ UNCHANGED <<cacheMu, upMu, cache, files, ctl, down, gone>>

GCUnlock ==
  /\ gc = "empty" /\ cacheMu = None
  /\ drMu' = None /\ gc' = "idle"
  /\ UNCHANGED <<cacheMu, upMu, cache, files, ctl, down, gone>>

\* Close has the repository's token and no request has it open; neither has the
\* collector.
CloseStore ==
  /\ down = "up" /\ gc = "idle"
  /\ \A h \in Handlers : pc[h] \notin {"create", "set", "get"}
  /\ down' = "deleteAll"
  /\ UNCHANGED <<locks, cache, files, ctl, gc, gone>>

\* DeleteAll: as Delete, without the session's mutex.
DeleteAllNext(s) ==
  /\ down = "deleteAll" /\ cacheMu = None
  /\ InCache(s)
  /\ gone' = s /\ down' = "discard"
  /\ UNCHANGED <<locks, cache, files, ctl, gc>>

DeleteAllDiscard ==
  /\ down = "discard"
  /\ Discard(gone)
  /\ down' = "drop"
  /\ UNCHANGED <<locks, cache, ctl, gc, gone>>

DeleteAllDrop ==
  /\ down = "drop" /\ cacheMu = None
  /\ Drop(gone)
  /\ gone' = None /\ down' = "deleteAll"
  /\ UNCHANGED <<locks, spawned, todo, files, ctl, gc>>

DeleteAllDone ==
  /\ down = "deleteAll" /\ cacheMu = None /\ entries = <<>>
  /\ down' = "down"
  /\ UNCHANGED <<locks, cache, files, ctl, gc, gone>>

-----------------------------------------------------------------------------
Next ==
  \/ \E h \in Handlers :
       \/ CreateLock(h) \/ Created(h) \/ SessionGet(h)
       \/ WriteLock(h) \/ Write(h) \/ Return(h)
       \/ CloseFile(h) \/ Rename(h) \/ CancelLock(h) \/ Delete(h) \/ Deleted(h)
       \/ \E s \in Sessions : CreateTemp(h, s) \/ SessionLock(h, s)
  \/ Touch \/ Expire \/ PruneAge \/ PruneCount
  \/ \E p \in Pruners : PruneNext(p)
  \/ GCLock \/ GCUnlock
  \/ CloseStore \/ DeleteAllDiscard \/ DeleteAllDrop \/ DeleteAllDone
  \/ \E s \in Sessions : DeleteAllNext(s)

Spec == Init /\ [][Next]_vars

-----------------------------------------------------------------------------
(* Properties *)

\* Every temp file belongs to a session that the cache will end, however the
\* session ends and whoever ends it first: the upload folder does not fill up,
\* and is empty in the end.
NoOrphanFile ==
  \A s \in Sessions : file[s] = "temp" =>
    InCache(s) \/ \E h \in Handlers : pc[h] = "set" /\ cur[h] = s

\* A blob is never removed by the end of its session, and what was removed, on
\* cancel, expiry or shutdown, does not come back as a blob.
FileFinal ==
  [][\A s \in Sessions : file[s] \in {"blob", "gone"} => file'[s] = file[s]]_vars

\* The limit on concurrent uploads (config.go:69) is exceeded only until a
\* pruneCount that was started has run.
UploadsBounded ==
  UploadMax > 0 /\ Len(entries) > UploadMax => spawned > 0 \/ todo["count"] # <<>>

\* Nobody waits for a mutex whose holder waits for one of his ("to avoid circular
\* deadlocks", dirRepoUpload.delete): not a session's user and a pruner.
NoCircularWait ==
  ~ \E h \in Handlers, p \in Pruners :
      /\ pc[h] \in {"write", "delete", "deleted"}      \* wants cacheMu
      /\ todo[p] # <<>> /\ upMu[Head(todo[p])] = h     \* p has it and wants upMu
=============================================================================
