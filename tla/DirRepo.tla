------------------------------ MODULE DirRepo -------------------------------
(***************************************************************************)
(* One repository of the directory store, internal/store/dir.go, and its   *)
(* directory: index.json, oci-layout and the blob files, the copy of the   *)
(* index in memory, and what a crash, a failed read or write, or another   *)
(* tool's directory does to them.                                          *)
(*                                                                         *)
(* A call on the repository holds dirRepo.mu, and all it does to the       *)
(* directory appears with one rename, so it is one step; a crash before    *)
(* the rename is a crash before the call. A collection removes one file    *)
(* after the other, and is as many steps; it runs when no request has the  *)
(* repository open, as DirStore establishes.                               *)
(***************************************************************************)
EXTENDS Collector

CONSTANTS
  FallbackTags,        \* those of the tags like sha256-<hex>, where clients list referrers
  Pushes,              \* <<manifest, tag>> that clients push
  DeleteTags, DeleteDigests,
  Directories,         \* directories at the beginning, [layout, file, blobs]
  Policy, EmptyRepo,   \* ConfigGC
  LoadFails, SaveFails \* files cannot always be opened or parsed, or written

\* The digests in a directory, whichever tool made it; a list of manifests has one of its own.
DirDigests == (Blobs \union Manifests \union Seq(Manifests)) \ {None}

\* What index.json can hold.
IndexFiles ==
  [manifests: Seq([dig: DirDigests, tag: Tags \union {None}, subj: DirDigests \union {None}]),
   converted: BOOLEAN]

ASSUME NoneIsNoFile == None \notin IndexFiles

ASSUME DirRepoType ==
  /\ {EmptyRepo, LoadFails, SaveFails} \subseteq BOOLEAN
  /\ \A s \in Directories :
       /\ s.layout \in {"none", "partial", "valid"} /\ s.file \in IndexFiles \union {None}
       /\ s.blobs \subseteq DirDigests /\ IsFiniteSet(s.blobs)
  /\ FallbackTags \subseteq Tags
  /\ Pushes \subseteq {m \in Manifests : Content[m].subj = None} \X ((Tags \ FallbackTags) \union {None})
  /\ DeleteTags \subseteq Tags \ FallbackTags /\ DeleteDigests \subseteq Manifests

VARIABLES
  layout,    \* oci-layout: "none", "partial" (cannot be parsed) or "valid"
  file,      \* index.json: [manifests, converted], or None
  litter,    \* a temporary file was left that nobody removes
  dr,        \* the dirRepo: see Opened
  requests,  \* entries that requests are about to insert or remove, [op, entry]
  sessions,  \* blobs being uploaded
  gcPhase,   \* of dirRepo.gc; "stuck" if dr.mu is held for good
  gcDel, gcIndex,      \* blobs to remove, and the index without them
  acked      \* history: the tags as the clients' calls left them

dir  == <<layout, file, litter>>
gc   == <<gcPhase, gcDel, gcIndex>>
dirVars == <<blobs, fresh, index, layout, file, litter, dr, requests, sessions, gcPhase,
             gcDel, gcIndex, acked, conf>>

\* The dirRepo that RepoGet makes of what it finds.
\*   annot    dr.index's annotations: "blank" before there is an index at all,
\*            "converted" with AnnotReferrerConvert
\*   current  timeMod is index.json's modification time
\*   recent   timeCheck is less than freqCheck ago
Opened(l, f) ==
  [annot |-> "blank", exists |-> l = "valid" /\ f # None, current |-> FALSE, recent |-> FALSE]

DirInit ==
  /\ conf = Policy
  /\ \E s \in Directories : layout = s.layout /\ file = s.file /\ blobs = s.blobs
  /\ fresh = {} /\ litter = FALSE
  /\ index = EmptyIndex /\ dr = Opened(layout, file)
  /\ requests = {} /\ sessions = {}
  /\ gcPhase = "idle" /\ gcDel = {} /\ gcIndex = EmptyIndex
  /\ acked = [t \in Tags |->
       IF file = None THEN None
       ELSE Resolve([manifests |-> file.manifests, children |-> <<>>], t)]

-----------------------------------------------------------------------------
(* indexSave: what may come of it, from what dr.index, dr and index.json are *)

Result(li, d, f) == [index |-> li, dr |-> d, file |-> f, err |-> FALSE, stuck |-> FALSE]

\* Mutant: the annotations are not written.
SaveUnmarked(r) ==
  {[r EXCEPT !.file = [manifests |-> r.index.manifests, converted |-> FALSE],
             !.dr.current = TRUE]}
\* The new index.json is renamed into place, or there is an error and the copy in
\* memory has what index.json has not.
Saves(r) ==
  LET saved == [r EXCEPT !.err = FALSE,
                  !.file = [manifests |-> r.index.manifests,
                            converted |-> r.dr.annot = "converted"],
                  !.dr.annot = IF @ = "blank" THEN "plain" ELSE @,
                  !.dr.current = TRUE]
  IN  {saved} \union (IF SaveFails THEN {[r EXCEPT !.err = TRUE]} ELSE {})

-----------------------------------------------------------------------------
(* indexIngest *)

IsIndex(d) == Parsed(d).kind = "index"

\* indexValidReferrer: the referrers a fallback index lists that are there.
Referring(d) == Only(Parsed(d).refs, {m \in Refs(d) \intersect blobs : Parsed(m).subj # None})
SubjectsOf(d) == {Parsed(m).subj : m \in ToSet(Referring(d))}
\* The zero digest for a list without any.
SubjectOf(d) == IF SubjectsOf(d) = {} THEN None ELSE CHOOSE s \in SubjectsOf(d) : TRUE

\* All it lists is there, with one subject at most (a list may be empty), and is listed
\* as the server would. What a client listed otherwise is a manifest, and not the
\* digest of its list.
ValidReferrer(d) ==
  /\ d \notin Manifests
  /\ Referring(d) = Parsed(d).refs
  /\ Cardinality(SubjectsOf(d)) <= 1

\* The entries with a fallback tag that can be read.
Fallbacks(ms) ==
  Only(ms, {e \in ToSet(ms) : e.tag \in FallbackTags /\ IsIndex(e.dig) /\ e.dig \in blobs})

\* A fallback becomes the response unless the index has another.
Convertible(li, e) ==
  /\ ValidReferrer(e.dig)
  /\ \A s \in SubjectsOf(e.dig) : Response(li, s) \in {None, e.dig}
\* Mutant: the fallback is removed, and no response takes its place.
RemoveOne(li, e) == RmDesc(li, e)
\* An empty list adds nothing, as it has its tagged entry, and keeps the tag.
ConvertOne(li, e) == AddDesc(li, Entry(e.dig, None, SubjectOf(e.dig)), <<>>)

\* The members of what index.json lists, and their members, as far as there are blobs.
Children(ms) ==
  LET top == {ms[i].dig : i \in DOMAIN ms}
      Members(S) == UNION {Refs(d) : d \in {e \in S \intersect blobs : IsIndex(e)}}
      reach[n \in 0..Cardinality(blobs)] ==
        IF n = 0 THEN top ELSE reach[n - 1] \union Members(reach[n - 1])
  IN  reach[Cardinality(blobs)] \ top

\* A response has to be written for every subject of a fallback that cannot be
\* converted. BlobCreate takes dr.mu, which indexLoad holds, after it has returned
\* an error if the response is there already (in some order of the list).
Ingests ==
  LET parsed == [manifests |-> file.manifests, children |-> <<>>]
      loaded == [dr EXCEPT !.exists = TRUE, !.current = TRUE, !.recent = TRUE,
                           !.annot = IF file.converted THEN "converted" ELSE "plain"]
      all    == Fallbacks(file.manifests)
      valid  == {e \in ToSet(all) : Convertible(parsed, e)}
      good   == FoldLeft(ConvertOne, parsed, Only(all, valid))
      bad    == Only(all, ToSet(all) \ valid)
      wanted(s) == UNION {{m \in Refs(e.dig) \intersect blobs : Parsed(m).subj = s} : e \in ToSet(bad)}
                     \union (IF Response(parsed, s) \in blobs THEN Refs(Response(parsed, s)) ELSE {})
      subjects == UNION {SubjectsOf(e.dig) : e \in ToSet(bad)}
      written(s) == \E d \in blobs : d \notin Blobs \union Manifests /\ Refs(d) = wanted(s)
      WithChildren(li) == [li EXCEPT !.children = SetToSeq(Children(file.manifests))]
  IN  IF file.converted
      THEN {Result(WithChildren(parsed), loaded, file)}
      ELSE IF subjects = {}
      THEN Saves(Result(WithChildren(FoldLeft(RmDesc, good, bad)),
                        [loaded EXCEPT !.annot = "converted"], file))
      ELSE {[Result(good, loaded, file) EXCEPT !.stuck = TRUE]}
             \union (IF \E s \in subjects : written(s)
                     THEN {[Result(good, loaded, file) EXCEPT !.err = TRUE]} ELSE {})

-----------------------------------------------------------------------------
(* indexLoad: what may come of it *)

Loads(force) ==
  LET same   == Result(index, dr, file)
      failed == [same EXCEPT !.err = TRUE,
                             !.dr.annot = IF @ = "blank" THEN "converted" ELSE @]
  IN  IF dr.recent /\ ~force THEN {same}
      ELSE IF file = None THEN {failed}
      ELSE (IF dr.current THEN {[same EXCEPT !.dr.recent = TRUE]} ELSE Ingests)
             \union (IF LoadFails THEN {failed} ELSE {})
             \union (IF LoadFails /\ ~dr.current
                     THEN {[failed EXCEPT !.dr.recent = TRUE]} ELSE {})

Apply(r) == index' = r.index /\ dr' = r.dr /\ file' = r.file

\* The calls, which wait for dr.mu, as RepoGet waits for a collection.
Free == gcPhase = "idle"
Unlock(r) == gcPhase' = IF r.stuck THEN "stuck" ELSE "idle"

-----------------------------------------------------------------------------
(* BlobCreate with repoInit, and the upload's Close *)

\* repoInit: oci-layout, then an index.json if there is none.
Inits ==
  LET ready(r) == [r EXCEPT !.dr.exists = TRUE]
  IN  IF dr.exists THEN {[layout |-> layout, res |-> Result(index, dr, file)]}
      ELSE {[layout |-> "valid", res |-> IF s.err THEN s ELSE ready(s)] :
              s \in IF file = None THEN Saves(Result(index, dr, file))
                    ELSE {Result(index, dr, file)}}

\* BlobCreate sets timeMod, so index.json is read again.
Touched(r) == [r EXCEPT !.dr.current = FALSE]

Store(b) == blobs' = blobs \union {b} /\ fresh' = fresh \union {b}

\* POST of an upload.
UploadStart(b) ==
  /\ Free /\ b \notin sessions
  /\ \E i \in Inits :
       /\ layout' = i.layout
       /\ IF i.res.err THEN Apply(i.res) /\ UNCHANGED sessions
          ELSE Apply(Touched(i.res)) /\ sessions' = sessions \union {b}
  /\ UNCHANGED <<blobs, fresh, litter, requests, gc, acked>>

\* The session's Close, which may come in the middle of a collection.
UploadClose(b) ==
  /\ b \in sessions
  /\ sessions' = sessions \ {b}
  /\ Store(b)
  /\ UNCHANGED <<index, dir, dr, requests, gc, acked>>

\* Cancel, or the session expires.
UploadCancel(b) ==
  /\ b \in sessions
  /\ sessions' = sessions \ {b}
  /\ UNCHANGED <<blobs, fresh, index, dir, dr, requests, gc, acked>>

\* The goroutine of a session that ended sets timeMod when it gets dr.mu.
UploadEnded ==
  /\ Free /\ dr.current
  /\ dr' = [dr EXCEPT !.current = FALSE]
  /\ UNCHANGED <<blobs, fresh, index, dir, requests, sessions, gc, acked>>

-----------------------------------------------------------------------------
(* Requests: PUT and DELETE of manifests, and reads *)

IndexGet ==
  /\ Free
  /\ \E l \in Loads(FALSE) : Apply(l) /\ Unlock(l)
  /\ UNCHANGED <<blobs, fresh, layout, litter, requests, sessions, gcDel, gcIndex, acked>>

\* Mutant: the manifest is not validated.
Unverified(m) == TRUE
\* manifestVerify: BlobGet finds all it lists.
Verifies(m) == Refs(m) \subseteq blobs /\ (Refs(m) # {} => dr.exists)

\* The manifest is stored as a blob.
StoreManifest(m, t) ==
  /\ Free /\ Verifies(m)
  /\ \E i \in Inits :
       /\ layout' = i.layout
       /\ IF i.res.err
          THEN Apply(i.res) /\ UNCHANGED <<blobs, fresh, requests>>
          ELSE /\ requests' = requests \union {[op |-> "put", entry |-> Entry(m, t, None)]}
               /\ IF m \in blobs THEN Apply(i.res) /\ UNCHANGED <<blobs, fresh>>
                  ELSE Apply(Touched(i.res)) /\ Store(m)
  /\ UNCHANGED <<litter, sessions, gc, acked>>

\* IndexGet and GetDesc, as for a DELETE.
DeleteFind(e) ==
  /\ Free
  /\ \E l \in Loads(FALSE) :
       /\ Apply(l) /\ Unlock(l)
       /\ requests' =
            IF l.stuck \/ (l.err /\ file # None) THEN requests
            ELSE requests \union
              {[op |-> "delete", entry |-> f] :
                 f \in IF e.tag = None
                       THEN {Entry(d, None, None) : d \in {c \in {e.dig} : Found(l.index, c)}}
                       ELSE {Entry(d, e.tag, None) : d \in {Resolve(l.index, e.tag)} \ {None}}}
  /\ UNCHANGED <<blobs, fresh, layout, litter, sessions, gcDel, gcIndex, acked>>

\* The tags as the change leaves them.
Acknowledged(q) ==
  [t \in Tags |->
     IF q.op = "put" THEN IF t = q.entry.tag THEN q.entry.dig ELSE acked[t]
     ELSE IF acked[t] = q.entry.dig /\ q.entry.tag \in {None, t} THEN None ELSE acked[t]]

Changed(li, q) ==
  IF q.op = "delete" THEN RmDesc(li, q.entry)
  ELSE AddDesc(li, q.entry, IF IsIndex(q.entry.dig) THEN Parsed(q.entry.dig).refs ELSE <<>>)

\* Mutant: index.json is saved from what is in memory, without a look at the file.
NoLoad(q) == \E s \in Saves([Result(index, dr, file) EXCEPT !.index = Changed(index, q)]) :
  Apply(s) /\ Unlock(s) /\ acked' = Acknowledged(q)
\* indexLoad, whose error is ignored; AddDesc or RmDesc; indexSave.
LoadChangeSave(q) ==
  \E l \in Loads(FALSE) :
    IF l.stuck THEN Apply(l) /\ Unlock(l) /\ UNCHANGED acked
    ELSE \E s \in Saves([l EXCEPT !.index = Changed(l.index, q)]) :
           /\ Apply(s) /\ Unlock(s)
           /\ acked' = IF s.err THEN acked ELSE Acknowledged(q)

\* IndexInsert or IndexRemove, the request's last call.
ChangeIndex(q) ==
  /\ Free
  /\ LoadChangeSave(q)
  /\ requests' = requests \ {q}
  /\ UNCHANGED <<blobs, fresh, layout, litter, sessions, gcDel, gcIndex>>

-----------------------------------------------------------------------------
(* dirRepo.gc *)

GCLoad ==
  /\ Free /\ requests = {}
  /\ \E l \in Loads(TRUE) :
       /\ Apply(l)
       /\ gcPhase' = IF l.stuck THEN "stuck" ELSE IF l.err THEN "prune" ELSE "walk"
  /\ UNCHANGED <<blobs, fresh, layout, litter, requests, sessions, gcDel, gcIndex, acked>>

GCWalk ==
  /\ gcPhase = "walk"
  /\ gcDel' = Garbage /\ gcIndex' = Collected
  /\ gcPhase' = "delete"
  /\ UNCHANGED <<blobs, fresh, index, dir, dr, requests, sessions, acked>>

GCDelete(d) ==
  /\ gcPhase = "delete" /\ d \in gcDel
  /\ gcDel' = gcDel \ {d}
  /\ blobs' = blobs \ {d} /\ fresh' = fresh \ {d}
  /\ UNCHANGED <<index, dir, dr, requests, sessions, gcPhase, gcIndex, acked>>

\* Mutant: the index without the garbage is not saved.
KeepOldFile(li) == {Result(li, dr, file)}
Collects(li) ==
  IF li = index THEN {Result(index, dr, file)} ELSE Saves(Result(li, dr, file))

GCSave ==
  /\ gcPhase = "delete" /\ gcDel = {}
  /\ \E s \in Collects(gcIndex) : Apply(s)
  /\ gcPhase' = "prune" /\ gcIndex' = EmptyIndex
  /\ UNCHANGED <<blobs, fresh, layout, litter, requests, sessions, gcDel, acked>>

\* Also when the index could not be loaded, or saved.
Empty == EmptyRepo /\ index.manifests = <<>> /\ sessions = {}

GCKeep ==
  /\ gcPhase = "prune" /\ ~Empty
  /\ gcPhase' = "idle"
  /\ UNCHANGED <<blobs, fresh, index, dir, dr, requests, sessions, gcDel, gcIndex, acked>>

\* Directories that are not empty stay, and index.json and oci-layout go. (The
\* blobs' directories are the first to be tried, which changes nothing else.)
GCPruneIndex ==
  /\ gcPhase = "prune" /\ Empty
  /\ file' = None
  /\ gcPhase' = "pruneLayout"
  /\ UNCHANGED <<blobs, fresh, index, layout, litter, dr, requests, sessions, gcDel, gcIndex, acked>>

\* If the whole directory went, the repository does not exist any more.
GCPruneLayout ==
  /\ gcPhase = "pruneLayout"
  /\ layout' = "none"
  /\ dr' = IF blobs = {} /\ ~litter THEN [dr EXCEPT !.exists = FALSE] ELSE dr
  /\ gcPhase' = "idle"
  /\ UNCHANGED <<blobs, fresh, index, file, litter, requests, sessions, gcDel, gcIndex, acked>>

-----------------------------------------------------------------------------
(* The world around *)

\* freqCheck has passed.
Elapse ==
  /\ dr.recent
  /\ dr' = [dr EXCEPT !.recent = FALSE]
  /\ UNCHANGED <<blobs, fresh, index, dir, requests, sessions, gc, acked>>

\* The grace period of a blob ends.
AgeFile(d) ==
  /\ d \in fresh
  /\ fresh' = fresh \ {d}
  /\ UNCHANGED <<blobs, index, dir, dr, requests, sessions, gc, acked>>

NewObject(l) ==
  /\ index' = EmptyIndex /\ dr' = Opened(l, file)
  /\ UNCHANGED <<blobs, fresh, file>>

\* The cache of repositories drops this one, and RepoGet opens it again.
Reopen ==
  /\ Free /\ requests = {} /\ sessions = {}
  /\ NewObject(layout)
  /\ UNCHANGED <<layout, litter, requests, sessions, gc, acked>>

\* The process dies, and another one opens the directory. A temporary file of an
\* upload, or of an index.json about to be renamed, stays; so does part of a new
\* oci-layout, or one without an index.json.
Crash ==
  /\ layout' \in IF layout = "valid" \/ dr.exists THEN {layout} ELSE {layout, "partial", "valid"}
  /\ litter' \in IF sessions # {} THEN {TRUE} ELSE {litter, litter \/ layout' # "none"}
  /\ NewObject(layout')
  /\ requests' = {} /\ sessions' = {}
  /\ gcPhase' = "idle" /\ gcDel' = {} /\ gcIndex' = EmptyIndex
  /\ UNCHANGED acked

-----------------------------------------------------------------------------
DirNext ==
  \/ \E b \in Blobs : UploadStart(b) \/ UploadClose(b) \/ UploadCancel(b)
  \/ UploadEnded
  \/ IndexGet
  \/ \E p \in Pushes : StoreManifest(p[1], p[2])
  \/ \E t \in DeleteTags : DeleteFind(Entry(None, t, None))
  \/ \E d \in DeleteDigests : DeleteFind(Entry(d, None, None))
  \/ \E q \in requests : ChangeIndex(q)
  \/ GCLoad \/ GCWalk \/ GCSave \/ GCKeep \/ GCPruneIndex \/ GCPruneLayout
  \/ \E d \in gcDel : GCDelete(d)
  \/ Elapse
  \/ \E d \in fresh : AgeFile(d)
  \/ Reopen \/ Crash

DirSpec == DirInit /\ [][DirNext /\ UNCHANGED conf]_dirVars

-----------------------------------------------------------------------------
(* Properties *)

OnDisk == IF file = None THEN <<>> ELSE file.manifests

\* At any instant, and so after a crash at any instant, what index.json tags has its
\* blobs: a push stores them before the index names them, and a collection may
\* remove files before it saves the index, but none that a tag needs.
TaggedOnDisk ==
  \A e \in {f \in ToSet(OnDisk) : f.tag # None} :
    e.dig \in blobs /\ (~IsIndex(e.dig) => Refs(e.dig) \subseteq blobs)

\* index.json has the tags that the clients' calls left, across crashes, reloads,
\* collections and removals of an empty repository (dir.go:293 "adds a new entry to
\* the index and writes the change to index.json").
Durable ==
  \A t \in Tags \ FallbackTags :
    Resolve([manifests |-> OnDisk, children |-> <<>>], t) = acked[t]

\* The copy in memory is index.json as long as nothing says that the file has
\* changed: what a request reads was saved.
CopyCurrent ==
  Free /\ dr.current /\ file # None =>
    /\ index.manifests = file.manifests
    /\ file.converted <=> dr.annot = "converted"

\* Converting fallback tags loses no referrer: each one that a fallback index lists
\* and that is there is in the response of its subject.
ReferrersConverted ==
  [][file # None /\ file' # None /\ ~file.converted /\ file'.converted =>
       \A e \in ToSet(Fallbacks(file.manifests)) :
         \A m \in ToSet(Referring(e.dig)) :
           LET r == Response([manifests |-> file'.manifests, children |-> <<>>], Parsed(m).subj)
           IN  r # None /\ m \in Refs(r)]_dirVars

\* A collection that ends leaves no entry in index.json without its blob, also if an
\* earlier one was cut off between the files and the index.
GCRepairs ==
  [][GCSave /\ file' # None => \A e \in ToSet(file'.manifests) : e.dig \in blobs]_dirVars

\* No call holds dr.mu for good (store.go:247 "generate new responses when needed").
NotStuck == gcPhase # "stuck"
=============================================================================
