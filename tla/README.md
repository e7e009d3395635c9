# A TLA+ model of olareg

olareg is a small OCI registry: an HTTP server over a store of repositories,
either in memory (`internal/store/mem.go`) or in directories
(`internal/store/dir.go`). A repository is a set of blobs and an `index.json`
that lists manifests by tag and digest; a garbage collector removes what the
index no longer needs. This directory models the parts of it where several
goroutines, long sequences of calls, or crashes meet shared state.

All line numbers refer to the source beside this directory. Run the model checker
with `tlc -config X.cfg M` and the proof checker with `tlapm M.tla` on the modules whose name ends in
`Proofs`.

## Contents

1. [The system](#the-system)
2. [The modules](#the-modules)
3. [The runs](#the-runs)
4. [Fairness](#fairness)
5. [Proofs](#proofs)
6. [Where the code and its comments disagree](#where-the-code-and-its-comments-disagree)
7. [What is not modelled](#what-is-not-modelled)
8. [Plan](#plan)

## The system

| Part | State | Operations | Meets |
|---|---|---|---|
| Store, in memory (`mem.go`) | `m.repos`, `m.stop`; per repository `wgBlock` (a channel with one token) and `wg` | `RepoGet`, `Done`, GC ticker, `Close` | every request, through `RepoGet`/`Done` |
| Store, directory (`dir.go`) | `d.repos`, a cache of repositories that forgets those not used lately; `d.stop` | the same, and pruning of the cache after a collection | the cache's mutex, the same name opened again |
| Directory of a repository (`dir.go`) | `index.json`, `oci-layout`, blob and upload files, and a copy of the index in memory | `repoInit`, `indexLoad`, `indexSave`, removal of an empty repository | other tools, full disks, restarts |
| Repository | blobs, index, upload sessions, modification time | `BlobGet`, `BlobCreate`, `BlobDelete`, `IndexGet`, `IndexInsert`, `IndexRemove` | handlers and collector; one mutex per call |
| Layout index (`types/layout.go`) | `Manifests`, `childManifests`, `History` | `AddDesc`, `RmDesc`, `GetDesc`, `GetByAnnotation` | pure; called under the repository's mutex |
| Store core (`store.go`) | none | `repoGarbageCollect`, `indexIngest` | index and blobs of one repository |
| Manifest API (`manifest.go`) | none | PUT, DELETE, GET, HEAD | several repository calls per request, then `referrerAdd` / `referrerDelete` |
| Referrers API (`referrer.go`) | a cache of paged answers | `referrerAdd`, `referrerDelete`, paged GET | reads a response from index and blobs, writes a new one back |
| Blob API (`blob.go`) | none | POST, PATCH, PUT, GET, DELETE | upload sessions, which outlive the requests that use them |
| Upload sessions (`dir.go`, `mem.go`) | temp file or buffer, offset, digest state | `Write`, `Close`, `Cancel`, `Verify` | session mutex, cache mutex, repository mutex |
| Generic cache (`internal/cache`) | entries with times, a timer | `Get`, `Set`, `Delete`, `DeleteAll`, prune by age and count | callbacks into its users, some under its own mutex |
| HTTP server (`olareg.go`) | rate limits, the `http.Server` | `Run`, `Shutdown`, `Close`, `ServeHTTP` | the store; `Server.mu` |
| Authentication (`config/auth.go`) | parsed configuration, opaque tokens, a cleanup job | reload on change, issue and removal of tokens | whoever edits the file |
| `olareg serve` (`cmd/olareg/serve.go`) | a context, a goroutine that waits for signals | `Run` and `Shutdown` of the server | signals |

**How they interact.** A handler calls `RepoGet`, makes several calls on the
repository, each under the repository's mutex, and defers `Done`. The collector
shuts requests out of a repository (token, then `wg.Wait`) for the whole
collection. Upload sessions are the exception: they stay usable after `Done`.

**What is hard.**

* *Exclusion by token and WaitGroup*: a lost token hangs a repository for good,
  and an `Add` during a `Wait` lets the collector run under a request.
* *Calls are atomic, requests are not*: handlers interleave between calls, and
  what one has read (a referrers response, the existence of a blob, an index
  copy) may be stale when it writes.
* *The index is a list with invariants nobody states*: entries of one digest are
  merged, untagged, moved to the child list and back.
* *The collector's answer depends on age, tags, members, responses and policy*, and
  on blobs and entries that have lost each other.
* *Three mutexes around an upload session*, and callbacks under two of them; `Close`
  and the cache of repositories hold theirs while they wait for requests.
* *A directory that outlives the process*: files are replaced one after the other, a
  crash comes between any two, reads and writes fail, and other tools have
  written it first.
* *Windows and limits*: GC ticks, grace periods, counts that are rounded.
* *Clients that retry*: an upload session and the pages of a long answer span several
  requests, which may break off, repeat and overlap, while the session expires and the answer changes.
* *The end of the server*: a signal, running requests, the listener and the store's `Close`.

**What makes each part correct.** The store: exclusive collection, progress of
everyone, an orderly `Close`. The index: one entry per tag and one response per
subject, a digest stays until it is removed, the history tells the truth. The
repository: what is tagged can be pulled, the collector takes nothing that can be
reached from a tag nor what is young, one collection is enough, and the referrers
API lists what the index can find. The directory: it has the tags that the clients' calls left, with all they
need, after any crash. Sessions: each ends once, its file becomes a
blob or goes, there are no more than allowed, and nobody deadlocks. Uploads: a blob is what its
digest says and what the client sent, and 201 is the truth. The ticker: what is garbage for long enough goes.
The server: it ends when told, and closes its store after the last request.

`PROJECT.json` lists every hazard at its line with the properties that cover it.

## The modules

| Module | Models | Notes |
|---|---|---|
| `RepoAccess` | the contract of `RepoGet`, `Done`, GC and `Close` | abstract: who has a repository open, who owns it |
| `MemStore` | `mem.go` 76-260, 504-506, 540-558 | implements `RepoAccess` |
| `DirStore` | `dir.go` 79-278, 502-506, 660-665; `cache.go` as the cache of repositories | implements `RepoAccess` with other means |
| `LayoutIndex` | `types/layout.go`, `Index.GetByAnnotation` | pure operators, no state |
| `TagStore` | what an index promises a client | abstract: a map of tags, a map of responses, a set of digests |
| `IndexMachine` | one index under any sequence of calls, and its history | implements `TagStore` |
| `Collector` | `repoGarbageCollect` (`store.go` 390-535) | operators over blobs and index; extended by the next two |
| `Registry` | PUT and DELETE of manifests, referrers, blob calls, against the collector | call by call; the store may be either |
| `ReferrerPages` | `referrerGet`, `referrerFilter`, `referrerSplit` (`referrer.go` 38-281) and the cache of pages | extends `Registry`, so responses change between two pages |
| `BlobUpload` | `blob.go` 120-149, 192-591 over the sessions of `mem.go` | call by call; bytes and digests |
| `GCTicker` | when a tick visits a repository: `gcTicker` and `gc` of both stores, every assignment of `timeMod`, the life of the objects that have it | time in steps; restarts |
| `Auth` | `config/auth.go` 162-456: reload of the file, opaque tokens | actions; extended by the next |
| `Server` | `olareg.go` 98-202 and 312-318, `serve.go` 177-210 | `net/http` is external |
| `DirRepo` | one directory: `dir.go` 280-720, `store.go` 160-365 | file by file; crashes |
| `Uploads` | the sessions of the directory store and their cache | lock by lock |
| `MemStoreProofs`, `DirStoreProofs`, `IndexMachineProofs`, `BlobUploadProofs`, `ServerProofs`, `UploadsProofs` | - | the inductive invariant and the theorems of the module without `Proofs` |
| `RepositoryProofs` | - | the same for `Registry`, with `Collector`, for `ReferrerPages`, and for `GCTicker` and `DirRepo`, whose `Init`, `Next` and `Spec` are `TickerInit` and `DirInit`, `TickerNext` and `DirNext`, `TickerSpec` and `DirSpec` |
| `LayoutIndexProofs` | - | lemmas about the operators of `LayoutIndex`; no theorem of its own |
| `MCMemStore`, `MCDirStore`, `MCIndexMachine`, `MCRegistry`, `MCDirRepo`, `MCUploads`, `MCBlobUpload`, `MCServer` | - | small instances; `GCTicker` has no names to define and is run as it is |

How they fit: `MemStore` and `DirStore` show that a collection is alone with its
repository; `Registry` and `DirRepo` rely on it and let a collection start only between requests.
`IndexMachine` shows that the index behaves as `TagStore`; `Registry` and
`DirRepo` use the same operators. `DirRepo` adds to `Registry` what the directory
store does underneath, and `Uploads` zooms in on the sessions that `DirRepo` only starts and ends: on
their mutexes and files, where `BlobUpload` looks at their bytes. `GCTicker` asks when a collection happens that
`MemStore` and `DirStore` allow at any tick, and `Server` what surrounds all of them.

An operator whose comment starts with *Mutant* is a plausible mistake in the
definition that follows. No specification uses it; substituting it shows that a
property can tell the difference.

### MemStore

A handler is `idle`, `waiting` on the channel, `adding` (it received the token),
`returning` (it has called `wg.Add`) or `active` (it was handed the repository).
The collector and `Close` are the two *keepers*. Each section of the code under
`m.mu` that cannot block is one step, so `m.mu` is no variable; `Close` unlocks
it around each repository, and the model has steps there. `registered` is the key
set of `m.repos`. A repository dropped by `Close` is never created again, since
`m.stop` was closed first, so a name stands for one object throughout.

Which repositories a tick visits depends on times; here a tick may skip any
(`GCSkip`), which allows more behaviours. A collection that fails ends the GC
(`GCPutToken`).

### DirStore

The same three kinds of threads, and `pruneAge`, the timer of the cache. The
differences from `MemStore` are what the module is about. Objects are numbers: `cached` maps a name to
the object the cache has, `of` an object to its name, and a name may have had several
objects. `Close` keeps `d.mu` throughout, and `pruneAge` keeps the cache's mutex while it
collects: both are variables here. A new repository is put into the cache, with its
token, before it has been opened (`RepoGetCreate`, then `RepoGetOpen`). `PruneFn` is
`dr.gc`, and may fail: then the entry stays. An object that nobody refers to any more
has its number used again.

### LayoutIndex and IndexMachine

An entry is `[dig, tag, subj]`: the two annotations that the code looks at. Lists
keep their order because the code takes first matches. `Untag` folds one turn of the loop,
`UntagAt`, over the positions from the tail, like `layout.go:146`; `Only` is what the other loops that
remove entries leave. The fold always takes the next lower position. The code's clamp of its
loop variable (`layout.go:159`) is not in the model because it never does anything: a turn removes the entry
that it is at, and an index above the last is never reached (lemma `UntagTrace`). `IndexMachine` calls `AddDesc` and `RmDesc` with
any descriptor, also stale ones: a handler chooses the descriptor from a copy of
the index it read earlier.

### Collector

`fresh` is the set of blobs younger than the collector's cutoff. `Garbage` is what
`repoGarbageCollect` deletes, computed as the set the walk reaches, with the
walk's conditions for entries, members, subjects and responses; `Collected` is the index
that it leaves. The policy is part of `conf`. The digest of a referrers response is the list
itself: the server writes the same bytes for the same list.

### Registry

One repository. A request is `idle` or waits to make its next call: `store`,
`insert`, `respRead`, `respStore`, `respInsert`, `remove`. Between any two calls,
others run. A collection is one step, enabled when no request has the repository
open. `Age` takes a blob out of `fresh`.

Simplifications that do not change what the properties see: the existence checks of one PUT
are taken together (only `BlobDelete` removes a blob while a request is under way), and
`BlobCreate`, `Write` and `Close` of a manifest are one step (the blob appears at
`Close`).

`Servers` is a set of configurations, each with the clients that use it: what they upload, push and
delete, and whether their requests run at once. `Init` takes one of them, so that one run
checks each property under every policy in which it holds, and a property that needs a policy
or a kind of client says so in a premise.

### ReferrerPages

`reader` is one client that asks for the referrers of a subject, with or without a filter, and
follows the links; `OtherRead` are all others. One GET is one step: `referrerGet` makes an
`IndexGet` and a `BlobGet`, and only the removal of that blob could come between. `pageCache` maps a digest and
a filter to pages. `Size` stands for the length of a descriptor's JSON, `pageLimit` for the configured limit.
`Registry` runs underneath; `Prune` drops any entry of the cache at any time.

### BlobUpload

Content is a sequence of chunks; a digest is an algorithm and the content it was computed of, so that *the
blob is what its digest says* can be stated. A session is a buffer, what its digest writer has seen (after
`Rescan` that is the buffer), an algorithm and the expected digest. A request goes through the calls of its handler:
range, algorithm, state, copy (chunk by chunk), verify, close or cancel. It keeps the session it has found even
if the session is dropped from the cache, as the code does; `Write` looks again, `Close` does not. Clients name in each
request the offset from which they send the wanted content, right or not; a request may be repeated and
come at any time. `serial` restricts clients to one request at a time per session.

### GCTicker

A repository has one item that is absent, `unused` (garbage) or `used`. The actions are the places where the code
sets `timeMod`: index changes, the start and the end of uploads (`MarkLater` is the goroutine at the end of an upload of the
directory store), saves, loads and collections. `fileMod` is the time of index.json, which may lag by `Skew` (250 ms in
`dir.go:245`). A pass takes any time, ticks that come meanwhile wait in the ticker's channel, at most one.

`timeMod` belongs to an object, and `open` is the set of repositories that have one. `NewDir` finds `Leftovers` of an earlier process:
any index.json and item, of a time before the server's. `Open` is the first `RepoGet` of a repository, or the first after its object
has gone: it makes an object with a zero `timeMod` over whatever the directory holds (`dir.go:152-172`), at any time. `PruneRepo` is the cache that
drops an object; the code does so to what has not been used for a grace period and has no session open, the model at any time (each pass uses
what it looks at, `dir.go:261`, so that with the default periods the code never does). `Restart` is the end of the process, however
it comes, and the start of the next. A pass sees the repositories that are open when it begins (`d.repos.List()`, `dir.go:249`), and skips one
that has left the cache by then. In memory an object is made by the first request too, is never dropped, and is empty.

`missed` is a history variable: the repositories of whose garbage `timeMod` says nothing, because they were opened over it after the
first pass had begun or `indexLoad` set the mark back, or which a failed pass left out. A repository leaves it when a change marks it, a
visit leaves nothing, or its object goes.

### Auth and Server

A request is `idle`, waits for `Server.mu` to be counted (`limit`), goes through the access control (`poll`,
`lock`, `read`, `check`, `issue`, `cleanup`) or is in its handler (`serve`). The file is a sequence of versions, each
valid or not, and its modification time the number of the last one; removing the file and changing
its permissions keep that number. A section under the `RWMutex` is one step, except that reading the file and the
hand-over at the end of the cleanup job happen inside a write section, so `writer` is a variable.

`main` is the goroutine of `olareg serve` that calls `Run`, `notifier` the one that waits for a signal or
for the end of the context and calls `Shutdown`. `mu` is held between steps by `Shutdown` only. `net` is what `net/http`
does: it accepts requests while `listening`, and its own `Shutdown` waits for `Active` to be empty, or
returns an error when the context has ended. `Setups` is a set of configurations, as in `Registry`.

### Uploads

A step runs from one blocking `Lock` to the next, with the three mutexes as
variables. `entries` is the cache in order of last use. `pruneCount` runs in a
goroutine (`spawned`), `pruneAge` on a timer (`Expire` lets the oldest entry pass
the limit at any time). `Delete` and `DeleteAll` release the cache's mutex around
the callback, the pruners hold it: both as in the code. `DeleteAllDiscard` does
not take the session's mutex, again as in the code: it races with the session's user, and the
outcomes of that race (the user's own close succeeds or fails) are both steps.

### DirRepo

What is on disk is `layout`, `file` (index.json), `blobs` and `litter` (a temporary
file left behind); the `dirRepo` in memory is `index` and `dr`. A call that holds
`dirRepo.mu` reaches the disk with one rename and is one step; a request that
changes the index makes several, remembered in `requests`, and stays open in between. A collection is as many
steps as it removes or writes files. `indexLoad`, `indexSave` and `indexIngest` are
operators that return the set of results they may have (`Loads`, `Saves`, `Ingests`), so that
an action takes one of them: success, the errors the code ignores, and being
stuck. `Crash` is possible at any time, and leaves temporary files and half of `repoInit`;
`Reopen` is the cache that drops the repository, which needs no crash. `UploadEnded`
is the goroutine that a session starts when it ends; it may run late, and here at any time.
`acked` is a history variable: the tags as the calls that were answered left them.

Simplifications: manifests with a subject come with the initial directory and are not
pushed (`Registry` has that part); modification times of two saves of index.json differ; the
referrers API is enabled (the default).

## The runs

| Run | Instance | Shows |
|---|---|---|
| `memstore` | 2 repositories, 2 requests, ticker, `Close` | `KeeperExclusive`, `InUseRegistered`, `ClosedReleasesAll`, `NoAddDuringWait`; liveness `NobodyStarves`; refinement `AccessSpec`; `IInv`, which contains `TypeOK` |
| `index_machine` | 4 digests (an image, its signature, a response that is an index with a member, the empty response), 2 tags | `WellFormed`, `HistoryTracksTags`, refinement `TagSpec` |
| `registry` | 2 requests; 2 images, an index of one of them, 2 signatures, 1 tag; six servers (`AllServers`) | `Pullable`, `GCKeepsTagged`, `GCKeepsFresh`, `GCIdempotent`, `ReferrersAgree`, `PagesComplete` |
| `uploads` | 2 requests, 3 sessions, limit 2, expiry | `NoOrphanFile`, `UploadsBounded`, `FileFinal` |
| `blob_upload` | 2 requests, 1 session id, 2 chunks, 2 algorithms | `StoredIsNamed`, `InOrder`, `CreatedIsStored` |
| `dir_access` | 1 repository, 3 requests, ticker, pruning, `Close`; after the first tick | `OneObject`, `NoAddDuringWait`; liveness `NobodyStarves`; refinement `AccessSpec`; `IInv`, which contains `TypeOK` |
| `dir_repo` | an image pushed with and without a tag, an index that lists it, 1 tag; a new directory, or another tool's with fallback tags | `TaggedOnDisk`, `Durable`, `CopyCurrent`, `ReferrersConverted`, `GCRepairs` |
| `gc_ticker` | 1 repository, both stores, opened, dropped and restarted at any time over any leftovers; a grace period of 2, a skew of 1, time from 2 to 9 | `OldGarbageGone` |
| `server` | 2 requests, 2 tokens, six setups (`MCSetups`) | `UsesOpenStore`, `ConfFollowsFile`, `TokensWatched`; liveness `TokensRemoved`, `StopsGracefully` |
| `index_lost`, `ingest_deadlock`, `upload_deadlock` | the smallest that show it | one violation each, see [below](#where-the-code-and-its-comments-disagree) |

`index_machine` and `registry` also check the `TypeOK` of their module.

**Why these bounds.** *memstore*: two requests are what it takes for one to arrive
while another holds the repository and a keeper waits; two repositories let the
collector and `Close` be at different ones, and at the same one. The proofs remove
the bound for safety, here and in the other modules that have one. *index_machine*: two tags on one digest and one tag on two
digests are what `Untag` and `RmTag` distinguish; three entries of one digest
(bare, and one for each tag) exist. The state space is finite without a bound: entries are
never repeated, because `Place` reuses them. *registry*: the collector's walk goes from tag to index to
member to the member's response to a signature to its layers, and
`Deleting` and `Sparse` have one of each; a longer chain repeats these steps. All blobs can be
young or old, so every mixture of ages is met. `Racing` has two requests at once that push two things with one tag and
delete it; `Signing` two signatures of one image; `Paging` has a page for one signature each, and `PagingShort`
a signature too long for any page. `MaxCached` is 2: the pages of one response with and without the filter, or of
two responses. *uploads*: three sessions with a
limit of two fill the cache, and there is one session per way to end (blob,
cancel, prune) while a pruner holds another. Each session id is used once: it is random in the code.
*blob_upload*: two chunks give a beginning, a rest, a repetition and a gap; two requests are what it takes to
meet in one session, and a session id is used again once nothing refers to it. `MaxSize` is 3: one chunk more than the content,
which is enough to have repeated one; `MaxBlobs` is 2. *gc_ticker*: repositories meet only when a pass fails, which `Fail` allows
at any time, so one is enough; seven steps of time give four ticks whose windows overlap and a blob that becomes old in each
position to them, and a process that ends and finds what it left. *server*: two requests are what it takes to queue for a lock behind another; three versions of the file
let it be broken and repaired after it was read. *dir_access*: the questions are about one name and its objects. Three requests let one
wait on an object, one hold it and one ask for it again; `MaxObjects` is 2, the one
in the cache and one that was dropped, and `RepoGetCreate` is disabled beyond it.
Threads at two names meet at `d.mu` and the cache only. Two names with two requests and three objects were
checked once for safety (645,584 states), and two names with one request for
liveness (122,444 states); they take too long to keep. *dir_repo*: one tag, put on an image or on
an index that contains it, or deleted, and the image pushed or deleted by digest, give every relation between the
index on disk and the collector's view; the push without a tag is what would lose the tag if index.json were
written from an older copy. Fallback tags come valid (`f1`) and listing a
signature that is gone (`f2`) or nothing at all (`f3`, which is valid and adds nothing), at most one per subject. Young and old blobs, one crash
or any number.

**Symmetry** (handlers; handlers and sessions; tags) is used only in runs without
liveness, for constants that no property or definition names.

**Deadlock** is checked except in `server` (a server with a rate limit really deadlocks, below)
and in the runs of `Uploads`: there the requests may
all be done after the store closed, and the threads may really deadlock
(`upload_deadlock`). Safety in what can be reached before and beside a deadlock is checked all the same.

**What an instance or a premise leaves out on purpose.** Each is a case in which the code does otherwise, which is described below; in brackets the
property that says what the code does not keep, where there is one.
`Pullable` is about servers on which nothing is deleted by digest [`MembersFound`], and `GCKeepsFresh` about what one collection takes, not
about what a push leaves old [`PushedIsFresh`]. The last part of `WellFormed`, that no digest is listed both at the top level and as a child, is about
clients that push no index with a referrers response of the server as a member: `AddDesc` moves the bare entry of a
member to the child list and leaves the response that has the same digest (`Members[listed] = <<empty>>` in `MCIndexMachine`: `WellFormed`
fails after three calls). `ReferrersAgree` is about requests one at a time [`ReferrersListed`], under a policy that keeps
dangling and subjectless responses (otherwise the collector may leave responses that list what it removed), and about clients that
delete no blobs, and signatures by digest only. `PagesComplete` exempts a client that was told to begin again. `CreatedIsStored`
is, for a PUT, about clients that wait for their requests [`VerifiedIsStored`], and so is `InOrder`. `OldGarbageGone` is about open repositories, and exempts
what is in `missed`, of which the loss of a mark is one way [`MarkKept`]; `ConfFollowsFile` assumes that permissions do not change, `StopsGracefully` that there is
no rate limit [`ShutdownEnds`] and that the signal comes after `Run` has begun [`SignalEnds`].
**`dir_access` starts after the first tick** (`FirstTick = FALSE`): during the first one
`NoAddDuringWait` fails. The run also assumes that no request waits for a token, or stays
between `cache.Set` and `wg.Add`, for longer than the grace period (`Expired`; an hour by default, `config.go:139`, and `dir.go:88` asks for short requests):
with a shorter one the cache could drop what such a request has found. **`dir_repo` has
`LoadFails` and `SaveFails` off**: with the first `Durable` fails as `index_lost` shows, with the
second `CopyCurrent` and `TaggedOnDisk` (below).

## Fairness

`memstore` and `dir_access` check liveness (`FairSpec` in both modules, with `NobodyStarves`: requests,
the collector and `Close` get on), and so does `server`:

* *Weak* fairness for a handler that has its token or its repository, for the GC goroutine
  as a whole, for `Close` as a whole, and for a pruning that has begun: a goroutine that can run is run, and every handler
  defers `Done`.
* *Strong* fairness for receiving a token: Go serves the receivers of a channel in
  the order they arrived, so a token that keeps coming back reaches each of them.
* *Strong* fairness, in `DirStore`, for the steps that lock `d.mu` or the cache's mutex: a `sync.Mutex` is handed
  to a waiter that has waited for a millisecond. A thread is at one of these steps at a time, so one
  formula per thread covers them (`RepoGetBlocked`, `CloseBlocked`).
* *Strong* fairness for `TickerStop`: `select` chooses at random among ready cases,
  so a closed stop channel is eventually chosen over the ticker.
* None for a request to arrive, for a client to cancel, for the timer of the cache or for a call of `Close`
  (a tick is part of the GC goroutine's weak fairness, and no property needs it).

* In `Server`, *strong* fairness for each request, for the two goroutines of `serve` and for the cleanup job:
  they wait for `sync.Mutex` and `sync.RWMutex`, which do not starve a waiter (a waiting writer keeps new readers out),
  and `net/http`'s `Shutdown` polls until no request is left. Handlers end: one that hangs keeps
  `Shutdown` waiting, as its documentation says. None for signals, the clock, or the editing of the file.

A request may also end in `idle`: its client may give up.

## Proofs

Each theorem is about every value of its module's constants: any set of repositories, requests, sessions, digests or
tags, any bound or limit, behaviours of any length. In each module `Invariance` is `Spec => []IInv` for an inductive
invariant `IInv`, from a lemma about `Init` and one about each action; the other theorems follow from it. `RepositoryProofs` has
six: `RegistryInvariance`, `ContentInvariance`, `ResponsesInvariance`, `PagesInvariance`, `TickerInvariance` and `DirInvariance`.

| Module | Theorem | Says |
|---|---|---|
| `MemStoreProofs` | `TypeCorrect` | `[]TypeOK`; so no `wg` becomes negative, which would panic |
| | `KeeperExclusion`, `InUseStaysRegistered`, `ClosedLeavesNothing` | `[]KeeperExclusive`, `[]InUseRegistered`, `[]ClosedReleasesAll` |
| | `WaitGroupDiscipline` | `NoAddDuringWait`, an action property |
| | `ImplementsAccess` | `Spec` implements `RepoAccess!Spec` |
| `DirStoreProofs` | `TypeCorrect`, `OneObjectPerName` | `[]TypeOK`, `[]OneObject` |
| | `AddsWaitTheirTurn`, `ImplementsAccess` | the same two as for `MemStore`, after the first tick |
| `IndexMachineProofs` | `TypeCorrect`, `HistoryTracks` | `[]TypeOK`, `[]HistoryTracksTags` |
| | `IndexWellFormed` | `[]WellFormed`, if no response is a member of a pushed index |
| | `ImplementsTagStore` | `Spec` implements `TagStore!Spec` |
| `BlobUploadProofs` | `BlobsAreNamed`, `UploadsKeepOrder` | `[]StoredIsNamed`, `[]InOrder` |
| | `CreatedStored` | `CreatedIsStored`, an action property |
| `UploadsProofs` | `NoFileOrphaned` | `[]NoOrphanFile` |
| | `FilesFinal` | `FileFinal`, an action property |
| | `LimitHolds` | `[]UploadsBounded`, if the limit is not one |
| `RepositoryProofs` | `RegistryTypes` | `[]TypeOK` |
| | `PullableAlways` | `[]Pullable` |
| | `TaggedStays`, `FreshStays` | `GCKeepsTagged` and `GCKeepsFresh`, action properties, whatever the policy |
| | `CollectsOnce` | `GCIdempotent`, an action property |
| | `ResponsesAgree` | `[]ReferrersAgree` |
| | `PagesWhole` | `PagesSpec => []PagesComplete`; from `PagesRefine`, `PagesSpec => Spec`, which carries the theorems above over |
| | `GarbageGoes` | `[]OldGarbageGone`, for any grace period and skew, any leftovers, openings, prunings and restarts: in a repository that is open and not in `missed` |
| | `CopyIsCurrent`, `TagsHaveBlobs` | `[]CopyCurrent` and `[]TaggedOnDisk` over any crashes, if saves succeed |
| | `TagsDurable` | `[]Durable`, if loads succeed too |
| | `CollectionRepairs` | `GCRepairs`, an action property, if saves succeed |
| | `FallbacksConverted` | `ReferrersConverted`, an action property, if loads succeed too and no two fallback lists are for one subject |
| `ServerProofs` | `StoreOpenInUse`, `ConfCorrect`, `NoTokenForgotten` | `[]UsesOpenStore`, `[]ConfFollowsFile`, `[]TokensWatched` |
| | `StoreClosedAtExit` | `serve` does not exit before its store is closed, unless the listener failed or the context was cancelled |

### Premises

Each constant has the assumptions that a proof needs, named in the module that declares it, and TLC evaluates them in
every run: sets of threads are finite where they are counted, and `None` is none of the values it stands beside. `Collector`, for `Registry` and `DirRepo`, has two more:
no digest is both a blob's and a manifest's (`ContentType`, see *what is not modelled*), and a response of the server has a digest that no
client pushes (`DigestsDiffer`; otherwise `AddDesc` may move the entry of one to the other, as `IndexWellFormed` says of members).
Some theorems have a premise of their own: a case that the code gets wrong, or what it finds on disk, is left out:

* `~FirstTick` for `AddsWaitTheirTurn` and `ImplementsAccess` of `DirStore`, and `UploadMax # 1` for `LimitHolds`: the
  code does otherwise in these cases, as the next section says. The invariants of both
  modules are proved without them: they name the case where they need it.
* `ResponsesAreNoMembers` for `IndexWellFormed` (see *what an instance or a premise leaves out*). One entry per
  tag and one response per subject are part of `IInv` and hold without it.
* `~SaveFails` for the theorems about `DirRepo`: after a save that fails the copy in memory is ahead of index.json (next section). `TagsDurable` and
  `FallbacksConverted` have `~LoadFails` too: a call goes on when `indexLoad` fails, and then saves an index without what was in the file
  (`LoadFails = TRUE` in `DirRepo.cfg` shows it of `ReferrersConverted`). The other three hold although loads may fail at any time.
* `FoundWell` for the same five: an index.json that is there at the start is sound, its tags have their blobs, and `indexIngest` can convert its
  fallback tags as they are (a list may be empty), or none of what they list is there. `ingest_deadlock` shows what comes of a list that the server would have to write anew. A
  directory that is not there at all is found well, and so is `WithFallback` of `dir_repo`.
* `Unrivalled` for `FallbacksConverted`: of two valid lists for the same subject the second one replaces the first as the response. Both tags are client-made, so the
  store cannot rule it out; the distribution specification has clients put all referrers of a subject under one tag.

### The inductive invariants

None of the properties is inductive. What each `IInv` adds is what the code relies on silently.

**`MemStore`.**
* `OneToken`, `SomeToken`: the token of a repository is in its channel or with
  exactly one thread. Without the first two threads could hold it; without the second
  `ClosedReleasesAll` has no step.
* `OnlyCloseDrops`: before `m.stop` is closed, whoever refers to a repository
  refers to a registered one. So `RepoGetCreate`, which makes a new channel and a
  new counter, never does so for a repository in use.
* `WgCounts`: the counter is the number of requests between `Add` and `Done`. It is what
  turns `wg.Wait` returning into *nobody is there*.
* `Alone`: a keeper past `wg.Wait` stays alone, because it has the token.
* `CloseKeepsTrack`: `Close` forgets no repository it listed, and no new one comes.

The counter is an argument about cardinalities and has its own lemma
(`CountStep`: only three actions change it, each by one); everything else is
propositional (`ControlStep`).

**`DirStore`** has the same four facts about tokens and counters, per object instead of per name, and needs more, because
names and objects come apart:
* `Attached`: whoever refers to an object refers to the one in the cache; only after `Close` has begun, when no object can
  be made any more, may it be gone from there. This gives `OneObject` its step at `RepoGetCreate`.
* `Pruning`: what `pruneAge` is to drop stays in the cache meanwhile, and nobody is about to ask for it. So
  the entry may be dropped although requests may still have the name.
* `Opening`: after the first tick the ticker is at an object that is being opened only before it has asked for the token.
  It is what the first tick lacks.
* `Alone` exempts the ticker during its first tick, for the same reason.

**`IndexMachine`.** `Sound` is what `GetDesc` and `GetByAnnotation` need so that taking the first match is the same as taking
the only one: a tag is on one entry (`OneTag`), a subject has one response (`OneResponse`), no entry is both
(`OneAnnotation`), and a digest with a bare entry has no other but responses (`PlainAlone`). The last is why `Untag` and
`RmTag` may leave a bare entry behind without making a second one, and why `Place` finds the one there is.
`Recording` says that listed responses are responses; `IndexWellFormed` needs it to use its premise, and adds to `IInv`
that top level and children are apart.

The index is a list and the code's loops are folds, where induction is needed. The induction theorems of the libraries take
an operator and cannot be instantiated; `LayoutIndexProofs` states induction for a *set* of numbers instead
(`Induction`, from well-foundedness), and unrolls a fold into the sequence of states that its loop goes through (`OnlyTrace`, `MoveTrace`,
`UntagTrace`), about which one can argue by positions. From that come one lemma per operation (`UntagIs`, `PlaceIs`, `SetResponseIs`, `MovedAll`) and
per call (`AddDescIs`, `RmTagIs`, `RmDigestIs`, `RmHistoryIs`): what it does to the entries, and that what is sound stays so, for an index of
any length. The machine's proofs, refinement included, only cite these.

**`BlobUpload`.** `Holds`: what the digest writer has seen is what the buffer holds, at any time, so that `Verify` and the name of
the blob mean the content. `Exclusive`, `OwnSession`: a session that no client has been told of is used by one request, and so is any
session if clients wait; this is what makes 201 true for a mount or a POST with content among any other requests. `Pending`: what a request has
still to write follows what it has found in the session, so a check of the range stays good. `VerifiedStays`: between `Verify` and `Close`
nothing comes, for clients that wait (without that it is false, see below).

**`Uploads`.** `Made`, `BeingMade`, `Discarded`: whoever refers to a session refers to one with a file, not yet in the cache while it is being made, and
ended before its entry is dropped; they are what `NoOrphanFile` needs at the three ends of a session. `Locked`, `PrunerLocks`: which mutex protects
which of these steps. `Counting`: `pruneCount` goes through the front of the cache in order while nobody else
changes it, so that it really reaches its 90 %.

**`Registry`** has three invariants, because its properties need different clients, and each uses those before it.
* `IInv`, for all servers: `Written` says that the index is sound, that its children and its entries without a subject are manifests and that
  its other entries are responses. So the collector meets a response only as one, and a manifest only as itself.
* `PInv`: what the index knows has its blob, and so has what a handler is about to insert, though
  collections come between its requests, except for blobs that clients may delete (`Held`). If nothing is deleted by digest or pushed sparse, what is
  tagged or about to be has its config and layers, and a manifest in the store is listed unless its PUT is under way (`Whole`). The last is what the members of a
  tagged index rely on: `AddDesc` keeps a member's entry only if it finds one.
* `RInv`: under the premises of `ReferrersAgree`, a referrer in the index is in the response of its subject, except that of the one request
  under way (`Between`); what that request holds as the new response (`RequestOK`) is the old one with the manifest, or without it, so inserting it brings the two together
  again.

About the walk of the collector one lemma suffices (`WalkIs`): `Walked` contains the kept entries, is closed under
`Successors`, and is the least such set. `Walked` is a search in as many rounds as there are blobs, and `SearchIs` proves that this many
are enough: a round that adds nothing is the last, so the others add at least one blob each. Closedness gives `TaggedStays` and the steps of `PInv` and `RInv`; that it is the
least gives `CollectsOnce`: the first collection leaves the walk as it was, so the second walk reaches the same set.
The three that are action properties follow from `IInv` alone.

**`ReferrerPages`** needs one more, `LInv`. `CacheOK`: under a digest and a filter the cache has the pages of that response under it, so
which of the two a page comes from makes no difference. `Follows`: the client has got the pages before the one that its link names. A link
that is neither in the cache nor the present response is what `broken` is about; if it is the present response, its blob is there by `Held`,
since clients delete blobs of layers and manifests, not of responses. That the pages joined are the list that was to be split (`PagesAre`) is proved over
the loop of `referrerSplit` (`FillTrace`): what is set aside, followed by the page under way, are the descriptors so far that fit on a page.

**`GCTicker`.** Both parts are about repositories that are open and not in `missed`. `Marked`: an item that is garbage has a mark, at `timeMod` or to
come, that is not older than itself by more than the lag of the file's time, unless the first pass of the process has yet to look (`Awaited`), which skips
nothing. The exception is what makes it true of a process that starts over leftovers. `Passed`: what the last two passes have left is too young for them. A pass that skips a
repository relies on both: the mark is older than the previous tick's window, so the previous pass was the one to remove what is there, and it
did (lemma `SkipsYoung`). That no garbage gets into a repository without a mark, except on the ways that put it into `missed`, is what the steps of the proof show.

**`DirRepo`.** `DirIInv` relates what is in memory, what is on disk, and what `timeMod` says of the two.
* `Agree`: index.json is as `indexSave` writes it, its tags have their blobs (`Needed`), and if `timeMod` is its time the copy in memory is equal to it, `AnnotReferrerConvert`
  included. A `blank` index is empty and not taken for current. Once there is one, and while loads succeed, the two have the same entries even when `timeMod`
  was set back, which is what an answered call relies on (`HasTags`).
* `Savable`, `Loadable`: an index that is saved has no fallback tags left, unless the conversion is recorded; one that is loaded may have them, if each can be
  converted (`Settled`). `LoadIs`, `IngestIs` and `InitsAre` take one to the other for every result that the operators of the model may have.
* `RequestFits`: a push between its blob and its index entry has its manifest and its layers on disk. No collection comes between (`Phases`).
* `Phases`: from the walk to the save of a collection, nothing that a tag in index.json needs is among what is being removed, and every entry that will be
  saved has its blob. So a crash between any two removals leaves `TaggedOnDisk`, and the save establishes `GCRepairs`.

The walk is that of `Registry` and `WalkIs` serves both. `Children` is another such search, over indexes that other tools may have nested at will; of it
only that it finds finitely many digests is needed (`ChildrenAre`). The conversion is two folds over
entries, unrolled as those of the index are (`ConvertTrace`); `ResponsesMade` follows one list through them, and `FileWritten` says that the file can only have been
converted by a process that has just read it.

**`Server`.** `OneWriter`: who has `ac.mu`. `ConfCurrent`: between reads, `conf` is the version that `mod` stands for.
`JobHasTokens`: the cleanup job ends only when it has found no tokens, and none comes until it has said so. `Closing`: for each way in which
`net/http`, `Run` and the two goroutines of `serve` end, what caused it; whoever closed the store has waited for all requests.

### The invariants under TLC

`memstore` and `dir_access` check `IInv` in every run. Those of the other modules were checked once, before they were proved,
so that each is known to be neither false in an initial state nor empty. To repeat it, add `IInv` to the `INVARIANTS` of the `.cfg`:
`MCServer`, `MCBlobUpload`, `MCUploads` and `MCIndexMachine` extend the proof modules (51,488 states for `MCIndexMachine`, 381,838 for
`MCUploads`, 715,212 with `UploadMax = 1`). `RepositoryProofs` has the variables of two specifications; for `Registry`, put the definitions of its section
*the inductive invariants* into a module that extends `MCRegistry` and `LayoutIndexProofs`, and run it with `Registry.cfg` and `IInv`, `PInv` and `RInv` (480,003 states); `LInv` was checked there too, with the pages before the present one
joined by `FlattenSeq` instead of `\E j`; for `GCTicker`, the definitions
of its section into one that extends `GCTicker`, with `MaxTime = 7` (577,037 states); for `DirIInv` and `Unrivalled`, those that they are made of into one that extends `MCDirRepo`, with `DirRepo.cfg` (780,793 states). `DirStore` was also checked with
two repositories, two requests and three objects (1,304,084 states with `FirstTick`, 645,584 without).

### What is left to TLC

* Liveness, in `memstore`, `dir_access` and `server`, and what is about `ENABLED`: the proof system has no rules for fairness here.

## Where the code and its comments disagree

Three have a run that ends in the counterexample.

* **`index_lost`** (`dir.go:693`): `gc` goes on when `indexLoad` fails. If the index
  was never loaded before, the one in memory is empty, the repository is taken for empty, and index.json and
  oci-layout are removed. `IndexInsert` ignores the same error (`dir.go:299`) and
  saves an index with its own entry only.
* **`ingest_deadlock`** (`store.go:254`): a fallback tag whose list is not what the server would
  write needs a new response; `indexIngest` stores it with `BlobCreate`, which takes the `dirRepo.mu` that
  `indexLoad` holds.
* **`upload_deadlock`** (`dir.go:161`): session mutex then cache mutex in `Write`,
  `Close` and `Cancel`; cache mutex then session mutex in the pruners. `dir.go:792`
  means "to avoid circular deadlocks".

Of seven more the promise is a property at the end of its module, which no run checks; TLC finds it violated when it is added to the
`PROPERTIES` (`ReferrersListed`: the `INVARIANTS`) of the module's `.cfg`.

* `ReferrersListed` (`Registry`, with `atOnce |-> TRUE` in `Signing` of `MCRegistry`): two concurrent pushes of signatures of one image read the same old response, and the second
  insert (`referrer.go:348`) replaces the first; both are answered 201, and `referrer.go:283` is "referrerAdd adds a new referrer
  entry to a given subject".
* `MembersFound` (`Registry`): a manifest deleted by digest leaves its blob (`manifest.go:486`); an index pushed before the collector
  comes is accepted, and its member is not found by digest. The comment at `manifest.go:353` is "validate
  manifests exist".
* `PushedIsFresh` (`Registry`): a blob that is pushed again does not become young (`mem.go:380`), so the
  next collection may take it, where `config.go:68` promises "time to preserve recently
  pushed manifests and blobs".
* `VerifiedIsStored` (`BlobUpload`): `PUT` of an upload verifies and then closes it as two calls (`blob.go:546`, `556`); a PATCH in between changes what is
  stored, under its own digest, and the `PUT` is answered 201 for a blob that does not exist.
* `MarkKept` (`GCTicker`): `indexLoad` sets `timeMod` to the time of index.json whenever the two differ (`dir.go:606`), also when `timeMod` is
  the later: `dir.go:791` means to "trigger a GC". The visit itself loads the index. So with the default periods a blob that is uploaded to a
  repository whose index.json is old, and never used, is met by one pass while it is young, and by none after that until something changes.
* `ShutdownEnds` (`Server`): `Shutdown` keeps `Server.mu` while it waits for requests (`olareg.go:133-138`), and a request of a server
  with a rate limit waits for it (`olareg.go:174`): `olareg serve --rate-limit` never ends after a signal that comes just then.
* `SignalEnds` (`Server`): a signal before `Run` has set `httpServer` makes `Shutdown` fail with "server is not running" (`olareg.go:136`); the
  goroutine of `serve` then ends, and no later signal stops the server (`serve.go:188-200`).

Others were met without a property of their own; TLC shows each after the change named here:

* A repository is created with a zero `timeMod` (`dir.go:152-172`), and the first load gives it the time of an index.json that may be as old
  as it likes. Only the first pass of a process, which skips nothing, comes to such a repository. One that is first opened after it, or opened again after the cache dropped
  it, over garbage of before, is skipped by every later pass (`dir.go:244-270`) until something changes, or it is collected once more because the cache drops it (`dir.go:84-97`). A directory that
  nobody opens is in no pass at all (`dir.go:249`). No comment says that it should be. `Open` with `UNCHANGED missed`: `OldGarbageGone` fails.
* A collection that fails, for one repository, ends the pass for all, and their window is over (`dir.go:274`, `mem.go:251`). `Fail` with
  `UNCHANGED missed`: `OldGarbageGone` fails.
* Deleting one tag of a signature removes it from the response although the manifest stays
  (`manifest.go:67`). `deleteTags |-> {t1}` in `Signing`, and the last premise removed from `KeepsResponses`: `ReferrersAgree` fails.
* When the pages that a link names are gone from the cache, but another client has put those of a newer response there,
  the page number is used with the newer ones (`referrer.go:119-137`), so the reader misses a page;
  `referrer.go:96` is "only use page counter if digest matches". Without `~reader.broken`, `PagesComplete` fails for this reason among others (a reader may also be sent
  back to the first page, as intended). There too, the
  header `OCI-Filters-Applied` is missing from answers out of the cache (`referrer.go:80-95`, `119-137`).
* A `Shutdown` whose context ends first does not close the store, and cannot be called again (`olareg.go:139-142`), where
  `olareg.go:131` says that it is "used to stop the http listener and close the backend store". Without the premise on
  `setup.stops`, `StopsGracefully` fails.
* `getConf` notes the file's modification time before it opens it (`auth.go:218`), so that after an open that fails once the
  old rules stay in force until the file is written again. Without `~setup.chmod`, `ConfFollowsFile` fails.
* 90 % of an upload limit of one is zero, which is read as no limit (`cache.go:247`). `UploadMax = 1`
  in `Uploads.cfg`: `UploadsBounded` fails.
* `dir.RepoGet` publishes a new repository, with its token, before `wg.Add(1)` (`dir.go:171-182`), although `dir.go:136`
  wants no `Add` during a `Wait`. Only the first tick has a window that includes a new repository.
  `FirstTick = TRUE` in `DirStore.cfg`: `NoAddDuringWait` fails.
* A push that outlives a collection of its repository while it was still empty on disk leaves index.json without
  oci-layout (`dir.go:693-715`: `dr.exists` stays true if a blob is there). The invariant
  `file # None => layout = "valid"` in `DirRepo.cfg` fails.
* A save of index.json that fails (`dir.go:622-657`) leaves the copy in memory ahead of the file, and believed
  to be current; the next collection removes blobs by the copy, and index.json still tags them after a restart.
  `SaveFails = TRUE` in `DirRepo.cfg`: `CopyCurrent` and `TaggedOnDisk` fail.

## What is not modelled

Media type parsing; foreign layers; read-only stores; the optional directory behind
the in-memory store; the read-only GET handlers and tag lists, which keep no state; which requests the rules allow
(`checkAccess`, `groupMap`) and which the rate limit refuses: both outcomes are left open; `Server.Close` and embedding programs that call
`ServeHTTP` without `Run`; handlers of requests across a `Shutdown` that timed out beyond their use of the store; logging, templates,
versions, flags. `Collector` assumes
that no digest is used both as a manifest and as a config or layer (`ContentType`): the collector's
walk depends on its order otherwise (`store.go:460`).

## Plan

Done: the access protocols of both stores and their contract, the index and its contract, the
collector and when it runs, the manifest, blob and referrers APIs, upload sessions, the directory with its crashes, the
server's life and its access control. Left, in this order:

1. **Proofs**. Done: every safety property that a passing run checks, under the premises above; both refinements of `RepoAccess` and that of `TagStore`.
   Next: the collector's walk for digests of both types (with 2).
2. **Collector without `ContentType`**, and pushes of referrers in `DirRepo`.
3. **Rules**: `checkAccess` and `groupMap` against a reference definition.
