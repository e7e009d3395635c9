------------------------------ MODULE DirStore ------------------------------
(***************************************************************************)
(* The access protocol of the directory store, internal/store/dir.go. Its  *)
(* repositories are objects in a cache, internal/cache/cache.go, that drops *)
(* those nobody asked for lately, after a collection; the next RepoGet     *)
(* makes a new object for the same directory, with a token and a WaitGroup *)
(* of its own. So, unlike in MemStore, a name may stand for two objects.   *)
(*                                                                         *)
(* Two mutexes are held while their holder blocks, and are variables:      *)
(*   dMu      dir.mu, by RepoGet and all through Close                     *)
(*   cacheMu  Cache.mu of dir.repos, by pruneAge, which collects under it  *)
(***************************************************************************)
EXTENDS Naturals, FiniteSets

CONSTANTS
  Repos,       \* repository names
  Handlers,    \* request goroutines; each may serve any number of requests
  None,
  MaxObjects,  \* bound: how many objects there are at a time
  FirstTick    \* the GC ticker may not have ticked yet

Keepers == {"ticker", "prune", "close"}
Threads == Handlers \union Keepers
Objects == 1..MaxObjects

ASSUME HandlersFinite == IsFiniteSet(Handlers)
ASSUME BoundType == MaxObjects \in Nat /\ FirstTick \in BOOLEAN
ASSUME Distinct  ==
  /\ Handlers \cap Keepers = {}
  /\ None \notin Threads /\ None \notin Repos /\ None \notin Objects

VARIABLES
  stop,      \* d.stop was closed
  first,     \* prev of gcTicker is zero
  dMu, cacheMu,
  cached,    \* the object the cache has for each name
  of,        \* the name each object was made for
  wgBlock, wg,   \* its token is in the channel, and its counter
  pc, at,    \* each thread's next step, and the object it refers to
  want,      \* the name each handler asked for
  todo       \* what is left of each keeper's list of names

storeVars == <<stop, first>>
locks     == <<dMu, cacheMu>>
objects   == <<cached, of>>
access    == <<wgBlock, wg>>
ctl       == <<pc, at>>
vars      == <<stop, first, dMu, cacheMu, cached, of, wgBlock, wg, pc, at, want, todo>>

Init ==
  /\ stop = FALSE /\ first = FirstTick
  /\ dMu = None /\ cacheMu = None
  /\ cached = [r \in Repos |-> None] /\ of = [o \in Objects |-> None]
  /\ wgBlock = [o \in Objects |-> FALSE] /\ wg = [o \in Objects |-> 0]
  /\ pc = [t \in Threads |->
             CASE t = "ticker" -> "ticker" [] t = "prune" -> "rest"
               [] t = "close" -> "running" [] OTHER -> "idle"]
  /\ at = [t \in Threads |-> None]
  /\ want = [h \in Handlers |-> None]
  /\ todo = [k \in Keepers |-> {}]

-----------------------------------------------------------------------------
Go(t, label)      == pc' = [pc EXCEPT ![t] = label] /\ UNCHANGED at
Take(t, o, label) == pc' = [pc EXCEPT ![t] = label] /\ at' = [at EXCEPT ![t] = o]
Drop(t, label)    == Take(t, None, label)

\* Mutant: the token is looked at, not taken.
PeekToken(o) == wgBlock[o] /\ UNCHANGED wgBlock
TakeToken(o) == wgBlock[o] /\ wgBlock' = [wgBlock EXCEPT ![o] = FALSE]
PutToken(o)  == wgBlock' = [wgBlock EXCEPT ![o] = TRUE]

\* Mutant: no wg.Wait before a keeper goes to work.
NoDrain(o) == TRUE
Drained(o) == wg[o] = 0

\* Go frees an object that nothing refers to. The least free one is used next.
Free(o)   == (\A r \in Repos : cached[r] # o) /\ (\A t \in Threads : at[t] # o)
Fresh(o)  == Free(o) /\ \A p \in 1..(o - 1) : ~Free(p)

-----------------------------------------------------------------------------
(* RepoGet and Done *)

RepoGetLock(h, r) ==
  /\ pc[h] = "idle" /\ ~stop
  /\ dMu = None /\ dMu' = h
  /\ Go(h, "lookup") /\ want' = [want EXCEPT ![h] = r]
  /\ UNCHANGED <<storeVars, cacheMu, objects, access, todo>>

\* Mutant: RepoGet waits for the token with d.mu.
LookupKeepsMu(h) ==
  /\ pc[h] = "lookup" /\ cacheMu = None
  /\ LET o == cached[want[h]]
     IN  IF o = None THEN Go(h, "create") /\ UNCHANGED want
         ELSE Take(h, o, "waiting") /\ want' = [want EXCEPT ![h] = None]
  /\ UNCHANGED <<storeVars, locks, objects, access, todo>>

\* d.repos.Get: the object is there, and d.mu is unlocked to wait for its token;
\* or RepoGet goes on with d.mu.
RepoGetLookup(h) ==
  /\ pc[h] = "lookup" /\ cacheMu = None
  /\ LET o == cached[want[h]]
     IN  IF o = None
         THEN Go(h, "create") /\ UNCHANGED <<dMu, want>>
         ELSE /\ dMu' = None /\ Take(h, o, "waiting")
              /\ want' = [want EXCEPT ![h] = None]
  /\ UNCHANGED <<storeVars, cacheMu, objects, access, todo>>

\* The new object, with its token, is in the cache before it is open.
RepoGetCreate(h, o) ==
  /\ pc[h] = "create" /\ cacheMu = None
  /\ Fresh(o)
  /\ cached' = [cached EXCEPT ![want[h]] = o] /\ of' = [of EXCEPT ![o] = want[h]]
  /\ PutToken(o) /\ wg' = [wg EXCEPT ![o] = 0]
  /\ Take(h, o, "opening") /\ want' = [want EXCEPT ![h] = None]
  /\ UNCHANGED <<storeVars, locks, todo>>

\* What is on disk is looked at; then wg.Add(1), without the token.
RepoGetOpen(h) ==
  /\ pc[h] = "opening"
  /\ wg' = [wg EXCEPT ![at[h]] = @ + 1]
  /\ dMu' = None
  /\ Go(h, "active")
  /\ UNCHANGED <<storeVars, cacheMu, objects, wgBlock, want, todo>>

RepoGetCancel(h) ==
  /\ pc[h] = "waiting"
  /\ Drop(h, "idle")
  /\ UNCHANGED <<storeVars, locks, objects, access, want, todo>>

RepoGetTakeToken(h) ==
  /\ pc[h] = "waiting"
  /\ TakeToken(at[h])
  /\ Go(h, "adding")
  /\ UNCHANGED <<storeVars, locks, objects, wg, want, todo>>

RepoGetAdd(h) ==
  /\ pc[h] = "adding"
  /\ wg' = [wg EXCEPT ![at[h]] = @ + 1]
  /\ Go(h, "returning")
  /\ UNCHANGED <<storeVars, locks, objects, wgBlock, want, todo>>

RepoGetPutToken(h) ==
  /\ pc[h] = "returning"
  /\ PutToken(at[h])
  /\ Go(h, "active")
  /\ UNCHANGED <<storeVars, locks, objects, wg, want, todo>>

\* Mutant: Done is called twice.
DoneTwice(h) ==
  /\ pc[h] = "active"
  /\ wg' = [wg EXCEPT ![at[h]] = @ - 2]
  /\ Drop(h, "idle")
  /\ UNCHANGED <<storeVars, locks, objects, wgBlock, want, todo>>

Done(h) ==
  /\ pc[h] = "active"
  /\ wg' = [wg EXCEPT ![at[h]] = @ - 1]
  /\ Drop(h, "idle")
  /\ UNCHANGED <<storeVars, locks, objects, wgBlock, want, todo>>

-----------------------------------------------------------------------------
(* dirRepo.gc, called by the ticker, by pruneAge and by Close *)

GCTakeToken(k) ==
  /\ pc[k] = "block"
  /\ TakeToken(at[k])
  /\ Go(k, "wait")
  /\ UNCHANGED <<storeVars, locks, objects, wg, want, todo>>

GCWait(k) ==
  /\ pc[k] = "wait"
  /\ Drained(at[k])
  /\ Go(k, "collect")
  /\ UNCHANGED <<storeVars, locks, objects, access, want, todo>>

-----------------------------------------------------------------------------
(* The ticker: dir.gcTicker and dir.gc *)

Tick ==
  /\ pc["ticker"] = "ticker" /\ cacheMu = None
  /\ Go("ticker", "scan")
  /\ todo' = [todo EXCEPT !["ticker"] = {r \in Repos : cached[r] # None}]
  /\ UNCHANGED <<storeVars, locks, objects, access, want>>

TickerStop ==
  /\ pc["ticker"] = "ticker" /\ stop
  /\ Go("ticker", "exited")
  /\ UNCHANGED <<storeVars, locks, objects, access, want, todo>>

GCReturn ==
  /\ pc["ticker"] = "scan"
  /\ stop \/ todo["ticker"] = {}
  /\ first' = FALSE
  /\ Go("ticker", "ticker")
  /\ todo' = [todo EXCEPT !["ticker"] = {}]
  /\ UNCHANGED <<stop, locks, objects, access, want>>

\* Get of the next name; one that was dropped meanwhile is passed over.
GCNext(r) ==
  /\ pc["ticker"] = "scan" /\ ~stop /\ cacheMu = None
  /\ r \in todo["ticker"]
  /\ todo' = [todo EXCEPT !["ticker"] = @ \ {r}]
  /\ IF cached[r] = None THEN UNCHANGED ctl ELSE Take("ticker", cached[r], "visit")
  /\ UNCHANGED <<storeVars, locks, objects, access, want>>

\* timeMod is out of the tick's window.
GCSkip ==
  /\ pc["ticker"] = "visit"
  /\ Drop("ticker", "scan")
  /\ UNCHANGED <<storeVars, locks, objects, access, want, todo>>

\* timeMod is in the window. An object has none, which only the first window
\* includes, until a request that RepoGet handed it to has loaded its index.
GCVisit ==
  /\ pc["ticker"] = "visit"
  /\ first \/ \A h \in Handlers : pc[h] = "opening" => at[h] # at["ticker"]
  /\ Go("ticker", "block")
  /\ UNCHANGED <<storeVars, locks, objects, access, want, todo>>

\* An error, such as that of a repository that is not on disk, ends the tick.
GCCollected ==
  /\ pc["ticker"] = "collect"
  /\ PutToken(at["ticker"])
  /\ \/ Drop("ticker", "scan") /\ UNCHANGED <<first, todo>>
     \/ /\ Drop("ticker", "ticker") /\ first' = FALSE
        /\ todo' = [todo EXCEPT !["ticker"] = {}]
  /\ UNCHANGED <<stop, locks, objects, wg, want>>

-----------------------------------------------------------------------------
(* pruneAge of the cache, which holds cacheMu from beginning to end *)

\* What nobody asked for during a grace period. A thread that is still to get the
\* token asked later than that: waiting for a token takes less than the grace
\* period, and so do the two file reads between "create" and "opening".
Expired(r) ==
  /\ cached[r] # None
  /\ \A t \in Threads \ {"prune"} :
       at[t] = cached[r] => pc[t] \notin {"waiting", "opening", "visit", "block", "drain"}

PruneAge ==
  /\ pc["prune"] = "rest" /\ cacheMu = None
  /\ cacheMu' = "prune"
  /\ \E old \in (SUBSET {r \in Repos : Expired(r)}) \ {{}} : todo' = [todo EXCEPT !["prune"] = old]
  /\ Go("prune", "next")
  /\ UNCHANGED <<storeVars, dMu, objects, access, want>>

\* Mutant: the name is dropped before its repository has been collected.
PruneEarly(r) ==
  /\ pc["prune"] = "next"
  /\ r \in todo["prune"]
  /\ todo' = [todo EXCEPT !["prune"] = @ \ {r}]
  /\ Take("prune", cached[r], "block")
  /\ cached' = [cached EXCEPT ![r] = None] /\ cacheMu' = None
  /\ UNCHANGED <<storeVars, dMu, of, access, want>>

\* PruneFn: an error if uploads are in progress, and the repository stays; else gc.
PruneNext(r) ==
  /\ pc["prune"] = "next"
  /\ r \in todo["prune"]
  /\ todo' = [todo EXCEPT !["prune"] = @ \ {r}]
  /\ UNCHANGED ctl \/ Take("prune", cached[r], "block")
  /\ UNCHANGED <<storeVars, locks, objects, access, want>>

\* gc returns: the repository is dropped, unless there was an error.
PruneCollected ==
  /\ pc["prune"] = "collect"
  /\ PutToken(at["prune"])
  /\ cached' = [cached EXCEPT ![of[at["prune"]]] = None] \/ UNCHANGED cached
  /\ Drop("prune", "next")
  /\ UNCHANGED <<storeVars, locks, of, wg, want, todo>>

PruneReturn ==
  /\ pc["prune"] = "next" /\ todo["prune"] = {}
  /\ cacheMu' = None
  /\ Go("prune", "rest")
  /\ UNCHANGED <<storeVars, dMu, objects, access, want, todo>>

-----------------------------------------------------------------------------
(* Close, which holds d.mu from the list of names to the end *)

CloseStop ==
  /\ pc["close"] = "running"
  /\ stop' = TRUE
  /\ Go("close", "list")
  /\ UNCHANGED <<first, locks, objects, access, want, todo>>

CloseList ==
  /\ pc["close"] = "list"
  /\ dMu = None /\ dMu' = "close" /\ cacheMu = None
  /\ todo' = [todo EXCEPT !["close"] = {r \in Repos : cached[r] # None}]
  /\ Go("close", "next")
  /\ UNCHANGED <<storeVars, cacheMu, objects, access, want>>

\* A name that was dropped meanwhile is an error to report, and passed over.
CloseNext(r) ==
  /\ pc["close"] = "next" /\ cacheMu = None
  /\ r \in todo["close"]
  /\ todo' = [todo EXCEPT !["close"] = @ \ {r}]
  /\ IF cached[r] = None THEN UNCHANGED ctl ELSE Take("close", cached[r], "drain")
  /\ UNCHANGED <<storeVars, locks, objects, access, want>>

CloseTakeToken ==
  /\ pc["close"] = "drain"
  /\ TakeToken(at["close"])
  /\ Go("close", "draining")
  /\ UNCHANGED <<storeVars, locks, objects, wg, want, todo>>

CloseWait ==
  /\ pc["close"] = "draining"
  /\ Drained(at["close"])
  /\ Go("close", "cancel")
  /\ UNCHANGED <<storeVars, locks, objects, access, want, todo>>

\* The uploads are cancelled and the token goes back; then d.repos.Delete.
CloseCancel ==
  /\ pc["close"] = "cancel"
  /\ PutToken(at["close"])
  /\ Go("close", "delete")
  /\ UNCHANGED <<storeVars, locks, objects, wg, want, todo>>

\* Delete looks the name up and runs PruneFn without cacheMu. It is an error if a
\* late request left an upload in progress.
CloseDelete ==
  /\ pc["close"] = "delete" /\ cacheMu = None
  /\ \/ cached[of[at["close"]]] = at["close"] /\ Go("close", "block")
     \/ Drop("close", "next")
  /\ UNCHANGED <<storeVars, locks, objects, access, want, todo>>

\* gc returns, and Delete locks the cache again; an error leaves the entry.
CloseCollected ==
  /\ pc["close"] = "collect"
  /\ PutToken(at["close"])
  /\ Go("close", "deleted")
  /\ UNCHANGED <<storeVars, locks, objects, wg, want, todo>>

CloseDeleted ==
  /\ pc["close"] = "deleted" /\ cacheMu = None
  /\ cached' = [cached EXCEPT ![of[at["close"]]] = None] \/ UNCHANGED cached
  /\ Drop("close", "next")
  /\ UNCHANGED <<storeVars, locks, of, access, want, todo>>

CloseUnlock ==
  /\ pc["close"] = "next" /\ todo["close"] = {}
  /\ dMu' = None
  /\ Go("close", "join")
  /\ UNCHANGED <<storeVars, cacheMu, objects, access, want, todo>>

TickerReturned == pc["ticker"] = "exited"
CloseReturn ==
  /\ pc["close"] = "join" /\ TickerReturned
  /\ Go("close", "closed")
  /\ UNCHANGED <<storeVars, locks, objects, access, want, todo>>

-----------------------------------------------------------------------------
\* Nothing is left to do: Close returned, the timer does nothing more, and no
\* request is in flight.
Terminated ==
  /\ pc["close"] = "closed" /\ pc["prune"] = "rest"
  /\ \A h \in Handlers : pc[h] = "idle"
  /\ UNCHANGED vars

Request(h) ==
  \/ \E r \in Repos : RepoGetLock(h, r)
  \/ RepoGetLookup(h) \/ RepoGetOpen(h)
  \/ \E o \in Objects : RepoGetCreate(h, o)
  \/ RepoGetCancel(h)
  \/ RepoGetTakeToken(h) \/ RepoGetAdd(h) \/ RepoGetPutToken(h)
  \/ Done(h)

GC ==
  \/ Tick \/ TickerStop \/ GCReturn
  \/ \E r \in Repos : GCNext(r)
  \/ GCSkip \/ GCVisit \/ GCTakeToken("ticker") \/ GCWait("ticker") \/ GCCollected

PruneSteps ==
  \/ \E r \in Repos : PruneNext(r)
  \/ GCTakeToken("prune") \/ GCWait("prune") \/ PruneCollected \/ PruneReturn

CloseSteps ==
  \/ CloseList
  \/ \E r \in Repos : CloseNext(r)
  \/ CloseTakeToken \/ CloseWait \/ CloseCancel
  \/ CloseDelete \/ GCTakeToken("close") \/ GCWait("close")
  \/ CloseCollected \/ CloseDeleted
  \/ CloseUnlock \/ CloseReturn

Next ==
  \/ \E h \in Handlers : Request(h)
  \/ GC
  \/ PruneAge \/ PruneSteps
  \/ CloseStop \/ CloseSteps
  \/ Terminated

(***************************************************************************)
(* Fairness. Goroutines that can run do run, and handlers reach Done. A    *)
(* channel serves its receivers in the order of arrival, and a sync.Mutex  *)
(* hands itself to a waiter that it has kept for long: SF for the tokens   *)
(* and for the steps that need d.mu or the cache's mutex (a thread is at    *)
(* one of them at a time). The ticker's select picks at random among ready *)
(* cases: SF for TickerStop.                                               *)
(***************************************************************************)
RepoGetBlocked(h) ==
  RepoGetLookup(h) \/ (\E o \in Objects : RepoGetCreate(h, o)) \/ RepoGetTakeToken(h)

CloseBlocked ==
  \/ CloseList \/ (\E r \in Repos : CloseNext(r)) \/ CloseTakeToken
  \/ CloseDelete \/ GCTakeToken("close") \/ CloseDeleted

Fairness ==
  /\ \A h \in Handlers :
       /\ SF_vars(RepoGetBlocked(h))
       /\ WF_vars(RepoGetOpen(h) \/ RepoGetAdd(h) \/ RepoGetPutToken(h) \/ Done(h))
  /\ SF_vars(TickerStop) /\ SF_vars(GCTakeToken("ticker")) /\ WF_vars(GC)
  /\ SF_vars(GCTakeToken("prune")) /\ WF_vars(PruneSteps)
  /\ SF_vars(CloseBlocked) /\ WF_vars(CloseSteps)

Spec == Init /\ [][Next]_vars
FairSpec == Spec /\ Fairness

-----------------------------------------------------------------------------
(* Properties *)

\* Types. The counter would panic below zero.
TypeOK ==
  /\ stop \in BOOLEAN /\ first \in BOOLEAN
  /\ dMu \in Handlers \union {"close", None} /\ cacheMu \in {"prune", None}
  /\ cached \in [Repos -> Objects \union {None}]
  /\ of \in [Objects -> Repos \union {None}]
  /\ wgBlock \in [Objects -> BOOLEAN] /\ wg \in [Objects -> Nat]
  /\ at \in [Threads -> Objects \union {None}]
  /\ want \in [Handlers -> Repos \union {None}]
  /\ todo \in [Keepers -> SUBSET Repos]

Works(k, o) == at[k] = o /\ pc[k] \in {"collect", "cancel"}
Users(o)    == {h \in Handlers : at[h] = o /\ pc[h] \in {"returning", "active"}}

\* One object for one directory: whoever has a repository open, or waits for it,
\* shares its mutex and its copy of the index with everyone else at that name.
\* pruneAge must not drop what somebody has found.
OneObject ==
  \A t, u \in Threads : at[t] # None /\ at[u] # None /\ of[at[t]] = of[at[u]] => at[t] = at[u]

\* wg.Add never happens while a keeper is inside wg.Wait (dir.go:136 "wgBlock
\* prevents adding to the WG while a wg.Wait is running").
NoAddDuringWait ==
  [][\A k \in Keepers : pc[k] \in {"wait", "draining"} => wg'[at[k]] <= wg[at[k]]]_vars

\* Close returns though it holds d.mu while it waits for requests, for collections
\* and for the cache that pruneAge holds while it waits for requests; and a request
\* gets through d.mu, the cache and the channel.
NobodyStarves ==
  /\ stop ~> pc["close"] = "closed"
  /\ \A h \in Handlers : pc[h] \in {"lookup", "create", "waiting"} ~> pc[h] \in {"active", "idle"}

\* The cache, its objects and their locks amount to the contract of RepoAccess for
\* the names: a request that RepoGet has handed a repository works on it without
\* any keeper, and a keeper without another (dir.go:136 "GC blocks new requests").
Access == INSTANCE RepoAccess WITH
  users <- [r \in Repos |-> UNION {Users(o) : o \in {p \in Objects : of[p] = r}}],
  owner <- [r \in Repos |-> {k \in Keepers : \E o \in Objects : of[o] = r /\ Works(k, o)}]
AccessSpec == Access!Spec
=============================================================================
