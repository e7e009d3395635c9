------------------------------ MODULE MemStore ------------------------------
(***************************************************************************)
(* The access protocol of the in-memory store, internal/store/mem.go: the  *)
(* goroutines that serve requests (RepoGet ... Done), the GC ticker and    *)
(* Close. Every repository has a one-slot channel wgBlock that holds a     *)
(* token, and a WaitGroup wg that counts the requests that have the        *)
(* repository open. A request takes the token only to add itself to wg;    *)
(* the collector and Close keep the token while they wait for wg to drain  *)
(* and while they work.                                                    *)
(*                                                                         *)
(* m.mu is not a variable: no section of the code blocks while it holds    *)
(* m.mu, so each section is one atomic step. What the requests do with the *)
(* repository, and what the collector deletes, is in module Registry.      *)
(***************************************************************************)
EXTENDS Naturals, FiniteSets

CONSTANTS
  Repos,       \* repository names
  Handlers,    \* request goroutines; each may serve any number of requests
  NoRepo       \* a handler or keeper that refers to no repository

ASSUME HandlersFinite == IsFiniteSet(Handlers)
ASSUME NoRepoFresh == NoRepo \notin Repos

Keepers == {"gc", "close"}

VARIABLES
  stop,        \* m.stop was closed
  registered,  \* the keys of m.repos
  wgBlock,     \* the repository's channel holds its token
  wg,          \* the repository's WaitGroup counter
  pc,          \* where each handler is in RepoGet, or "idle"
  repo,        \* the repository the handler asked for
  kpc,         \* where the collector and Close are
  krepo,       \* the repository they are at
  todo         \* what is left of their repoNames

storeVars  == <<stop, registered>>
accessVars == <<wgBlock, wg>>
reqVars    == <<pc, repo>>
keeperVars == <<kpc, krepo, todo>>
vars == <<stop, registered, wgBlock, wg, pc, repo, kpc, krepo, todo>>

HandlerPC == {"idle", "waiting", "adding", "returning", "active"}
GCPC      == {"ticker", "scan", "visit", "block", "wait", "collect", "exited"}
ClosePC   == {"running", "list", "next", "block", "wait", "release", "delete",
              "join", "closed"}

TypeOK ==
  /\ stop \in BOOLEAN
  /\ registered \in SUBSET Repos
  /\ wgBlock \in [Repos -> BOOLEAN]
  /\ wg \in [Repos -> Nat]
  /\ pc \in [Handlers -> HandlerPC]
  /\ repo \in [Handlers -> Repos \union {NoRepo}]
  /\ kpc \in [Keepers -> GCPC \union ClosePC]
  /\ kpc["gc"] \in GCPC /\ kpc["close"] \in ClosePC
  /\ krepo \in [Keepers -> Repos \union {NoRepo}]
  /\ todo \in [Keepers -> SUBSET Repos]

\* A read-only store, or one with GC disabled, starts no ticker.
Init ==
  /\ stop = FALSE
  /\ registered = {}
  /\ wgBlock = [r \in Repos |-> FALSE]
  /\ wg = [r \in Repos |-> 0]
  /\ pc = [h \in Handlers |-> "idle"]
  /\ repo = [h \in Handlers |-> NoRepo]
  /\ \E ticker \in {"ticker", "exited"} :
       kpc = [k \in Keepers |-> IF k = "gc" THEN ticker ELSE "running"]
  /\ krepo = [k \in Keepers |-> NoRepo]
  /\ todo = [k \in Keepers |-> {}]

-----------------------------------------------------------------------------
(* The channel and the two WaitGroups. An operator whose comment starts with *)
(* "Mutant" is a plausible mistake in the definition after it; the model     *)
(* does not use it.                                                          *)

\* Mutant: looking at the token without receiving it.
PeekToken(r) == wgBlock[r] /\ UNCHANGED wgBlock
TakeToken(r) == wgBlock[r] /\ wgBlock' = [wgBlock EXCEPT ![r] = FALSE]

\* Mutant: the early return that forgets the send.
LoseToken(r) == UNCHANGED wgBlock
PutToken(r)  == wgBlock' = [wgBlock EXCEPT ![r] = TRUE]

\* Mutant: RepoGet of a known repository forgets wg.Add(1).
AddNone(r)   == UNCHANGED wg
Add(r)       == wg' = [wg EXCEPT ![r] = @ + 1]

\* Mutant: no wg.Wait before the collector or Close goes to work.
NoDrain(r)   == TRUE
Drained(r)   == wg[r] = 0

\* Mutant: Close does not join the background goroutine.
NoJoin         == TRUE
TickerReturned == kpc["gc"] = "exited"

-----------------------------------------------------------------------------
(* Requests *)

\* RepoGet of a repository nobody asked for before. The whole construction,
\* with wg.Add(1) before the repository is published, is one section of m.mu.
\* A repoInit that fails returns before it changes anything and is not a step.
RepoGetCreate(h, r) ==
  /\ pc[h] = "idle"
  /\ ~stop
  /\ r \notin registered
  /\ wgBlock' = [wgBlock EXCEPT ![r] = TRUE]
  /\ wg' = [wg EXCEPT ![r] = 1]
  /\ registered' = registered \union {r}
  /\ pc' = [pc EXCEPT ![h] = "active"]
  /\ repo' = [repo EXCEPT ![h] = r]
  /\ UNCHANGED <<stop, keeperVars>>

\* RepoGet finds the repository and goes on to its channel, without m.mu.
RepoGetFound(h, r) ==
  /\ pc[h] = "idle"
  /\ ~stop
  /\ r \in registered
  /\ pc' = [pc EXCEPT ![h] = "waiting"]
  /\ repo' = [repo EXCEPT ![h] = r]
  /\ UNCHANGED <<storeVars, accessVars, keeperVars>>

\* The client went away while the request waited for the token.
RepoGetCancel(h) ==
  /\ pc[h] = "waiting"
  /\ pc' = [pc EXCEPT ![h] = "idle"]
  /\ repo' = [repo EXCEPT ![h] = NoRepo]
  /\ UNCHANGED <<storeVars, accessVars, keeperVars>>

RepoGetTakeToken(h) ==
  /\ pc[h] = "waiting"
  /\ TakeToken(repo[h])
  /\ pc' = [pc EXCEPT ![h] = "adding"]
  /\ UNCHANGED <<storeVars, wg, repo, keeperVars>>

RepoGetAdd(h) ==
  /\ pc[h] = "adding"
  /\ Add(repo[h])
  /\ pc' = [pc EXCEPT ![h] = "returning"]
  /\ UNCHANGED <<storeVars, wgBlock, repo, keeperVars>>

RepoGetPutToken(h) ==
  /\ pc[h] = "returning"
  /\ PutToken(repo[h])
  /\ pc' = [pc EXCEPT ![h] = "active"]
  /\ UNCHANGED <<storeVars, wg, repo, keeperVars>>

\* The deferred repo.Done() of every handler.
Done(h) ==
  /\ pc[h] = "active"
  /\ wg' = [wg EXCEPT ![repo[h]] = @ - 1]
  /\ pc' = [pc EXCEPT ![h] = "idle"]
  /\ repo' = [repo EXCEPT ![h] = NoRepo]
  /\ UNCHANGED <<storeVars, wgBlock, keeperVars>>

-----------------------------------------------------------------------------
(* The garbage collector's goroutine *)

\* A tick starts a GC over the repositories known now.
Tick ==
  /\ kpc["gc"] = "ticker"
  /\ kpc' = [kpc EXCEPT !["gc"] = "scan"]
  /\ todo' = [todo EXCEPT !["gc"] = registered]
  /\ UNCHANGED <<storeVars, accessVars, reqVars, krepo>>

TickerStop ==
  /\ kpc["gc"] = "ticker"
  /\ stop
  /\ kpc' = [kpc EXCEPT !["gc"] = "exited"]
  /\ UNCHANGED <<storeVars, accessVars, reqVars, krepo, todo>>

\* The end of the list, or the stop signal: back to the ticker.
GCReturn ==
  /\ kpc["gc"] = "scan"
  /\ stop \/ todo["gc"] = {}
  /\ kpc' = [kpc EXCEPT !["gc"] = "ticker"]
  /\ todo' = [todo EXCEPT !["gc"] = {}]
  /\ UNCHANGED <<storeVars, accessVars, reqVars, krepo>>

\* The next name, in the arbitrary order of a Go map; stop was not closed yet.
GCNext(r) ==
  /\ kpc["gc"] = "scan"
  /\ ~stop
  /\ r \in todo["gc"]
  /\ kpc' = [kpc EXCEPT !["gc"] = "visit"]
  /\ krepo' = [krepo EXCEPT !["gc"] = r]
  /\ todo' = [todo EXCEPT !["gc"] = @ \ {r}]
  /\ UNCHANGED <<storeVars, accessVars, reqVars>>

\* The name is gone from m.repos, or was not modified since the last GC.
GCSkip ==
  /\ kpc["gc"] = "visit"
  /\ kpc' = [kpc EXCEPT !["gc"] = "scan"]
  /\ krepo' = [krepo EXCEPT !["gc"] = NoRepo]
  /\ UNCHANGED <<storeVars, accessVars, reqVars, todo>>

GCVisit ==
  /\ kpc["gc"] = "visit"
  /\ krepo["gc"] \in registered
  /\ kpc' = [kpc EXCEPT !["gc"] = "block"]
  /\ UNCHANGED <<storeVars, accessVars, reqVars, krepo, todo>>

\* Mutant: the collector tries for a moment without requests instead of
\* blocking new ones first.
GCTryToken ==
  /\ kpc["gc"] = "block"
  /\ wgBlock[krepo["gc"]] /\ wg[krepo["gc"]] = 0
  /\ wgBlock' = [wgBlock EXCEPT ![krepo["gc"]] = FALSE]
  /\ kpc' = [kpc EXCEPT !["gc"] = "wait"]
  /\ UNCHANGED <<storeVars, wg, reqVars, krepo, todo>>

\* memRepo.gc takes the token, then waits for the requests in progress.
GCTakeToken ==
  /\ kpc["gc"] = "block"
  /\ TakeToken(krepo["gc"])
  /\ kpc' = [kpc EXCEPT !["gc"] = "wait"]
  /\ UNCHANGED <<storeVars, wg, reqVars, krepo, todo>>

GCWait ==
  /\ kpc["gc"] = "wait"
  /\ Drained(krepo["gc"])
  /\ kpc' = [kpc EXCEPT !["gc"] = "collect"]
  /\ UNCHANGED <<storeVars, accessVars, reqVars, krepo, todo>>

\* memRepo.gc returns: the deferred send puts the token back, and an error
\* ends the whole GC with the rest of the list unvisited.
GCPutToken ==
  /\ kpc["gc"] = "collect"
  /\ PutToken(krepo["gc"])
  /\ krepo' = [krepo EXCEPT !["gc"] = NoRepo]
  /\ \/ kpc' = [kpc EXCEPT !["gc"] = "scan"] /\ UNCHANGED todo
     \/ /\ kpc' = [kpc EXCEPT !["gc"] = "ticker"]
        /\ todo' = [todo EXCEPT !["gc"] = {}]
  /\ UNCHANGED <<storeVars, wg, reqVars>>

-----------------------------------------------------------------------------
(* Close *)

\* Mutant: Close starts without closing m.stop.
CloseQuietly ==
  /\ kpc["close"] = "running"
  /\ kpc' = [kpc EXCEPT !["close"] = "list"]
  /\ UNCHANGED <<storeVars, accessVars, reqVars, krepo, todo>>

CloseStop ==
  /\ kpc["close"] = "running"
  /\ stop' = TRUE
  /\ kpc' = [kpc EXCEPT !["close"] = "list"]
  /\ UNCHANGED <<registered, accessVars, reqVars, krepo, todo>>

CloseList ==
  /\ kpc["close"] = "list"
  /\ kpc' = [kpc EXCEPT !["close"] = "next"]
  /\ todo' = [todo EXCEPT !["close"] = registered]
  /\ UNCHANGED <<storeVars, accessVars, reqVars, krepo>>

\* The next name still in m.repos; the others are passed over.
CloseNext(r) ==
  /\ kpc["close"] = "next"
  /\ r \in todo["close"]
  /\ todo' = [todo EXCEPT !["close"] = @ \ {r}]
  /\ IF r \in registered
     THEN /\ kpc' = [kpc EXCEPT !["close"] = "block"]
          /\ krepo' = [krepo EXCEPT !["close"] = r]
     ELSE UNCHANGED <<kpc, krepo>>
  /\ UNCHANGED <<storeVars, accessVars, reqVars>>

CloseTakeToken ==
  /\ kpc["close"] = "block"
  /\ TakeToken(krepo["close"])
  /\ kpc' = [kpc EXCEPT !["close"] = "wait"]
  /\ UNCHANGED <<storeVars, wg, reqVars, krepo, todo>>

\* wg.Wait returns; until the token is back Close cancels the uploads.
CloseWait ==
  /\ kpc["close"] = "wait"
  /\ Drained(krepo["close"])
  /\ kpc' = [kpc EXCEPT !["close"] = "release"]
  /\ UNCHANGED <<storeVars, accessVars, reqVars, krepo, todo>>

ClosePutToken ==
  /\ kpc["close"] = "release"
  /\ PutToken(krepo["close"])
  /\ kpc' = [kpc EXCEPT !["close"] = "delete"]
  /\ UNCHANGED <<storeVars, wg, reqVars, krepo, todo>>

CloseDelete ==
  /\ kpc["close"] = "delete"
  /\ registered' = registered \ {krepo["close"]}
  /\ kpc' = [kpc EXCEPT !["close"] = "next"]
  /\ krepo' = [krepo EXCEPT !["close"] = NoRepo]
  /\ UNCHANGED <<stop, accessVars, reqVars, todo>>

CloseUnlock ==
  /\ kpc["close"] = "next"
  /\ todo["close"] = {}
  /\ kpc' = [kpc EXCEPT !["close"] = "join"]
  /\ UNCHANGED <<storeVars, accessVars, reqVars, krepo, todo>>

\* m.wg.Wait: the ticker's goroutine has returned.
CloseReturn ==
  /\ kpc["close"] = "join"
  /\ TickerReturned
  /\ kpc' = [kpc EXCEPT !["close"] = "closed"]
  /\ UNCHANGED <<storeVars, accessVars, reqVars, krepo, todo>>

-----------------------------------------------------------------------------
\* Nothing is left to do: Close returned and no request is in flight.
Terminated ==
  /\ kpc["close"] = "closed"
  /\ \A h \in Handlers : pc[h] = "idle"
  /\ UNCHANGED vars

Request(h) ==
  \/ \E r \in Repos : RepoGetCreate(h, r) \/ RepoGetFound(h, r)
  \/ RepoGetCancel(h)
  \/ RepoGetTakeToken(h) \/ RepoGetAdd(h) \/ RepoGetPutToken(h)
  \/ Done(h)

GC ==
  \/ Tick \/ TickerStop \/ GCReturn
  \/ \E r \in Repos : GCNext(r)
  \/ GCSkip \/ GCVisit \/ GCTakeToken \/ GCWait \/ GCPutToken

CloseSteps ==
  \/ CloseList
  \/ \E r \in Repos : CloseNext(r)
  \/ CloseTakeToken \/ CloseWait \/ ClosePutToken \/ CloseDelete
  \/ CloseUnlock \/ CloseReturn

Next ==
  \/ \E h \in Handlers : Request(h)
  \/ GC
  \/ CloseStop \/ CloseSteps
  \/ Terminated

(***************************************************************************)
(* Fairness. Goroutines that can run do run, and a handler reaches its     *)
(* deferred Done. A receiver on a channel is served in the order of        *)
(* arrival, so a token that keeps coming back is eventually received: SF   *)
(* for the takes. select picks at random among ready cases, so a closed    *)
(* m.stop is eventually picked against the ticker: SF for TickerStop.      *)
(* Nothing makes a request arrive, a client go away or Close be called.    *)
(***************************************************************************)
Fairness ==
  /\ \A h \in Handlers :
       /\ SF_vars(RepoGetTakeToken(h))
       /\ WF_vars(RepoGetAdd(h) \/ RepoGetPutToken(h) \/ Done(h))
  /\ SF_vars(TickerStop) /\ SF_vars(GCTakeToken)
  /\ WF_vars(GC)
  /\ SF_vars(CloseTakeToken) /\ WF_vars(CloseSteps)

Spec == Init /\ [][Next]_vars
FairSpec == Spec /\ Fairness

-----------------------------------------------------------------------------
(* Properties *)

Holds(k, r) == krepo[k] = r /\ kpc[k] \in {"wait", "collect", "release"}
Works(k, r) == krepo[k] = r /\ kpc[k] \in {"collect", "release"}
Users(r)    == {h \in Handlers : repo[h] = r /\ pc[h] \in {"returning", "active"}}

\* While the collector rewrites a repository's index and deletes its blobs, or
\* Close cancels its uploads, no request has the repository open and the other
\* keeper is not at it (mem.go:116 "GC blocks new requests").
KeeperExclusive ==
  \A r \in Repos, k \in Keepers :
    Works(k, r) => /\ Users(r) = {}
                   /\ \A other \in Keepers \ {k} : ~Works(other, r)

\* Between RepoGet's return and Done a request keeps working on the object that
\* m.repos holds: unless the store was closed, nothing drops it. A repository
\* dropped under a request would be created anew, empty, by the next one.
InUseRegistered ==
  ~stop => \A h \in Handlers : pc[h] # "idle" => repo[h] \in registered

\* wg.Add never happens while a keeper is inside wg.Wait, the misuse that the
\* WaitGroup documentation forbids (mem.go:116 "wgBlock prevents adding to the
\* WG while a wg.Wait is running").
NoAddDuringWait ==
  [][\A r \in Repos, k \in Keepers :
       kpc[k] = "wait" /\ krepo[k] = r => wg'[r] <= wg[r]]_vars

\* When Close returns, the ticker's goroutine has returned too, every repository
\* was let go, and no token is lost: a request still between RepoGet's lookup and
\* its channel gets through and cannot hang.
ClosedReleasesAll ==
  kpc["close"] = "closed" =>
    /\ registered = {} /\ kpc["gc"] = "exited"
    /\ \A h \in Handlers : pc[h] = "waiting" =>
         wgBlock[repo[h]] \/ \E g \in Handlers :
           repo[g] = repo[h] /\ pc[g] \in {"adding", "returning"}

\* Nobody waits forever, whatever the others are doing. Close returns (mem.go:167
\* and 191: it waits for the collector and the requests in progress); a request gets
\* the repository, unless its client gives up; a GC that has reached a repository
\* collects it, however many requests come and go: taking the token first is what
\* keeps new requests from starving it.
NobodyStarves ==
  /\ stop ~> kpc["close"] = "closed"
  /\ \A h \in Handlers : pc[h] = "waiting" ~> pc[h] \in {"active", "idle"}
  /\ \A r \in Repos :
       kpc["gc"] = "block" /\ krepo["gc"] = r ~> kpc["gc"] = "collect" /\ krepo["gc"] = r

\* The channel, the WaitGroups and the locks of mem.go amount to the contract of
\* module RepoAccess.
Access == INSTANCE RepoAccess WITH
  users <- [r \in Repos |-> Users(r)],
  owner <- [r \in Repos |-> {k \in Keepers : Works(k, r)}]
AccessSpec == Access!Spec
=============================================================================
