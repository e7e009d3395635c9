--------------------------- MODULE DirStoreProofs ---------------------------
(***************************************************************************)
(* Proofs about DirStore, for any sets of repositories and handlers and any *)
(* number of objects: its types, that a name has one object, and, once the *)
(* first tick is over, the WaitGroup's discipline and that it implements   *)
(* RepoAccess. MCDirStore checks IInv on a small instance.                 *)
(***************************************************************************)
EXTENDS DirStore, FiniteSetTheorems, TLAPS

-----------------------------------------------------------------------------
(* The inductive invariant *)

HandlerPC == {"idle", "lookup", "create", "opening", "waiting", "adding", "returning", "active"}
TickerPC  == {"ticker", "scan", "visit", "block", "wait", "collect", "exited"}
PrunePC   == {"rest", "next", "block", "wait", "collect"}
ClosePC   == {"running", "list", "next", "drain", "draining", "cancel", "delete", "block",
              "wait", "collect", "deleted", "join", "closed"}

\* Who is where, refers to an object, and holds which mutex.
Places ==
  /\ DOMAIN pc = Threads
  /\ \A h \in Handlers :
       /\ pc[h] \in HandlerPC
       /\ at[h] = None <=> pc[h] \in {"idle", "lookup", "create"}
       /\ want[h] = None <=> pc[h] \notin {"lookup", "create"}
       /\ dMu = h <=> pc[h] \in {"lookup", "create", "opening"}
  /\ pc["ticker"] \in TickerPC
  /\ at["ticker"] = None <=> pc["ticker"] \in {"ticker", "scan", "exited"}
  /\ pc["prune"] \in PrunePC
  /\ at["prune"] = None <=> pc["prune"] \in {"rest", "next"}
  /\ cacheMu = None <=> pc["prune"] = "rest"
  /\ pc["close"] \in ClosePC
  /\ at["close"] = None <=> pc["close"] \in {"running", "list", "next", "join", "closed"}
  /\ dMu = "close" <=> pc["close"] \notin {"running", "list", "join", "closed"}
  /\ stop <=> pc["close"] # "running"
  /\ first => FirstTick

\* No object is made any more.
NoneComes == stop /\ \A h \in Handlers : pc[h] \notin {"lookup", "create"}

\* Whoever refers to an object has found it in the cache, where it is until no other
\* can be made for its name.
Attached ==
  /\ \A r \in Repos : cached[r] # None => of[cached[r]] = r
  /\ \A h \in Handlers : pc[h] = "create" => cached[want[h]] = None
  /\ \A t \in Threads : at[t] # None =>
       /\ of[at[t]] \in Repos
       /\ cached[of[at[t]]] = at[t] \/ (cached[of[at[t]]] = None /\ NoneComes)

\* Who has just got an object, and is still to do something with it.
Asking == {"waiting", "opening", "visit", "block", "drain"}

\* What pruneAge is to drop stays in the cache, and nobody asks for it.
Pruning ==
  /\ \A r \in todo["prune"] :
       /\ cached[r] # None
       /\ \A t \in Threads \ {"prune"} : at[t] = cached[r] => pc[t] \notin Asking
  /\ pc["prune"] = "rest" => todo["prune"] = {}
  /\ at["prune"] # None =>
       /\ cached[of[at["prune"]]] = at["prune"] /\ of[at["prune"]] \notin todo["prune"]
       /\ \A t \in Threads \ {"prune"} : at[t] = at["prune"] => pc[t] \notin Asking

\* After the first tick the ticker does not go for an object that is being opened.
Opening ==
  \A h \in Handlers :
    ~FirstTick /\ pc[h] = "opening" /\ at["ticker"] = at[h] => pc["ticker"] = "visit"

\* The token of an object is in its channel or with one thread.
Holds(t, o) ==
  at[t] = o /\ pc[t] \in {"adding", "returning", "wait", "collect", "draining", "cancel"}

OneToken ==
  \A o \in Objects :
    /\ \A t \in Threads : ~(wgBlock[o] /\ Holds(t, o))
    /\ \A t, u \in Threads : Holds(t, o) /\ Holds(u, o) => t = u

SomeToken ==
  \A o \in Objects : ~Free(o) => wgBlock[o] \/ \E t \in Threads : Holds(t, o)

\* The counter counts the requests that have the object open.
WgCounts == \A o \in Objects : wg[o] = Cardinality(Users(o))

\* A keeper that was through wg.Wait is alone; so is the ticker after its first tick.
Alone ==
  \A o \in Objects, k \in Keepers :
    Works(k, o) /\ (k = "ticker" => ~FirstTick) => Users(o) = {}

\* The inductive invariant: what the cache, the objects' tokens and counters and
\* the two mutexes say of each other between any two steps of any goroutines.
IInv ==
  /\ TypeOK /\ Places
  /\ Attached /\ OneObject /\ Pruning /\ Opening
  /\ OneToken /\ SomeToken /\ WgCounts /\ Alone

\* Every step keeps the places.
LEMMA PlacesStep ==
  ASSUME IInv, [Next]_vars
  PROVE  Places'
<1> USE Distinct
    DEF IInv, TypeOK, Places, HandlerPC, TickerPC, PrunePC, ClosePC, Threads, Keepers,
        storeVars, locks, objects, access, ctl, Go, Take, Drop, TakeToken, PutToken
<1>1. ASSUME NEW h \in Handlers, NEW r \in Repos, RepoGetLock(h, r)
      PROVE  Places'
  BY <1>1 DEF RepoGetLock
<1>2. ASSUME NEW h \in Handlers, RepoGetLookup(h)
      PROVE  Places'
  BY <1>2 DEF RepoGetLookup
<1>3. ASSUME NEW h \in Handlers, NEW o \in Objects, RepoGetCreate(h, o)
      PROVE  Places'
  BY <1>3 DEF RepoGetCreate
<1>4. ASSUME NEW h \in Handlers, RepoGetOpen(h)
      PROVE  Places'
  BY <1>4 DEF RepoGetOpen
<1>5. ASSUME NEW h \in Handlers, RepoGetCancel(h)
      PROVE  Places'
  BY <1>5 DEF RepoGetCancel
<1>6. ASSUME NEW h \in Handlers, RepoGetTakeToken(h)
      PROVE  Places'
  BY <1>6 DEF RepoGetTakeToken
<1>7. ASSUME NEW h \in Handlers, RepoGetAdd(h)
      PROVE  Places'
  BY <1>7 DEF RepoGetAdd
<1>8. ASSUME NEW h \in Handlers, RepoGetPutToken(h)
      PROVE  Places'
  BY <1>8 DEF RepoGetPutToken
<1>9. ASSUME NEW h \in Handlers, Done(h)
      PROVE  Places'
  BY <1>9 DEF Done
<1>10. ASSUME Tick
       PROVE  Places'
  BY <1>10 DEF Tick
<1>11. ASSUME TickerStop
       PROVE  Places'
  BY <1>11 DEF TickerStop
<1>12. ASSUME GCReturn
       PROVE  Places'
  BY <1>12 DEF GCReturn
<1>13. ASSUME NEW r \in Repos, GCNext(r)
       PROVE  Places'
  BY <1>13 DEF GCNext
<1>14. ASSUME GCSkip
       PROVE  Places'
  BY <1>14 DEF GCSkip
<1>15. ASSUME GCVisit
       PROVE  Places'
  BY <1>15 DEF GCVisit
<1>16. ASSUME NEW k \in Keepers, GCTakeToken(k)
       PROVE  Places'
  BY <1>16 DEF GCTakeToken
<1>17. ASSUME NEW k \in Keepers, GCWait(k)
       PROVE  Places'
  BY <1>17 DEF GCWait
<1>18. ASSUME GCCollected
       PROVE  Places'
  BY <1>18 DEF GCCollected
<1>19. ASSUME PruneAge
       PROVE  Places'
  BY <1>19 DEF PruneAge
<1>20. ASSUME NEW r \in Repos, PruneNext(r)
       PROVE  Places'
  BY <1>20 DEF PruneNext, Pruning
<1>21. ASSUME PruneCollected
       PROVE  Places'
  BY <1>21 DEF PruneCollected
<1>22. ASSUME PruneReturn
       PROVE  Places'
  BY <1>22 DEF PruneReturn
<1>23. ASSUME CloseStop
       PROVE  Places'
  BY <1>23 DEF CloseStop
<1>24. ASSUME CloseList
       PROVE  Places'
  BY <1>24 DEF CloseList
<1>25. ASSUME NEW r \in Repos, CloseNext(r)
       PROVE  Places'
  BY <1>25 DEF CloseNext
<1>26. ASSUME CloseTakeToken
       PROVE  Places'
  BY <1>26 DEF CloseTakeToken
<1>27. ASSUME CloseWait
       PROVE  Places'
  BY <1>27 DEF CloseWait
<1>28. ASSUME CloseCancel
       PROVE  Places'
  BY <1>28 DEF CloseCancel
<1>29. ASSUME CloseDelete
       PROVE  Places'
  BY <1>29 DEF CloseDelete
<1>30. ASSUME CloseCollected
       PROVE  Places'
  BY <1>30 DEF CloseCollected
<1>31. ASSUME CloseDeleted
       PROVE  Places'
  BY <1>31 DEF CloseDeleted
<1>32. ASSUME CloseUnlock
       PROVE  Places'
  BY <1>32 DEF CloseUnlock
<1>33. ASSUME CloseReturn
       PROVE  Places'
  BY <1>33 DEF CloseReturn
<1>34. CASE Terminated \/ UNCHANGED vars
  BY <1>34 DEF Terminated, vars
<1> QED
  BY <1>1, <1>2, <1>3, <1>4, <1>5, <1>6, <1>7, <1>8, <1>9, <1>10, <1>11, <1>12, <1>13,
     <1>14, <1>15, <1>16, <1>17, <1>18, <1>19, <1>20, <1>21, <1>22, <1>23, <1>24, <1>25, <1>26,
     <1>27, <1>28, <1>29, <1>30, <1>31, <1>32, <1>33, <1>34
  DEF Next, Request, GC, PruneSteps, CloseSteps, Keepers

\* Every step keeps whoever refers to an object attached to the one that the cache has,
\* or had last, for its name.
LEMMA AttachedStep ==
  ASSUME IInv, [Next]_vars
  PROVE  Attached' /\ OneObject'
<1> USE Distinct
    DEF IInv, TypeOK, Places, HandlerPC, TickerPC, PrunePC, ClosePC, Threads, Keepers,
        storeVars, locks, objects, access, ctl, Go, Take, Drop, TakeToken, PutToken,
        Attached, OneObject, NoneComes, Pruning, Asking
<1>1. ASSUME NEW h \in Handlers, NEW r \in Repos, RepoGetLock(h, r)
      PROVE  Attached' /\ OneObject'
  BY <1>1 DEF RepoGetLock
<1>2. ASSUME NEW h \in Handlers, RepoGetLookup(h)
      PROVE  Attached' /\ OneObject'
  BY <1>2 DEF RepoGetLookup
<1>3. ASSUME NEW h \in Handlers, NEW o \in Objects, RepoGetCreate(h, o)
      PROVE  Attached' /\ OneObject'
  BY <1>3 DEF RepoGetCreate, Fresh, Free
<1>4. ASSUME NEW h \in Handlers, RepoGetOpen(h)
      PROVE  Attached' /\ OneObject'
  BY <1>4 DEF RepoGetOpen
<1>5. ASSUME NEW h \in Handlers, RepoGetCancel(h)
      PROVE  Attached' /\ OneObject'
  BY <1>5 DEF RepoGetCancel
<1>6. ASSUME NEW h \in Handlers, RepoGetTakeToken(h)
      PROVE  Attached' /\ OneObject'
  BY <1>6 DEF RepoGetTakeToken
<1>7. ASSUME NEW h \in Handlers, RepoGetAdd(h)
      PROVE  Attached' /\ OneObject'
  BY <1>7 DEF RepoGetAdd
<1>8. ASSUME NEW h \in Handlers, RepoGetPutToken(h)
      PROVE  Attached' /\ OneObject'
  BY <1>8 DEF RepoGetPutToken
<1>9. ASSUME NEW h \in Handlers, Done(h)
      PROVE  Attached' /\ OneObject'
  BY <1>9 DEF Done
<1>10. ASSUME Tick
       PROVE  Attached' /\ OneObject'
  BY <1>10 DEF Tick
<1>11. ASSUME TickerStop
       PROVE  Attached' /\ OneObject'
  BY <1>11 DEF TickerStop
<1>12. ASSUME GCReturn
       PROVE  Attached' /\ OneObject'
  BY <1>12 DEF GCReturn
<1>13. ASSUME NEW r \in Repos, GCNext(r)
       PROVE  Attached' /\ OneObject'
  BY <1>13 DEF GCNext
<1>14. ASSUME GCSkip
       PROVE  Attached' /\ OneObject'
  BY <1>14 DEF GCSkip
<1>15. ASSUME GCVisit
       PROVE  Attached' /\ OneObject'
  BY <1>15 DEF GCVisit
<1>16. ASSUME NEW k \in Keepers, GCTakeToken(k)
       PROVE  Attached' /\ OneObject'
  BY <1>16 DEF GCTakeToken
<1>17. ASSUME NEW k \in Keepers, GCWait(k)
       PROVE  Attached' /\ OneObject'
  BY <1>17 DEF GCWait
<1>18. ASSUME GCCollected
       PROVE  Attached' /\ OneObject'
  BY <1>18 DEF GCCollected
<1>19. ASSUME PruneAge
       PROVE  Attached' /\ OneObject'
  BY <1>19 DEF PruneAge
<1>20. ASSUME NEW r \in Repos, PruneNext(r)
       PROVE  Attached' /\ OneObject'
  BY <1>20 DEF PruneNext
<1>21. ASSUME PruneCollected
       PROVE  Attached' /\ OneObject'
  <2> DEFINE o == at["prune"]
  <2>1. o \in Objects /\ cached[of[o]] = o /\ of[o] \in Repos
    BY <1>21 DEF PruneCollected
  <2>2. \A t \in Threads \ {"prune"} : at[t] = o => pc[t] \notin Asking /\ ~Holds(t, o)
    BY <1>21, <2>1 DEF PruneCollected, OneToken, Holds
  <2>3. Users(o) = {}
    BY <1>21, <2>1 DEF PruneCollected, Alone, Works
  <2>4. \A t \in Threads \ {"prune"} : at[t] = o => t = "close"
    BY <2>1, <2>2, <2>3 DEF Holds, Users
  <2>5. at["close"] = o => NoneComes
    BY <2>1
  <2>6. Attached'
    BY <1>21, <2>1, <2>4, <2>5 DEF PruneCollected
  <2> QED  BY <1>21, <2>6 DEF PruneCollected
<1>22. ASSUME PruneReturn
       PROVE  Attached' /\ OneObject'
  BY <1>22 DEF PruneReturn
<1>23. ASSUME CloseStop
       PROVE  Attached' /\ OneObject'
  BY <1>23 DEF CloseStop
<1>24. ASSUME CloseList
       PROVE  Attached' /\ OneObject'
  BY <1>24 DEF CloseList
<1>25. ASSUME NEW r \in Repos, CloseNext(r)
       PROVE  Attached' /\ OneObject'
  BY <1>25 DEF CloseNext
<1>26. ASSUME CloseTakeToken
       PROVE  Attached' /\ OneObject'
  BY <1>26 DEF CloseTakeToken
<1>27. ASSUME CloseWait
       PROVE  Attached' /\ OneObject'
  BY <1>27 DEF CloseWait
<1>28. ASSUME CloseCancel
       PROVE  Attached' /\ OneObject'
  BY <1>28 DEF CloseCancel
<1>29. ASSUME CloseDelete
       PROVE  Attached' /\ OneObject'
  BY <1>29 DEF CloseDelete
<1>30. ASSUME CloseCollected
       PROVE  Attached' /\ OneObject'
  BY <1>30 DEF CloseCollected
<1>31. ASSUME CloseDeleted
       PROVE  Attached' /\ OneObject'
  BY <1>31 DEF CloseDeleted
<1>32. ASSUME CloseUnlock
       PROVE  Attached' /\ OneObject'
  BY <1>32 DEF CloseUnlock
<1>33. ASSUME CloseReturn
       PROVE  Attached' /\ OneObject'
  BY <1>33 DEF CloseReturn
<1>34. CASE Terminated \/ UNCHANGED vars
  BY <1>34 DEF Terminated, vars
<1> QED
  BY <1>1, <1>2, <1>3, <1>4, <1>5, <1>6, <1>7, <1>8, <1>9, <1>10, <1>11, <1>12, <1>13,
     <1>14, <1>15, <1>16, <1>17, <1>18, <1>19, <1>20, <1>21, <1>22, <1>23, <1>24, <1>25, <1>26,
     <1>27, <1>28, <1>29, <1>30, <1>31, <1>32, <1>33, <1>34
  DEF Next, Request, GC, PruneSteps, CloseSteps, Keepers

\* Every step keeps what pruneAge is to drop out of everybody's reach.
LEMMA PruningStep ==
  ASSUME IInv, [Next]_vars
  PROVE  Pruning'
<1> USE Distinct
    DEF IInv, TypeOK, Places, HandlerPC, TickerPC, PrunePC, ClosePC, Threads, Keepers,
        storeVars, locks, objects, access, ctl, Go, Take, Drop, TakeToken, PutToken,
        Attached, OneObject, Pruning, Asking
<1>1. ASSUME NEW h \in Handlers, NEW r \in Repos, RepoGetLock(h, r)
      PROVE  Pruning'
  BY <1>1 DEF RepoGetLock
<1>2. ASSUME NEW h \in Handlers, RepoGetLookup(h)
      PROVE  Pruning'
  BY <1>2 DEF RepoGetLookup
<1>3. ASSUME NEW h \in Handlers, NEW o \in Objects, RepoGetCreate(h, o)
      PROVE  Pruning'
  BY <1>3 DEF RepoGetCreate, Fresh, Free
<1>4. ASSUME NEW h \in Handlers, RepoGetOpen(h)
      PROVE  Pruning'
  BY <1>4 DEF RepoGetOpen
<1>5. ASSUME NEW h \in Handlers, RepoGetCancel(h)
      PROVE  Pruning'
  BY <1>5 DEF RepoGetCancel
<1>6. ASSUME NEW h \in Handlers, RepoGetTakeToken(h)
      PROVE  Pruning'
  BY <1>6 DEF RepoGetTakeToken
<1>7. ASSUME NEW h \in Handlers, RepoGetAdd(h)
      PROVE  Pruning'
  BY <1>7 DEF RepoGetAdd
<1>8. ASSUME NEW h \in Handlers, RepoGetPutToken(h)
      PROVE  Pruning'
  BY <1>8 DEF RepoGetPutToken
<1>9. ASSUME NEW h \in Handlers, Done(h)
      PROVE  Pruning'
  BY <1>9 DEF Done
<1>10. ASSUME Tick
       PROVE  Pruning'
  BY <1>10 DEF Tick
<1>11. ASSUME TickerStop
       PROVE  Pruning'
  BY <1>11 DEF TickerStop
<1>12. ASSUME GCReturn
       PROVE  Pruning'
  BY <1>12 DEF GCReturn
<1>13. ASSUME NEW r \in Repos, GCNext(r)
       PROVE  Pruning'
  BY <1>13 DEF GCNext
<1>14. ASSUME GCSkip
       PROVE  Pruning'
  BY <1>14 DEF GCSkip
<1>15. ASSUME GCVisit
       PROVE  Pruning'
  BY <1>15 DEF GCVisit
<1>16. ASSUME NEW k \in Keepers, GCTakeToken(k)
       PROVE  Pruning'
  BY <1>16 DEF GCTakeToken
<1>17. ASSUME NEW k \in Keepers, GCWait(k)
       PROVE  Pruning'
  BY <1>17 DEF GCWait
<1>18. ASSUME GCCollected
       PROVE  Pruning'
  BY <1>18 DEF GCCollected
<1>19. ASSUME PruneAge
       PROVE  Pruning'
  BY <1>19 DEF PruneAge, Expired
<1>20. ASSUME NEW r \in Repos, PruneNext(r)
       PROVE  Pruning'
  BY <1>20 DEF PruneNext
<1>21. ASSUME PruneCollected
       PROVE  Pruning'
  BY <1>21 DEF PruneCollected
<1>22. ASSUME PruneReturn
       PROVE  Pruning'
  BY <1>22 DEF PruneReturn
<1>23. ASSUME CloseStop
       PROVE  Pruning'
  BY <1>23 DEF CloseStop
<1>24. ASSUME CloseList
       PROVE  Pruning'
  BY <1>24 DEF CloseList
<1>25. ASSUME NEW r \in Repos, CloseNext(r)
       PROVE  Pruning'
  BY <1>25 DEF CloseNext
<1>26. ASSUME CloseTakeToken
       PROVE  Pruning'
  BY <1>26 DEF CloseTakeToken
<1>27. ASSUME CloseWait
       PROVE  Pruning'
  BY <1>27 DEF CloseWait
<1>28. ASSUME CloseCancel
       PROVE  Pruning'
  BY <1>28 DEF CloseCancel
<1>29. ASSUME CloseDelete
       PROVE  Pruning'
  BY <1>29 DEF CloseDelete
<1>30. ASSUME CloseCollected
       PROVE  Pruning'
  BY <1>30 DEF CloseCollected
<1>31. ASSUME CloseDeleted
       PROVE  Pruning'
  BY <1>31 DEF CloseDeleted
<1>32. ASSUME CloseUnlock
       PROVE  Pruning'
  BY <1>32 DEF CloseUnlock
<1>33. ASSUME CloseReturn
       PROVE  Pruning'
  BY <1>33 DEF CloseReturn
<1>34. CASE Terminated \/ UNCHANGED vars
  BY <1>34 DEF Terminated, vars
<1> QED
  BY <1>1, <1>2, <1>3, <1>4, <1>5, <1>6, <1>7, <1>8, <1>9, <1>10, <1>11, <1>12, <1>13,
     <1>14, <1>15, <1>16, <1>17, <1>18, <1>19, <1>20, <1>21, <1>22, <1>23, <1>24, <1>25, <1>26,
     <1>27, <1>28, <1>29, <1>30, <1>31, <1>32, <1>33, <1>34
  DEF Next, Request, GC, PruneSteps, CloseSteps, Keepers

\* Every step keeps the ticker away from an object that RepoGet is opening.
LEMMA OpeningStep ==
  ASSUME IInv, [Next]_vars
  PROVE  Opening'
<1> USE Distinct
    DEF IInv, TypeOK, Places, HandlerPC, TickerPC, PrunePC, ClosePC, Threads, Keepers,
        storeVars, locks, objects, access, ctl, Go, Take, Drop, TakeToken, PutToken,
        Opening
<1>1. ASSUME NEW h \in Handlers, NEW r \in Repos, RepoGetLock(h, r)
      PROVE  Opening'
  BY <1>1 DEF RepoGetLock
<1>2. ASSUME NEW h \in Handlers, RepoGetLookup(h)
      PROVE  Opening'
  BY <1>2 DEF RepoGetLookup
<1>3. ASSUME NEW h \in Handlers, NEW o \in Objects, RepoGetCreate(h, o)
      PROVE  Opening'
  BY <1>3 DEF RepoGetCreate, Fresh, Free
<1>4. ASSUME NEW h \in Handlers, RepoGetOpen(h)
      PROVE  Opening'
  BY <1>4 DEF RepoGetOpen
<1>5. ASSUME NEW h \in Handlers, RepoGetCancel(h)
      PROVE  Opening'
  BY <1>5 DEF RepoGetCancel
<1>6. ASSUME NEW h \in Handlers, RepoGetTakeToken(h)
      PROVE  Opening'
  BY <1>6 DEF RepoGetTakeToken
<1>7. ASSUME NEW h \in Handlers, RepoGetAdd(h)
      PROVE  Opening'
  BY <1>7 DEF RepoGetAdd
<1>8. ASSUME NEW h \in Handlers, RepoGetPutToken(h)
      PROVE  Opening'
  BY <1>8 DEF RepoGetPutToken
<1>9. ASSUME NEW h \in Handlers, Done(h)
      PROVE  Opening'
  BY <1>9 DEF Done
<1>10. ASSUME Tick
       PROVE  Opening'
  BY <1>10 DEF Tick
<1>11. ASSUME TickerStop
       PROVE  Opening'
  BY <1>11 DEF TickerStop
<1>12. ASSUME GCReturn
       PROVE  Opening'
  BY <1>12 DEF GCReturn
<1>13. ASSUME NEW r \in Repos, GCNext(r)
       PROVE  Opening'
  BY <1>13 DEF GCNext
<1>14. ASSUME GCSkip
       PROVE  Opening'
  BY <1>14 DEF GCSkip
<1>15. ASSUME GCVisit
       PROVE  Opening'
  BY <1>15 DEF GCVisit
<1>16. ASSUME NEW k \in Keepers, GCTakeToken(k)
       PROVE  Opening'
  BY <1>16 DEF GCTakeToken
<1>17. ASSUME NEW k \in Keepers, GCWait(k)
       PROVE  Opening'
  BY <1>17 DEF GCWait
<1>18. ASSUME GCCollected
       PROVE  Opening'
  BY <1>18 DEF GCCollected
<1>19. ASSUME PruneAge
       PROVE  Opening'
  BY <1>19 DEF PruneAge
<1>20. ASSUME NEW r \in Repos, PruneNext(r)
       PROVE  Opening'
  BY <1>20 DEF PruneNext
<1>21. ASSUME PruneCollected
       PROVE  Opening'
  BY <1>21 DEF PruneCollected
<1>22. ASSUME PruneReturn
       PROVE  Opening'
  BY <1>22 DEF PruneReturn
<1>23. ASSUME CloseStop
       PROVE  Opening'
  BY <1>23 DEF CloseStop
<1>24. ASSUME CloseList
       PROVE  Opening'
  BY <1>24 DEF CloseList
<1>25. ASSUME NEW r \in Repos, CloseNext(r)
       PROVE  Opening'
  BY <1>25 DEF CloseNext
<1>26. ASSUME CloseTakeToken
       PROVE  Opening'
  BY <1>26 DEF CloseTakeToken
<1>27. ASSUME CloseWait
       PROVE  Opening'
  BY <1>27 DEF CloseWait
<1>28. ASSUME CloseCancel
       PROVE  Opening'
  BY <1>28 DEF CloseCancel
<1>29. ASSUME CloseDelete
       PROVE  Opening'
  BY <1>29 DEF CloseDelete
<1>30. ASSUME CloseCollected
       PROVE  Opening'
  BY <1>30 DEF CloseCollected
<1>31. ASSUME CloseDeleted
       PROVE  Opening'
  BY <1>31 DEF CloseDeleted
<1>32. ASSUME CloseUnlock
       PROVE  Opening'
  BY <1>32 DEF CloseUnlock
<1>33. ASSUME CloseReturn
       PROVE  Opening'
  BY <1>33 DEF CloseReturn
<1>34. CASE Terminated \/ UNCHANGED vars
  BY <1>34 DEF Terminated, vars
<1> QED
  BY <1>1, <1>2, <1>3, <1>4, <1>5, <1>6, <1>7, <1>8, <1>9, <1>10, <1>11, <1>12, <1>13,
     <1>14, <1>15, <1>16, <1>17, <1>18, <1>19, <1>20, <1>21, <1>22, <1>23, <1>24, <1>25, <1>26,
     <1>27, <1>28, <1>29, <1>30, <1>31, <1>32, <1>33, <1>34
  DEF Next, Request, GC, PruneSteps, CloseSteps, Keepers

\* What moves no token and comes by no object but out of the cache keeps both facts.
LEMMA TokensStay ==
  ASSUME OneToken, SomeToken, wgBlock' = wgBlock,
         \A t \in Threads, o \in Objects : Holds(t, o)' <=> Holds(t, o),
         \A o \in Objects : Free(o) => Free(o)'
  PROVE  OneToken' /\ SomeToken'
BY Zenon DEF OneToken, SomeToken

\* Every step keeps each token in its channel or with one thread.
LEMMA TokenStep ==
  ASSUME IInv, [Next]_vars
  PROVE  OneToken' /\ SomeToken'
<1> USE Distinct
    DEF IInv, TypeOK, Places, HandlerPC, TickerPC, PrunePC, ClosePC, Threads, Keepers,
        storeVars, locks, objects, access, ctl, Go, Take, Drop, TakeToken, PutToken,
        OneToken, SomeToken, Holds, Free
<1>1. ASSUME NEW h \in Handlers, NEW r \in Repos, RepoGetLock(h, r)
      PROVE  OneToken' /\ SomeToken'
  BY <1>1 DEF RepoGetLock
<1>2. ASSUME NEW h \in Handlers, RepoGetLookup(h)
      PROVE  OneToken' /\ SomeToken'
  BY <1>2 DEF RepoGetLookup
<1>3. ASSUME NEW h \in Handlers, NEW o \in Objects, RepoGetCreate(h, o)
      PROVE  OneToken' /\ SomeToken'
  <2>1. /\ Free(o) /\ wgBlock' = [wgBlock EXCEPT ![o] = TRUE]
        /\ pc[h] = "create" /\ pc'[h] = "opening"
        /\ \A t \in Threads \ {h} : pc'[t] = pc[t] /\ at'[t] = at[t]
    BY <1>3 DEF RepoGetCreate, Fresh
  <2>2. /\ \A t \in Threads, p \in Objects : Holds(t, p)' <=> Holds(t, p)
        /\ \A t \in Threads : ~Holds(t, o)
    BY <2>1
  <2>3. /\ wgBlock'[o]
        /\ \A p \in Objects : p # o => wgBlock'[p] = wgBlock[p]
    BY <2>1
  <2>4. \A p \in Objects : p # o => (Free(p) => Free(p)')
    BY <1>3, <2>1 DEF RepoGetCreate
  <2> HIDE DEF Holds, Free
  <2> QED BY <2>2, <2>3, <2>4
<1>4. ASSUME NEW h \in Handlers, RepoGetOpen(h)
      PROVE  OneToken' /\ SomeToken'
  BY <1>4 DEF RepoGetOpen
<1>5. ASSUME NEW h \in Handlers, RepoGetCancel(h)
      PROVE  OneToken' /\ SomeToken'
  BY <1>5 DEF RepoGetCancel
<1>6. ASSUME NEW h \in Handlers, RepoGetTakeToken(h)
      PROVE  OneToken' /\ SomeToken'
  BY <1>6 DEF RepoGetTakeToken
<1>7. ASSUME NEW h \in Handlers, RepoGetAdd(h)
      PROVE  OneToken' /\ SomeToken'
  <2>1. UNCHANGED <<wgBlock, at, cached>>
    BY <1>7 DEF RepoGetAdd
  <2>2. \A t \in Threads, o \in Objects : Holds(t, o)' <=> Holds(t, o)
    BY <1>7 DEF RepoGetAdd
  <2>3. \A o \in Objects : Free(o) => Free(o)'
    BY <2>1
  <2> HIDE DEF Holds, Free, OneToken, SomeToken
  <2> QED  BY <2>1, <2>2, <2>3, TokensStay
<1>8. ASSUME NEW h \in Handlers, RepoGetPutToken(h)
      PROVE  OneToken' /\ SomeToken'
  BY <1>8 DEF RepoGetPutToken
<1>9. ASSUME NEW h \in Handlers, Done(h)
      PROVE  OneToken' /\ SomeToken'
  BY <1>9 DEF Done
<1>10. ASSUME Tick
       PROVE  OneToken' /\ SomeToken'
  BY <1>10 DEF Tick
<1>11. ASSUME TickerStop
       PROVE  OneToken' /\ SomeToken'
  BY <1>11 DEF TickerStop
<1>12. ASSUME GCReturn
       PROVE  OneToken' /\ SomeToken'
  BY <1>12 DEF GCReturn
<1>13. ASSUME NEW r \in Repos, GCNext(r)
       PROVE  OneToken' /\ SomeToken'
  <2>1. UNCHANGED <<wgBlock, cached>> /\ at["ticker"] = None
    BY <1>13 DEF GCNext
  <2>2. /\ \A t \in Threads \ {"ticker"} : at'[t] = at[t] /\ pc'[t] = pc[t]
        /\ pc'["ticker"] \in {"scan", "visit"} /\ at'["ticker"] \in {None, cached[r]}
    BY <1>13 DEF GCNext
  <2>3. \A t \in Threads, o \in Objects : Holds(t, o)' <=> Holds(t, o)
    BY <1>13, <2>2 DEF GCNext
  <2>4. \A o \in Objects : Free(o) => Free(o)'
    <3> SUFFICES ASSUME NEW o \in Objects, Free(o) PROVE Free(o)'
      OBVIOUS
    <3>1. \A t \in Threads : at'[t] # o
      BY <2>2
    <3> QED  BY <2>1, <3>1
  <2> HIDE DEF Holds, Free, OneToken, SomeToken
  <2> QED  BY <2>1, <2>3, <2>4, TokensStay
<1>14. ASSUME GCSkip
       PROVE  OneToken' /\ SomeToken'
  BY <1>14 DEF GCSkip
<1>15. ASSUME GCVisit
       PROVE  OneToken' /\ SomeToken'
  BY <1>15 DEF GCVisit
<1>16. ASSUME NEW k \in Keepers, GCTakeToken(k)
       PROVE  OneToken' /\ SomeToken'
  BY <1>16 DEF GCTakeToken
<1>17. ASSUME NEW k \in Keepers, GCWait(k)
       PROVE  OneToken' /\ SomeToken'
  BY <1>17 DEF GCWait
<1>18. ASSUME GCCollected
       PROVE  OneToken' /\ SomeToken'
  <2> DEFINE o == at["ticker"]
  <2>1. /\ o \in Objects /\ Holds("ticker", o)
        /\ cached' = cached /\ wgBlock' = [wgBlock EXCEPT ![o] = TRUE]
        /\ at' = [at EXCEPT !["ticker"] = None]
        /\ \A t \in Threads \ {"ticker"} : pc'[t] = pc[t]
        /\ \A p \in Objects \ {o} : ~Holds("ticker", p)
    BY <1>18 DEF GCCollected
  <2>2. \A t \in Threads, p \in Objects : Holds(t, p)' <=> t # "ticker" /\ Holds(t, p)
    BY <2>1
  <2> HIDE DEF Holds, TypeOK, Places, IInv
  <2>3. /\ OneToken /\ SomeToken
        /\ wgBlock \in [Objects -> BOOLEAN] /\ at \in [Threads -> Objects \union {None}]
    BY DEF IInv, TypeOK
  <2>4. OneToken'
    BY <2>1, <2>2, <2>3
  <2>5. SomeToken'
    BY <2>1, <2>2, <2>3
  <2> QED  BY <2>4, <2>5
<1>19. ASSUME PruneAge
       PROVE  OneToken' /\ SomeToken'
  BY <1>19 DEF PruneAge
<1>20. ASSUME NEW r \in Repos, PruneNext(r)
       PROVE  OneToken' /\ SomeToken'
  <2>1. UNCHANGED <<wgBlock, cached>> /\ at["prune"] = None
    BY <1>20 DEF PruneNext
  <2>2. /\ \A t \in Threads \ {"prune"} : at'[t] = at[t] /\ pc'[t] = pc[t]
        /\ pc'["prune"] \in {"next", "block"} /\ at'["prune"] \in {None, cached[r]}
    BY <1>20 DEF PruneNext
  <2>3. \A t \in Threads, o \in Objects : Holds(t, o)' <=> Holds(t, o)
    BY <1>20, <2>2 DEF PruneNext
  <2>4. \A o \in Objects : Free(o) => Free(o)'
    <3> SUFFICES ASSUME NEW o \in Objects, Free(o) PROVE Free(o)'
      OBVIOUS
    <3>1. \A t \in Threads : at'[t] # o
      BY <2>2
    <3> QED  BY <2>1, <3>1
  <2> HIDE DEF Holds, Free, OneToken, SomeToken
  <2> QED  BY <2>1, <2>3, <2>4, TokensStay
<1>21. ASSUME PruneCollected
       PROVE  OneToken' /\ SomeToken'
  BY <1>21 DEF PruneCollected
<1>22. ASSUME PruneReturn
       PROVE  OneToken' /\ SomeToken'
  BY <1>22 DEF PruneReturn
<1>23. ASSUME CloseStop
       PROVE  OneToken' /\ SomeToken'
  BY <1>23 DEF CloseStop
<1>24. ASSUME CloseList
       PROVE  OneToken' /\ SomeToken'
  BY <1>24 DEF CloseList
<1>25. ASSUME NEW r \in Repos, CloseNext(r)
       PROVE  OneToken' /\ SomeToken'
  <2>1. OneToken'
    BY <1>25 DEF CloseNext
  <2>2. SomeToken'
    BY <1>25 DEF CloseNext
  <2> QED  BY <2>1, <2>2
<1>26. ASSUME CloseTakeToken
       PROVE  OneToken' /\ SomeToken'
  BY <1>26 DEF CloseTakeToken
<1>27. ASSUME CloseWait
       PROVE  OneToken' /\ SomeToken'
  BY <1>27 DEF CloseWait
<1>28. ASSUME CloseCancel
       PROVE  OneToken' /\ SomeToken'
  BY <1>28 DEF CloseCancel
<1>29. ASSUME CloseDelete
       PROVE  OneToken' /\ SomeToken'
  BY <1>29 DEF CloseDelete
<1>30. ASSUME CloseCollected
       PROVE  OneToken' /\ SomeToken'
  BY <1>30 DEF CloseCollected
<1>31. ASSUME CloseDeleted
       PROVE  OneToken' /\ SomeToken'
  BY <1>31 DEF CloseDeleted
<1>32. ASSUME CloseUnlock
       PROVE  OneToken' /\ SomeToken'
  BY <1>32 DEF CloseUnlock
<1>33. ASSUME CloseReturn
       PROVE  OneToken' /\ SomeToken'
  BY <1>33 DEF CloseReturn
<1>34. CASE Terminated \/ UNCHANGED vars
  BY <1>34 DEF Terminated, vars
<1> QED
  BY <1>1, <1>2, <1>3, <1>4, <1>5, <1>6, <1>7, <1>8, <1>9, <1>10, <1>11, <1>12, <1>13,
     <1>14, <1>15, <1>16, <1>17, <1>18, <1>19, <1>20, <1>21, <1>22, <1>23, <1>24, <1>25, <1>26,
     <1>27, <1>28, <1>29, <1>30, <1>31, <1>32, <1>33, <1>34
  DEF Next, Request, GC, PruneSteps, CloseSteps, Keepers

\* Requests that have an object open are finitely many.
LEMMA UsersFinite ==
  ASSUME NEW o
  PROVE  IsFiniteSet(Users(o)) /\ Cardinality(Users(o)) \in Nat
BY HandlersFinite, FS_Subset, FS_CardinalityType DEF Users

\* Every step keeps the counters equal to the numbers of users.
LEMMA CountStep ==
  ASSUME IInv, [Next]_vars
  PROVE  wg' \in [Objects -> Nat] /\ WgCounts'
<1> USE Distinct DEF TypeOK, Threads
<1> DEFINE Counted == wg' \in [Objects -> Nat] /\ WgCounts'
<1>0. /\ TypeOK /\ WgCounts /\ DOMAIN pc = Threads
      /\ \A h \in Handlers : at[h] = None <=> pc[h] \in {"idle", "lookup", "create"}
  BY DEF IInv, Places
<1>1. ASSUME UNCHANGED wg, \A o \in Objects : Users(o)' = Users(o)
      PROVE  Counted
  BY <1>0, <1>1 DEF WgCounts
<1>2. ASSUME NEW h \in Handlers, NEW o \in Objects, RepoGetCreate(h, o)
      PROVE  Counted
  <2>1. \A p \in Objects : Users(p)' = Users(p)
    BY <1>0, <1>2 DEF RepoGetCreate, Users, Take
  <2>2. Users(o) = {}
    BY <1>0, <1>2 DEF RepoGetCreate, Fresh, Free, Users
  <2> QED  BY <1>0, <1>2, <2>1, <2>2, FS_EmptySet DEF RepoGetCreate, WgCounts
<1>3. ASSUME NEW h \in Handlers, RepoGetOpen(h) \/ RepoGetAdd(h)
      PROVE  Counted
  <2> DEFINE o == at[h]
  <2>1. o \in Objects /\ h \notin Users(o) /\ at' = at
    BY <1>0, <1>3 DEF RepoGetOpen, RepoGetAdd, Users, Go
  <2>2. Users(o)' = Users(o) \union {h}
    BY <1>0, <1>3, <2>1 DEF RepoGetOpen, RepoGetAdd, Users, Go
  <2>3. \A p \in Objects \ {o} : Users(p)' = Users(p)
    BY <1>0, <1>3, <2>1 DEF RepoGetOpen, RepoGetAdd, Users, Go
  <2>4. Cardinality(Users(o) \union {h}) = Cardinality(Users(o)) + 1
    BY <2>1, UsersFinite, FS_AddElement
  <2>5. wg' = [wg EXCEPT ![o] = @ + 1]
    BY <1>3 DEF RepoGetOpen, RepoGetAdd
  <2>6. wg'[o] = Cardinality(Users(o)') /\ wg'[o] \in Nat
    BY <1>0, <2>1, <2>2, <2>4, <2>5, UsersFinite DEF WgCounts
  <2> QED  BY <1>0, <2>1, <2>3, <2>5, <2>6 DEF WgCounts
<1>4. ASSUME NEW h \in Handlers, Done(h)
      PROVE  Counted
  <2>1. PICK o \in Objects : o = at[h] /\ h \in Users(o)
    BY <1>0, <1>4 DEF Done, Users
  <2>2. Users(o)' = Users(o) \ {h}
    BY <1>0, <1>4, <2>1 DEF Done, Users, Drop, Take
  <2>3. \A p \in Objects \ {o} : Users(p)' = Users(p)
    BY <1>0, <1>4, <2>1 DEF Done, Users, Drop, Take
  <2>4. /\ Cardinality(Users(o) \ {h}) = Cardinality(Users(o)) - 1
        /\ Cardinality(Users(o) \ {h}) \in Nat
    BY <2>1, UsersFinite, FS_RemoveElement, FS_CardinalityType
  <2>5. wg' = [wg EXCEPT ![o] = @ - 1]
    BY <1>4, <2>1 DEF Done
  <2>6. wg'[o] = Cardinality(Users(o)') /\ wg'[o] \in Nat
    BY <1>0, <2>1, <2>2, <2>4, <2>5, UsersFinite DEF WgCounts
  <2> QED  BY <1>0, <2>1, <2>3, <2>5, <2>6 DEF WgCounts
<1>5. ASSUME UNCHANGED wg, \A h \in Handlers : pc'[h] = pc[h] /\ at'[h] = at[h]
      PROVE  Counted
  BY <1>1, <1>5 DEF Users
<1>6. ASSUME NEW h \in Handlers,
             \/ \E r \in Repos : RepoGetLock(h, r)
             \/ RepoGetLookup(h) \/ RepoGetCancel(h) \/ RepoGetTakeToken(h)
             \/ RepoGetPutToken(h)
      PROVE  Counted
  BY <1>0, <1>1, <1>6
  DEF RepoGetLock, RepoGetLookup, RepoGetCancel, RepoGetTakeToken, RepoGetPutToken,
      Users, access, Go, Take, Drop
<1> USE <1>0 DEF Keepers, access, ctl, Go, Take, Drop
<1>7. CASE GC
  BY <1>5, <1>7
  DEF GC, Tick, TickerStop, GCReturn, GCNext, GCSkip, GCVisit, GCTakeToken, GCWait, GCCollected
<1>8. CASE PruneAge \/ PruneSteps
  BY <1>5, <1>8
  DEF PruneAge, PruneSteps, PruneNext, GCTakeToken, GCWait, PruneCollected, PruneReturn
<1>9. CASE \/ CloseStop \/ CloseList \/ (\E r \in Repos : CloseNext(r))
          \/ CloseTakeToken \/ CloseWait \/ CloseCancel
  BY <1>5, <1>9 DEF CloseStop, CloseList, CloseNext, CloseTakeToken, CloseWait, CloseCancel
<1>10. CASE \/ CloseDelete \/ GCTakeToken("close") \/ GCWait("close") \/ CloseCollected
           \/ CloseDeleted \/ CloseUnlock \/ CloseReturn
  BY <1>5, <1>10
  DEF CloseDelete, GCTakeToken, GCWait, CloseCollected, CloseDeleted, CloseUnlock, CloseReturn
<1>11. CASE Terminated \/ UNCHANGED vars
  BY <1>5, <1>11 DEF Terminated, vars
<1> QED
  BY <1>2, <1>3, <1>4, <1>6, <1>7, <1>8, <1>9, <1>10, <1>11 DEF Next, Request, CloseSteps

\* Every step keeps the types; the counter stays a natural number because it counts.
LEMMA TypeStep ==
  ASSUME IInv, [Next]_vars
  PROVE  TypeOK'
<1> USE Distinct
    DEF IInv, TypeOK, Places, HandlerPC, TickerPC, PrunePC, ClosePC, Threads, Keepers,
        storeVars, locks, objects, access, ctl, Go, Take, Drop, TakeToken, PutToken
<1>0. wg' \in [Objects -> Nat]
  BY CountStep
<1>1. ASSUME NEW h \in Handlers, NEW r \in Repos, RepoGetLock(h, r)
      PROVE  TypeOK'
  BY <1>0, <1>1 DEF RepoGetLock
<1>2. ASSUME NEW h \in Handlers, RepoGetLookup(h)
      PROVE  TypeOK'
  BY <1>0, <1>2 DEF RepoGetLookup
<1>3. ASSUME NEW h \in Handlers, NEW o \in Objects, RepoGetCreate(h, o)
      PROVE  TypeOK'
  BY <1>0, <1>3 DEF RepoGetCreate
<1>4. ASSUME NEW h \in Handlers, RepoGetOpen(h)
      PROVE  TypeOK'
  BY <1>0, <1>4 DEF RepoGetOpen
<1>5. ASSUME NEW h \in Handlers, RepoGetCancel(h)
      PROVE  TypeOK'
  BY <1>0, <1>5 DEF RepoGetCancel
<1>6. ASSUME NEW h \in Handlers, RepoGetTakeToken(h)
      PROVE  TypeOK'
  BY <1>0, <1>6 DEF RepoGetTakeToken
<1>7. ASSUME NEW h \in Handlers, RepoGetAdd(h)
      PROVE  TypeOK'
  BY <1>0, <1>7 DEF RepoGetAdd
<1>8. ASSUME NEW h \in Handlers, RepoGetPutToken(h)
      PROVE  TypeOK'
  BY <1>0, <1>8 DEF RepoGetPutToken
<1>9. ASSUME NEW h \in Handlers, Done(h)
      PROVE  TypeOK'
  BY <1>0, <1>9 DEF Done
<1>10. ASSUME Tick
       PROVE  TypeOK'
  BY <1>0, <1>10 DEF Tick
<1>11. ASSUME TickerStop
       PROVE  TypeOK'
  BY <1>0, <1>11 DEF TickerStop
<1>12. ASSUME GCReturn
       PROVE  TypeOK'
  BY <1>0, <1>12 DEF GCReturn
<1>13. ASSUME NEW r \in Repos, GCNext(r)
       PROVE  TypeOK'
  BY <1>0, <1>13 DEF GCNext
<1>14. ASSUME GCSkip
       PROVE  TypeOK'
  BY <1>0, <1>14 DEF GCSkip
<1>15. ASSUME GCVisit
       PROVE  TypeOK'
  BY <1>0, <1>15 DEF GCVisit
<1>16. ASSUME NEW k \in Keepers, GCTakeToken(k)
       PROVE  TypeOK'
  BY <1>0, <1>16 DEF GCTakeToken
<1>17. ASSUME NEW k \in Keepers, GCWait(k)
       PROVE  TypeOK'
  BY <1>0, <1>17 DEF GCWait
<1>18. ASSUME GCCollected
       PROVE  TypeOK'
  <2>1. first' \in BOOLEAN
    BY <1>18 DEF GCCollected
  <2>2. wgBlock' \in [Objects -> BOOLEAN]
    BY <1>18 DEF GCCollected
  <2>3. at' \in [Threads -> Objects \union {None}]
    BY <1>18 DEF GCCollected
  <2>4. todo' \in [Keepers -> SUBSET Repos]
    BY <1>18 DEF GCCollected
  <2>5. UNCHANGED <<stop, dMu, cacheMu, cached, of, wg, want>>
    BY <1>18 DEF GCCollected
  <2> HIDE DEF Keepers, Threads
  <2> QED  BY <2>1, <2>2, <2>3, <2>4, <2>5
<1>19. ASSUME PruneAge
       PROVE  TypeOK'
  BY <1>0, <1>19 DEF PruneAge
<1>20. ASSUME NEW r \in Repos, PruneNext(r)
       PROVE  TypeOK'
  BY <1>0, <1>20 DEF PruneNext
<1>21. ASSUME PruneCollected
       PROVE  TypeOK'
  BY <1>0, <1>21 DEF PruneCollected
<1>22. ASSUME PruneReturn
       PROVE  TypeOK'
  BY <1>0, <1>22 DEF PruneReturn
<1>23. ASSUME CloseStop
       PROVE  TypeOK'
  BY <1>0, <1>23 DEF CloseStop
<1>24. ASSUME CloseList
       PROVE  TypeOK'
  BY <1>0, <1>24 DEF CloseList
<1>25. ASSUME NEW r \in Repos, CloseNext(r)
       PROVE  TypeOK'
  BY <1>0, <1>25 DEF CloseNext
<1>26. ASSUME CloseTakeToken
       PROVE  TypeOK'
  BY <1>0, <1>26 DEF CloseTakeToken
<1>27. ASSUME CloseWait
       PROVE  TypeOK'
  BY <1>0, <1>27 DEF CloseWait
<1>28. ASSUME CloseCancel
       PROVE  TypeOK'
  BY <1>0, <1>28 DEF CloseCancel
<1>29. ASSUME CloseDelete
       PROVE  TypeOK'
  BY <1>0, <1>29 DEF CloseDelete
<1>30. ASSUME CloseCollected
       PROVE  TypeOK'
  BY <1>0, <1>30 DEF CloseCollected
<1>31. ASSUME CloseDeleted
       PROVE  TypeOK'
  BY <1>0, <1>31 DEF CloseDeleted
<1>32. ASSUME CloseUnlock
       PROVE  TypeOK'
  BY <1>0, <1>32 DEF CloseUnlock
<1>33. ASSUME CloseReturn
       PROVE  TypeOK'
  BY <1>0, <1>33 DEF CloseReturn
<1>34. CASE Terminated \/ UNCHANGED vars
  BY <1>0, <1>34 DEF Terminated, vars
<1> QED
  BY <1>0, <1>1, <1>2, <1>3, <1>4, <1>5, <1>6, <1>7, <1>8, <1>9, <1>10, <1>11, <1>12, <1>13,
     <1>14, <1>15, <1>16, <1>17, <1>18, <1>19, <1>20, <1>21, <1>22, <1>23, <1>24, <1>25, <1>26,
     <1>27, <1>28, <1>29, <1>30, <1>31, <1>32, <1>33, <1>34
  DEF Next, Request, GC, PruneSteps, CloseSteps, Keepers

\* An object whose counter is zero is in nobody's use.
LEMMA DrainedUnused ==
  ASSUME IInv, NEW o \in Objects, Drained(o)
  PROVE  Users(o) = {}
BY UsersFinite, FS_EmptySet DEF IInv, WgCounts, Drained

\* A request is not about to call wg.Add on an object that a keeper drains or works on:
\* with the token because there is one token, and without it, when RepoGet opens a new
\* object, because Close is kept out by d.mu, pruneAge because the object was asked for
\* a moment ago, and the ticker because the object has no timeMod yet.
LEMMA NoKeeperThere ==
  ASSUME IInv, NEW h \in Handlers, pc[h] \in {"opening", "adding"},
         NEW k \in Keepers, k = "ticker" => ~FirstTick,
         pc[k] \in {"wait", "draining", "collect", "cancel"}
  PROVE  at[k] # at[h]
<1> USE Distinct DEF Threads, Keepers
<1>1. Places /\ OneToken /\ Pruning /\ Opening /\ at \in [Threads -> Objects \union {None}]
  BY DEF IInv, TypeOK
<1>2. at[h] \in Objects
  BY <1>1 DEF Places
<1>3. CASE pc[h] = "adding"
  BY <1>1, <1>2, <1>3 DEF OneToken, Holds
<1>4. CASE pc[h] = "opening"
  <2>1. CASE k = "close"
    BY <1>1, <1>4, <2>1 DEF Places, ClosePC
  <2>2. CASE k = "prune"
    BY <1>1, <1>2, <1>4, <2>2 DEF Pruning, Asking
  <2>3. CASE k = "ticker"
    BY <1>1, <1>4, <2>3 DEF Opening
  <2> QED  BY <2>1, <2>2, <2>3
<1> QED  BY <1>3, <1>4

\* Every step keeps a keeper at work alone.
LEMMA AloneStep ==
  ASSUME IInv, [Next]_vars
  PROVE  Alone'
<1> USE Distinct DEF Threads, Keepers
<1>0. /\ TypeOK /\ Places /\ Alone /\ DOMAIN pc = Threads
      /\ at \in [Threads -> Objects \union {None}]
  BY DEF IInv, TypeOK, Places
<1>1. ASSUME \A h \in Handlers : pc'[h] = pc[h] /\ at'[h] = at[h],
             \A k \in Keepers, o \in Objects : Works(k, o)' => Works(k, o)
      PROVE  Alone'
  BY <1>0, <1>1 DEF Alone, Users
<1>2. ASSUME \A k \in Keepers : pc'[k] = pc[k] /\ at'[k] = at[k],
             \A o \in Objects : Users(o)' \subseteq Users(o)
      PROVE  Alone'
  BY <1>0, <1>2 DEF Alone, Works
<1> USE DEF storeVars, locks, objects, access, ctl, Go, Take, Drop
<1>3. ASSUME NEW h \in Handlers, RepoGetOpen(h) \/ RepoGetAdd(h)
      PROVE  Alone'
  <2>1. \A k \in Keepers : pc'[k] = pc[k] /\ at'[k] = at[k]
    BY <1>0, <1>3 DEF RepoGetOpen, RepoGetAdd
  <2>2. \A o \in Objects : o # at[h] => Users(o)' = Users(o)
    BY <1>0, <1>3 DEF RepoGetOpen, RepoGetAdd, Users
  <2>3. \A k \in Keepers : (k = "ticker" => ~FirstTick) => ~Works(k, at[h])
    BY <1>3, NoKeeperThere DEF RepoGetOpen, RepoGetAdd, Works
  <2> QED  BY <1>0, <2>1, <2>2, <2>3 DEF Alone, Works
<1>4. ASSUME NEW h \in Handlers, Request(h), ~RepoGetOpen(h), ~RepoGetAdd(h)
      PROVE  Alone'
  <2>1. \A k \in Keepers : pc'[k] = pc[k] /\ at'[k] = at[k]
    BY <1>0, <1>4
    DEF Request, RepoGetLock, RepoGetLookup, RepoGetCreate, RepoGetCancel, RepoGetTakeToken,
        RepoGetPutToken, Done
  <2>2. \A o \in Objects : Users(o)' \subseteq Users(o)
    BY <1>0, <1>4
    DEF Request, RepoGetLock, RepoGetLookup, RepoGetCreate, RepoGetCancel, RepoGetTakeToken,
        RepoGetPutToken, Done, Users
  <2> QED  BY <1>2, <2>1, <2>2
<1>5. ASSUME NEW k \in Keepers, GCWait(k) \/ (k = "close" /\ CloseWait)
      PROVE  Alone'
  <2>1. \A h \in Handlers : pc'[h] = pc[h] /\ at'[h] = at[h]
    BY <1>0, <1>5 DEF GCWait, CloseWait
  <2>2. \A j \in Keepers, o \in Objects : Works(j, o)' => Works(j, o) \/ o = at[k]
    BY <1>0, <1>5 DEF GCWait, CloseWait, Works
  <2>3. at[k] \in Objects => Users(at[k]) = {}
    BY <1>5, DrainedUnused DEF GCWait, CloseWait
  <2> QED  BY <1>0, <2>1, <2>2, <2>3 DEF Alone, Users
<1>6. CASE \/ Tick \/ TickerStop \/ GCReturn \/ (\E r \in Repos : GCNext(r))
          \/ GCSkip \/ GCVisit \/ GCTakeToken("ticker") \/ GCCollected
  BY <1>0, <1>1, <1>6
  DEF Tick, TickerStop, GCReturn, GCNext, GCSkip, GCVisit, GCTakeToken, GCCollected, Works
<1>7. CASE \/ PruneAge \/ (\E r \in Repos : PruneNext(r)) \/ GCTakeToken("prune")
          \/ PruneCollected \/ PruneReturn
  BY <1>0, <1>1, <1>7 DEF PruneAge, PruneNext, GCTakeToken, PruneCollected, PruneReturn, Works
<1>8. CASE \/ CloseStop \/ CloseList \/ (\E r \in Repos : CloseNext(r))
          \/ CloseTakeToken \/ CloseCancel
  BY <1>0, <1>1, <1>8 DEF CloseStop, CloseList, CloseNext, CloseTakeToken, CloseCancel, Works
<1>9. CASE \/ CloseDelete \/ GCTakeToken("close") \/ CloseCollected
          \/ CloseDeleted \/ CloseUnlock \/ CloseReturn
  BY <1>0, <1>1, <1>9
  DEF CloseDelete, GCTakeToken, CloseCollected, CloseDeleted, CloseUnlock, CloseReturn, Works
<1>10. CASE Terminated \/ UNCHANGED vars
  BY <1>1, <1>10 DEF Terminated, vars, Works
<1> QED
  BY <1>3, <1>4, <1>5, <1>6, <1>7, <1>8, <1>9, <1>10
  DEF Next, GC, PruneSteps, CloseSteps

\* The store begins with an empty cache and nobody at work.
LEMMA InitInvariant ==
  ASSUME Init
  PROVE  IInv
<1> USE Distinct DEF Init, Threads, Keepers
<1>1. TypeOK
  BY BoundType DEF TypeOK
<1>2. Places
  BY BoundType DEF Places, HandlerPC, TickerPC, PrunePC, ClosePC
<1>3. Attached /\ OneObject /\ Pruning /\ Opening
  BY DEF Attached, OneObject, Pruning, Opening
<1>4. OneToken /\ SomeToken /\ Alone
  BY DEF OneToken, SomeToken, Holds, Free, Alone, Works
<1>5. \A o \in Objects : Users(o) = {}
  BY DEF Users
<1> QED  BY <1>1, <1>2, <1>3, <1>4, <1>5, FS_EmptySet DEF IInv, WgCounts

\* IInv holds in every state, for any numbers of repositories, handlers and objects.
THEOREM Invariance == Spec => []IInv
<1>1. IInv /\ [Next]_vars => IInv'
  BY PlacesStep, AttachedStep, PruningStep, OpeningStep, TokenStep, CountStep, AloneStep,
     TypeStep
  DEF IInv
<1> QED  BY <1>1, InitInvariant, PTL DEF Spec

\* Types: in particular Done never takes a WaitGroup below zero.
THEOREM TypeCorrect == Spec => []TypeOK
BY Invariance, PTL DEF IInv

\* A name never stands for two objects that somebody refers to: pruneAge, Close and
\* RepoGet never leave one request with an object of its own.
THEOREM OneObjectPerName == Spec => []OneObject
BY Invariance, PTL DEF IInv

\* A step adds to no WaitGroup that a keeper waits for, the ticker once its first tick is
\* over.
LEMMA NoAddStep ==
  ASSUME IInv, ~FirstTick, [Next]_vars, NEW k \in Keepers, pc[k] \in {"wait", "draining"}
  PROVE  wg'[at[k]] <= wg[at[k]]
<1> USE Distinct DEF Threads, Keepers, access
<1>1. at[k] \in Objects /\ wg \in [Objects -> Nat]
  BY DEF IInv, TypeOK, Places
<1>2. ASSUME wg' = wg
      PROVE  wg'[at[k]] <= wg[at[k]]
  BY <1>1, <1>2
<1>3. ASSUME NEW h \in Handlers, RepoGetOpen(h) \/ RepoGetAdd(h)
      PROVE  wg'[at[k]] <= wg[at[k]]
  <2>1. at[h] # at[k] /\ wg' = [wg EXCEPT ![at[h]] = @ + 1]
    BY <1>3, NoKeeperThere DEF RepoGetOpen, RepoGetAdd
  <2> QED  BY <1>1, <2>1
<1>4. ASSUME NEW h \in Handlers, NEW o \in Objects, RepoGetCreate(h, o)
      PROVE  wg'[at[k]] <= wg[at[k]]
  BY <1>1, <1>4 DEF RepoGetCreate
<1>5. ASSUME NEW h \in Handlers, Done(h)
      PROVE  wg'[at[k]] <= wg[at[k]]
  BY <1>1, <1>5 DEF Done
<1>6. ASSUME NEW h \in Handlers,
             \/ \E r \in Repos : RepoGetLock(h, r)
             \/ RepoGetLookup(h) \/ RepoGetCancel(h) \/ RepoGetTakeToken(h)
             \/ RepoGetPutToken(h)
      PROVE  wg'[at[k]] <= wg[at[k]]
  BY <1>2, <1>6
  DEF RepoGetLock, RepoGetLookup, RepoGetCancel, RepoGetTakeToken, RepoGetPutToken
<1>7. CASE GC
  BY <1>2, <1>7
  DEF GC, Tick, TickerStop, GCReturn, GCNext, GCSkip, GCVisit, GCTakeToken, GCWait, GCCollected
<1>8. CASE PruneAge \/ PruneSteps
  BY <1>2, <1>8
  DEF PruneAge, PruneSteps, PruneNext, GCTakeToken, GCWait, PruneCollected, PruneReturn
<1>9. CASE CloseStop \/ CloseSteps
  BY <1>2, <1>9
  DEF CloseStop, CloseSteps, CloseList, CloseNext, CloseTakeToken, CloseWait, CloseCancel,
      CloseDelete, GCTakeToken, GCWait, CloseCollected, CloseDeleted, CloseUnlock, CloseReturn
<1>10. CASE Terminated \/ UNCHANGED vars
  BY <1>2, <1>10 DEF Terminated, vars
<1> QED
  BY <1>3, <1>4, <1>5, <1>6, <1>7, <1>8, <1>9, <1>10 DEF Next, Request

\* Once the ticker has ticked, wg.Add never happens while a keeper is inside wg.Wait: the
\* token keeps RepoGet's other Add out, and the rest keeps out the Add of a new object.
THEOREM AddsWaitTheirTurn ==
  ASSUME ~FirstTick
  PROVE  Spec => NoAddDuringWait
<1>1. IInv /\ [Next]_vars
        => [\A k \in Keepers : pc[k] \in {"wait", "draining"} => wg'[at[k]] <= wg[at[k]]]_vars
  BY NoAddStep
<1> QED  BY <1>1, Invariance, PTL DEF Spec, NoAddDuringWait

-----------------------------------------------------------------------------
(* The refinement of RepoAccess *)

\* Thread t refers to an object of repository r.
Refers(t, r) == at[t] # None /\ of[at[t]] = r

\* The states that the contract sees, by repository.
UsersOf(r)  == {h \in Handlers : Refers(h, r) /\ pc[h] \in {"returning", "active"}}
OwnersOf(r) == {k \in Keepers : Refers(k, r) /\ pc[k] \in {"collect", "cancel"}}

Mapped ==
  \A r \in Repos :
    /\ UNION {Users(o) : o \in {p \in Objects : of[p] = r}} = UsersOf(r)
    /\ {k \in Keepers : \E o \in Objects : of[o] = r /\ Works(k, o)} = OwnersOf(r)

\* What the refinement mapping says by objects, the definitions above say by names.
LEMMA MappedStep ==
  ASSUME TypeOK, TypeOK'
  PROVE  Mapped /\ Mapped'
<1> USE Distinct DEF TypeOK, Mapped, UsersOf, OwnersOf, Refers, Users, Works, Threads
<1>1. Mapped
  OBVIOUS
<1>2. Mapped'
  OBVIOUS
<1> QED  BY <1>1, <1>2

\* No step makes an object anew while somebody refers to it.
LEMMA NamesStay ==
  ASSUME IInv, [Next]_vars
  PROVE  \A t \in Threads : at[t] # None => of'[at[t]] = of[at[t]]
<1> USE DEF objects
<1>1. ASSUME NEW h \in Handlers, NEW o \in Objects, RepoGetCreate(h, o)
      PROVE  \A t \in Threads : at[t] # None => of'[at[t]] = of[at[t]]
  BY <1>1 DEF RepoGetCreate, Fresh, Free, IInv, TypeOK
<1>2. ASSUME NEW h \in Handlers, Request(h)
      PROVE  \A t \in Threads : at[t] # None => of'[at[t]] = of[at[t]]
  BY <1>1, <1>2
  DEF Request, RepoGetLock, RepoGetLookup, RepoGetOpen, RepoGetCancel, RepoGetTakeToken,
      RepoGetAdd, RepoGetPutToken, Done
<1>3. CASE GC
  BY <1>3
  DEF GC, Tick, TickerStop, GCReturn, GCNext, GCSkip, GCVisit, GCTakeToken, GCWait, GCCollected
<1>4. CASE PruneAge \/ PruneSteps
  BY <1>4
  DEF PruneAge, PruneSteps, PruneNext, GCTakeToken, GCWait, PruneCollected, PruneReturn
<1>5. CASE CloseStop \/ CloseSteps
  BY <1>5
  DEF CloseStop, CloseSteps, CloseList, CloseNext, CloseTakeToken, CloseWait, CloseCancel,
      CloseDelete, GCTakeToken, GCWait, CloseCollected, CloseDeleted, CloseUnlock, CloseReturn
<1>6. CASE Terminated \/ UNCHANGED vars
  BY <1>6 DEF Terminated, vars
<1> QED  BY <1>2, <1>3, <1>4, <1>5, <1>6 DEF Next

\* A step of the detailed specification is one of RepoAccess, or none.
LEMMA AccessStep ==
  ASSUME IInv, IInv', ~FirstTick, [Next]_vars
  PROVE  [Access!Next]_(Access!vars)
<1> USE Distinct DEF Threads, Keepers
<1> DEFINE SameUsers == \A r \in Repos : UsersOf(r)' = UsersOf(r)
           SameOwners == \A r \in Repos : OwnersOf(r)' = OwnersOf(r)
<1>1. /\ TypeOK /\ Places /\ Attached /\ OneObject /\ OneToken /\ Alone /\ DOMAIN pc = Threads
      /\ at \in [Threads -> Objects \union {None}]
      /\ \A t \in Threads : at[t] # None => of'[at[t]] = of[at[t]] /\ of[at[t]] \in Repos
  BY NamesStay DEF IInv, TypeOK, Places, Attached
<1>2. Mapped /\ Mapped'
  BY MappedStep DEF IInv
<1>3. SameUsers /\ SameOwners => UNCHANGED Access!vars
  BY <1>2 DEF Mapped, Access!vars
<1>4. ASSUME \A h \in Handlers : pc'[h] = pc[h] /\ at'[h] = at[h]
      PROVE  SameUsers
  BY <1>1, <1>4 DEF UsersOf, Refers
<1>5. ASSUME \A k \in Keepers : pc'[k] = pc[k] /\ at'[k] = at[k]
      PROVE  SameOwners
  BY <1>1, <1>5 DEF OwnersOf, Refers
<1> DEFINE us == [r \in Repos |-> UsersOf(r)]
           os == [r \in Repos |-> OwnersOf(r)]
<1>6. /\ [r \in Repos |-> UNION {Users(o) : o \in {p \in Objects : of[p] = r}}] = us
       /\ [r \in Repos |-> UNION {Users(o) : o \in {p \in Objects : of[p] = r}}]' = us'
       /\ [r \in Repos |-> {k \in Keepers : \E o \in Objects : of[o] = r /\ Works(k, o)}] = os
       /\ [r \in Repos |-> {k \in Keepers : \E o \in Objects : of[o] = r /\ Works(k, o)}]' = os'
  BY <1>2 DEF Mapped
\* Whoever refers to one repository refers to one object.
<1>7. \A t, u \in Threads, r \in Repos : Refers(t, r) /\ Refers(u, r) => at[t] = at[u]
  BY <1>1 DEF OneObject, Refers
<1> USE DEF storeVars, locks, objects, access, ctl, Go, Take, Drop
<1>8. ASSUME NEW h \in Handlers, RepoGetOpen(h) \/ RepoGetAdd(h)
      PROVE  \E q \in Repos : Access!Enter(h, q)
  <2>1. PICK q \in Repos : Refers(h, q)
    BY <1>1, <1>8 DEF RepoGetOpen, RepoGetAdd, Places, Refers
  <2>2. SameOwners
    BY <1>1, <1>8, <1>5 DEF RepoGetOpen, RepoGetAdd
  <2>3. OwnersOf(q) = {}
    <3>1. pc[h] \in {"opening", "adding"}
      BY <1>8 DEF RepoGetOpen, RepoGetAdd
    <3> QED  BY <1>7, <2>1, <3>1, NoKeeperThere DEF OwnersOf
  <2>4. /\ UsersOf(q)' = UsersOf(q) \union {h}
        /\ \A r \in Repos \ {q} : UsersOf(r)' = UsersOf(r)
    BY <1>1, <1>8, <2>1 DEF RepoGetOpen, RepoGetAdd, UsersOf, Refers
  <2>5. us' = [us EXCEPT ![q] = @ \union {h}] /\ os' = os /\ os[q] = {}
    BY <2>2, <2>3, <2>4
  <2> QED  BY <1>6, <2>5 DEF Access!Enter
<1>9. ASSUME NEW h \in Handlers, Done(h)
      PROVE  \E q \in Repos : Access!Leave(h, q)
  <2>1. PICK q \in Repos : Refers(h, q)
    BY <1>1, <1>9 DEF Done, Places, Refers
  <2>2. SameOwners
    BY <1>1, <1>9, <1>5 DEF Done
  <2>3. /\ h \in UsersOf(q) /\ UsersOf(q)' = UsersOf(q) \ {h}
        /\ \A r \in Repos \ {q} : UsersOf(r)' = UsersOf(r)
    BY <1>1, <1>9, <2>1 DEF Done, UsersOf, Refers
  <2>4. us' = [us EXCEPT ![q] = @ \ {h}] /\ os' = os /\ h \in us[q]
    BY <2>2, <2>3
  <2> QED  BY <1>6, <2>4 DEF Access!Leave
<1>10. ASSUME NEW k \in Keepers, GCWait(k) \/ (k = "close" /\ CloseWait)
      PROVE  \E q \in Repos : Access!Seize(k, q)
  <2>1. PICK q \in Repos : Refers(k, q)
    BY <1>1, <1>10 DEF GCWait, CloseWait, Places, Refers
  <2>2. SameUsers
    BY <1>1, <1>10, <1>4 DEF GCWait, CloseWait
  <2>3. UsersOf(q) = {}
    <3>1. at[k] \in Objects /\ Drained(at[k])
      BY <1>1, <1>10, <2>1 DEF GCWait, CloseWait, Refers
    <3> QED  BY <1>7, <2>1, <3>1, DrainedUnused DEF UsersOf, Users
  <2>4. OwnersOf(q) = {}
    BY <1>1, <1>10, <1>7, <2>1 DEF GCWait, CloseWait, OwnersOf, Refers, OneToken, Holds
  <2>5. /\ OwnersOf(q)' = {k}
        /\ \A r \in Repos \ {q} : OwnersOf(r)' = OwnersOf(r)
    BY <1>1, <1>10, <2>1, <2>4 DEF GCWait, CloseWait, OwnersOf, Refers
  <2>6. us' = us /\ os' = [os EXCEPT ![q] = {k}] /\ us[q] = {} /\ os[q] = {}
    BY <2>2, <2>3, <2>4, <2>5
  <2> QED  BY <1>6, <2>6 DEF Access!Seize
<1>11. ASSUME NEW k \in Keepers,
             \/ k = "ticker" /\ GCCollected
             \/ k = "prune" /\ PruneCollected
             \/ k = "close" /\ (CloseCancel \/ CloseCollected)
      PROVE  \E q \in Repos : Access!Yield(k, q)
  <2>1. /\ pc[k] \in {"collect", "cancel"} /\ pc'[k] \notin {"collect", "cancel"}
        /\ at'[k] \in {at[k], None}
        /\ \A t \in Threads \ {k} : pc'[t] = pc[t] /\ at'[t] = at[t]
    BY <1>1, <1>11 DEF GCCollected, PruneCollected, CloseCancel, CloseCollected
  <2>2. PICK q \in Repos : Refers(k, q)
    BY <1>1, <2>1 DEF Places, Refers
  <2>3. SameUsers
    BY <1>4, <2>1
  <2>4. OwnersOf(q) = {k}
    BY <1>1, <1>7, <2>1, <2>2 DEF OwnersOf, Refers, OneToken, Holds
  <2>5. /\ OwnersOf(q)' = {}
        /\ \A r \in Repos \ {q} : OwnersOf(r)' = OwnersOf(r)
    BY <1>1, <2>1, <2>2, <2>4 DEF OwnersOf, Refers
  <2>6. us' = us /\ os' = [os EXCEPT ![q] = {}] /\ os[q] = {k}
    BY <2>3, <2>4, <2>5
  <2> QED  BY <1>6, <2>6 DEF Access!Yield
<1>12. ASSUME NEW h \in Handlers,
             \/ \E r \in Repos : RepoGetLock(h, r)
             \/ RepoGetLookup(h) \/ (\E o \in Objects : RepoGetCreate(h, o))
             \/ RepoGetCancel(h) \/ RepoGetTakeToken(h) \/ RepoGetPutToken(h)
      PROVE  SameUsers /\ SameOwners
  <2>1. SameOwners
    BY <1>1, <1>12, <1>5
    DEF RepoGetLock, RepoGetLookup, RepoGetCreate, RepoGetCancel, RepoGetTakeToken,
        RepoGetPutToken
  <2>2. /\ \A g \in Handlers \ {h} : pc'[g] = pc[g] /\ at'[g] = at[g]
        /\ pc[h] \in {"returning", "active"} <=> pc'[h] \in {"returning", "active"}
        /\ pc[h] \in {"returning", "active"} => at'[h] = at[h]
    BY <1>1, <1>12
    DEF RepoGetLock, RepoGetLookup, RepoGetCreate, RepoGetCancel, RepoGetTakeToken,
        RepoGetPutToken
  <2>3. SameUsers
    BY <1>1, <2>2 DEF UsersOf, Refers
  <2> QED  BY <2>1, <2>3
\* A step of a keeper that is not at work, and will not be after it.
<1>13. ASSUME NEW k \in Keepers,
             \A t \in Threads \ {k} : pc'[t] = pc[t] /\ at'[t] = at[t],
             pc[k] \notin {"collect", "cancel"}, pc'[k] \notin {"collect", "cancel"}
      PROVE  UNCHANGED Access!vars
  <2>1. SameUsers
    BY <1>4, <1>13
  <2>2. SameOwners
    BY <1>1, <1>13 DEF OwnersOf, Refers
  <2> QED  BY <1>3, <2>1, <2>2
<1>14. CASE \/ Tick \/ TickerStop \/ GCReturn \/ (\E r \in Repos : GCNext(r))
          \/ GCSkip \/ GCVisit \/ GCTakeToken("ticker")
  <2>1. /\ \A t \in Threads \ {"ticker"} : pc'[t] = pc[t] /\ at'[t] = at[t]
        /\ pc["ticker"] \notin {"collect", "cancel"}
        /\ pc'["ticker"] \notin {"collect", "cancel"}
    BY <1>1, <1>14 DEF Tick, TickerStop, GCReturn, GCNext, GCSkip, GCVisit, GCTakeToken
  <2> QED  BY <1>13, <2>1
<1>15. CASE \/ PruneAge \/ (\E r \in Repos : PruneNext(r)) \/ GCTakeToken("prune")
           \/ PruneReturn
  <2>1. /\ \A t \in Threads \ {"prune"} : pc'[t] = pc[t] /\ at'[t] = at[t]
        /\ pc["prune"] \notin {"collect", "cancel"}
        /\ pc'["prune"] \notin {"collect", "cancel"}
    BY <1>1, <1>15 DEF PruneAge, PruneNext, GCTakeToken, PruneReturn
  <2> QED  BY <1>13, <2>1
<1>16. CASE \/ CloseStop \/ CloseList \/ (\E r \in Repos : CloseNext(r)) \/ CloseTakeToken
          \/ CloseDelete \/ GCTakeToken("close") \/ CloseDeleted \/ CloseUnlock
          \/ CloseReturn
  <2>1. /\ \A t \in Threads \ {"close"} : pc'[t] = pc[t] /\ at'[t] = at[t]
        /\ pc["close"] \notin {"collect", "cancel"} /\ pc'["close"] \notin {"collect", "cancel"}
    BY <1>1, <1>16
    DEF CloseStop, CloseList, CloseNext, CloseTakeToken, CloseDelete, GCTakeToken,
        CloseDeleted, CloseUnlock, CloseReturn
  <2> QED  BY <1>13, <2>1
<1>17. CASE Terminated \/ UNCHANGED vars
  BY <1>3, <1>17 DEF Terminated, vars, UsersOf, OwnersOf, Refers
<1>18. CASE \E h \in Handlers : Request(h)
  BY <1>8, <1>9, <1>12, <1>3, <1>18 DEF Request, Access!Next
<1>19. CASE GC
  BY <1>10, <1>11, <1>14, <1>19 DEF GC, Access!Next
<1>20. CASE PruneAge \/ PruneSteps
  BY <1>10, <1>11, <1>15, <1>20 DEF PruneSteps, Access!Next
<1>21. CASE CloseStop \/ CloseSteps
  BY <1>10, <1>11, <1>16, <1>21 DEF CloseSteps, Access!Next
<1> QED
  BY <1>17, <1>18, <1>19, <1>20, <1>21 DEF Next

\* What requests and keepers see of RepoGet, Done, the collector, pruneAge and Close in
\* dir.go is a behaviour of the contract, once the ticker has ticked.
THEOREM ImplementsAccess ==
  ASSUME ~FirstTick
  PROVE  Spec => AccessSpec
<1>1. Init => Access!Init
  <2> SUFFICES ASSUME Init
               PROVE  Access!Init
    OBVIOUS
  <2>1. \A o \in Objects : Users(o) = {}
    BY Distinct DEF Init, Users, Threads
  <2>2. \A o \in Objects, k \in Keepers : ~Works(k, o)
    BY Distinct DEF Init, Works, Threads
  <2> QED  BY <2>1, <2>2 DEF Access!Init
<1>2. IInv /\ IInv' /\ [Next]_vars => [Access!Next]_(Access!vars)
  BY AccessStep
<1> QED
  BY <1>1, <1>2, Invariance, PTL DEF Spec, AccessSpec, Access!Spec
=============================================================================
