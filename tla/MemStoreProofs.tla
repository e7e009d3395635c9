--------------------------- MODULE MemStoreProofs ---------------------------
(***************************************************************************)
(* Proofs about MemStore, for any sets of repositories and handlers: its   *)
(* safety invariants, the WaitGroup's discipline, and that it implements   *)
(* the contract RepoAccess. MCMemStore checks IInv on a small instance.    *)
(***************************************************************************)
EXTENDS MemStore, FiniteSetTheorems, TLAPS

-----------------------------------------------------------------------------
(* The inductive invariant *)

\* A handler between receiving a token and sending it back.
Entering(h, r) == repo[h] = r /\ pc[h] \in {"adding", "returning"}

\* Who is where refers to a repository, and who is not does not.
References ==
  /\ \A h \in Handlers : pc[h] = "idle" <=> repo[h] = NoRepo
  /\ kpc["gc"] \in {"ticker", "scan", "exited"} <=> krepo["gc"] = NoRepo
  /\ kpc["close"] \in {"running", "list", "next", "join", "closed"}
       <=> krepo["close"] = NoRepo
  /\ stop <=> kpc["close"] # "running"

\* There is at most one token per repository ...
OneToken ==
  \A r \in Repos :
    /\ wgBlock[r] => /\ \A h \in Handlers : ~Entering(h, r)
                     /\ \A k \in Keepers : ~Holds(k, r)
    /\ \A h, g \in Handlers : Entering(h, r) /\ Entering(g, r) => h = g
    /\ \A h \in Handlers, k \in Keepers : ~(Entering(h, r) /\ Holds(k, r))
    /\ ~(Holds("gc", r) /\ Holds("close", r))

\* ... and at least one, for each that is or was registered.
Known(r) ==
  \/ r \in registered
  \/ \E h \in Handlers : repo[h] = r
  \/ \E k \in Keepers : krepo[k] = r

SomeToken ==
  \A r \in Repos : Known(r) =>
    \/ wgBlock[r]
    \/ \E h \in Handlers : Entering(h, r)
    \/ \E k \in Keepers : Holds(k, r)

\* Until Close starts, whoever refers to a repository refers to a registered
\* one: so RepoGetCreate builds its channel and its counter from scratch.
OnlyCloseDrops ==
  ~stop =>
    /\ \A h \in Handlers : repo[h] \in registered \union {NoRepo}
    /\ krepo["gc"] \in registered \union {NoRepo}
    /\ todo["gc"] \subseteq registered

\* Close lists what is registered once no more can be, and loses none of it.
CloseKeepsTrack ==
  /\ kpc["close"] \in {"next", "block", "wait", "release", "delete"} =>
       registered \subseteq todo["close"] \union {krepo["close"]}
  /\ kpc["close"] \in {"join", "closed"} => registered = {}
  /\ kpc["close"] = "closed" => kpc["gc"] = "exited"

\* The counter counts the requests that have the repository open.
WgCounts == \A r \in Repos : wg[r] = Cardinality(Users(r))

\* A keeper that was through wg.Wait is alone.
Alone == \A r \in Repos, k \in Keepers : Works(k, r) => Users(r) = {}

\* The inductive invariant: what the channels, the WaitGroups and m.repos of
\* mem.go say of each other between any two steps of any goroutines.
IInv ==
  /\ TypeOK
  /\ References
  /\ OneToken
  /\ SomeToken
  /\ OnlyCloseDrops
  /\ CloseKeepsTrack
  /\ WgCounts
  /\ Alone

\* All of it but the types and the count.
Control ==
  References /\ OneToken /\ SomeToken /\ OnlyCloseDrops /\ CloseKeepsTrack /\ Alone

-----------------------------------------------------------------------------
(* The counter *)

\* The requests that have a repository open are finitely many.
LEMMA UsersFinite ==
  ASSUME NEW r
  PROVE  IsFiniteSet(Users(r))
BY HandlersFinite, FS_Subset DEF Users

\* wg.Add(1) for a request that was not counted, ...
LEMMA OneMore ==
  ASSUME NEW S, IsFiniteSet(S), NEW x, x \notin S
  PROVE  Cardinality(S \union {x}) = Cardinality(S) + 1
BY FS_AddElement

\* ... and wg.Done for one that was.
LEMMA OneLess ==
  ASSUME NEW S, IsFiniteSet(S), NEW x, x \in S
  PROVE  /\ Cardinality(S \ {x}) = Cardinality(S) - 1
         /\ Cardinality(S \ {x}) \in Nat
BY FS_RemoveElement, FS_CardinalityType

\* Only RepoGetCreate, RepoGetAdd and Done change who has a repository open,
\* each by one request, and they change the counter alike.
LEMMA CountStep ==
  ASSUME IInv, [Next]_vars
  PROVE  wg' \in [Repos -> Nat] /\ WgCounts'
<1> DEFINE Counted == wg' \in [Repos -> Nat] /\ WgCounts'
<1>0. TypeOK /\ References /\ OnlyCloseDrops /\ WgCounts
  BY DEF IInv
<1>1. ASSUME NEW h \in Handlers, NEW q \in Repos, RepoGetCreate(h, q)
      PROVE  Counted
  <2>1. Users(q) = {}
    BY <1>0, <1>1, NoRepoFresh DEF RepoGetCreate, OnlyCloseDrops, TypeOK, Users
  <2>2. Users(q)' = Users(q) \union {h}
    BY <1>0, <1>1, <2>1 DEF RepoGetCreate, TypeOK, Users
  <2>3. \A r \in Repos \ {q} : Users(r)' = Users(r)
    BY <1>0, <1>1, NoRepoFresh DEF RepoGetCreate, Users, TypeOK, References
  <2>4. Cardinality({} \union {h}) = 1
    BY OneMore, FS_EmptySet
  <2> QED
    BY <1>0, <1>1, <2>1, <2>2, <2>3, <2>4 DEF RepoGetCreate, TypeOK, WgCounts
<1>2. ASSUME NEW h \in Handlers, NEW q \in Repos, repo[h] = q, RepoGetAdd(h)
      PROVE  Counted
  <2>1. h \notin Users(q) /\ Users(q)' = Users(q) \union {h}
    <3>1. h \notin Users(q)
      BY <1>2 DEF RepoGetAdd, Users
    <3>2. pc' = [pc EXCEPT ![h] = "returning"] /\ repo' = repo
      BY <1>2 DEF RepoGetAdd
    <3> QED  BY <1>0, <1>2, <3>1, <3>2 DEF TypeOK, Users
  <2>2. \A r \in Repos \ {q} : Users(r)' = Users(r)
    BY <1>0, <1>2 DEF RepoGetAdd, Users, TypeOK
  <2>3. Cardinality(Users(q) \union {h}) = Cardinality(Users(q)) + 1
    BY <2>1, UsersFinite, OneMore
  <2>4. wg' = [wg EXCEPT ![q] = wg[q] + 1]
    BY <1>2 DEF RepoGetAdd, Add
  <2>5. wg'[q] = Cardinality(Users(q)')
    BY <1>0, <2>1, <2>3, <2>4 DEF TypeOK, WgCounts
  <2> QED
    BY <1>0, <2>2, <2>4, <2>5 DEF TypeOK, WgCounts
<1>3. ASSUME NEW h \in Handlers, NEW q \in Repos, repo[h] = q, Done(h)
      PROVE  Counted
  <2>1. h \in Users(q) /\ Users(q)' = Users(q) \ {h}
    BY <1>0, <1>3, NoRepoFresh DEF Done, TypeOK, Users
  <2>2. \A r \in Repos \ {q} : Users(r)' = Users(r)
    BY <1>0, <1>3, NoRepoFresh DEF Done, Users, TypeOK
  <2>3. /\ Cardinality(Users(q) \ {h}) = Cardinality(Users(q)) - 1
        /\ Cardinality(Users(q) \ {h}) \in Nat
    BY <2>1, UsersFinite, OneLess
  <2> QED
    BY <1>0, <1>3, <2>1, <2>2, <2>3 DEF Done, TypeOK, WgCounts
<1>4. ASSUME UNCHANGED wg, \A r \in Repos : Users(r)' = Users(r)
      PROVE  Counted
  BY <1>0, <1>4 DEF TypeOK, WgCounts
<1>5. ASSUME NEW h \in Handlers, NEW q \in Repos, RepoGetFound(h, q)
      PROVE  Counted
  BY <1>0, <1>5, <1>4 DEF RepoGetFound, Users, TypeOK, References, accessVars
<1>6. ASSUME NEW h \in Handlers,
             RepoGetCancel(h) \/ RepoGetTakeToken(h) \/ RepoGetPutToken(h)
      PROVE  Counted
  BY <1>0, <1>6, <1>4, NoRepoFresh
  DEF TypeOK, RepoGetCancel, RepoGetTakeToken, RepoGetPutToken, Users, accessVars
<1>7. CASE GC
  BY <1>7, <1>4
  DEF GC, Tick, TickerStop, GCReturn, GCNext, GCSkip, GCVisit, GCTakeToken, GCWait,
      GCPutToken, Users, accessVars, reqVars
<1>8. CASE CloseStop \/ CloseSteps
  BY <1>8, <1>4
  DEF CloseStop, CloseSteps, CloseList, CloseNext, CloseTakeToken, CloseWait,
      ClosePutToken, CloseDelete, CloseUnlock, CloseReturn, Users, accessVars, reqVars
<1>9. CASE Terminated \/ UNCHANGED vars
  BY <1>9, <1>4 DEF Terminated, vars, Users
<1>10. ASSUME NEW h \in Handlers PROVE pc[h] # "idle" => repo[h] \in Repos
  BY <1>0 DEF TypeOK, References
<1> QED
  BY <1>1, <1>2, <1>3, <1>10, <1>5, <1>6, <1>7, <1>8, <1>9
  DEF Next, Request, RepoGetAdd, Done

\* wg.Wait returns only when no request has the repository open.
LEMMA DrainedAlone ==
  ASSUME IInv, NEW r \in Repos, Drained(r)
  PROVE  Users(r) = {}
BY UsersFinite, FS_EmptySet DEF IInv, WgCounts, Drained

-----------------------------------------------------------------------------
(* The invariant is inductive *)

\* Every step keeps the types.
LEMMA TypeStep ==
  ASSUME IInv, [Next]_vars
  PROVE  TypeOK'
<1> USE DEF IInv, TypeOK, References, Keepers, GCPC, ClosePC, HandlerPC,
    storeVars, accessVars, reqVars, keeperVars
<1>0. wg' \in [Repos -> Nat]
  BY CountStep
<1>1. ASSUME NEW h \in Handlers, NEW q \in Repos, RepoGetCreate(h, q)
      PROVE  TypeOK'
  BY <1>0, <1>1 DEF RepoGetCreate
<1>2. ASSUME NEW h \in Handlers, NEW q \in Repos, RepoGetFound(h, q)
      PROVE  TypeOK'
  BY <1>0, <1>2 DEF RepoGetFound
<1>3. ASSUME NEW h \in Handlers, RepoGetCancel(h)
      PROVE  TypeOK'
  BY <1>0, <1>3 DEF RepoGetCancel
<1>4. ASSUME NEW h \in Handlers, RepoGetTakeToken(h)
      PROVE  TypeOK'
  BY <1>0, <1>4 DEF RepoGetTakeToken, TakeToken
<1>5. ASSUME NEW h \in Handlers, RepoGetAdd(h)
      PROVE  TypeOK'
  BY <1>0, <1>5 DEF RepoGetAdd
<1>6. ASSUME NEW h \in Handlers, RepoGetPutToken(h)
      PROVE  TypeOK'
  BY <1>0, <1>6 DEF RepoGetPutToken, PutToken
<1>7. ASSUME NEW h \in Handlers, Done(h)
      PROVE  TypeOK'
  BY <1>0, <1>7 DEF Done
<1>8. ASSUME Tick
      PROVE  TypeOK'
  BY <1>0, <1>8 DEF Tick
<1>9. ASSUME TickerStop
      PROVE  TypeOK'
  BY <1>0, <1>9 DEF TickerStop
<1>10. ASSUME GCReturn
      PROVE  TypeOK'
  BY <1>0, <1>10 DEF GCReturn
<1>11. ASSUME NEW q \in Repos, GCNext(q)
      PROVE  TypeOK'
  BY <1>0, <1>11 DEF GCNext
<1>12. ASSUME GCSkip
      PROVE  TypeOK'
  BY <1>0, <1>12 DEF GCSkip
<1>13. ASSUME GCVisit
      PROVE  TypeOK'
  BY <1>0, <1>13 DEF GCVisit
<1>14. ASSUME GCTakeToken
      PROVE  TypeOK'
  BY <1>0, <1>14 DEF GCTakeToken, TakeToken
<1>15. ASSUME GCWait
      PROVE  TypeOK'
  BY <1>0, <1>15 DEF GCWait
<1>16. ASSUME GCPutToken
      PROVE  TypeOK'
  BY <1>0, <1>16 DEF GCPutToken, PutToken
<1>17. ASSUME CloseStop
      PROVE  TypeOK'
  BY <1>0, <1>17 DEF CloseStop
<1>18. ASSUME CloseList
      PROVE  TypeOK'
  BY <1>0, <1>18 DEF CloseList
<1>19. ASSUME NEW q \in Repos, CloseNext(q)
      PROVE  TypeOK'
  BY <1>0, <1>19 DEF CloseNext
<1>20. ASSUME CloseTakeToken
      PROVE  TypeOK'
  BY <1>0, <1>20 DEF CloseTakeToken, TakeToken
<1>21. ASSUME CloseWait
      PROVE  TypeOK'
  BY <1>0, <1>21 DEF CloseWait
<1>22. ASSUME ClosePutToken
      PROVE  TypeOK'
  BY <1>0, <1>22 DEF ClosePutToken, PutToken
<1>23. ASSUME CloseDelete
      PROVE  TypeOK'
  BY <1>0, <1>23 DEF CloseDelete
<1>24. ASSUME CloseUnlock
      PROVE  TypeOK'
  BY <1>0, <1>24 DEF CloseUnlock
<1>25. ASSUME CloseReturn
      PROVE  TypeOK'
  BY <1>0, <1>25 DEF CloseReturn, TickerReturned
<1>26. ASSUME Terminated \/ UNCHANGED vars
      PROVE  TypeOK'
  BY <1>0, <1>26 DEF Terminated, vars
<1> QED
  BY <1>1, <1>2, <1>3, <1>4, <1>5, <1>6, <1>7, <1>8, <1>9, <1>10, <1>11, <1>12, <1>13,
     <1>14, <1>15, <1>16, <1>17, <1>18, <1>19, <1>20, <1>21, <1>22, <1>23, <1>24, <1>25, <1>26
  DEF Next, Request, GC, CloseSteps

\* Every step keeps the token with one thread, and m.repos with the threads that
\* use it. Only the returns of wg.Wait need the count.
LEMMA ControlStep ==
  ASSUME IInv, [Next]_vars
  PROVE  Control'
<1> USE NoRepoFresh DEF IInv, TypeOK, Keepers, GCPC, ClosePC, HandlerPC,
    Control, References, OneToken, SomeToken, OnlyCloseDrops, CloseKeepsTrack, Alone,
    Entering, Holds, Known, Works, Users, storeVars, accessVars, reqVars, keeperVars
<1>1. ASSUME NEW h \in Handlers, NEW q \in Repos, RepoGetCreate(h, q)
      PROVE  Control'
  BY <1>1 DEF RepoGetCreate
<1>2. ASSUME NEW h \in Handlers, NEW q \in Repos, RepoGetFound(h, q)
      PROVE  Control'
  BY <1>2 DEF RepoGetFound
<1>3. ASSUME NEW h \in Handlers, RepoGetCancel(h)
      PROVE  Control'
  BY <1>3 DEF RepoGetCancel
<1>4. ASSUME NEW h \in Handlers, RepoGetTakeToken(h)
      PROVE  Control'
  BY <1>4 DEF RepoGetTakeToken, TakeToken
<1>5. ASSUME NEW h \in Handlers, RepoGetAdd(h)
      PROVE  Control'
  BY <1>5 DEF RepoGetAdd
<1>6. ASSUME NEW h \in Handlers, RepoGetPutToken(h)
      PROVE  Control'
  BY <1>6 DEF RepoGetPutToken, PutToken
<1>7. ASSUME NEW h \in Handlers, Done(h)
      PROVE  Control'
  BY <1>7 DEF Done
<1>8. ASSUME Tick
      PROVE  Control'
  BY <1>8 DEF Tick
<1>9. ASSUME TickerStop
      PROVE  Control'
  BY <1>9 DEF TickerStop
<1>10. ASSUME GCReturn
      PROVE  Control'
  BY <1>10 DEF GCReturn
<1>11. ASSUME NEW q \in Repos, GCNext(q)
      PROVE  Control'
  BY <1>11 DEF GCNext
<1>12. ASSUME GCSkip
      PROVE  Control'
  BY <1>12 DEF GCSkip
<1>13. ASSUME GCVisit
      PROVE  Control'
  BY <1>13 DEF GCVisit
<1>14. ASSUME GCTakeToken
      PROVE  Control'
  BY <1>14 DEF GCTakeToken, TakeToken
<1>15. ASSUME GCWait
      PROVE  Control'
  <2>1. krepo["gc"] \in Repos /\ Users(krepo["gc"]) = {}
    BY <1>15, DrainedAlone DEF GCWait
  <2> QED  BY <1>15, <2>1 DEF GCWait
<1>16. ASSUME GCPutToken
      PROVE  Control'
  <2>1. References' /\ OnlyCloseDrops' /\ CloseKeepsTrack'
    BY <1>16 DEF GCPutToken, PutToken
  <2>2. OneToken'
    BY <1>16 DEF GCPutToken, PutToken
  <2>3. SomeToken'
    BY <1>16 DEF GCPutToken, PutToken
  <2>4. Alone'
    BY <1>16 DEF GCPutToken, PutToken
  <2> QED  BY <2>1, <2>2, <2>3, <2>4
<1>17. ASSUME CloseStop
      PROVE  Control'
  BY <1>17 DEF CloseStop
<1>18. ASSUME CloseList
      PROVE  Control'
  BY <1>18 DEF CloseList
<1>19. ASSUME NEW q \in Repos, CloseNext(q)
      PROVE  Control'
  BY <1>19 DEF CloseNext
<1>20. ASSUME CloseTakeToken
      PROVE  Control'
  BY <1>20 DEF CloseTakeToken, TakeToken
<1>21. ASSUME CloseWait
      PROVE  Control'
  <2>1. krepo["close"] \in Repos /\ Users(krepo["close"]) = {}
    BY <1>21, DrainedAlone DEF CloseWait
  <2> QED  BY <1>21, <2>1 DEF CloseWait
<1>22. ASSUME ClosePutToken
      PROVE  Control'
  BY <1>22 DEF ClosePutToken, PutToken
<1>23. ASSUME CloseDelete
      PROVE  Control'
  BY <1>23 DEF CloseDelete
<1>24. ASSUME CloseUnlock
      PROVE  Control'
  BY <1>24 DEF CloseUnlock
<1>25. ASSUME CloseReturn
      PROVE  Control'
  BY <1>25 DEF CloseReturn, TickerReturned
<1>26. ASSUME Terminated \/ UNCHANGED vars
      PROVE  Control'
  BY <1>26 DEF Terminated, vars
<1> QED
  BY <1>1, <1>2, <1>3, <1>4, <1>5, <1>6, <1>7, <1>8, <1>9, <1>10, <1>11, <1>12, <1>13,
     <1>14, <1>15, <1>16, <1>17, <1>18, <1>19, <1>20, <1>21, <1>22, <1>23, <1>24, <1>25, <1>26
  DEF Next, Request, GC, CloseSteps

\* NewMem: no repository, no request, no keeper at work.
LEMMA InitInvariant == Init => IInv
<1> SUFFICES ASSUME Init PROVE IInv
  OBVIOUS
<1>1. \A r \in Repos : Users(r) = {}
  BY DEF Init, Users
<1>2. WgCounts
  BY <1>1, FS_EmptySet DEF Init, WgCounts
<1> QED
  BY <1>1, <1>2, NoRepoFresh
  DEF Init, IInv, TypeOK, Keepers, GCPC, ClosePC, HandlerPC, References, OneToken,
      SomeToken, OnlyCloseDrops, CloseKeepsTrack, Alone, Entering, Holds, Known, Works

\* The induction step.
LEMMA StepInvariant == IInv /\ [Next]_vars => IInv'
BY CountStep, TypeStep, ControlStep DEF IInv, Control

\* Every reachable state satisfies the invariant.
THEOREM Invariance == Spec => []IInv
BY InitInvariant, StepInvariant, PTL DEF Spec

-----------------------------------------------------------------------------
(* What follows from it *)

\* Type correctness.
THEOREM TypeCorrect == Spec => []TypeOK
<1>1. IInv => TypeOK
  BY DEF IInv
<1> QED  BY <1>1, Invariance, PTL

\* A keeper at work is alone with the repository.
THEOREM KeeperExclusion == Spec => []KeeperExclusive
<1>1. IInv => KeeperExclusive
  BY DEF IInv, Alone, OneToken, KeeperExclusive, Works, Holds, Keepers
<1> QED  BY <1>1, Invariance, PTL

\* Requests work on what m.repos holds until the store is closed.
THEOREM InUseStaysRegistered == Spec => []InUseRegistered
<1>1. IInv => InUseRegistered
  BY NoRepoFresh DEF IInv, TypeOK, References, OnlyCloseDrops, InUseRegistered
<1> QED  BY <1>1, Invariance, PTL

\* Close leaves no goroutine, no repository and no lost token behind.
THEOREM ClosedLeavesNothing == Spec => []ClosedReleasesAll
<1>1. IInv => ClosedReleasesAll
  BY NoRepoFresh
  DEF IInv, TypeOK, References, CloseKeepsTrack, SomeToken, Known, Entering, Holds,
      Keepers, ClosedReleasesAll
<1> QED  BY <1>1, Invariance, PTL

\* No wg.Add during a wg.Wait.
THEOREM WaitGroupDiscipline == Spec => NoAddDuringWait
<1>1. IInv /\ [Next]_vars =>
        [\A r \in Repos, k \in Keepers :
           kpc[k] = "wait" /\ krepo[k] = r => wg'[r] <= wg[r]]_vars
  <2> SUFFICES ASSUME IInv, Next, NEW r \in Repos, NEW k \in Keepers,
                      kpc[k] = "wait", krepo[k] = r
               PROVE  wg'[r] <= wg[r]
    BY DEF Keepers
  <2>1. Holds(k, r) /\ ~wgBlock[r]
    BY DEF IInv, OneToken, Holds
  <2>2. ASSUME NEW h \in Handlers, NEW q \in Repos, RepoGetCreate(h, q)
        PROVE  wg'[r] = wg[r]
    <3>1. r # q
      BY <2>2, NoRepoFresh
      DEF RepoGetCreate, IInv, TypeOK, References, OnlyCloseDrops, Keepers
    <3> QED  BY <2>2, <3>1 DEF RepoGetCreate, IInv, TypeOK
  <2>3. ASSUME NEW h \in Handlers, RepoGetAdd(h)
        PROVE  wg'[r] = wg[r]
    <3>1. r # repo[h]
      BY <2>1, <2>3 DEF RepoGetAdd, IInv, OneToken, Entering
    <3> QED  BY <2>3, <3>1 DEF RepoGetAdd, Add, IInv, TypeOK
  <2>4. wg[r] \in Nat
    BY DEF IInv, TypeOK
  <2>5. CASE \E h \in Handlers, q \in Repos : RepoGetCreate(h, q)
    BY <2>2, <2>4, <2>5
  <2>6. CASE \E h \in Handlers : RepoGetAdd(h)
    BY <2>3, <2>4, <2>6
  <2>7. CASE \E h \in Handlers : Done(h)
    BY <2>4, <2>7 DEF Done, IInv, TypeOK
  <2>8. CASE UNCHANGED wg
    BY <2>4, <2>8
  <2> QED
    BY <2>5, <2>6, <2>7, <2>8
    DEF Next, Request, RepoGetFound, RepoGetCancel, RepoGetTakeToken, RepoGetPutToken,
        GC, Tick, TickerStop, GCReturn, GCNext, GCSkip, GCVisit, GCTakeToken, GCWait,
        GCPutToken, CloseStop, CloseSteps, CloseList, CloseNext, CloseTakeToken,
        CloseWait, ClosePutToken, CloseDelete, CloseUnlock, CloseReturn, Terminated,
        accessVars, vars
<1> QED  BY <1>1, Invariance, PTL DEF Spec, NoAddDuringWait

-----------------------------------------------------------------------------
(* The in-memory store implements the contract of RepoAccess *)

\* Every step is a step of the contract or changes nothing it can see.
LEMMA AccessStep ==
  ASSUME IInv, IInv', [Next]_vars
  PROVE  [Access!Next]_(Access!vars)
<1> DEFINE Hidden == \A r \in Repos : /\ Users(r)' = Users(r)
                                     /\ \A k \in Keepers : Works(k, r)' = Works(k, r)
<1>0. TypeOK /\ References /\ OneToken /\ OnlyCloseDrops /\ Alone
  BY DEF IInv
<1>1. Hidden => UNCHANGED Access!vars
  BY DEF Access!vars
<1>2. ASSUME NEW h \in Handlers, NEW q \in Repos,
             RepoGetCreate(h, q) \/ (repo[h] = q /\ RepoGetAdd(h))
      PROVE  Access!Enter(h, q)
  <2>1. \A k \in Keepers : ~Works(k, q) /\ ~Works(k, q)'
    BY <1>0, <1>2, NoRepoFresh
    DEF RepoGetCreate, RepoGetAdd, Works, Holds, Entering, TypeOK, References, OneToken,
        OnlyCloseDrops, Keepers, keeperVars
  <2>2. /\ Users(q)' = Users(q) \union {h}
        /\ \A r \in Repos \ {q} : Users(r)' = Users(r)
    BY <1>0, <1>2, NoRepoFresh
    DEF RepoGetCreate, RepoGetAdd, Users, TypeOK, References
  <2>3. \A r \in Repos, k \in Keepers : Works(k, r)' = Works(k, r)
    BY <1>2 DEF RepoGetCreate, RepoGetAdd, Works, keeperVars
  <2> QED  BY <2>1, <2>2, <2>3 DEF Access!Enter
<1>3. ASSUME NEW h \in Handlers, NEW q \in Repos, repo[h] = q, Done(h)
      PROVE  Access!Leave(h, q)
  <2>1. /\ h \in Users(q) /\ Users(q)' = Users(q) \ {h}
        /\ \A r \in Repos \ {q} : Users(r)' = Users(r)
    BY <1>0, <1>3, NoRepoFresh DEF Done, Users, TypeOK
  <2>2. \A r \in Repos, k \in Keepers : Works(k, r)' = Works(k, r)
    BY <1>3 DEF Done, Works, keeperVars
  <2> QED  BY <2>1, <2>2 DEF Access!Leave
<1>4. ASSUME NEW k \in Keepers, NEW q \in Repos, krepo[k] = q,
             (k = "gc" /\ GCWait) \/ (k = "close" /\ CloseWait)
      PROVE  Access!Seize(k, q)
  <2>1. Users(q) = {}
    BY <1>4, DrainedAlone DEF GCWait, CloseWait
  <2>2. /\ \A j \in Keepers : ~Works(j, q)
        /\ \A j \in Keepers : Works(j, q)' <=> j = k
        /\ \A r \in Repos \ {q}, j \in Keepers : Works(j, r)' = Works(j, r)
    BY <1>0, <1>4 DEF GCWait, CloseWait, Works, Holds, OneToken, TypeOK, Keepers
  <2>3. \A r \in Repos : Users(r)' = Users(r)
    BY <1>4 DEF GCWait, CloseWait, Users, reqVars
  <2> QED  BY <2>1, <2>2, <2>3 DEF Access!Seize
<1>5. ASSUME NEW k \in Keepers, NEW q \in Repos, krepo[k] = q,
             (k = "gc" /\ GCPutToken) \/ (k = "close" /\ ClosePutToken)
      PROVE  Access!Yield(k, q)
  <2>1. /\ \A j \in Keepers : Works(j, q) <=> j = k
        /\ \A j \in Keepers : ~Works(j, q)'
        /\ \A r \in Repos \ {q}, j \in Keepers : Works(j, r)' = Works(j, r)
    BY <1>0, <1>5, NoRepoFresh
    DEF GCPutToken, ClosePutToken, Works, Holds, OneToken, TypeOK, Keepers
  <2>2. \A r \in Repos : Users(r)' = Users(r)
    BY <1>5 DEF GCPutToken, ClosePutToken, Users, reqVars
  <2> QED  BY <2>1, <2>2 DEF Access!Yield
<1>6. ASSUME NEW h \in Handlers,
             \/ \E q \in Repos : RepoGetFound(h, q)
             \/ RepoGetCancel(h) \/ RepoGetTakeToken(h) \/ RepoGetPutToken(h)
      PROVE  Hidden
  <2>1. \A r \in Repos : Users(r)' = Users(r)
    BY <1>0, <1>6, NoRepoFresh
    DEF RepoGetFound, RepoGetCancel, RepoGetTakeToken, RepoGetPutToken, Users, TypeOK,
        References
  <2> QED
    BY <1>6, <2>1
    DEF RepoGetFound, RepoGetCancel, RepoGetTakeToken, RepoGetPutToken, Works, keeperVars
<1>7. CASE \/ Tick \/ TickerStop \/ GCReturn \/ (\E q \in Repos : GCNext(q))
          \/ GCSkip \/ GCVisit \/ GCTakeToken
  BY <1>0, <1>1, <1>7, NoRepoFresh
  DEF Tick, TickerStop, GCReturn, GCNext, GCSkip, GCVisit, GCTakeToken, Users, Works,
      TypeOK, References, Keepers, reqVars
<1>8. CASE \/ CloseStop \/ CloseList \/ (\E q \in Repos : CloseNext(q))
          \/ CloseTakeToken \/ CloseDelete \/ CloseUnlock \/ CloseReturn
  BY <1>0, <1>1, <1>8, NoRepoFresh
  DEF CloseStop, CloseList, CloseNext, CloseTakeToken, CloseDelete, CloseUnlock,
      CloseReturn, Users, Works, TypeOK, References, Keepers, reqVars
<1>9. CASE Terminated \/ UNCHANGED vars
  BY <1>1, <1>9 DEF Terminated, vars, Users, Works
<1>10. ASSUME NEW h \in Handlers, RepoGetAdd(h) \/ Done(h)
       PROVE  repo[h] \in Repos
  BY <1>0, <1>10 DEF RepoGetAdd, Done, TypeOK, References
<1>11. /\ GCWait \/ GCPutToken => krepo["gc"] \in Repos
       /\ CloseWait \/ ClosePutToken => krepo["close"] \in Repos
  BY <1>0 DEF GCWait, GCPutToken, CloseWait, ClosePutToken, TypeOK, References, Keepers
<1>12. CASE \E h \in Handlers : Request(h)
  BY <1>1, <1>2, <1>3, <1>6, <1>10, <1>12 DEF Request, Access!Next
<1>13. CASE GC
  BY <1>4, <1>5, <1>7, <1>11, <1>13 DEF GC, Access!Next, Keepers
<1>14. CASE CloseStop \/ CloseSteps
  BY <1>4, <1>5, <1>8, <1>11, <1>14 DEF CloseSteps, Access!Next, Keepers
<1> QED
  BY <1>9, <1>12, <1>13, <1>14 DEF Next

\* What requests and keepers see of RepoGet, Done, GC and Close in mem.go is a
\* behaviour of the contract.
THEOREM ImplementsAccess == Spec => AccessSpec
<1>1. Init => Access!Init
  BY DEF Init, Access!Init, Users, Works
<1> QED
  BY <1>1, AccessStep, Invariance, PTL DEF Spec, AccessSpec, Access!Spec
=============================================================================
