------------------------------ MODULE GCTicker ------------------------------
(***************************************************************************)
(* When the garbage collector visits a repository: gcTicker and gc of both *)
(* stores (mem.go, dir.go). A pass looks at the repositories that are open *)
(* and skips those whose timeMod lies before the previous pass, less the   *)
(* grace period; so everything hangs on how timeMod is set. In dir it is   *)
(* zero again whenever a repository is opened, over a directory that may   *)
(* hold what an earlier process, or an object that the cache has dropped,  *)
(* has left there.                                                         *)
(*                                                                         *)
(* Each repository has one item, a blob or a manifest, that comes to be    *)
(* used and unused: garbage is what no index entry keeps. What a visit     *)
(* removes is Collector's subject; here an unused item goes once it is     *)
(* older than the grace period. Time is a number of steps.                 *)
(***************************************************************************)
EXTENDS Naturals, FiniteSets

CONSTANTS
  Repos,
  Kinds,      \* the stores to look at: "mem", "dir"
  Grace,      \* the grace period
  Skew,       \* how far the clock of the file system may lag behind, in dir
  MaxTime     \* bound on time

ASSUME TickerConstants ==
  /\ Kinds \subseteq {"mem", "dir"}
  /\ Grace \in Nat /\ Skew \in Nat /\ MaxTime \in Nat

VARIABLES
  kind,       \* which store this is; it stays
  now,
  item,       \* state: "absent", "unused" or "used"; mod, its time; since, when it
              \* came into this state
  fileMod,    \* dir: modification time of index.json; 0 if there is none
  open,       \* the repositories that have an object: the cache's, or all of mem's
  timeMod,    \* per object; 0 is Go's zero time
  marks,      \* dir: repositories for which a goroutine of an upload's end is about
              \* to set timeMod
  tick,       \* the last tick; it waits in the ticker's channel while it is later than cur
  prev, cur,  \* the ticks of the previous and of the current pass; 0 before the first
  todo,       \* the repositories that the current pass is to look at
  missed      \* history: repositories whose garbage timeMod says nothing of, or that
              \* the end of a pass has left out

clockVars  == <<kind, now>>
diskVars   == <<item, fileMod>>
objectVars == <<open, timeMod, marks>>
passVars   == <<tick, prev, cur, todo>>
tickerVars == <<clockVars, diskVars, objectVars, passVars, missed>>

Absent == [state |-> "absent", mod |-> 0, since |-> 0]

\* What NewDir may find in a directory: index.json of some time before, and an item
\* that it uses, or not any more, or did not use yet.
Leftovers ==
  {<<Absent, 0>>} \union
  {<<[state |-> s, mod |-> 0, since |-> t], 1>> : s \in {"unused", "used"}, t \in {0, 1}}

TickerInit ==
  /\ kind \in Kinds
  /\ now = Skew + 1
  /\ \E found \in [Repos -> IF kind = "dir" THEN Leftovers ELSE {<<Absent, 0>>}] :
       /\ item = [r \in Repos |-> found[r][1]]
       /\ fileMod = [r \in Repos |-> found[r][2]]
  /\ open = {} /\ timeMod = [r \in Repos |-> 0] /\ marks = {}
  /\ tick = 0 /\ prev = 0 /\ cur = 0 /\ todo = {}
  /\ missed = {}

Minus(t, d) == IF t > d THEN t - d ELSE 0

-----------------------------------------------------------------------------
(* timeMod *)

SetTime(r, t) == timeMod' = [timeMod EXCEPT ![r] = t]
Mark(r) == SetTime(r, now)
\* A mark for a change makes good for those that were lost.
Noticed(r) == missed' = missed \ {r}

Change(r, state, mod) == item' = [item EXCEPT ![r] = [state |-> state, mod |-> mod, since |-> now]]

\* The time that a new file gets; never 0.
FileTimes == Minus(now, Skew)..now

\* dir: indexSave takes the time of the new file.
Save(r) == \E t \in FileTimes : SetTime(r, t) /\ fileMod' = [fileMod EXCEPT ![r] = t]

\* The time t is too early to stand for what has become unused in r.
Lag == IF kind = "dir" THEN Skew ELSE 0
Behind(r, t) == item[r].state = "unused" /\ (t = 0 \/ t + Lag < item[r].since)

\* The first pass, which skips nothing, has yet to come to r.
Awaited(r) == prev = 0 /\ (cur = 0 \/ r \in todo)

\* RepoGet makes an object. (Mem never drops one; a dir may hold anything.)
Open(r) ==
  /\ r \notin open
  /\ open' = open \union {r}
  /\ SetTime(r, 0)
  /\ missed' = IF Behind(r, 0) /\ ~Awaited(r) THEN missed \union {r} ELSE missed \ {r}
  /\ UNCHANGED <<clockVars, diskVars, marks, passVars>>

\* IndexInsert and IndexRemove.
Index(r) ==
  /\ r \in open
  /\ IF kind = "mem" THEN Mark(r) /\ UNCHANGED fileMod ELSE Save(r)
  /\ Noticed(r)
  /\ UNCHANGED <<clockVars, open, marks, passVars>>

Use(r) ==
  /\ item[r].state = "unused"
  /\ Change(r, "used", item[r].mod)
  /\ Index(r)

Unuse(r) ==
  /\ item[r].state = "used"
  /\ Change(r, "unused", item[r].mod)
  /\ Index(r)

\* BlobCreate, which makes the directory with its index.json if there is none (or not,
\* if only index.json has gone). In dir the end of an upload without a blob does the
\* same to timeMod.
Begin(r) ==
  /\ r \in open
  /\ Mark(r)
  /\ \/ UNCHANGED fileMod
     \/ /\ kind = "dir" /\ fileMod[r] = 0
        /\ \E t \in FileTimes : fileMod' = [fileMod EXCEPT ![r] = t]
  /\ UNCHANGED <<clockVars, item, open, marks, passVars, missed>>

\* The end of an upload. In dir the blob is as old as the last write, which may have
\* been earlier, and timeMod is set by a goroutine.
Close(r) ==
  /\ r \in open /\ item[r].state # "used"
  /\ IF kind = "mem"
     THEN Change(r, "unused", now) /\ Mark(r) /\ Noticed(r) /\ UNCHANGED marks
     ELSE /\ \E t \in Minus(now, Grace)..now : Change(r, "unused", t)
          /\ marks' = marks \union {r}
          /\ UNCHANGED <<timeMod, missed>>
  /\ UNCHANGED <<clockVars, fileMod, open, passVars>>

MarkLater(r) ==
  /\ r \in marks
  /\ Mark(r) /\ Noticed(r) /\ marks' = marks \ {r}
  /\ UNCHANGED <<clockVars, diskVars, open, passVars>>

\* BlobDelete, of a blob that nothing uses.
Delete(r) ==
  /\ r \in open /\ item[r].state = "unused"
  /\ item' = [item EXCEPT ![r] = Absent]
  /\ IF kind = "mem" THEN Mark(r) ELSE UNCHANGED timeMod
  /\ Noticed(r)
  /\ UNCHANGED <<clockVars, fileMod, open, marks, passVars>>

\* dir: indexLoad, when index.json is not of the time that timeMod says; the index is
\* saved if indexIngest has changed it. What is used or unused by the index is not
\* changed: nobody else writes the file.
Load(r) ==
  /\ r \in open /\ fileMod[r] \notin {0, timeMod[r]}
  /\ \E t \in {fileMod[r]} \union FileTimes :
       /\ SetTime(r, t) /\ fileMod' = [fileMod EXCEPT ![r] = t]
       /\ missed' = IF Behind(r, t) /\ ~Awaited(r) THEN missed \union {r} ELSE missed
  /\ UNCHANGED <<clockVars, item, open, marks, passVars>>

-----------------------------------------------------------------------------
(* repo.gc *)

\* Unused, and not modified after the cutoff.
Collectable(r) == item[r].state = "unused" /\ item[r].mod + Grace <= now

\* In dir the index is loaded first, which fails if it is not there, and saved if
\* indexIngest has changed it or if it has lost an entry. An index.json without
\* entries may go (EmptyRepo). The object is left with the time t.
Collect(r, t) ==
  /\ item' = IF Collectable(r) THEN [item EXCEPT ![r] = Absent] ELSE item
  /\ IF kind = "mem"
     THEN t = (IF Collectable(r) THEN now ELSE timeMod[r]) /\ UNCHANGED fileMod
     ELSE /\ fileMod[r] # 0 /\ t \in {fileMod[r]} \union FileTimes
          /\ \E f \in {t, 0} :
               /\ f = 0 => item'[r].state # "used"
               /\ fileMod' = [fileMod EXCEPT ![r] = f]

\* dir: the cache drops a repository that was not used for a while and has no uploads;
\* its object is collected once more. An upload's goroutine that is late marks
\* the object that is gone.
PruneRepo(r) ==
  /\ kind = "dir" /\ r \in open
  /\ \E t \in 0..now : Collect(r, t)
  /\ open' = open \ {r} /\ SetTime(r, 0) /\ marks' = marks \ {r}
  /\ Noticed(r)
  /\ UNCHANGED <<clockVars, passVars>>

\* dir: the process ends, in any way, and another one starts.
Restart ==
  /\ kind = "dir"
  /\ open' = {} /\ timeMod' = [r \in Repos |-> 0] /\ marks' = {}
  /\ tick' = 0 /\ prev' = 0 /\ cur' = 0 /\ todo' = {}
  /\ missed' = {}
  /\ UNCHANGED <<clockVars, diskVars>>

-----------------------------------------------------------------------------
(* gcTicker and gc *)

\* Mutants: the window is that of this tick; or it leaves out the grace period.
StartOfTick  == Minus(cur, Grace)
StartOfPrev  == prev
\* Changes before this time have been looked at by an earlier pass.
Start == Minus(prev, IF kind = "dir" THEN Grace + Skew ELSE Grace)

\* A new tick is dropped while another is waiting.
Tick ==
  /\ now > cur /\ tick = cur
  /\ tick' = now
  /\ UNCHANGED <<clockVars, diskVars, objectVars, prev, cur, todo, missed>>

BeginPass ==
  /\ tick > cur /\ todo = {}
  /\ prev' = cur /\ cur' = tick
  /\ todo' = open
  /\ UNCHANGED <<clockVars, diskVars, objectVars, tick, missed>>

\* Mutant: the first pass has a window like the others.
Within(r) == timeMod[r] = 0 \/ timeMod[r] < Start
\* Nothing is before the zero time, less a grace period, of the first pass.
Outside(r) == prev # 0 /\ (timeMod[r] = 0 \/ timeMod[r] < Start)

\* The repository has left the cache meanwhile, or has nothing new.
Skip(r) ==
  /\ r \in todo
  /\ r \in open => Outside(r)
  /\ todo' = todo \ {r}
  /\ UNCHANGED <<clockVars, diskVars, objectVars, tick, prev, cur, missed>>

Due(r) == r \in todo \intersect open /\ ~Outside(r)

Visit(r) ==
  /\ Due(r)
  /\ todo' = todo \ {r}
  /\ \E t \in 0..now :
       /\ Collect(r, t) /\ SetTime(r, t)
       /\ missed' = IF ~Collectable(r) /\ Behind(r, t) THEN missed \union {r} ELSE missed \ {r}
  /\ UNCHANGED <<clockVars, open, marks, tick, prev, cur>>

\* repo.gc fails, for one of these or for another repository: the pass is over, for
\* all that are left.
Fail ==
  /\ todo # {}
  /\ todo' = {}
  /\ missed' = missed \union todo
  /\ UNCHANGED <<clockVars, diskVars, objectVars, tick, prev, cur>>

Advance ==
  /\ now < MaxTime /\ marks = {}
  /\ now' = now + 1
  /\ UNCHANGED <<kind, diskVars, objectVars, passVars, missed>>

Finished == now = MaxTime /\ UNCHANGED tickerVars

TickerNext ==
  \/ \E r \in Repos :
       \/ Open(r) \/ PruneRepo(r)
       \/ Use(r) \/ Unuse(r) \/ Begin(r) \/ Close(r) \/ MarkLater(r) \/ Delete(r) \/ Load(r)
       \/ Skip(r) \/ Visit(r)
  \/ Fail \/ Tick \/ BeginPass \/ Restart \/ Advance \/ Finished

TickerSpec == TickerInit /\ [][TickerNext]_tickerVars

-----------------------------------------------------------------------------
(* Properties *)

\* A pass that has reached its end leaves nothing in an open repository that had been
\* unused, and older than the grace period, at its tick: what changes while a pass
\* runs, what is too young for one pass, what comes between two ticks, and what a
\* process finds in a repository that it opens before its first tick.
\* Not so in the repositories of missed, until they change again: those that a failure
\* left out, whose mark indexLoad has set back, or that were opened later.
OldGarbageGone ==
  todo = {} =>
    \A r \in open \ missed :
      item[r].state = "unused" => item[r].mod + Grace >= cur \/ item[r].since >= cur

-----------------------------------------------------------------------------
(* What a comment promises and the code does not keep; no run checks this. *)

\* In dir: a repository with garbage that the next pass would visit stays so until it
\* is visited or changes again (dir.go:791 "Update dr.timeMod to trigger a GC").
MarkKept ==
  [][\A r \in open \intersect open' :
       /\ item[r].state = "unused" /\ item'[r] = item[r]
       /\ prev' = prev /\ todo' = todo /\ ~Outside(r)
       => ~Outside(r)']_tickerVars

=============================================================================
