----------------------------- MODULE RepoAccess -----------------------------
(***************************************************************************)
(* What Store.RepoGet, Repo.Done, the garbage collector and Store.Close    *)
(* promise each other about one repository, with nothing of how the stores *)
(* achieve it: any number of requests may have a repository open, or one   *)
(* keeper (the collector, or the teardown in Close) owns it alone.         *)
(* internal/store/mem.go and internal/store/dir.go both aim at this.       *)
(***************************************************************************)
CONSTANTS
  Repos,     \* repository names
  Handlers,  \* request goroutines
  Keepers    \* goroutines that need a repository to themselves

VARIABLES
  users,     \* requests between RepoGet's return and Done, per repository
  owner      \* keepers at work on the repository

vars == <<users, owner>>

\* Types.
TypeOK ==
  /\ users \in [Repos -> SUBSET Handlers]
  /\ owner \in [Repos -> SUBSET Keepers]

Init ==
  /\ users = [r \in Repos |-> {}]
  /\ owner = [r \in Repos |-> {}]

\* RepoGet hands the repository to a request.
Enter(h, r) ==
  /\ owner[r] = {}
  /\ users' = [users EXCEPT ![r] = @ \union {h}]
  /\ UNCHANGED owner

\* The request calls Done.
Leave(h, r) ==
  /\ h \in users[r]
  /\ users' = [users EXCEPT ![r] = @ \ {h}]
  /\ UNCHANGED owner

\* A keeper has waited for every request to finish.
Seize(k, r) ==
  /\ users[r] = {}
  /\ owner[r] = {}
  /\ owner' = [owner EXCEPT ![r] = {k}]
  /\ UNCHANGED users

\* The keeper lets requests in again.
Yield(k, r) ==
  /\ owner[r] = {k}
  /\ owner' = [owner EXCEPT ![r] = {}]
  /\ UNCHANGED users

Next ==
  \E r \in Repos :
    \/ \E h \in Handlers : Enter(h, r) \/ Leave(h, r)
    \/ \E k \in Keepers : Seize(k, r) \/ Yield(k, r)

Spec == Init /\ [][Next]_vars

-----------------------------------------------------------------------------
\* The point of the contract: nobody reads or writes a repository while a
\* keeper works on it (mem.go:116 and dir.go:136, "GC blocks new requests").
Exclusive == \A r \in Repos : owner[r] # {} => users[r] = {}
=============================================================================
