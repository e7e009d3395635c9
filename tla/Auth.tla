-------------------------------- MODULE Auth --------------------------------
(***************************************************************************)
(* Access control of requests (config/auth.go): the users and rules come   *)
(* from a file that is polled, or requests carry a token that the server   *)
(* has issued and that a background job removes once it has expired.       *)
(*                                                                         *)
(* The file is a sequence of versions, newest last, and its modification   *)
(* time the number of the newest one. Which requests the rules allow is    *)
(* left open. A section under the controller's RWMutex is one step, except *)
(* that reading the file and releasing the cleanup job, inside a write     *)
(* section, are steps of their own.                                        *)
(***************************************************************************)
EXTENDS Naturals, Sequences, FiniteSets

CONSTANTS Requests, Tokens, None

\* Who can be inside a write section of ac.mu: a request, the background job, nobody.
ASSUME WritersDiffer == None \notin Requests \union {"cleaner"} /\ "cleaner" \notin Requests

VARIABLES
  file,      \* for each version whether it can be parsed
  disk,      \* "there", "gone" or "denied": what becomes of opening the file
  conf,      \* ac.conf: the version it was read from, 0 for the empty one
  mod,       \* ac.mod, 0 for none
  polled,    \* whether ac.poll is less than pollFreq ago
  opaque,    \* ac.opaque: the tokens; users are left out
  expired,   \* those of them whose time is over
  job,       \* whether the channel cleanupJob is full
  cleaner,   \* the background job: its next step and its delList
  writer,    \* who is inside a write section of ac.mu
  pc         \* what each request does next

fileVars  == <<file, disk>>
confVars  == <<conf, mod, polled>>
tokenVars == <<opaque, expired, job, cleaner>>
authVars  == <<fileVars, confVars, tokenVars, writer>>

AuthInit ==
  /\ file \in {<<TRUE>>, <<FALSE>>} /\ disk \in {"there", "gone"}
  /\ conf = 0 /\ mod = 0 /\ polled = FALSE
  /\ opaque = {} /\ expired = {} /\ job = FALSE
  /\ cleaner = [pc |-> "none", list |-> {}]
  /\ writer = None

Go(r, label) == pc' = [pc EXCEPT ![r] = label]
Done(r)      == Go(r, "idle")

-----------------------------------------------------------------------------
(* getConf: the first half under the read lock, the second under the write lock *)

Poll(r) ==
  /\ pc[r] = "poll" /\ writer = None
  /\ Go(r, IF polled THEN "check" ELSE "lock")
  /\ UNCHANGED authVars

\* Polled meanwhile, or the file is missing or unchanged: conf stays.
Keep(r) ==
  /\ pc[r] = "lock" /\ writer = None
  /\ polled \/ disk = "gone" \/ mod = Len(file)
  /\ polled' = TRUE
  /\ Go(r, "check")
  /\ UNCHANGED <<fileVars, conf, mod, tokenVars, writer>>

Stat(r) ==
  /\ pc[r] = "lock" /\ writer = None
  /\ ~polled /\ disk # "gone" /\ mod # Len(file)
  /\ polled' = TRUE /\ mod' = Len(file)
  /\ writer' = r
  /\ Go(r, "read")
  /\ UNCHANGED <<fileVars, conf, tokenVars>>

\* Mutant: an error of the parser is overlooked.
Overlooked == disk = "there"
Parsed == disk = "there" /\ file[Len(file)]

\* After an error, too, mod says that the file was read.
Read(r) ==
  /\ pc[r] = "read"
  /\ conf' = IF Parsed THEN Len(file) ELSE conf
  /\ writer' = None
  /\ Go(r, "check")
  /\ UNCHANGED <<fileVars, mod, polled, tokenVars>>

-----------------------------------------------------------------------------
(* Tokens *)

\* A GET of /token: the credentials are wrong, no token can be generated, or one is
\* issued.
Refuse(r) ==
  /\ pc[r] = "issue"
  /\ Done(r)
  /\ UNCHANGED authVars

Issue(r, t) ==
  /\ pc[r] = "issue" /\ writer = None
  /\ t \notin opaque
  /\ opaque' = opaque \union {t}
  /\ Go(r, "cleanup")
  /\ UNCHANGED <<fileVars, confVars, expired, job, cleaner, writer>>

\* After the response was sent: start the job, unless there is one.
StartCleanup(r) ==
  /\ pc[r] = "cleanup"
  /\ job' = TRUE
  /\ cleaner' = IF job THEN cleaner ELSE [cleaner EXCEPT !.pc = "scan"]
  /\ Done(r)
  /\ UNCHANGED <<fileVars, confVars, opaque, expired, writer>>

Scan ==
  /\ cleaner.pc = "scan" /\ writer = None
  /\ cleaner' = [pc   |-> IF expired = {} THEN "sleep" ELSE "delete",
                 list |-> expired]
  /\ UNCHANGED <<fileVars, confVars, opaque, expired, job, writer, pc>>

\* Mutant: the lock is released before the job is.
KeepNoLock(tokens) == None
\* Without tokens the job ends, and is released while the lock is held.
KeepLock(tokens) == IF tokens = {} THEN "cleaner" ELSE None

Sweep ==
  /\ cleaner.pc = "delete" /\ writer = None
  /\ opaque' = opaque \ cleaner.list
  /\ expired' = expired \ cleaner.list
  /\ writer' = KeepLock(opaque')
  /\ cleaner' = [pc |-> IF opaque' = {} THEN "release" ELSE "sleep", list |-> {}]
  /\ UNCHANGED <<fileVars, confVars, job, pc>>

Release ==
  /\ cleaner.pc = "release"
  /\ job' = FALSE /\ writer' = None
  /\ cleaner' = [cleaner EXCEPT !.pc = "none"]
  /\ UNCHANGED <<fileVars, confVars, opaque, expired, pc>>

Wake ==
  /\ cleaner.pc = "sleep"
  /\ cleaner' = [cleaner EXCEPT !.pc = "scan"]
  /\ UNCHANGED <<fileVars, confVars, opaque, expired, job, writer, pc>>

-----------------------------------------------------------------------------
(* Time, and whoever edits the file *)

PollAges ==
  /\ polled /\ polled' = FALSE
  /\ UNCHANGED <<fileVars, conf, mod, tokenVars, writer, pc>>

Expire(t) ==
  /\ t \in opaque \ expired
  /\ expired' = expired \union {t}
  /\ UNCHANGED <<fileVars, confVars, opaque, job, cleaner, writer, pc>>

\* A new version has a new modification time; a change of permissions has not.
WriteFile(valid) ==
  /\ file' = Append(file, valid) /\ disk' = "there"
  /\ UNCHANGED <<confVars, tokenVars, writer, pc>>

RemoveFile ==
  /\ disk' = "gone"
  /\ UNCHANGED <<file, confVars, tokenVars, writer, pc>>

ChangePermission ==
  /\ disk # "gone"
  /\ disk' = IF disk = "there" THEN "denied" ELSE "there"
  /\ UNCHANGED <<file, confVars, tokenVars, writer, pc>>

=============================================================================
