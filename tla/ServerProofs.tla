---------------------------- MODULE ServerProofs ----------------------------
(***************************************************************************)
(* Proofs about Server and Auth, for any requests, tokens and setups: the  *)
(* store is open while it is used, the configuration follows the file,     *)
(* tokens are watched, and serve ends with the store closed. MCServer      *)
(* checks IInv on a small instance.                                        *)
(***************************************************************************)
EXTENDS Server, TLAPS

-----------------------------------------------------------------------------
(* The inductive invariant *)

Labels == {"idle", "limit", "poll", "lock", "read", "check", "issue", "cleanup", "serve"}

FileTypes ==
  /\ file \in Seq(BOOLEAN) /\ file # <<>> /\ disk \in {"there", "gone", "denied"}
  /\ conf \in 0..Len(file) /\ mod \in 0..Len(file) /\ polled \in BOOLEAN

TokenTypes ==
  /\ opaque \subseteq Tokens /\ expired \subseteq opaque /\ job \in BOOLEAN
  /\ cleaner \in [pc : {"none", "scan", "delete", "sleep", "release"}, list : SUBSET Tokens]

ServerTypes ==
  /\ setup \in Setups /\ pc \in [Requests -> Labels]
  /\ mu \in {"shutdown", None} /\ httpServer \in BOOLEAN
  /\ net \in {"new", "listening", "failed", "closed"}
  /\ store \in BOOLEAN /\ ctx \in BOOLEAN
  /\ main \in {"run", "listen", "accept", "stopped", "join", "exit"}
  /\ notifier \in {"wait", "shutdown", "drain", "clean"}

\* Of requests that read the file and the job that releases itself, only the one that
\* ac.mu belongs to is at it.
OneWriter ==
  /\ \A r \in Requests : writer = r <=> pc[r] = "read"
  /\ writer = "cleaner" <=> cleaner.pc = "release"
  /\ writer \in Requests \union {"cleaner", None}

\* Between reads, conf is the version that mod stands for, if it could be parsed. Without
\* changes of its permissions a file that is there can be opened.
ConfCurrent ==
  /\ conf > 0 => file[conf]
  /\ ~setup.chmod => disk # "denied"
  /\ (disk = "there" /\ mod = Len(file) /\ file[mod] /\ ~setup.chmod
        /\ writer \notin Requests) => conf = mod

\* The channel is full while there is a job; the last thing that a job has found is
\* that there were no tokens, and none comes before it has released the channel.
JobHasTokens ==
  /\ job <=> cleaner.pc # "none"
  /\ cleaner.pc = "release" => opaque = {}
  /\ TokensWatched

\* Whoever closed the store has waited for all requests; there is a reason for each
\* way in which net/http and Run have ended.
Closing ==
  /\ \A r \in Requests : store \/ pc[r] = "idle"
  /\ mu = "shutdown" <=> notifier = "drain"
  /\ notifier = "drain" => net \in {"closed", "failed"}
  /\ ctx /\ "cancel" \notin setup.stops => main = "exit" \/ notifier = "clean"
  /\ net = "closed" /\ "cancel" \notin setup.stops => notifier = "drain" \/ ~store
  /\ main \in {"run", "listen"} => net \in {"new", "closed"}
  /\ main = "join" => net = "closed"
  /\ main \in {"stopped", "exit"} => net \in {"closed", "failed"}
  /\ ExitsClosed

\* The inductive invariant: who holds ac.mu and what holds while nobody does, and
\* how far serve's two goroutines are.
IInv ==
  FileTypes /\ TokenTypes /\ ServerTypes /\ OneWriter /\ ConfCurrent /\ JobHasTokens /\ Closing

-----------------------------------------------------------------------------
\* WithAuth and Run's caller before anything has happened.
LEMMA InitInvariant == Init => IInv
<1> SUFFICES ASSUME Init
             PROVE  IInv
  OBVIOUS
<1>1. FileTypes
  <2>1. \A b \in BOOLEAN : <<b>> \in Seq(BOOLEAN) /\ <<b>> # <<>> /\ Len(<<b>>) = 1
    OBVIOUS
  <2>2. PICK b \in BOOLEAN : file = <<b>>
    BY DEF Init, AuthInit
  <2>3. disk \in {"there", "gone"} /\ conf = 0 /\ mod = 0 /\ polled \in BOOLEAN
    BY DEF Init, AuthInit
  <2>4. file \in Seq(BOOLEAN) /\ file # <<>> /\ Len(file) = 1
    BY <2>1, <2>2
  <2> QED  BY <2>3, <2>4 DEF FileTypes
<1> USE WritersDiffer, NobodyDiffers DEF Init, AuthInit
<1>2. OneWriter /\ ConfCurrent
  BY DEF OneWriter, ConfCurrent
<1>3. TokenTypes /\ ServerTypes
  BY DEF TokenTypes, ServerTypes, Labels
<1>4. JobHasTokens
  BY DEF JobHasTokens, TokensWatched
<1>5. Closing
  BY DEF Closing, ExitsClosed
<1> QED  BY <1>1, <1>2, <1>3, <1>4, <1>5 DEF IInv

\* The steps of requests that neither touch the server's own state ...
LEMMA RequestStep ==
  ASSUME IInv, main # "exit", UNCHANGED setup, NEW r \in Requests, Arrive(r) \/ Request(r)
  PROVE  IInv'
<1> USE WritersDiffer, NobodyDiffers
    DEF FileTypes, TokenTypes, ServerTypes, Labels, OneWriter, ConfCurrent, JobHasTokens,
        TokensWatched, Closing, ExitsClosed, IInv, Go, Done, AuthStep, authVars, fileVars,
        confVars, tokenVars, server
<1>1. CASE Arrive(r)
  BY <1>1 DEF Arrive
<1>2. CASE Limit(r)
  BY <1>2 DEF Limit
<1>3. CASE Check(r)
  BY <1>3 DEF Check
<1>4. CASE Handle(r)
  BY <1>4 DEF Handle
<1>5. CASE Poll(r) /\ UNCHANGED server
  BY <1>5 DEF Poll
<1>6. CASE Keep(r) /\ UNCHANGED server
  BY <1>6 DEF Keep
<1>7. CASE Stat(r) /\ UNCHANGED server
  BY <1>7 DEF Stat
<1>8. CASE Read(r) /\ UNCHANGED server
  BY <1>8 DEF Read, Parsed
<1>9. CASE Refuse(r) /\ UNCHANGED server
  BY <1>9 DEF Refuse
<1>10. CASE StartCleanup(r) /\ UNCHANGED server
  BY <1>10 DEF StartCleanup
<1>11. ASSUME NEW t \in Tokens, Issue(r, t), UNCHANGED server
       PROVE  IInv'
  BY <1>11 DEF Issue
<1> QED
  BY <1>1, <1>2, <1>3, <1>4, <1>5, <1>6, <1>7, <1>8, <1>9, <1>10, <1>11 DEF Request

\* ... those of Run and Shutdown, in serve's two goroutines, ...
LEMMA ServeStep ==
  ASSUME IInv, main # "exit", UNCHANGED setup, Serve \/ Signal \/ Cancel \/ Stop
  PROVE  IInv'
<1>1. FileTypes' /\ TokenTypes' /\ OneWriter' /\ ConfCurrent' /\ JobHasTokens'
  <2>1. UNCHANGED <<authVars, pc, setup>>
    BY DEF Serve, Stop, RunLock, Listen, Closed, RunReturn, Join, Signal, Cancel, Canceled,
           ShutdownLock, ShutdownEnd
  <2> QED
    BY <2>1 DEF IInv, FileTypes, TokenTypes, OneWriter, ConfCurrent, JobHasTokens,
                TokensWatched, authVars, fileVars, confVars, tokenVars
<1>2. ServerTypes' /\ Closing'
  <2> USE NobodyDiffers DEF IInv, ServerTypes, Closing, ExitsClosed
  <2>1. CASE RunLock
    BY <2>1 DEF RunLock
  <2>2. CASE Listen
    BY <2>2 DEF Listen
  <2>3. CASE Closed
    BY <2>3 DEF Closed
  <2>4. CASE RunReturn
    BY <2>4 DEF RunReturn
  <2>5. CASE Join
    BY <2>5 DEF Join
  <2>6. CASE Signal
    BY <2>6 DEF Signal
  <2>9. CASE Cancel
    BY <2>9 DEF Cancel
  <2>10. CASE Canceled
    BY <2>10 DEF Canceled
  <2>7. CASE ShutdownLock
    BY <2>7 DEF ShutdownLock
  <2>8. ASSUME NEW err \in BOOLEAN, ShutdownEnd(err)
        PROVE  ServerTypes' /\ Closing'
    BY <2>8 DEF ShutdownEnd, Active, CloseStore
  <2> QED  BY <2>1, <2>2, <2>3, <2>4, <2>5, <2>6, <2>7, <2>8, <2>9, <2>10 DEF Serve, Stop
<1> QED  BY <1>1, <1>2 DEF IInv

\* ... and those of the job, of time, and of whoever edits the file.
LEMMA OtherStep ==
  ASSUME IInv, UNCHANGED <<setup, server>>, Cleanup \/ Edit \/ Time
  PROVE  IInv'
<1>1. UNCHANGED pc
  BY DEF Cleanup, Edit, Time, Scan, Sweep, Release, Wake, WriteFile, RemoveFile,
         ChangePermission, PollAges, Expire
<1>2. ServerTypes' /\ Closing'
  BY <1>1 DEF IInv, ServerTypes, Closing, ExitsClosed, server
<1> DEFINE Others == FileTypes /\ TokenTypes /\ OneWriter /\ ConfCurrent /\ JobHasTokens
<1>3. Others'
  <2> USE <1>1, WritersDiffer
      DEF FileTypes, TokenTypes, OneWriter, ConfCurrent, JobHasTokens, TokensWatched, IInv,
          fileVars, confVars, tokenVars
  <2>1. CASE Scan
    BY <2>1 DEF Scan
  <2>2. CASE Sweep
    BY <2>2 DEF Sweep, KeepLock
  <2>3. CASE Release
    BY <2>3 DEF Release
  <2>4. CASE Wake
    BY <2>4 DEF Wake
  <2>5. ASSUME NEW valid \in BOOLEAN, WriteFile(valid)
        PROVE  Others'
    <3>1. Len(file') = Len(file) + 1 /\ \A i \in 1..Len(file) : file'[i] = file[i]
      BY <2>5 DEF WriteFile
    <3> QED  BY <2>5, <3>1 DEF WriteFile
  <2>6. CASE RemoveFile
    BY <2>6 DEF RemoveFile
  <2>7. CASE setup.chmod /\ ChangePermission
    BY <2>7 DEF ChangePermission
  <2>8. CASE PollAges
    BY <2>8 DEF PollAges
  <2>9. ASSUME NEW t \in Tokens, Expire(t)
        PROVE  Others'
    BY <2>9 DEF Expire
  <2> QED
    BY <2>1, <2>2, <2>3, <2>4, <2>5, <2>6, <2>7, <2>8, <2>9 DEF Cleanup, Edit, Time
<1> QED  BY <1>2, <1>3 DEF IInv

\* Every reachable state satisfies the invariant.
THEOREM Invariance == Spec => []IInv
<1>1. IInv /\ [Next \/ Exited]_vars => IInv'
  <2> SUFFICES ASSUME IInv, [Next \/ Exited]_vars
               PROVE  IInv'
    OBVIOUS
  <2>1. CASE Next
    <3>1. main # "exit" /\ UNCHANGED setup
      BY <2>1 DEF Next
    <3>2. CASE \E r \in Requests : Arrive(r) \/ Request(r)
      BY <3>1, <3>2, RequestStep
    <3>3. CASE Serve \/ Signal \/ Cancel \/ Stop
      BY <3>1, <3>3, ServeStep
    <3>4. CASE Cleanup \/ Edit \/ Time
      <4>1. UNCHANGED server
        BY <3>4 DEF Cleanup, Edit, Time
      <4> QED  BY <3>1, <3>4, <4>1, OtherStep
    <3> QED  BY <2>1, <3>2, <3>3, <3>4 DEF Next
  <2>2. CASE UNCHANGED vars
    BY <2>2
    DEF vars, authVars, fileVars, confVars, tokenVars, server, FileTypes, TokenTypes,
        ServerTypes, OneWriter, ConfCurrent, JobHasTokens, TokensWatched, Closing,
        ExitsClosed, IInv
  <2> QED  BY <2>1, <2>2 DEF Exited
<1> QED  BY <1>1, InitInvariant, PTL DEF Spec

-----------------------------------------------------------------------------
\* No handler uses a store that Shutdown has closed, whoever asks for the shutdown and
\* however it ends.
THEOREM StoreOpenInUse == Spec => []UsesOpenStore
<1>1. IInv => UsesOpenStore
  BY DEF IInv, Closing, UsesOpenStore
<1> QED  BY <1>1, Invariance, PTL

\* getConf: what is in force is the last version that was read and could be parsed,
\* through any interleaving of polling requests and edits of the file.
THEOREM ConfCorrect == Spec => []ConfFollowsFile
<1>1. IInv => ConfFollowsFile
  BY WritersDiffer DEF IInv, ConfCurrent, ConfFollowsFile
<1> QED  BY <1>1, Invariance, PTL

\* tokenOpaqueCleanup: no token is left without a job that will look at it.
THEOREM NoTokenForgotten == Spec => []TokensWatched
<1>1. IInv => TokensWatched
  BY DEF IInv, JobHasTokens
<1> QED  BY <1>1, Invariance, PTL

\* serve: what a process that was asked to stop has left behind is a closed store.
THEOREM StoreClosedAtExit == Spec => []ExitsClosed
<1>1. IInv => ExitsClosed
  BY DEF IInv, Closing
<1> QED  BY <1>1, Invariance, PTL
=============================================================================
