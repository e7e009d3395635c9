------------------------------- MODULE Server -------------------------------
(***************************************************************************)
(* The life of the server and of its requests: olareg.go (Run, Shutdown,   *)
(* ServeHTTP) as "olareg serve" uses it (cmd/olareg/serve.go), with the    *)
(* access control of Auth. net/http's server is external: it accepts       *)
(* requests while it listens, and its Shutdown ends that and waits for the *)
(* running ones, or for the end of its context.                            *)
(***************************************************************************)
EXTENDS Auth

CONSTANTS
  Setups   \* each with rateLimit, basic, token: which of these are configured;
           \* versions, the bound on the file's; chmod, whether its permissions change;
           \* stops, by what serve is told to stop

ASSUME SetupsType ==
  Setups \subseteq [rateLimit : BOOLEAN, basic : BOOLEAN, token : BOOLEAN,
                    versions : Nat, chmod : BOOLEAN, stops : SUBSET {"signal", "cancel"}]

ASSUME NobodyDiffers == None # "shutdown"

VARIABLES
  setup,       \* how the server is configured, and what happens to it; it stays
  mu,          \* who holds s.mu between two steps: "shutdown" or None
  httpServer,  \* whether s.httpServer is set
  net,         \* what net/http makes of it: "new", "listening", "failed" or "closed"
  store,       \* whether s.store is there, and open
  ctx,         \* whether the context of serve is canceled
  main,        \* where the goroutine of serve is that calls Run
  notifier     \* where the one is that waits for a signal; "clean" once it is done

server == <<mu, httpServer, net, store, ctx, main, notifier>>
vars   == <<authVars, pc, setup, server>>

Init ==
  /\ setup \in Setups
  /\ AuthInit
  /\ setup.versions = 0 => file = <<TRUE>> /\ disk = "there"
  /\ pc = [r \in Requests |-> "idle"]
  /\ mu = None /\ httpServer = FALSE /\ net = "new" /\ store = TRUE
  /\ ctx = FALSE /\ main = "run" /\ notifier = "wait"

-----------------------------------------------------------------------------
(* Run, called by serve *)

RunLock ==
  /\ main = "run" /\ mu = None
  /\ httpServer' = TRUE /\ main' = "listen"
  /\ UNCHANGED <<authVars, pc, mu, net, store, ctx, notifier>>

\* Shutdown may have come first.
Listen ==
  /\ main = "listen"
  /\ IF net = "closed"
     THEN main' = "stopped" /\ UNCHANGED net
     ELSE \/ net' = "listening" /\ main' = "accept"
          \/ net' = "failed" /\ main' = "stopped"
  /\ UNCHANGED <<authVars, pc, mu, httpServer, store, ctx, notifier>>

Closed ==
  /\ main = "accept" /\ net = "closed"
  /\ main' = "stopped"
  /\ UNCHANGED <<authVars, pc, mu, httpServer, net, store, ctx, notifier>>

\* Run returns with the lock, an error if the listener failed: then serve returns, and
\* with it the process ends.
RunReturn ==
  /\ main = "stopped" /\ mu = None
  /\ IF net = "closed"
     THEN main' = "join" /\ UNCHANGED ctx
     ELSE main' = "exit" /\ ctx' = TRUE
  /\ UNCHANGED <<authVars, pc, mu, httpServer, net, store, notifier>>

Join ==
  /\ main = "join" /\ notifier = "clean"
  /\ main' = "exit"
  /\ UNCHANGED <<authVars, pc, mu, httpServer, net, store, ctx, notifier>>

-----------------------------------------------------------------------------
(* Shutdown, called by serve's other goroutine *)

Signal ==
  /\ notifier = "wait" /\ "signal" \in setup.stops
  /\ notifier' = "shutdown"
  /\ UNCHANGED <<authVars, pc, mu, httpServer, net, store, ctx, main>>

\* The caller's context ends: this too makes it call Shutdown, with that context.
Cancel ==
  /\ ~ctx /\ "cancel" \in setup.stops
  /\ ctx' = TRUE
  /\ UNCHANGED <<authVars, pc, mu, httpServer, net, store, main, notifier>>

Canceled ==
  /\ notifier = "wait" /\ ctx
  /\ notifier' = "shutdown"
  /\ UNCHANGED <<authVars, pc, mu, httpServer, net, store, ctx, main>>

\* Shutdown keeps s.mu while it waits.
ShutdownLock ==
  /\ notifier = "shutdown" /\ mu = None
  /\ IF httpServer
     THEN /\ mu' = "shutdown" /\ notifier' = "drain"
          /\ net' = IF net = "failed" THEN net ELSE "closed"
          /\ UNCHANGED ctx
     ELSE notifier' = "clean" /\ ctx' = TRUE /\ UNCHANGED <<mu, net>>
  /\ UNCHANGED <<authVars, pc, httpServer, store, main>>

Active == {r \in Requests : pc[r] # "idle"}

\* Mutants: the error is not looked at; the test of the error is reversed.
CloseAnyway(err) == TRUE
CloseOnError(err) == err
\* The store is closed only after the last request.
CloseStore(err) == ~err

ShutdownEnd(err) ==
  /\ notifier = "drain"
  /\ IF err THEN ctx /\ Active # {} ELSE Active = {}
  /\ httpServer' = FALSE /\ mu' = None
  /\ store' = (store /\ ~CloseStore(err))
  /\ ctx' = TRUE /\ notifier' = "clean"
  /\ UNCHANGED <<authVars, pc, net, main>>

-----------------------------------------------------------------------------
(* ServeHTTP *)

AuthStep == IF setup.basic \/ setup.token THEN "poll" ELSE "serve"

\* A request that finds no store is answered at once.
Arrive(r) ==
  /\ pc[r] = "idle" /\ net = "listening" /\ store
  /\ Go(r, IF setup.rateLimit THEN "limit" ELSE AuthStep)
  /\ UNCHANGED <<authVars, server>>

\* The counters are under s.mu. Which requests are too many is left open.
Limit(r) ==
  /\ pc[r] = "limit" /\ mu = None
  /\ Go(r, AuthStep) \/ Done(r)
  /\ UNCHANGED <<authVars, server>>

\* A request has its conf: it is refused, gets a token if it asks for one, or goes on;
\* looking for its own token takes the read lock.
Check(r) ==
  /\ pc[r] = "check" /\ (setup.token => writer = None)
  /\ \/ Done(r)
     \/ setup.token /\ Go(r, "issue")
     \/ Go(r, "serve")
  /\ UNCHANGED <<authVars, server>>

\* The handler, which uses the store.
Handle(r) ==
  /\ pc[r] = "serve"
  /\ Done(r)
  /\ UNCHANGED <<authVars, server>>

Request(r) ==
  \/ Limit(r) \/ Check(r) \/ Handle(r)
  \/ /\ Poll(r) \/ Keep(r) \/ Stat(r) \/ Read(r) \/ Refuse(r) \/ StartCleanup(r)
        \/ \E t \in Tokens : Issue(r, t)
     /\ UNCHANGED server

Serve == RunLock \/ Listen \/ Closed \/ RunReturn \/ Join
Stop  == Canceled \/ ShutdownLock \/ \E err \in BOOLEAN : ShutdownEnd(err)
Cleanup == (Scan \/ Sweep \/ Release \/ Wake) /\ UNCHANGED server

Edit ==
  /\ \/ Len(file) < setup.versions /\ \E valid \in BOOLEAN : WriteFile(valid)
     \/ setup.versions > 0 /\ RemoveFile
     \/ setup.chmod /\ ChangePermission
  /\ UNCHANGED server

Time == (PollAges \/ \E t \in Tokens : Expire(t)) /\ UNCHANGED server

\* The end of serve is the end of the process.
Next ==
  /\ main # "exit"
  /\ UNCHANGED setup
  /\ \/ \E r \in Requests : Arrive(r) \/ Request(r)
     \/ Serve \/ Signal \/ Cancel \/ Stop \/ Cleanup \/ Edit \/ Time

Exited == main = "exit" /\ UNCHANGED vars

Step(A) == A /\ main # "exit" /\ UNCHANGED setup

Fairness ==
  /\ \A r \in Requests : SF_vars(Step(Request(r)))
  /\ SF_vars(Step(Serve)) /\ SF_vars(Step(Stop)) /\ SF_vars(Step(Cleanup))

Spec == Init /\ [][Next \/ Exited]_vars /\ Fairness

-----------------------------------------------------------------------------
(* Properties *)

\* Whoever asks for the shutdown, and whether or not it waits for all requests: none
\* of them uses a store that was closed.
UsesOpenStore == \A r \in Requests : pc[r] = "serve" => store

\* What is in force is always the last version that could be parsed of those that were
\* read: never a broken one, and the newest as soon as its time of modification was
\* seen, unless the file could not be opened although it was there.
ConfFollowsFile ==
  /\ conf > 0 => file[conf]
  /\ (disk = "there" /\ mod = Len(file) /\ file[mod] /\ writer = None /\ ~setup.chmod)
       => conf = mod

\* There are tokens only while the job is running or a request is about to start it: a
\* job never ends just after a request has relied on it.
TokensWatched ==
  opaque # {} =>
    cleaner.pc \in {"scan", "delete", "sleep"} \/ \E r \in Requests : pc[r] = "cleanup"

\* Every token is removed some time after it has expired.
TokensRemoved ==
  \A t \in Tokens : t \in expired ~> (t \notin opaque \/ main = "exit")

\* serve does not return before the store was closed, unless the listener failed or its
\* context was canceled.
ExitsClosed ==
  main = "exit" /\ "cancel" \notin setup.stops => ~store \/ net = "failed"

\* A signal that comes once the server has been started ends the process, and not
\* before the store was closed, unless the listener fails or the context ends first;
\* for a server that limits the rate of requests it does not hold.
StopsGracefully ==
  (notifier = "shutdown" /\ httpServer /\ ~setup.rateLimit /\ "cancel" \notin setup.stops)
    ~> (main = "exit" /\ (store => net = "failed"))

-----------------------------------------------------------------------------
(* What comments promise and the code does not keep; no run checks these. *)

\* A Shutdown of a server that runs comes to its end (olareg.go:131 "Shutdown is used to
\* stop the http listener and close the backend store").
ShutdownEnds ==
  (notifier = "shutdown" /\ httpServer /\ "cancel" \notin setup.stops) ~> main = "exit"

\* A signal ends the process, whenever it comes (serve.go:178 "include signal handler to
\* gracefully shutdown").
SignalEnds == notifier = "shutdown" ~> main = "exit"
=============================================================================
