------------------------------ MODULE Process ------------------------------
(***************************************************************************)
(* cmd/server, cmd/worker and cmd/migrator: a process from its environment *)
(* to its exit.  run loads the configuration, opens the dependencies, does *)
(* its work, and on every way out flushes the spans and closes what it has *)
(* opened; its deferred calls are the steps "flush" and "close".  Units of *)
(* work are the requests of the server and the messages of the worker.     *)
(***************************************************************************)
EXTENDS Config

CONSTANTS
  Units,           \* requests, or messages, of one behaviour
  NumMigrations    \* migrations the schema lacks

ASSUME ProcessAssumption == NumMigrations \in Nat

Dependencies(b) ==
  CASE b = "server" -> <<"repo", "storage", "broker">>
    [] b = "worker" -> <<"repo", "storage", "broker", "consumer">>
    [] b = "migrator" -> <<"repo">>

VARIABLES
  binary,      \* which of the three it is
  env,         \* its environment, until it is used
  unfit,       \* the variables, with their values, it went on with though they cannot be used
  pc,          \* where run is
  k,           \* the dependency setup opens, or close closes
  open,        \* the dependencies that are open
  signal,      \* SIGTERM has come: the context of NotifyContext is cancelled
  cancelled,   \* run itself has cancelled the worker's runCtx
  listener,    \* the goroutine of ListenAndServe, of the API or of the metrics
  consume,     \* the goroutine of Consume, and what it has returned
  reconciler,  \* the goroutine of the reconciler
  work,        \* each unit; holding: its handler has a database connection
  severed,     \* requests whose connection srv.Close has closed
  elapsed,     \* the time limit of the drain is over
  applied,     \* migrations applied
  why          \* why run returns

conf == <<binary, env, unfit>>
routines == <<listener, consume, reconciler>>
stops == <<signal, cancelled, elapsed>>
vars == <<conf, pc, k, open, stops, routines, work, severed, applied, why>>

Dependency(i) == Dependencies(binary)[i]
Count == Len(Dependencies(binary))
Names == {Dependency(i) : i \in 1..Count}

TypeOK ==
  /\ binary \in Binaries
  /\ DOMAIN env = Variables /\ unfit \subseteq Variables \X Classes
  /\ pc \in {"load", "connect", "verify", "tracing", "start", "serve", "await", "drain",
             "join", "migrate", "flush", "close", "exited"}
  /\ k \in 0..5 /\ open \subseteq Names
  /\ signal \in BOOLEAN /\ cancelled \in BOOLEAN /\ elapsed \in BOOLEAN
  /\ listener \in {"off", "starting", "on", "failed", "closed"}
  /\ consume \in {"off", "on", "stopping", "broken", "nil", "error"}
  /\ reconciler \in {"off", "idle", "pass", "ended"}
  /\ work \in [Units -> {"none", "running", "holding", "done", "cut"}]
  /\ severed \subseteq Units /\ applied \in 0..NumMigrations
  /\ why \in {"none", "config", "setup", "tracing", "router", "listener", "consume",
              "migration", "close", "clean", "timeout"}
  /\ pc \in {"start", "serve", "await", "drain", "join", "migrate"} => open = Names

\* The environments a process may find: at most one variable is not as usual.
Environments == UNION {{[Usual EXCEPT ![v] = x] : x \in Values(v)} : v \in Variables}

Init ==
  /\ binary \in Binaries /\ env \in Environments /\ unfit = {}
  /\ pc = "load" /\ k = 1 /\ open = {}
  /\ signal = FALSE /\ cancelled = FALSE /\ elapsed = FALSE
  /\ listener = "off" /\ consume = "off" /\ reconciler = "off"
  /\ work = [u \in Units |-> "none"] /\ severed = {} /\ applied = 0 /\ why = "none"

Active == {u \in Units : work[u] \in {"running", "holding"}}

\* The worker's runCtx is done.
Done == signal \/ cancelled
-----------------------------------------------------------------------------
\* A signal comes at any time after NotifyContext.
Signal ==
  /\ ~signal /\ pc \notin {"load", "exited"} /\ signal' = TRUE
  /\ UNCHANGED <<conf, pc, k, open, cancelled, elapsed, routines, work, severed, applied, why>>

\* LoadServer, LoadWorker, LoadMigrator: without a configuration nothing is opened.
load ==
  /\ pc = "load"
  /\ IF Accepts(binary, env) THEN pc' = "connect" /\ UNCHANGED why
     ELSE pc' = "exited" /\ why' = "config"
  /\ UNCHANGED <<conf, k, open, stops, routines, work, severed, applied>>

\* postgres.New keeps the size of the pool in 32 bits.
Sizable == binary # "migrator" => env["DB_MAX_CONNS"] # "wide"

\* Only the broker is dialled when it is opened; a cancelled context stops the dial.
dial == Dependency(k) = "broker" => ~signal

\* pgxpool.NewWithConfig or sql.Open, minio.New, amqp.DialConfig, conn.Consumer.
Connect ==
  /\ pc = "connect"
  /\ Sizable
  /\ dial
  /\ pc' = "verify" /\ open' = open \cup {Dependency(k)}
  /\ unfit' = unfit \cup
       {<<v, env[v]>> : v \in {u \in Uses(binary) : ~Usable(binary, u, env[u])}}
  /\ env' = Usual
  /\ UNCHANGED <<binary, k, stops, routines, work, severed, applied, why>>

\* Ping and checkBucket take the context of run, declare does not.
Pinged == Dependency(k) \in {"repo", "storage"} => ~signal

\* The dependency answers: Ping, checkBucket, declare.
Verify ==
  /\ pc = "verify"
  /\ Pinged
  /\ k' = k + 1
  /\ pc' = IF k < Count THEN "connect" ELSE IF binary = "migrator" THEN "migrate" ELSE "tracing"
  /\ UNCHANGED <<conf, open, stops, routines, work, severed, applied, why>>

\* Mutant: what was opened before stays open.
Abandoned_Earlier == open \ {Dependency(k)}

\* A constructor that fails closes what it opened, and setup closes the earlier ones.
Abandoned == (open \ {Dependency(k)}) \ {Dependency(i) : i \in 1..k - 1}

\* setup fails, or the migrator's first call: nothing is deferred yet, or only the close.
SetupFails ==
  /\ pc \in {"connect", "verify"}
  /\ pc' = "exited" /\ why' = "setup" /\ open' = Abandoned
  /\ UNCHANGED <<conf, k, stops, routines, work, severed, applied>>

\* The first that close closes: the consumer goes with the connection of the broker.
Last == IF binary = "migrator" THEN 1 ELSE 3

\* observability.Setup
Tracing ==
  /\ pc = "tracing"
  /\ \/ pc' = "start" /\ UNCHANGED <<k, why>>
     \/ pc' = "close" /\ k' = Last /\ why' = "tracing"
  /\ UNCHANGED <<conf, open, stops, routines, work, severed, applied>>

\* The server: deps.router, then ListenAndServe in a goroutine.
router ==
  /\ pc = "start" /\ binary = "server"
  /\ \/ pc' = "serve" /\ listener' = "starting" /\ UNCHANGED why
     \/ pc' = "flush" /\ why' = "router" /\ UNCHANGED listener
  /\ UNCHANGED <<conf, k, open, stops, consume, reconciler, work, severed, applied>>

\* The worker: the reconciler, the listener of the metrics and Consume, a goroutine each.
Launch ==
  /\ pc = "start" /\ binary = "worker"
  /\ pc' = "serve"
  /\ listener' = "starting" /\ consume' = "on" /\ reconciler' = "idle"
  /\ UNCHANGED <<conf, k, open, stops, work, severed, applied, why>>
-----------------------------------------------------------------------------
\* run still waits for what its listener may report.
Listening == pc = "serve" \/ (binary = "worker" /\ pc \in {"await", "drain", "join"})

\* The goroutine binds the address, or cannot; after Shutdown it gives up at once.
Listen ==
  /\ listener = "starting"
  /\ listener' \in IF Listening THEN {"on", "failed"} ELSE {"closed"}
  /\ UNCHANGED <<conf, pc, k, open, stops, consume, reconciler, work, severed, applied, why>>

\* The listening socket breaks.
Break ==
  /\ listener = "on" /\ pc # "exited" /\ listener' = "failed"
  /\ UNCHANGED <<conf, pc, k, open, stops, consume, reconciler, work, severed, applied, why>>

\* A request comes, or the pump hands a delivery on: it may do so once more after the
\* context is done, select being free to choose.
Accept(u) ==
  /\ pc # "exited" /\ work[u] = "none"
  /\ IF binary = "server" THEN listener = "on" ELSE consume = "on" /\ "broker" \in open
  /\ work' = [work EXCEPT ![u] = "running"]
  /\ UNCHANGED <<conf, pc, k, open, stops, routines, severed, applied, why>>

\* A handler takes a connection of the pool and gives it back; a closed pool has none.
Query(u) ==
  /\ pc # "exited"
  /\ \/ /\ work[u] = "running" /\ "repo" \in open /\ ~(pc = "close" /\ k = 1)
        /\ work' = [work EXCEPT ![u] = "holding"]
     \/ /\ work[u] = "holding"
        /\ work' = [work EXCEPT ![u] = "running"]
  /\ UNCHANGED <<conf, pc, k, open, stops, routines, severed, applied, why>>

Finish(u) ==
  /\ pc # "exited" /\ work[u] = "running"
  /\ work' = [work EXCEPT ![u] = "done"]
  /\ UNCHANGED <<conf, pc, k, open, stops, routines, severed, applied, why>>

\* pump returns: the context is done, or the channel or the connection is lost.
pump ==
  /\ consume = "on" /\ pc # "exited"
  /\ \/ Done /\ consume' = "stopping"
     \/ consume' = "broken"
  /\ UNCHANGED <<conf, pc, k, open, stops, listener, reconciler, work, severed, applied, why>>

\* wg.Wait of Consume, and Shutdown of the server, wait for what is in work.
Idle == Active = {}

Consume ==
  /\ consume \in {"stopping", "broken"} /\ pc # "exited" /\ Idle
  /\ consume' = IF consume = "stopping" THEN "nil" ELSE "error"
  /\ UNCHANGED <<conf, pc, k, open, stops, listener, reconciler, work, severed, applied, why>>

\* Run of the reconciler: a tick and its pass, or the end.
Run ==
  /\ pc # "exited"
  /\ \/ reconciler = "idle" /\ reconciler' = "pass"
     \/ reconciler = "pass" /\ reconciler' = "idle"
     \/ reconciler = "idle" /\ Done /\ reconciler' = "ended"
  /\ UNCHANGED <<conf, pc, k, open, stops, listener, consume, work, severed, applied, why>>
-----------------------------------------------------------------------------
\* select of the server, case srvErr: run returns without draining.
ListenFails ==
  /\ pc = "serve" /\ binary = "server" /\ listener = "failed"
  /\ pc' = "flush" /\ why' = "listener"
  /\ UNCHANGED <<conf, k, open, stops, routines, work, severed, applied>>

\* select of the worker, case metricsErr: run waits for Consume, for as long as it takes.
MetricsFail ==
  /\ pc = "serve" /\ binary = "worker" /\ listener = "failed"
  /\ pc' = "await" /\ why' = "listener" /\ cancelled' = TRUE
  /\ UNCHANGED <<conf, k, open, signal, elapsed, routines, work, severed, applied>>

\* select, case ctx.Done: Shutdown of the server closes the listener and waits; the
\* worker waits for Consume.
Shutdown ==
  /\ pc = "serve" /\ signal
  /\ pc' = "drain"
  /\ listener' = IF binary = "server" /\ listener = "on" THEN "closed" ELSE listener
  /\ UNCHANGED <<conf, k, open, stops, consume, reconciler, work, severed, applied, why>>

\* HTTP_SHUTDOWN_TIMEOUT or WORKER_SHUTDOWN_TIMEOUT is over.
Elapse ==
  /\ pc = "drain" /\ ~elapsed /\ elapsed' = TRUE
  /\ UNCHANGED <<conf, pc, k, open, signal, cancelled, routines, work, severed, applied, why>>

Drained ==
  /\ pc = "drain" /\ binary = "server" /\ Idle
  /\ pc' = "flush" /\ why' = "clean"
  /\ UNCHANGED <<conf, k, open, stops, routines, work, severed, applied>>

\* consumeErr, in any of the three selects: the first reason stands.
Consumed ==
  /\ pc \in {"serve", "await", "drain"} /\ consume \in {"nil", "error"}
  /\ pc' = "join" /\ cancelled' = TRUE
  /\ why' = IF why # "none" THEN why ELSE IF consume = "nil" THEN "clean" ELSE "consume"
  /\ UNCHANGED <<conf, k, open, signal, elapsed, routines, work, severed, applied>>

\* Mutants: the context of the signal limits the drain; nothing does.
Expired_Signal == signal
Expired_Never == FALSE

\* The drain has a limit of its own.
Expired == elapsed

\* Mutant: to give up is not an error.
GivenUp_Clean == "clean"

\* What run returns when the drain has not ended in time.
GivenUp == "timeout"

\* The drain is given up: srv.Close closes the connections, the handlers run on.
GiveUp ==
  /\ pc = "drain" /\ Expired
  /\ why' = GivenUp
  /\ \/ /\ binary = "server" /\ Active # {}
        /\ severed' = Active /\ pc' = "flush" /\ UNCHANGED cancelled
     \/ /\ binary = "worker"
        /\ pc' = "join" /\ cancelled' = TRUE /\ UNCHANGED severed
  /\ UNCHANGED <<conf, k, open, signal, elapsed, routines, work, applied>>

\* wg.Wait of run.
Joined == reconciler = "ended"

\* The reconciler has ended; Shutdown of the metrics, within metricsShutdownTimeout.
Join ==
  /\ pc = "join" /\ Joined
  /\ pc' = "flush" /\ listener' = IF listener = "on" THEN "closed" ELSE listener
  /\ UNCHANGED <<conf, k, open, stops, consume, reconciler, work, severed, applied, why>>

\* migrate.Up: one migration after another, each as a whole; the context stops it.
Up ==
  /\ pc = "migrate"
  /\ \/ applied < NumMigrations /\ ~signal /\ applied' = applied + 1 /\ UNCHANGED <<pc, why>>
     \/ pc' = "close" /\ why' = "migration" /\ UNCHANGED applied
     \/ applied = NumMigrations /\ pc' = "close" /\ why' = "clean" /\ UNCHANGED applied
  /\ k' = Last
  /\ UNCHANGED <<conf, open, stops, routines, work, severed>>

\* The spans are flushed, within otelShutdownTimeout.
Flush ==
  /\ pc = "flush" /\ pc' = "close" /\ k' = Last
  /\ UNCHANGED <<conf, open, stops, routines, work, severed, applied, why>>

\* Closing the pool waits for the connections that are out.
Returned == Dependency(k) = "repo" => \A u \in Units : work[u] # "holding"

\* deps.close: the broker with its consumer, the storage, the repository.  Only the
\* migrator returns the error of a close.
close ==
  /\ pc = "close" /\ k > 0 /\ Returned
  /\ open' = open \ (IF k = Last THEN {Dependency(i) : i \in k..Count} ELSE {Dependency(k)})
  /\ k' = k - 1
  /\ why' \in {why} \cup (IF binary = "migrator" /\ why = "clean" THEN {"close"} ELSE {})
  /\ UNCHANGED <<conf, pc, stops, routines, work, severed, applied>>

\* main returns: whatever still runs is cut off.
Exit ==
  /\ pc = "close" /\ k = 0 /\ pc' = "exited"
  /\ work' = [u \in Units |-> IF u \in Active THEN "cut" ELSE work[u]]
  /\ UNCHANGED <<conf, k, open, stops, routines, severed, applied, why>>

Next ==
  \/ Signal \/ load \/ Connect \/ Verify \/ SetupFails \/ Tracing \/ router \/ Launch
  \/ Listen \/ Break \/ pump \/ Consume \/ Run \/ ListenFails \/ MetricsFail \/ Shutdown
  \/ Elapse \/ Drained \/ Consumed \/ GiveUp \/ Join \/ Up \/ Flush \/ close \/ Exit
  \/ \E u \in Units : Accept(u) \/ Query(u) \/ Finish(u)

Spec == Init /\ [][Next]_vars

\* run goes on, its limits come, and a query ends within QueryTimeout.  A request need
\* not end (it may wait for a slow client), nor need one come, or a signal; a message
\* ends, within WORKER_PROCESS_TIMEOUT, and so does a pass, whose context is done.
FairSpec ==
  /\ Spec
  /\ WF_vars(load) /\ WF_vars(Connect) /\ WF_vars(Verify) /\ WF_vars(SetupFails)
  /\ WF_vars(Tracing) /\ WF_vars(router) /\ WF_vars(Launch) /\ WF_vars(Shutdown)
  /\ WF_vars(ListenFails) /\ WF_vars(MetricsFail) /\ WF_vars(Elapse) /\ WF_vars(Drained)
  /\ WF_vars(Consumed) /\ WF_vars(GiveUp) /\ WF_vars(Join) /\ WF_vars(Up) /\ WF_vars(Flush)
  /\ WF_vars(close) /\ WF_vars(Exit) /\ WF_vars(pump /\ Done) /\ WF_vars(Consume)
  /\ WF_vars(reconciler = "pass" /\ Run) /\ SF_vars(Run /\ reconciler' = "ended")
  /\ \A u \in Units : /\ WF_vars(work[u] = "holding" /\ Query(u))
                      /\ SF_vars(binary = "worker" /\ Finish(u))
-----------------------------------------------------------------------------
\* No process goes on with a value that cannot be used (a limit that is not a number, a
\* ticker of zero, a pool too large), but for four numbers no check bounds from above, each
\* where it overflows; and none refuses an environment without an unusable value.
StartsUsable ==
  /\ unfit \subseteq Overflows(binary) \X {"wide"}
  /\ why = "config" => \E v \in Variables : ~Usable(binary, v, env[v])

\* What somebody waits for is spared: it runs on open dependencies up to its last query,
\* and is not cut off, by srv.Close or by the exit, before the time of the drain is over,
\* though the signal has cancelled the context of run long before.  The exception is a
\* server whose listener fails.  A pass of the reconciler never outlives the dependencies.
WorkSpared ==
  /\ open # Names /\ Active \ severed # {} =>
       why = (IF binary = "server" THEN "listener" ELSE "timeout")
  /\ severed # {} \/ (\E u \in Units : work[u] = "cut") =>
       elapsed \/ (binary = "server" /\ why = "listener")
  /\ open # Names => reconciler # "pass"

\* The types, and on no way out is the process left with an open dependency: not when
\* the second of three cannot be opened, nor when handlers outlast the drain.
LeavesInOrder ==
  /\ TypeOK
  /\ pc = "exited" => open = {}

\* Whoever starts a process can trust its exit code: 0 means that nothing was cut off,
\* that no goroutine of the worker was left behind, and that the schema is up to date.
ExitZeroMeansDone ==
  pc = "exited" /\ why = "clean" =>
    /\ \A u \in Units : work[u] \in {"none", "done"}
    /\ consume \in {"off", "nil"} /\ reconciler \in {"off", "ended"}
    /\ binary = "migrator" => applied = NumMigrations

\* After a signal the process ends, though the requests of a server never end, and though
\* a worker without metrics hears no signal: the limits of the drain, of a message and of
\* a query see to it.
Stops == signal ~> pc = "exited"
-----------------------------------------------------------------------------
(* The inductive invariant behind the safety properties: what is open, what run *)
(* may return and what may still run, by where run is.                          *)

\* The first n dependencies of a binary.
First(b, n) == {Dependencies(b)[i] : i \in 1..n}

OpenSound ==
  /\ pc = "load" => k = 1 /\ open = {}
  /\ pc = "connect" => k \in 1..Count /\ open = First(binary, k - 1)
  /\ pc = "verify" => k \in 1..Count /\ open = First(binary, k)
  /\ pc \in {"tracing", "start", "serve", "await", "drain", "join", "migrate", "flush"} => open = Names
  /\ pc = "close" => k \in 0..Last /\ open = IF k = Last THEN Names ELSE First(binary, k)
  /\ pc = "exited" => open = {}

\* Until run returns it has no reason to; each reason has its cause.
PhaseSound ==
  /\ pc = "migrate" => binary = "migrator"
  /\ pc \in {"tracing", "start", "serve", "drain", "flush"} => binary # "migrator"
  /\ pc \in {"await", "join"} => binary = "worker"
  /\ pc \in {"load", "connect", "verify", "tracing", "start", "serve", "drain", "migrate"} => why = "none"
  /\ why = "config" => pc = "exited"
  /\ why = "timeout" => elapsed
  /\ why = "clean" /\ binary = "migrator" => applied = NumMigrations

\* Goroutines live only in the phases that wait for them, or are left when time is up.
RoutinesSound ==
  /\ binary # "worker" => consume = "off" /\ reconciler = "off"
  /\ pc \in {"load", "connect", "verify", "tracing", "start", "migrate"} =>
       listener = "off" /\ consume = "off" /\ reconciler = "off"
  /\ binary = "server" /\ pc # "serve" => listener # "on"
  /\ reconciler \in {"idle", "pass"} => pc \in {"serve", "await", "drain", "join"}
  /\ consume \in {"on", "stopping", "broken"} => pc \in {"serve", "await", "drain"} \/ why = "timeout"
  /\ why = "clean" /\ binary = "worker" => consume = "nil"

\* Nothing works for a part that is off; work is cut off for a reason that allows it.
WorkSound ==
  /\ binary # "server" /\ consume \in {"off", "nil", "error"} => Active = {}
  /\ binary = "server" /\ listener = "off" => Active = {}
  /\ binary = "server" /\ pc \in {"flush", "close"} => Active \subseteq severed \/ why = "listener"
  /\ why = "clean" \/ pc = "exited" => Active = {}
  /\ severed # {} => why = "timeout"
  /\ \A u \in Units : work[u] = "cut" => why = "timeout" \/ (binary = "server" /\ why = "listener")

\* The environment does not change, and what connects has accepted it.
ConfigSound ==
  /\ \A v \in Variables : env[v] \in Values(v)
  /\ pc \in {"connect", "verify"} => Accepts(binary, env)

IInv ==
  /\ TypeOK /\ OpenSound /\ PhaseSound /\ RoutinesSound /\ WorkSound /\ ConfigSound
  /\ StartsUsable
=============================================================================
