--------------------------- MODULE ServiceProcess ---------------------------
(***************************************************************************)
(* One Go process of the payment service from its start to its exit:       *)
(* cmd/api, cmd/outbox-publisher, cmd/risk-decision-consumer and           *)
(* cmd/decision-reconciler.  run() loads the configuration, builds its     *)
(* parts, starts an HTTP server (the API, or a worker's metrics server)    *)
(* and, in a worker, the worker loop beside it in an errgroup; SIGTERM     *)
(* cancels the context and the deferred calls close the pool.              *)
(*                                                                         *)
(* HTTP requests are in flight meanwhile.  A request's step is "idle" (not *)
(* sent), "admit" (handler entered), "body" (reading the body), "acquire"  *)
(* (waiting for a pool connection), "query" (holding one), and at the end  *)
(* "answered", "unsent" (the handler finished after WriteTimeout) or "cut" *)
(* (its TCP connection was closed first, by Close or by the exit).         *)
(*                                                                         *)
(* Time is a countdown per deadline.  A tick lets one unit pass and waits  *)
(* for those whose deadline has come: the code reacts to an expired        *)
(* context, timer or socket deadline before the next unit.                 *)
(***************************************************************************)
EXTENDS Configuration, FiniteSets

CONSTANTS
    Requests,       \* HTTP requests
    Inputs,         \* what a client may send: [route, header, valid]
    Environments,   \* per kind, the environments a process may be started in
    ReadTimeout, WriteTimeout,   \* of the http.Server
    MaxConns        \* of the pool

ASSUME ProcessAssumption ==
    /\ ReadTimeout \in Nat \ {0} /\ WriteTimeout \in Nat \ {0} /\ MaxConns \in Nat \ {0}
ASSUME EnvironmentAssumption ==
    \A k \in Kinds : \A e \in Environments[k] :
        /\ DOMAIN e = Keys
        /\ \A d \in Durations[k] : e[d] \in Int \cup {Absent, Malformed}
        /\ e["REVIEW_AUTH_CREDENTIALS_JSON"] \in {Absent, Malformed} \cup
              Seq([reviewer : RawIds, role : RawRoles, token : Tokens \cup {Malformed}])

Routes == {"healthz", "readyz", "metrics", "create", "get", "list", "resolve", "dashboard"}
ASSUME InputAssumption ==
    Inputs \subseteq [route : Routes, header : Tokens \cup {Malformed}, valid : BOOLEAN]

VARIABLES
    kind,       \* which of the four programs
    env,        \* its environment
    phase,      \* "load", "construct", "run", "closing" (pool.Close), "exited"
    code,       \* exit code
    signalled,  \* SIGTERM or SIGINT was received
    srv,        \* the HTTP server: "bind", "listening", "draining", "returned"
    drain,      \* time left for Shutdown
    forced,     \* Shutdown failed and Close closed the connections
    worker,     \* the worker loop, or the reconciler's one job
    held,       \* what Poll returned last, if no AllowRebalance followed
    failed,     \* the server or the worker returned an error
    req         \* per request, its state

process == <<kind, env, phase, code, signalled>>
server  == <<srv, drain, forced>>
loop    == <<worker, held>>
vars    == <<process, server, loop, failed, req>>

Active == {"admit", "body", "acquire", "query"}
Ended  == {"answered", "unsent", "cut"}
Workers  == {"publisher", "consumer"}
Returned == {"none", "stopped", "failed"}
Closing  == {"close", "fail"}   \* in consumer.Close, to return nil or the error

\* The setting of variable k in this process.
Setting(k) == value(env, k)

ShutdownTimeout == IF kind = "api" THEN Setting("SHUTDOWN_TIMEOUT")
                                   ELSE Setting("METRICS_SHUTDOWN_TIMEOUT")

\* The timeout of the context under which a route's handler uses the database.
\* A worker's routes and /healthz do not use it.
Timeout(route) ==
    CASE route = "readyz"              -> Setting("READINESS_TIMEOUT")
      [] route \in {"create", "get"}   -> Setting("PAYMENT_CREATE_TIMEOUT")
      [] route \in {"list", "resolve"} -> Setting("REVIEW_REQUEST_TIMEOUT")
      [] route = "dashboard"           -> Setting("DASHBOARD_REQUEST_TIMEOUT")
      [] route = "metrics"             -> Setting("METRICS_COLLECTION_TIMEOUT")
      [] OTHER                         -> 0
UsesDatabase(route) == kind = "api" /\ route # "healthz"
HasBody(route) == route \in {"create", "resolve"}

\* The roles a protected route requires of its caller.
RequiredRoles(route) ==
    CASE route \in {"list", "dashboard"} -> Roles
      [] route = "resolve"               -> {"risk_reviewer"}
      [] OTHER                           -> {}
Authorized(in) ==
    \/ RequiredRoles(in.route) = {}
    \/ LET p == Authenticate(Setting("REVIEW_AUTH_CREDENTIALS_JSON"), in.header)
       IN  p # Malformed /\ p.role \in RequiredRoles(in.route)

Timers == Nat
Request == [step : {"idle"} \cup Active \cup Ended, input : Inputs \cup {Absent},
            left : Timers, write : Timers, queries : 0..2]

TypeOK ==
    /\ kind \in Kinds /\ env \in Environments[kind]
    /\ phase \in {"load", "construct", "run", "closing", "exited"}
    /\ code \in {Absent, 0, 1} /\ signalled \in BOOLEAN
    /\ srv \in {"bind", "listening", "draining", "returned"}
    /\ drain \in Timers /\ forced \in BOOLEAN
    /\ worker \in {"idle", "attempt", "retry", "commit", "job"} \cup Closing \cup Returned
    /\ held \in {"nothing", "record", "error"}
    /\ failed \in BOOLEAN
    /\ req \in [Requests -> Request]

Init ==
    /\ kind \in Kinds /\ env \in Environments[kind]
    /\ phase = "load" /\ code = Absent /\ signalled = FALSE
    /\ srv = "bind" /\ drain = 0 /\ forced = FALSE
    /\ worker = "none" /\ held = "nothing" /\ failed = FALSE
    /\ req = [r \in Requests |-> [step |-> "idle", input |-> Absent, left |-> 0, write |-> 0, queries |-> 0]]

\* The pool connections in use.
InUse == {r \in Requests : req[r].step = "query"}
            \cup (IF worker \in {"attempt", "job"} THEN {"worker"} ELSE {})

\* Mutant: the group is not created with a context of its own.
ContextDone_SignalOnly == signalled

\* The context of the server and the worker is cancelled: by the signal and,
\* in a worker process, by errgroup when either of them returns an error.
ContextDone == signalled \/ (kind \in Workers /\ failed)

----------------------------------------------------------------------------
(* run(): start.                                                            *)

\* run() returns before anything was started.
ExitEarly == phase' = "exited" /\ code' = 1 /\ UNCHANGED <<worker, srv>>

\* config.Load and its siblings.
LoadConfig ==
    /\ phase = "load"
    /\ \/ ~Loads(kind, env) /\ ExitEarly
       \/ Loads(kind, env) /\ phase' = "construct" /\ UNCHANGED <<code, worker, srv>>
    /\ UNCHANGED <<kind, env, signalled, drain, forced, held, failed, req>>

\* The pool is created (its URL may not parse), then the parts; a client
\* library may refuse to start.  The server and the worker are launched.
Construct ==
    /\ phase = "construct"
    /\ \/ (value(env, "DATABASE_URL") = Malformed \/ ~Constructs(kind, env) \/ kind \in Workers) /\ ExitEarly
       \/ /\ value(env, "DATABASE_URL") # Malformed /\ Constructs(kind, env)
          /\ phase' = "run" /\ UNCHANGED code
          /\ worker' = CASE kind \in Workers -> "idle" [] kind = "reconciler" -> "job" [] OTHER -> "none"
          /\ srv' = IF kind = "reconciler" THEN "returned" ELSE "bind"
    /\ UNCHANGED <<kind, env, signalled, drain, forced, held, failed, req>>

\* signal.NotifyContext; the reconciler has no handler.
Signal ==
    /\ phase \in {"construct", "run"} /\ kind # "reconciler" /\ ~signalled
    /\ signalled' = TRUE
    /\ UNCHANGED <<kind, env, phase, code, server, loop, failed, req>>

----------------------------------------------------------------------------
(* server.Run and Serve.                                                    *)

Listen ==
    /\ phase = "run" /\ srv = "bind"
    /\ \/ srv' = "listening" /\ UNCHANGED failed
       \/ srv' = "returned" /\ failed' = TRUE
    /\ UNCHANGED <<process, drain, forced, loop, req>>

\* http.Server.Serve returns an error by itself: Serve returns it, without
\* Shutdown.
ServeFails ==
    /\ phase = "run" /\ srv = "listening"
    /\ srv' = "returned" /\ failed' = TRUE
    /\ UNCHANGED <<process, drain, forced, loop, req>>

BeginShutdown ==
    /\ phase = "run" /\ srv = "listening" /\ ContextDone
    /\ srv' = "draining" /\ drain' = ShutdownTimeout
    /\ UNCHANGED <<process, forced, loop, failed, req>>

\* Shutdown returns nil when no request is active.
Drained ==
    /\ srv = "draining" /\ \A r \in Requests : req[r].step \notin Active
    /\ srv' = "returned"
    /\ UNCHANGED <<process, drain, forced, loop, failed, req>>

\* Mutant: only the error of Serve is returned, which is nil after a shutdown.
DrainExpires_ErrorDropped ==
    /\ srv = "draining" /\ drain = 0
    /\ srv' = "returned" /\ forced' = TRUE
    /\ UNCHANGED <<process, drain, loop, failed, req>>

\* The shutdown context expires: Close, and the error is returned.
DrainExpires ==
    /\ srv = "draining" /\ drain = 0
    /\ srv' = "returned" /\ forced' = TRUE /\ failed' = TRUE
    /\ UNCHANGED <<process, drain, loop, req>>

----------------------------------------------------------------------------
(* The HTTP handlers.                                                       *)

Others == <<process, server, loop, failed>>

\* The handler of r returns: its answer reaches the client unless the
\* connection was closed or its write deadline has passed.
Reply(r) ==
    req' = [req EXCEPT ![r].left = 0,
                       ![r].step = IF forced THEN "cut"
                                   ELSE IF req[r].write = 0 THEN "unsent" ELSE "answered"]

\* A request's headers have been read and its handler is entered.
Accept(r, in) ==
    /\ phase = "run" /\ srv = "listening" /\ req[r].step = "idle"
    /\ kind \in Workers => in.route \in {"healthz", "metrics"}
    /\ req' = [req EXCEPT ![r] = [step |-> "admit", input |-> in, left |-> ReadTimeout,
                                  write |-> WriteTimeout,
                                  queries |-> IF in.route = "dashboard" THEN 2 ELSE 1]]
    /\ UNCHANGED Others

\* Mutant: the handler's context has no timeout of its own.
StartWork_NoTimeout(r) ==
    req' = [req EXCEPT ![r].step = "acquire", ![r].left = ReadTimeout + ShutdownTimeout + 1]

\* The handler creates its context and calls the service.
StartWork(r) ==
    req' = [req EXCEPT ![r].step = "acquire", ![r].left = Timeout(req[r].input.route)]

\* Authentication and role, then the query string or path, before any
\* database work.
Admit(r) ==
    LET in == req[r].input
    IN  /\ phase # "exited" /\ req[r].step = "admit"
        /\ \/ ~Authorized(in) /\ Reply(r)
           \/ /\ Authorized(in) /\ HasBody(in.route)
              /\ req' = [req EXCEPT ![r].step = "body"]
           \/ /\ Authorized(in) /\ ~HasBody(in.route)
              /\ IF in.valid /\ UsesDatabase(in.route) THEN StartWork(r) ELSE Reply(r)
        /\ UNCHANGED Others

\* The whole body has arrived and is decoded and validated.
BodyArrives(r) ==
    /\ phase # "exited" /\ req[r].step = "body" /\ req[r].left > 0 /\ ~forced
    /\ IF req[r].input.valid THEN StartWork(r) ELSE Reply(r)
    /\ UNCHANGED Others

\* Mutant: the http.Server has no ReadTimeout.
BodyFails_NoReadTimeout(r) ==
    /\ phase # "exited" /\ req[r].step = "body" /\ forced
    /\ Reply(r) /\ UNCHANGED Others

\* Reading fails: ReadTimeout has passed or the connection was closed.
BodyFails(r) ==
    /\ phase # "exited" /\ req[r].step = "body" /\ (req[r].left = 0 \/ forced)
    /\ Reply(r) /\ UNCHANGED Others

\* The context of r's database work has ended.  Collect uses a context of its
\* own, which a closed connection does not cancel.
Cancelled(r) == req[r].left = 0 \/ (forced /\ req[r].input.route # "metrics")

Acquire(r) ==
    /\ phase = "run" /\ req[r].step = "acquire" /\ ~Cancelled(r)
    /\ Cardinality(InUse) < MaxConns
    /\ req' = [req EXCEPT ![r].step = "query"]
    /\ UNCHANGED Others

\* No connection in time, or the pool is closed.
AcquireFails(r) ==
    /\ phase # "exited" /\ req[r].step = "acquire" /\ (Cancelled(r) \/ phase = "closing")
    /\ Reply(r) /\ UNCHANGED Others

\* The work on the connection ends, in success or with an error; Rollback or
\* Commit returned it.  The dashboard acquires another one for its second part.
QueryEnds(r) ==
    /\ phase # "exited" /\ req[r].step = "query"
    /\ \/ Reply(r)
       \/ /\ req[r].queries = 2 /\ ~Cancelled(r)
          /\ req' = [req EXCEPT ![r].step = "acquire", ![r].queries = 1]
    /\ UNCHANGED Others

----------------------------------------------------------------------------
(* The worker loops, reduced to where they block and how they return.  The  *)
(* consumer's client blocks rebalances from a poll that returned something  *)
(* until AllowRebalance, and its Close waits for that too.                  *)

WorkerUnchanged == UNCHANGED <<process, server, req>>

\* Poll returns a fetch error: the loop waits and polls again, without an
\* AllowRebalance.  (A poll that times out returned nothing.)
PollFails ==
    /\ phase = "run" /\ kind = "consumer" /\ worker = "idle"
    /\ held' = "error" /\ UNCHANGED <<worker, failed>> /\ WorkerUnchanged

\* A record was polled, an outbox event is due, or the record is tried again.
StartAttempt ==
    /\ phase = "run" /\ worker \in {"idle", "retry"} /\ ~ContextDone
    /\ worker' = "attempt" /\ held' = IF kind = "consumer" THEN "record" ELSE held
    /\ UNCHANGED failed /\ WorkerUnchanged

AttemptSucceeds ==
    /\ worker' = IF kind = "consumer" THEN "commit" ELSE "idle"
    /\ UNCHANGED held

\* Mutant: only the end of the wait allows the rebalance, not the return after
\* an attempt that the signal cancelled.
AttemptFails_NoAllowRebalance ==
    \/ ContextDone /\ kind = "consumer" /\ worker' = "close" /\ UNCHANGED held
    \/ ContextDone /\ kind # "consumer" /\ worker' = "stopped" /\ UNCHANGED held
    \/ ~ContextDone /\ worker' = (IF kind = "consumer" THEN "retry" ELSE "idle") /\ UNCHANGED held

\* The loop returns nil if the context is cancelled.  If not it waits, the
\* consumer with the record in its hands.
AttemptFails ==
    \/ ContextDone /\ kind = "consumer" /\ worker' = "close" /\ held' = "nothing"
    \/ ContextDone /\ kind # "consumer" /\ worker' = "stopped" /\ UNCHANGED held
    \/ ~ContextDone /\ worker' = (IF kind = "consumer" THEN "retry" ELSE "idle") /\ UNCHANGED held

EndAttempt ==
    /\ worker = "attempt"
    /\ AttemptSucceeds \/ AttemptFails
    /\ UNCHANGED failed /\ WorkerUnchanged

\* The consumer commits the offset and allows the rebalance; a failure of the
\* commit is returned as an error, also when the cancelled context is its cause.
CommitRecord ==
    /\ worker = "commit"
    /\ worker' \in {"idle", "fail"} /\ held' = "nothing"
    /\ UNCHANGED failed /\ WorkerUnchanged

\* Poll, wait and sleep return when the context is cancelled.  A record that
\* is polled or tried all the same fails at its first call and is let go.
WorkerStops ==
    /\ worker \in {"idle", "retry"} /\ ContextDone
    /\ IF kind = "consumer"
       THEN worker' = "close" /\ held' \in {"nothing"} \cup (IF worker = "idle" THEN {held} ELSE {})
       ELSE worker' = "stopped" /\ UNCHANGED held
    /\ UNCHANGED failed /\ WorkerUnchanged

\* The deferred consumer.Close returns, and Run with it.  The client's Close
\* leaves the group, which waits for AllowRebalance.
CloseConsumer ==
    /\ worker \in Closing /\ held = "nothing"
    /\ \/ worker = "close" /\ worker' = "stopped" /\ UNCHANGED failed
       \/ worker = "fail" /\ worker' = "failed" /\ failed' = TRUE
    /\ UNCHANGED held /\ WorkerUnchanged

\* The reconciler's query and report end, within RECONCILIATION_TIMEOUT.
EndJob ==
    /\ worker = "job"
    /\ \/ worker' = "stopped" /\ UNCHANGED failed
       \/ worker' = "failed" /\ failed' = TRUE
    /\ UNCHANGED held /\ WorkerUnchanged

----------------------------------------------------------------------------
(* run(): the end, and time.                                                *)

\* The server and the worker have returned; the deferred pool.Close begins.
ClosePool ==
    /\ phase = "run" /\ srv = "returned" /\ worker \in Returned
    /\ phase' = "closing" /\ code' = IF failed THEN 1 ELSE 0
    /\ UNCHANGED <<kind, env, signalled, server, loop, failed, req>>

\* pool.Close returns once every connection was given back; os.Exit ends the
\* handlers that still run.
Exit ==
    /\ phase = "closing" /\ InUse = {}
    /\ phase' = "exited"
    /\ req' = [r \in Requests |-> IF req[r].step \in Active THEN [req[r] EXCEPT !.step = "cut"] ELSE req[r]]
    /\ UNCHANGED <<kind, env, code, signalled, server, loop, failed>>

\* The requests that a deadline is running for.
Waiting == {r \in Requests : req[r].step \in {"body", "acquire", "query"}}
Less(t) == IF t > 0 THEN t - 1 ELSE 0

Tick ==
    /\ phase \in {"run", "closing"}
    /\ Waiting # {} \/ srv = "draining"
    /\ \A r \in Requests : req[r].step # "admit"
    /\ \A r \in Waiting : req[r].left > 0
    /\ srv = "draining" => drain > 0
    /\ drain' = Less(drain)
    /\ req' = [r \in Requests |-> IF r \in Waiting
                                  THEN [req[r] EXCEPT !.left = Less(@), !.write = Less(@)] ELSE req[r]]
    /\ UNCHANGED <<process, srv, forced, loop, failed>>

HandlerStep(r) ==
    Admit(r) \/ BodyArrives(r) \/ BodyFails(r) \/ Acquire(r) \/ AcquireFails(r) \/ QueryEnds(r)

MainStep ==
    LoadConfig \/ Construct \/ Listen \/ BeginShutdown \/ Drained \/ DrainExpires \/ ClosePool \/ Exit

WorkerStep == EndAttempt \/ CommitRecord \/ WorkerStops \/ CloseConsumer \/ EndJob

Next ==
    \/ MainStep \/ Signal \/ ServeFails \/ Tick
    \/ \E r \in Requests, in \in Inputs : Accept(r, in)
    \/ \E r \in Requests : HandlerStep(r)
    \/ PollFails \/ StartAttempt \/ WorkerStep

Spec == Init /\ [][Next]_vars

\* The scheduler runs every goroutine, timers fire, and a database or broker
\* call returns at the latest when its context expires.  Bodies may never
\* arrive and queries may take as long as their context lasts.
Fairness ==
    /\ WF_vars(MainStep) /\ WF_vars(WorkerStep) /\ WF_vars(Tick)
    /\ \A r \in Requests :
          /\ WF_vars(Admit(r) \/ BodyFails(r) \/ AcquireFails(r))
          /\ WF_vars(QueryEnds(r) /\ Cancelled(r))

FairSpec == Spec /\ Fairness

----------------------------------------------------------------------------
(* A process that loaded its configuration is never refused by one of its   *)
(* own constructors: the checks of internal/config cover those of           *)
(* NewReconciler, NewTokenAuthenticator, NewPostgresStore, NewWorker and    *)
(* NewKafkaConsumer.                                                        *)
ConstructorsAccept == phase = "construct" => Constructs(kind, env)

(* A token of the running API names exactly the reviewer it was issued to,  *)
(* whose id no other credential carries: the audit trail cannot be signed   *)
(* by somebody else (NewTokenAuthenticator and Authenticate).               *)
TokensIdentify ==
    kind = "api" /\ phase = "run" =>
        LET c == Setting("REVIEW_AUTH_CREDENTIALS_JSON")
        IN  \A i \in DOMAIN c :
              /\ Authenticate(c, c[i].token) = Principal(c[i])
              /\ \A j \in DOMAIN c : Principal(c[j]).reviewer = Principal(c[i]).reviewer => i = j

(* Exit code 0 after a signal means a complete stop: no request was cut,    *)
(* the worker returned without error, and the code is 0 only after a signal *)
(* (or when the reconciler finished its report).                            *)
CleanExitComplete ==
    phase = "exited" /\ code = 0 =>
        /\ signalled \/ kind = "reconciler"
        /\ worker # "failed" /\ ~forced
        /\ \A r \in Requests : req[r].step \in {"idle", "answered", "unsent"}

(* The longest a request may last: its body, then its database work.        *)
Allowance(in) ==
    (IF HasBody(in.route) THEN ReadTimeout ELSE 0)
    + (IF UsesDatabase(in.route) THEN Timeout(in.route) ELSE 0)

(* An answer is lost only for the reasons the timeouts explain: a request   *)
(* is cut in a shutdown only if it may last as long as SHUTDOWN_TIMEOUT, or *)
(* when Serve failed, and misses its write deadline only if it may last as  *)
(* long as WriteTimeout (server.go).                                        *)
LostAnswersExplained ==
    \A r \in Requests :
        LET a == Allowance(req[r].input)
        IN  /\ req[r].step = "cut" => IF forced THEN a >= ShutdownTimeout ELSE failed
            /\ req[r].step = "unsent" => a >= WriteTimeout

(* A worker process never survives its worker: the loop stops working only  *)
(* when the context it shares with the metrics server is cancelled (or to   *)
(* return the error that cancels it).                                       *)
NeverHalfAlive ==
    kind \in Workers /\ phase = "run" /\ worker \in Returned \cup {"close"} => ContextDone

(* The consumer is in consumer.Close (Worker.Run), and its last poll        *)
(* returned a fetch error, after which nobody called AllowRebalance.        *)
CloseHangs == worker = "close" /\ held = "error"

(* SIGTERM ends the process, whatever its requests and its worker are       *)
(* doing; and when its server or its worker fails, the process exits so     *)
(* that its supervisor can restart it (run and Serve).  The one exception   *)
(* is CloseHangs: a consumer that holds a record always lets go of it       *)
(* before Close, one whose last poll failed does not.                       *)
StopLeadsToExit ==
    signalled \/ (phase = "run" /\ failed) ~> phase = "exited" \/ CloseHangs

(* Every request that was accepted comes to an end.                         *)
EveryRequestEnds == \A r \in Requests : req[r].step \in Active ~> req[r].step \in Ended
=============================================================================
